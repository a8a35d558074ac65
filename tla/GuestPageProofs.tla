---------------------------- MODULE GuestPageProofs ----------------------------
(***************************************************************************)
(* What holds of the guest's page for any number of viewers, whatever the  *)
(* bounds on retries, drops and queues.                                    *)
(***************************************************************************)
EXTENDS GuestPage, SequenceTheorems, TLAPS

Frames ==
    [t : {"roster"}, me : Entries] \cup [t : {"offer"}, from : Viewers, own : BOOLEAN]
    \cup [t : {"terminate"}, final : BOOLEAN]

PageStates ==
    [phase : Phases, left : BOOLEAN, leaving : BOOLEAN, terminated : BOOLEAN, gone : BOOLEAN,
     netBlocked : BOOLEAN, camera : BOOLEAN, asking : {"none", "check", "switch"},
     capture : BOOLEAN, picker : BOOLEAN, reconcile : BOOLEAN,
     session : {"none", "connecting", "live", "waiting"}, failed : 0..MaxFailedOpens,
     everConnected : BOOLEAN, timer : BOOLEAN, blocked : BOOLEAN,
     pcs : 0..MaxPeers, viewers : SUBSET Viewers, raced : SUBSET Viewers, seen : Entries]

Stages == {"none", "opening", "opened", "seeding", "joined", "closing"}
SockStates == [stage : Stages, up : Seq({"screen-start", "screen-stop"}), down : Seq(Frames)]

RoomStates ==
    [ghost : BOOLEAN, row : BOOLEAN, canScreen : BOOLEAN, locked : BOOLEAN,
     pooled : BOOLEAN, selected : BOOLEAN, barred : BOOLEAN]

\* A session and its socket come and go together.
SocketOfSession ==
    /\ page.session \in {"none", "waiting"} <=> sock.stage = "none"
    /\ page.session = "connecting" <=> sock.stage = "opening"
    /\ page.session # "live" => page.pcs = 0 /\ page.viewers = {}
    /\ sock.stage \in {"none", "opening", "opened"} => sock.down = <<>>

GuestTyped ==
    /\ page \in PageStates /\ sock \in SockStates /\ room \in RoomStates
    /\ Len(sock.up) <= MaxQueue /\ Len(sock.down) <= MaxQueue
    /\ drops \in 0..MaxDrops

\* Whoever is asked for a device is looking at the device check; a session belongs to a
\* guest that entered, and none is left when the guest is.
Surroundings ==
    /\ page.asking # "none" =>
          /\ page.phase \in {"requesting", "preview"} /\ page.session = "none"
          /\ ~page.left /\ ~page.terminated
    /\ page.session # "none" => page.phase = "entered"
    /\ page.left \/ page.terminated => page.phase = "entered" /\ page.session = "none"
    /\ page.left => ~page.terminated
    /\ page.gone => page.session = "none"

DevicesInv == GuestTyped /\ SocketOfSession /\ Surroundings /\ DevicesReleased

\* The page takes its share to be live once it has read the first i frames of q.
Shows(q, i, share) ==
    \/ share = "live" /\ \A k \in 1..i : q[k].t # "roster"
    \/ \E j \in 1..i : /\ q[j].t = "roster" /\ q[j].me.share = "live"
                       /\ \A k \in (j + 1)..i : q[k].t # "roster"

\* An offer of anybody but the host finds a page that takes its share to be live, unless
\* it went through because its sender had the live slot.
OffersOfLive ==
    \A i \in 1..Len(sock.down) :
       sock.down[i].t = "offer" /\ sock.down[i].from # Host /\ ~sock.down[i].own =>
          Shows(sock.down, i - 1, page.seen.share)

\* What the last roster says of the share is what the room has, while it tells the
\* page everything.
ToldOfShare ==
    sock.stage \in {"seeding", "joined"} =>
       /\ ~room.ghost
       /\ Shows(sock.down, Len(sock.down), page.seen.share) <=> room.selected

NoViewersOfNothing == ~page.capture => page.viewers = {}

BackstageInv ==
    /\ DevicesInv /\ NoViewersOfNothing
    /\ OffersOfLive /\ ToldOfShare /\ BackstageForHostOnly

-----------------------------------------------------------------------------
(* The handlers of the page *)

LEMMA Nothing == 0 \in 0..MaxPeers /\ {} \in SUBSET Viewers
BY GuestPageAssumption

LEMMA TerminalTyped ==
    ASSUME NEW p \in PageStates
    PROVE  /\ Terminal(p) \in PageStates
           /\ Terminal(p).session = "none" /\ Terminal(p).viewers = {} /\ Terminal(p).pcs = 0
BY ZenonT(60), Nothing DEF Terminal, StopCapture, CloseSession, Teardown, PageStates

LEMMA RetriedTyped ==
    ASSUME NEW p \in PageStates, NEW opened \in BOOLEAN
    PROVE  /\ Retried(p, opened) \in PageStates
           /\ Retried(p, opened).session \in {"none", "waiting"}
           /\ Retried(p, opened).viewers = {} /\ Retried(p, opened).pcs = 0
<1> DEFINE failed == IF opened THEN p.failed ELSE p.failed + 1
<1>1. CASE ~opened /\ failed >= MaxFailedOpens
  BY <1>1, TerminalTyped DEF Retried
<1>2. CASE ~(~opened /\ failed >= MaxFailedOpens)
  <2>1. failed \in 0..MaxFailedOpens
    BY <1>2, GuestPageAssumption DEF PageStates
  <2>2. Retried(p, opened) = [Teardown(p) EXCEPT !.session = "waiting", !.failed = failed]
    BY <1>2 DEF Retried
  <2>3. /\ Teardown(p) \in PageStates /\ Teardown(p).viewers = {} /\ Teardown(p).pcs = 0
    BY Nothing DEF Teardown, PageStates
  <2> HIDE DEF failed
  <2> QED BY ZenonT(60), <2>1, <2>2, <2>3 DEF PageStates
<1> QED BY <1>1, <1>2

LEMMA ReconciledTyped ==
    ASSUME NEW p \in PageStates
    PROVE  /\ Reconciled(p) \in PageStates
           /\ Reconciled(p).seen = p.seen /\ Reconciled(p).session = p.session
           /\ Reconciled(p).pcs = p.pcs
           /\ Reconciled(p).viewers \subseteq p.viewers
           /\ Reconciled(p).capture => p.capture
           /\ ~Reconciled(p).capture => Reconciled(p).viewers = {} \/ ~p.capture
<1>1. CASE Cleared(p) /\ p.seen.locked
  BY <1>1 DEF Reconciled, StopCapture, PageStates
<1>2. CASE ~(Cleared(p) /\ p.seen.locked)
  <2>1. (Cleared(p) /\ ~CanStartShare(p)) \in BOOLEAN
    BY DEF Cleared, CanStartShare
  <2> QED BY <1>2, <2>1 DEF Reconciled, PageStates
<1> QED BY <1>1, <1>2

\* What a roster never changes of a page.
SameGuest(q, p) ==
    /\ q.phase = p.phase /\ q.left = p.left /\ q.terminated = p.terminated /\ q.gone = p.gone
    /\ q.asking = p.asking /\ q.session = p.session

LEMMA RosteredSame ==
    ASSUME NEW p \in PageStates, NEW me \in Entries
    PROVE  SameGuest(Rostered(p, me), p)
<1> DEFINE told == [p EXCEPT !.seen = me, !.raced = {}]
           q == Reconciled(told)
<1>1. told \in PageStates /\ SameGuest(told, p)
  BY Nothing DEF PageStates, SameGuest
<1>2. q \in PageStates /\ SameGuest(q, told)
  <2> HIDE DEF told
  <2>1. q \in PageStates
    BY <1>1, ReconciledTyped
  <2>2. CASE Cleared(told) /\ told.seen.locked
    BY ZenonT(60), <1>1, <2>2 DEF Reconciled, StopCapture, PageStates, SameGuest
  <2>3. CASE ~(Cleared(told) /\ told.seen.locked)
    BY <1>1, <2>3 DEF Reconciled, PageStates, SameGuest
  <2> QED BY <2>1, <2>2, <2>3
<1>3. SameGuest(Pruned(q), q)
  <2> HIDE DEF q
  <2> QED BY <1>2 DEF Pruned, PageStates, SameGuest
<1> QED BY <1>1, <1>2, <1>3 DEF Rostered, SameGuest

LEMMA RosteredTyped ==
    ASSUME NEW p \in PageStates, NEW me \in Entries
    PROVE  /\ Rostered(p, me) \in PageStates
           /\ Rostered(p, me).seen = me /\ Rostered(p, me).session = p.session
           /\ Rostered(p, me).pcs = p.pcs
           /\ Rostered(p, me).viewers \subseteq p.viewers
           /\ Rostered(p, me).capture => p.capture
           /\ ~Rostered(p, me).capture => Rostered(p, me).viewers = {} \/ ~p.capture
           /\ Rostered(p, me).capture /\ me.share # "live" => Rostered(p, me).viewers \subseteq {Host}
<1> DEFINE told == [p EXCEPT !.seen = me, !.raced = {}]
           q == Reconciled(told)
<1>1. /\ told \in PageStates /\ told.seen = me /\ told.session = p.session /\ told.pcs = p.pcs
      /\ told.viewers = p.viewers /\ told.capture = p.capture
  BY Nothing DEF PageStates
<1>2. /\ q \in PageStates /\ q.seen = me /\ q.session = p.session /\ q.pcs = p.pcs
      /\ q.viewers \subseteq p.viewers
      /\ q.capture => p.capture
      /\ ~q.capture => q.viewers = {} \/ ~p.capture
  <2> HIDE DEF told
  <2> QED BY <1>1, ReconciledTyped
<1>3. Rostered(p, me) = Pruned(q)
  BY DEF Rostered
<1> HIDE DEF q
<1>4. CASE q.capture /\ me.share # "live"
  <2>1. Rostered(p, me) = [q EXCEPT !.viewers = q.viewers \cap {Host}]
    BY <1>2, <1>3, <1>4 DEF Pruned
  <2>2. Rostered(p, me) \in PageStates
    BY <1>2, <2>1 DEF PageStates
  <2> QED BY <1>2, <1>4, <2>1, <2>2 DEF PageStates
<1>5. CASE ~(q.capture /\ me.share # "live")
  BY <1>2, <1>3, <1>5 DEF Pruned
<1> QED BY <1>4, <1>5

-----------------------------------------------------------------------------
(* The frames *)

LEMMA SendTyped ==
    ASSUME NEW s \in SockStates, NEW f \in {"screen-start", "screen-stop"}
    PROVE  /\ Send(s, f) \in SockStates
           /\ Send(s, f).stage = s.stage /\ Send(s, f).down = s.down
BY DEF Send, SockStates

LEMMA PushTyped ==
    ASSUME NEW s \in SockStates, NEW f \in Frames
    PROVE  /\ Push(s, f) \in SockStates
           /\ Push(s, f).stage = s.stage /\ Push(s, f).up = s.up
           /\ Push(s, f).down = IF s.stage \in {"seeding", "joined"} THEN Append(s.down, f) ELSE s.down
BY SMTT(30) DEF Push, SockStates

LEMMA TakenTyped ==
    ASSUME sock \in SockStates, sock.down # <<>>
    PROVE  /\ Taken \in SockStates /\ Taken.stage = sock.stage /\ Taken.up = sock.up
           /\ Taken.down = Tail(sock.down) /\ Len(Taken.down) = Len(sock.down) - 1
           /\ Head(sock.down) \in Frames
BY DEF Taken, SockStates

LEMMA EntryTyped ==
    ASSUME NEW r \in RoomStates
    PROVE  /\ Entry(r) \in Entries /\ RosterFrame(Entry(r)) \in Frames
           /\ Entry(r).share = "live" <=> r.selected
BY DEF Entry, Entries, ShareState, Shares, RoomStates, RosterFrame, Frames

LEMMA PulledTyped ==
    ASSUME NEW r \in RoomStates
    PROVE  Pulled(r) \in RoomStates /\ ~Pulled(r).selected /\ Pulled(r).ghost = r.ghost
BY DEF Pulled, RoomStates

LEMMA ClosedTyped ==
    /\ Closed \in SockStates /\ Closed.stage = "none" /\ Closed.down = <<>> /\ Closed.up = <<>>
    /\ [Closed EXCEPT !.stage = "opening"] \in SockStates
    /\ [Closed EXCEPT !.stage = "opening"].stage = "opening"
    /\ [Closed EXCEPT !.stage = "opening"].down = <<>>
    /\ [Closed EXCEPT !.stage = "opening"].up = <<>>
<1>1. <<>> \in Seq({"screen-start", "screen-stop"}) /\ <<>> \in Seq(Frames)
  OBVIOUS
<1> QED BY <1>1 DEF Closed, SockStates, Stages
-----------------------------------------------------------------------------
(* Types *)

\* The steps of Next, one by one.
LEMMA GuestCases ==
    ASSUME [Next]_vars
    PROVE  \/ UNCHANGED vars
           \/ StartCheck \/ Granted \/ Denied \/ SwitchDevice \/ Enter \/ Entered \/ EnterFailed
           \/ Opened \/ OpenFails \/ Drop \/ Backoff \/ Leave \/ LeaveSettles \/ Rejoin
           \/ RetryNetwork \/ Unmount
           \/ WatchFires \/ PeerTries \/ PeerGone \/ PeerConnects
           \/ OpenPicker \/ Pick \/ CancelPick \/ StopSharing \/ ReconcileFires
           \/ ReadRoster \/ ReadOffer \/ ReadTerminate
           \/ ServerNext
BY DEF Next, DeviceNext, SessionNext, WatchNext, ShareNext, FrameNext

LostTyped == \A s \in SockStates : Lost(s) \in RoomStates

LEMMA RoomLost == room \in RoomStates => LostTyped
BY DEF LostTyped, Lost, RoomStates

LEMMA FrameTypes ==
    \A f \in Frames : /\ f.t = "roster" => f.me \in Entries
                      /\ f.t = "offer" => f.from \in Viewers /\ f.own \in BOOLEAN
                      /\ f.t = "terminate" => f.final \in BOOLEAN
BY DEF Frames

LEMMA Appended ==
    ASSUME NEW s \in SockStates, NEW f \in Frames
    PROVE  Append(s.down, f) \in Seq(Frames) /\ Len(Append(s.down, f)) = Len(s.down) + 1
BY DEF SockStates

LEMMA StageNames == /\ {"none", "opening", "opened", "seeding", "joined", "closing"} \subseteq Stages
                    /\ \A s \in SockStates : s.stage \in Stages /\ s.down \in Seq(Frames)
                                             /\ Len(s.down) \in Nat /\ Len(s.up) \in Nat
BY DEF Stages, SockStates

\* The page is left alone, and the socket moves along.
Onward ==
    /\ page' = page /\ sock' \in SockStates /\ room' \in RoomStates
    /\ Len(sock'.up) <= MaxQueue /\ Len(sock'.down) <= MaxQueue
    /\ drops' \in 0..MaxDrops
    /\ \/ sock' = sock
       \/ /\ sock.stage \notin {"none", "opening"}
          /\ sock'.stage \notin {"none", "opening", "opened"}

LEMMA OfferTyped ==
    ASSUME NEW v \in Viewers, NEW own \in BOOLEAN
    PROVE  /\ OfferFrame(v, own) \in Frames /\ OfferFrame(v, own).t = "offer"
           /\ OfferFrame(v, own).from = v /\ OfferFrame(v, own).own = own
BY DEF OfferFrame, Frames

LEMMA ServerMoves ==
    ASSUME GuestTyped, ServerNext
    PROVE  Onward
<1>0. /\ page \in PageStates /\ sock \in SockStates /\ room \in RoomStates
      /\ Len(sock.up) <= MaxQueue /\ Len(sock.down) <= MaxQueue
      /\ drops \in 0..MaxDrops /\ MaxQueue \in Nat \ {0} /\ MaxDrops \in Nat
  BY GuestPageAssumption DEF GuestTyped
<1> USE <1>0
<1>1. CASE Join
  <2>1. room' = [room EXCEPT !.ghost = FALSE, !.canScreen = FALSE] /\ room' \in RoomStates
    BY <1>1 DEF Join, RoomStates
  <2>2. RosterFrame(Entry(room')) \in Frames
    BY <2>1, EntryTyped
  <2>3. <<RosterFrame(Entry(room'))>> \in Seq(Frames) /\ Len(<<RosterFrame(Entry(room'))>>) = 1
    BY <2>2
  <2>4. sock' = [sock EXCEPT !.stage = "seeding", !.down = <<RosterFrame(Entry(room'))>>]
        /\ page' = page /\ drops' = drops /\ sock.stage = "opened"
    BY <1>1 DEF Join
  <2>5. /\ sock' \in SockStates /\ sock'.stage = "seeding" /\ sock'.up = sock.up
        /\ sock'.down = <<RosterFrame(Entry(room'))>>
    BY <2>3, <2>4 DEF SockStates, Stages
  <2> QED BY <2>1, <2>3, <2>4, <2>5 DEF Onward
<1>2. CASE Seed
  <2> DEFINE r == [room EXCEPT !.canScreen = TRUE]
  <2>1. r \in RoomStates /\ RosterFrame(Entry(r)) \in Frames
    <3>1. r \in RoomStates
      BY DEF RoomStates
    <3> QED BY <3>1, EntryTyped
  <2>2. page' = page /\ drops' = drops /\ sock.stage = "seeding"
    BY <1>2 DEF Seed
  <2>3. CASE room.row /\ ~room.canScreen
    <3>1. /\ CanPush(1) /\ room' = r
          /\ sock' = [sock EXCEPT !.stage = "joined", !.down = Append(@, RosterFrame(Entry(r)))]
      BY <1>2, <2>3 DEF Seed
    <3> HIDE DEF r
    <3>2. /\ Append(sock.down, RosterFrame(Entry(r))) \in Seq(Frames)
          /\ Len(Append(sock.down, RosterFrame(Entry(r)))) = Len(sock.down) + 1
      BY <2>1, Appended
    <3>3. /\ sock' \in SockStates /\ sock'.stage = "joined" /\ sock'.up = sock.up
          /\ sock'.down = Append(sock.down, RosterFrame(Entry(r)))
      BY <3>1, <3>2 DEF SockStates, Stages
    <3> QED BY <2>1, <2>2, <3>1, <3>2, <3>3 DEF CanPush, Onward
  <2>4. CASE ~(room.row /\ ~room.canScreen)
    BY <1>2, <2>2, <2>4 DEF Seed, SockStates, Stages, Onward
  <2> QED BY <2>3, <2>4
<1>3. CASE GhostLeaves
  BY <1>3 DEF GhostLeaves, Pulled, RoomStates, Onward
<1>4. CASE Revoke
  BY <1>4 DEF Revoke, Pulled, RoomStates, Onward
<1>5. CASE ReadUp
  <2> DEFINE s == [sock EXCEPT !.up = Tail(@)]
             r == CASE Head(sock.up) = "screen-start" /\ Admits(room)
                          -> [room EXCEPT !.pooled = TRUE]
                    [] Head(sock.up) = "screen-stop" -> Pulled(room)
                    [] OTHER -> room
  <2>1. /\ s \in SockStates /\ s.stage = sock.stage /\ s.down = sock.down
        /\ Len(s.up) <= MaxQueue
    <3>1. Tail(sock.up) \in Seq({"screen-start", "screen-stop"}) /\ Len(Tail(sock.up)) <= Len(sock.up)
      BY <1>5 DEF ReadUp, SockStates
    <3> QED BY SMTT(30), <3>1, StageNames DEF SockStates
  <2>2. r \in RoomStates
    BY PulledTyped DEF RoomStates
  <2>3. RosterFrame(Entry(r)) \in Frames
    BY <2>2, EntryTyped
  <2>4. /\ page' = page /\ drops' = drops /\ sock.stage = "joined"
        /\ \/ sock' = s /\ room' = room
           \/ CanPush(1) /\ room' = r /\ sock' = Push(s, RosterFrame(Entry(r)))
    BY <1>5 DEF ReadUp
  <2> HIDE DEF s, r
  <2>5. CASE sock' = s /\ room' = room
    BY <2>1, <2>4, <2>5 DEF Onward
  <2>6. CASE CanPush(1) /\ room' = r /\ sock' = Push(s, RosterFrame(Entry(r)))
    <3>1. /\ sock' \in SockStates /\ sock'.stage = "joined" /\ sock'.up = s.up
          /\ sock'.down = Append(sock.down, RosterFrame(Entry(r)))
      BY <2>1, <2>3, <2>4, <2>6, PushTyped
    <3>2. Len(Append(sock.down, RosterFrame(Entry(r)))) = Len(sock.down) + 1
      BY <2>3, Appended
    <3> QED BY <2>1, <2>2, <2>4, <2>6, <3>1, <3>2 DEF CanPush, Onward
  <2> QED BY <2>4, <2>5, <2>6
<1>6. ASSUME NEW r \in RoomStates, Announce(r)
      PROVE  /\ sock' \in SockStates /\ room' \in RoomStates /\ sock'.stage = sock.stage
             /\ Len(sock'.up) <= MaxQueue /\ Len(sock'.down) <= MaxQueue
             /\ sock' = sock \/ sock.stage \in {"seeding", "joined"}
  <2>1. RosterFrame(Entry(r)) \in Frames
    BY EntryTyped
  <2>2. CanPush(1) /\ room' = r /\ sock' = Push(sock, RosterFrame(Entry(r)))
    BY <1>6 DEF Announce
  <2>3. sock.stage \notin {"seeding", "joined"} => sock' = sock
    BY <2>2 DEF Push
  <2> QED BY <2>1, <2>2, <2>3, PushTyped, Appended, StageNames DEF CanPush
<1>7. ASSUME NEW r \in RoomStates, Announce(r), page' = page, drops' = drops
      PROVE  Onward
  BY <1>6, <1>7 DEF Onward
<1>8. CASE ForceNoShare
  <2>1. [Pulled(room) EXCEPT !.locked = TRUE] \in RoomStates
    BY DEF Pulled, RoomStates
  <2> QED BY <1>7, <1>8, <2>1 DEF ForceNoShare
<1>9. CASE ReleaseShare
  <2>1. [room EXCEPT !.locked = FALSE] \in RoomStates
    BY DEF RoomStates
  <2> QED BY <1>7, <1>9, <2>1 DEF ReleaseShare
<1>10. ASSUME NEW can \in BOOLEAN, SetCanScreen(can)
       PROVE  Onward
  <2>1. /\ [room EXCEPT !.row = TRUE, !.canScreen = TRUE, !.locked = FALSE] \in RoomStates
        /\ [Pulled(room) EXCEPT !.row = FALSE, !.canScreen = FALSE, !.locked = TRUE] \in RoomStates
        /\ [room EXCEPT !.row = can] \in RoomStates
    BY DEF Pulled, RoomStates
  <2>2. CASE Member
    BY <1>7, <1>10, <2>1, <2>2 DEF SetCanScreen
  <2>3. CASE ~Member
    BY <1>10, <2>1, <2>3 DEF SetCanScreen, Onward
  <2> QED BY <2>2, <2>3
<1>11. ASSUME NEW on \in BOOLEAN, Select(on)
       PROVE  Onward
  <2>1. [room EXCEPT !.selected = on] \in RoomStates
    BY DEF RoomStates
  <2> QED BY <1>7, <1>11, <2>1 DEF Select
<1>12. ASSUME NEW v \in Viewers, NEW own \in BOOLEAN, Watch(v, own)
       PROVE  Onward
  <2>1. OfferFrame(v, own) \in Frames
    BY OfferTyped
  <2>2. /\ sock.stage \in {"seeding", "joined"} /\ CanPush(1)
        /\ sock' = Push(sock, OfferFrame(v, own))
        /\ page' = page /\ room' = room /\ drops' = drops
    BY <1>12 DEF Watch
  <2> QED BY <2>1, <2>2, PushTyped, Appended, StageNames DEF CanPush, Onward
<1>13. ASSUME NEW final \in BOOLEAN, Terminate(final)
       PROVE  Onward
  <2>1. TerminateFrame(final) \in Frames
    BY DEF TerminateFrame, Frames
  <2>2. room' \in RoomStates /\ drops' \in 0..MaxDrops
    <3>1. /\ room' = [Pulled(room) EXCEPT !.barred = @ \/ final, !.canScreen = FALSE]
          /\ final \/ drops < MaxDrops
          /\ drops' = IF final THEN drops ELSE drops + 1
      BY <1>13 DEF Terminate
    <3>2. Pulled(room) \in RoomStates /\ (Pulled(room).barred \/ final) \in BOOLEAN
      BY PulledTyped
    <3>3. room' \in RoomStates
      BY <3>1, <3>2 DEF RoomStates
    <3> QED BY <3>1, <3>3
  <2>3. /\ sock' = [sock EXCEPT !.stage = "closing", !.down = Append(@, TerminateFrame(final))]
        /\ CanPush(1) /\ page' = page /\ sock.stage = "joined"
    BY <1>13 DEF Terminate
  <2>4. /\ Append(sock.down, TerminateFrame(final)) \in Seq(Frames)
        /\ Len(Append(sock.down, TerminateFrame(final))) = Len(sock.down) + 1
    BY <2>1, Appended
  <2>5. /\ sock' \in SockStates /\ sock'.stage = "closing" /\ sock'.up = sock.up
        /\ sock'.down = Append(sock.down, TerminateFrame(final))
    BY <2>3, <2>4 DEF SockStates, Stages
  <2> QED BY <2>2, <2>3, <2>4, <2>5 DEF CanPush, Onward
<1> QED BY <1>1, <1>2, <1>3, <1>4, <1>5, <1>8, <1>9, <1>10, <1>11, <1>12, <1>13
        DEF ServerNext

-----------------------------------------------------------------------------
(* Devices *)

PageMoves ==
    \/ StartCheck \/ Granted \/ Denied \/ SwitchDevice \/ Enter \/ LeaveSettles \/ Rejoin
    \/ PeerTries \/ PeerGone \/ PeerConnects
    \/ OpenPicker \/ CancelPick \/ ReconcileFires

\* Steps of the page alone.
LEMMA PageMovesKeep ==
    ASSUME DevicesInv, PageMoves
    PROVE  /\ DevicesInv' /\ sock' = sock /\ room' = room
           /\ page'.seen = page.seen
           /\ \/ /\ page'.viewers = page.viewers /\ page'.raced = page.raced
                 /\ page'.capture = page.capture
              \/ page'.viewers = {} /\ (page'.capture => page.capture)
<1> USE DEF DevicesInv, GuestTyped, SocketOfSession, Surroundings, DevicesReleased
<1>1. CASE StartCheck
  BY <1>1 DEF StartCheck, AtPhase, Idle, Requesting, PageStates, Phases
<1>2. CASE Granted
  BY ZenonT(60), <1>2 DEF Granted, Idle, Installed, PageStates, Phases
<1>3. CASE Denied
  BY <1>3 DEF Denied, Idle, PageStates, Phases
<1>4. CASE SwitchDevice
  BY <1>4 DEF SwitchDevice, AtPhase, Idle, PageStates, Phases
<1>5. CASE Enter
  BY <1>5 DEF Enter, AtPhase, Idle, PageStates, Phases
<1>6. CASE LeaveSettles
  BY <1>6 DEF LeaveSettles, PageStates
<1>7. CASE Rejoin
  BY <1>7 DEF Rejoin, Idle, Requesting, PageStates, Phases
<1>8. CASE PeerTries \/ PeerGone \/ PeerConnects
  <2>1. page.pcs \in 0..MaxPeers /\ MaxPeers \in Nat
    BY GuestPageAssumption DEF PageStates
  <2>2. CASE PeerTries
    <3>1. (page.timer \/ ~page.everConnected) \in BOOLEAN /\ page.pcs + 1 \in 0..MaxPeers
      BY <2>1, <2>2 DEF PeerTries, PageStates
    <3> QED BY <2>2, <3>1 DEF PeerTries, SessionLive, PageStates
  <2>3. CASE PeerGone
    <3>1. page.pcs - 1 \in 0..MaxPeers
      BY <2>1, <2>3 DEF PeerGone
    <3> QED BY <2>3, <3>1 DEF PeerGone, Untracked, PageStates
  <2>4. CASE PeerConnects
    <3>1. (page.netBlocked /\ ~page.blocked) \in BOOLEAN
      BY DEF PageStates
    <3> QED BY ZenonT(60), <2>4, <3>1 DEF PeerConnects, PageStates
  <2> QED BY <1>8, <2>2, <2>3, <2>4
<1>9. CASE OpenPicker
  BY <1>9 DEF OpenPicker, PageStates
<1>10. CASE CancelPick
  BY <1>10 DEF CancelPick, PageStates
<1>11. CASE ReconcileFires
  BY ZenonT(60), <1>11 DEF ReconcileFires, StopCapture, PageStates
<1> QED BY <1>1, <1>2, <1>3, <1>4, <1>5, <1>6, <1>7, <1>8, <1>9, <1>10, <1>11 DEF PageMoves

\* Steps that leave the page without a socket, or with a new one.
SocketMoves ==
    Entered \/ EnterFailed \/ Opened \/ OpenFails \/ Drop \/ Backoff \/ Leave
    \/ RetryNetwork \/ Unmount \/ ReadTerminate

LEMMA RetriedKeeps ==
    ASSUME NEW p \in PageStates, NEW opened \in BOOLEAN, NEW q, q = Retried(p, opened)
    PROVE  /\ q.phase = p.phase /\ q.left = p.left /\ q.gone = p.gone /\ q.asking = p.asking
           /\ q.seen = p.seen
           /\ \/ q.terminated /\ q.session = "none" /\ ~q.camera /\ ~q.capture
              \/ /\ q.terminated = p.terminated /\ q.session = "waiting"
                 /\ q.camera = p.camera /\ q.capture = p.capture
<1> DEFINE failed == IF opened THEN p.failed ELSE p.failed + 1
<1>1. CASE ~opened /\ failed >= MaxFailedOpens
  BY <1>1 DEF Retried, Terminal, StopCapture, CloseSession, Teardown, PageStates
<1>2. CASE ~(~opened /\ failed >= MaxFailedOpens)
  BY <1>2 DEF Retried, Teardown, PageStates
<1> QED BY <1>1, <1>2

LEMMA SocketMovesKeep ==
    ASSUME DevicesInv, SocketMoves
    PROVE  /\ DevicesInv' /\ sock'.down = <<>> /\ page'.viewers = {}
           /\ sock'.stage \notin {"seeding", "joined"}
<1>0. /\ page \in PageStates /\ sock \in SockStates /\ room \in RoomStates
      /\ MaxQueue \in Nat \ {0} /\ MaxDrops \in Nat /\ drops \in 0..MaxDrops
      /\ \A s \in SockStates : Lost(s) \in RoomStates
  BY GuestPageAssumption, RoomLost DEF DevicesInv, GuestTyped, LostTyped
<1> USE <1>0 DEF DevicesInv, GuestTyped, SocketOfSession, Surroundings, DevicesReleased
<1>1. ASSUME /\ page' \in PageStates /\ room' \in RoomStates /\ drops' \in 0..MaxDrops
             /\ sock' = Closed /\ page'.session \in {"none", "waiting"}
             /\ page'.viewers = {} /\ page'.pcs = 0
             /\ Surroundings' /\ DevicesReleased'
      PROVE  /\ DevicesInv' /\ sock'.down = <<>> /\ page'.viewers = {}
             /\ sock'.stage \notin {"seeding", "joined"}
  BY <1>1, ClosedTyped
<1>2. ASSUME /\ page' \in PageStates /\ room' \in RoomStates /\ drops' \in 0..MaxDrops
             /\ sock' = [Closed EXCEPT !.stage = "opening"] /\ page'.session = "connecting"
             /\ page'.viewers = {} /\ page'.pcs = 0
             /\ Surroundings' /\ DevicesReleased'
      PROVE  /\ DevicesInv' /\ sock'.down = <<>> /\ page'.viewers = {}
             /\ sock'.stage \notin {"seeding", "joined"}
  BY <1>2, ClosedTyped
<1>13. ASSUME NEW opened \in BOOLEAN, page' = Retried(page, opened), page.session # "none"
       PROVE  Surroundings' /\ DevicesReleased'
  <2>1. /\ page.phase = "entered" /\ ~page.left /\ ~page.terminated /\ ~page.gone
        /\ page.asking = "none"
    BY <1>13
  <2>2. /\ page'.phase = page.phase /\ page'.left = page.left /\ page'.gone = page.gone
        /\ page'.asking = page.asking
        /\ \/ page'.terminated /\ page'.session = "none" /\ ~page'.camera /\ ~page'.capture
           \/ page'.terminated = page.terminated /\ page'.session = "waiting"
    BY <1>13, RetriedKeeps
  <2> QED BY <2>1, <2>2
<1>3. CASE Entered
  <2>1. CASE page.gone
    <3>1. /\ page' = [page EXCEPT !.camera = FALSE, !.phase = "error"]
          /\ sock' = sock /\ room' = room /\ drops' = drops /\ page.phase = "entering"
      BY <1>3, <2>1 DEF Entered
    <3>2. page' \in PageStates
      BY <3>1 DEF PageStates, Phases
    <3>3. Surroundings' /\ DevicesReleased'
      BY <3>1, <3>2 DEF PageStates
    <3> QED BY <3>1, <3>2, <3>3 DEF PageStates
  <2>2. CASE ~page.gone
    <3>1. /\ page' = Published(page) /\ sock' = [Closed EXCEPT !.stage = "opening"]
          /\ room' = room /\ drops' = drops /\ page.phase = "entering"
      BY <1>3, <2>2 DEF Entered
    <3>2. /\ page' \in PageStates /\ page'.session = "connecting"
          /\ page'.viewers = {} /\ page'.pcs = 0
      <4>1. 0 \in 0..MaxFailedOpens
        BY GuestPageAssumption
      <4> QED BY <3>1, <4>1 DEF Published, Connecting, Teardown, PageStates, Phases
    <3>3. Surroundings' /\ DevicesReleased'
      BY <2>2, <3>1 DEF Published, Connecting, Teardown, PageStates
    <3> QED BY <1>2, <3>1, <3>2, <3>3
  <2> QED BY <2>1, <2>2
<1>4. CASE EnterFailed
  BY <1>4 DEF EnterFailed, PageStates, Phases
<1>5. CASE Opened
  <2>1. /\ page' = [page EXCEPT !.session = "live", !.failed = 0] /\ sock.stage = "opening"
        /\ sock' = [sock EXCEPT !.stage = "opened"] /\ room' = room /\ drops' = drops
    BY <1>5 DEF Opened
  <2>2. page' \in PageStates /\ page'.session = "live" /\ page'.viewers = page.viewers
    <3>1. 0 \in 0..MaxFailedOpens
      BY GuestPageAssumption
    <3> QED BY <2>1, <3>1 DEF PageStates
  <2>3. /\ sock' \in SockStates /\ sock'.stage = "opened" /\ sock'.down = <<>>
        /\ sock'.up = sock.up
    BY <2>1 DEF SockStates, Stages
  <2>4. Surroundings' /\ DevicesReleased' /\ page.viewers = {}
    BY <2>1 DEF PageStates
  <2> QED BY <2>1, <2>2, <2>3, <2>4
<1>6. CASE OpenFails
  <2>1. page' = Retried(page, FALSE) /\ sock' = Closed /\ room' = room /\ drops' \in 0..MaxDrops
        /\ sock.stage = "opening"
    BY <1>6 DEF OpenFails
  <2>2. page' \in PageStates /\ page'.session \in {"none", "waiting"}
        /\ page'.viewers = {} /\ page'.pcs = 0
    BY <2>1, RetriedTyped
  <2>3. Surroundings' /\ DevicesReleased'
    <3>1. page.session # "none"
      BY <2>1
    <3> QED BY <1>13, <2>1, <3>1
  <2> QED BY <1>1, <2>1, <2>2, <2>3
<1>7. CASE Drop
  <2>1. page' = Retried(page, TRUE) /\ sock' = Closed /\ room' = Lost(sock)
        /\ drops' \in 0..MaxDrops /\ page.session = "live"
    BY <1>7 DEF Drop
  <2>2. page' \in PageStates /\ page'.session \in {"none", "waiting"}
        /\ page'.viewers = {} /\ page'.pcs = 0
    BY <2>1, RetriedTyped
  <2>3. Surroundings' /\ DevicesReleased'
    <3>1. page.session # "none"
      BY <2>1
    <3> QED BY <1>13, <2>1, <3>1
  <2> QED BY <1>1, <2>1, <2>2, <2>3
<1>8. CASE Backoff
  BY <1>2, <1>8 DEF Backoff, Connecting, Teardown, PageStates
<1>9. CASE Leave
  BY <1>1, <1>9, Nothing DEF Leave, AtPhase, CloseSession, StopCapture, Teardown, PageStates
<1>10. CASE RetryNetwork
  BY ZenonT(60), <1>1, <1>10, Nothing DEF RetryNetwork, CloseSession, StopCapture, Teardown, PageStates, Phases
<1>11. CASE Unmount
  BY <1>1, <1>11, Nothing DEF Unmount, CloseSession, StopCapture, Teardown, PageStates
<1>12. CASE ReadTerminate
  <2>1. /\ sock.down # <<>> /\ Head(sock.down).t = "terminate"
        /\ page' = IF Head(sock.down).final THEN Terminal(page) ELSE Retried(page, TRUE)
        /\ sock' = Closed /\ room' = room /\ drops' = drops
    BY <1>12 DEF ReadTerminate, Frame
  <2>2. page.session # "none"
    BY <2>1
  <2>3. CASE Head(sock.down).final
    <3>1. page' = Terminal(page)
      BY <2>1, <2>3
    <3>2. /\ page' \in PageStates /\ page'.session = "none"
          /\ page'.viewers = {} /\ page'.pcs = 0
      BY <3>1, TerminalTyped
    <3>3. /\ page'.phase = page.phase /\ page'.left = page.left /\ page'.gone = page.gone
          /\ page'.asking = page.asking /\ ~page'.camera /\ ~page'.capture
      BY <3>1 DEF Terminal, StopCapture, CloseSession, Teardown, PageStates
    <3>4. Surroundings' /\ DevicesReleased'
      BY <2>2, <3>2, <3>3
    <3> QED BY <1>1, <2>1, <3>2, <3>4
  <2>4. CASE ~Head(sock.down).final
    <3>1. page' = Retried(page, TRUE)
      BY <2>1, <2>4
    <3>2. /\ page' \in PageStates /\ page'.session \in {"none", "waiting"}
          /\ page'.viewers = {} /\ page'.pcs = 0
      BY <3>1, RetriedTyped
    <3> QED BY <1>1, <1>13, <2>1, <2>2, <3>1, <3>2
  <2> QED BY <2>3, <2>4
<1> QED BY <1>3, <1>4, <1>5, <1>6, <1>7, <1>8, <1>9, <1>10, <1>11, <1>12 DEF SocketMoves

\* Steps of the page that say something to the server, or read what it said.
Talks == WatchFires \/ Pick \/ StopSharing
Reads == ReadRoster \/ ReadOffer

\* The page's side of the socket grew, or did not.
Said(s) ==
    \/ sock' = s
    \/ \E f \in {"screen-start", "screen-stop"} :
          sock' = Send(s, f) /\ Len(sock'.up) <= MaxQueue

LEMMA SaidTyped ==
    ASSUME NEW s \in SockStates, Len(s.up) <= MaxQueue, Said(s)
    PROVE  /\ sock' \in SockStates /\ Len(sock'.up) <= MaxQueue
           /\ sock'.stage = s.stage /\ sock'.down = s.down
BY SendTyped DEF Said

LEMMA TalksSay ==
    ASSUME DevicesInv, Talks
    PROVE  /\ page' \in PageStates /\ Said(sock) /\ room' = room /\ drops' = drops
           /\ SameGuest(page', page) /\ page'.seen = page.seen /\ page'.camera = page.camera
           /\ page'.pcs = page.pcs
           /\ \/ /\ page'.viewers = page.viewers /\ page'.raced = page.raced
                 /\ page'.capture = page.capture
              \/ page'.viewers = {} /\ ~page'.capture
              \/ page'.viewers = page.viewers /\ ~page.capture /\ CanStartShare(page)
<1>0. page \in PageStates
  BY DEF DevicesInv, GuestTyped
<1>1. ASSUME NEW p \in PageStates, StopShare(p)
      PROVE  page' = StopCapture(p) /\ Said(sock)
  BY <1>1 DEF StopShare, Said, CanSend
<1>2. CASE WatchFires
  <2>1. room' = room /\ drops' = drops
    BY <1>2 DEF WatchFires
  <2>2. CASE page.everConnected \/ page.blocked \/ page.pcs = 0
    <3>1. sock' = sock /\ page' = [page EXCEPT !.timer = FALSE]
      BY <1>2, <2>2 DEF WatchFires
    <3> QED BY <1>0, <2>1, <3>1 DEF Said, PageStates, SameGuest
  <2>3. CASE ~(page.everConnected \/ page.blocked \/ page.pcs = 0)
    <3> DEFINE p == [page EXCEPT !.timer = FALSE, !.blocked = TRUE, !.netBlocked = TRUE]
    <3>1. /\ p \in PageStates /\ SameGuest(p, page) /\ p.seen = page.seen
          /\ p.camera = page.camera /\ p.pcs = page.pcs
      BY <1>0 DEF PageStates, SameGuest
    <3>2. StopShare(p)
      BY <1>2, <2>3 DEF WatchFires
    <3> HIDE DEF p
    <3>3. page' = StopCapture(p) /\ Said(sock)
      BY <1>1, <3>1, <3>2
    <3>4. /\ StopCapture(p) \in PageStates /\ SameGuest(StopCapture(p), p)
          /\ StopCapture(p).seen = p.seen /\ StopCapture(p).camera = p.camera
          /\ StopCapture(p).pcs = p.pcs
          /\ StopCapture(p).viewers = {} /\ ~StopCapture(p).capture
      BY <3>1 DEF StopCapture, PageStates, SameGuest
    <3> QED BY <2>1, <3>1, <3>3, <3>4 DEF SameGuest
  <2> QED BY <2>2, <2>3
<1>3. CASE Pick
  <2>1. room' = room /\ drops' = drops
    BY <1>3 DEF Pick
  <2>2. CASE StillAllowed(page)
    <3>1. /\ CanSend("screen-start") /\ sock' = Send(sock, "screen-start")
          /\ page' = [page EXCEPT !.picker = FALSE, !.capture = TRUE]
      BY <1>3, <2>2 DEF Pick
    <3>2. Said(sock)
      BY <3>1 DEF Said, CanSend
    <3> QED BY <1>0, <1>3, <2>1, <2>2, <3>1, <3>2 DEF StillAllowed, PageStates, SameGuest
  <2>3. CASE ~StillAllowed(page)
    <3>1. sock' = sock /\ page' = [page EXCEPT !.picker = FALSE]
      BY <1>3, <2>3 DEF Pick
    <3> QED BY <1>0, <2>1, <3>1 DEF Said, PageStates, SameGuest
  <2> QED BY <2>2, <2>3
<1>4. CASE StopSharing
  <2>1. room' = room /\ drops' = drops /\ page' = StopCapture(page) /\ Said(sock)
    BY <1>0, <1>1, <1>4 DEF StopSharing
  <2> QED BY <1>0, <2>1 DEF StopCapture, PageStates, SameGuest
<1> QED BY <1>2, <1>3, <1>4 DEF Talks

LEMMA TalksKeep ==
    ASSUME DevicesInv, Talks
    PROVE  DevicesInv' /\ sock'.stage = sock.stage /\ sock'.down = sock.down
<1>0. /\ page \in PageStates /\ sock \in SockStates /\ room \in RoomStates
      /\ Len(sock.up) <= MaxQueue /\ Len(sock.down) <= MaxQueue /\ drops \in 0..MaxDrops
  BY DEF DevicesInv, GuestTyped
<1>1. /\ sock' \in SockStates /\ Len(sock'.up) <= MaxQueue
      /\ sock'.stage = sock.stage /\ sock'.down = sock.down
  BY <1>0, TalksSay, SaidTyped
<1>2. GuestTyped'
  BY <1>0, <1>1, TalksSay DEF GuestTyped
<1>3. Surroundings' /\ SocketOfSession'
  <2>1. page'.viewers = page.viewers \/ page'.viewers = {}
    BY TalksSay
  <2> QED BY <1>1, <2>1, TalksSay DEF DevicesInv, Surroundings, SocketOfSession, SameGuest
<1>4. DevicesReleased'
  <2>1. CASE page'.capture = page.capture \/ ~page'.capture
    BY <2>1, TalksSay DEF DevicesInv, DevicesReleased, SameGuest
  <2>2. CASE CanStartShare(page)
    BY <2>2, TalksSay
       DEF DevicesInv, DevicesReleased, Surroundings, CanStartShare, SessionLive, SameGuest
  <2> QED BY <2>1, <2>2, TalksSay
<1> QED BY <1>1, <1>2, <1>3, <1>4 DEF DevicesInv

LEMMA ReadsKeep ==
    ASSUME DevicesInv, Reads
    PROVE  /\ DevicesInv' /\ room' = room /\ sock.down # <<>>
           /\ sock'.stage = sock.stage /\ sock'.down = Tail(sock.down)
           /\ \/ /\ Head(sock.down).t = "roster"
                 /\ page' = Rostered(page, Head(sock.down).me)
              \/ /\ Head(sock.down).t = "offer"
                 /\ page' = IF page.capture
                            THEN Answered(page, Head(sock.down)) ELSE page
<1>0. /\ page \in PageStates /\ sock \in SockStates /\ room \in RoomStates
      /\ Len(sock.up) <= MaxQueue /\ Len(sock.down) <= MaxQueue /\ drops \in 0..MaxDrops
  BY DEF DevicesInv, GuestTyped
<1>1. sock.down # <<>>
  BY DEF Reads, ReadRoster, ReadOffer, Frame
<1>2. /\ Taken \in SockStates /\ Taken.stage = sock.stage /\ Taken.up = sock.up
      /\ Taken.down = Tail(sock.down) /\ Len(Taken.down) = Len(sock.down) - 1
      /\ Head(sock.down) \in Frames
  BY <1>0, <1>1, TakenTyped
<1>3. Said(Taken) /\ room' = room /\ drops' = drops
  <2>1. CASE ReadOffer
    BY <2>1 DEF ReadOffer, Said
  <2>2. CASE ReadRoster
    <3>1. CASE Reasserts(page, Head(sock.down).me)
      <4>1. CanSend("screen-start") /\ sock' = Send(Taken, "screen-start")
        BY <2>2, <3>1 DEF ReadRoster
      <4>2. Send(Taken, "screen-start").up = Send(sock, "screen-start").up
        BY <1>0, <1>2 DEF Send, SockStates
      <4> QED BY <2>2, <4>1, <4>2 DEF ReadRoster, CanSend, Said
    <3>2. CASE ~Reasserts(page, Head(sock.down).me)
      BY <2>2, <3>2 DEF ReadRoster, Said
    <3> QED BY <3>1, <3>2
  <2> QED BY <2>1, <2>2 DEF Reads
<1>4. /\ sock' \in SockStates /\ Len(sock'.up) <= MaxQueue /\ sock'.stage = sock.stage
      /\ sock'.down = Tail(sock.down) /\ Len(sock'.down) <= MaxQueue
  <2>1. /\ sock' \in SockStates /\ Len(sock'.up) <= MaxQueue /\ sock'.stage = sock.stage
        /\ sock'.down = Taken.down
    BY <1>0, <1>2, <1>3, SaidTyped
  <2> QED BY <1>0, <1>2, <2>1, GuestPageAssumption DEF SockStates
<1>5. page.session = "live" /\ ~page.left /\ ~page.terminated /\ ~page.gone
  <2>1. sock.stage \notin {"none", "opening", "opened"}
    BY <1>1 DEF DevicesInv, SocketOfSession
  <2> QED BY <1>0, <2>1 DEF DevicesInv, SocketOfSession, Surroundings, PageStates
<1>6. /\ page' \in PageStates /\ SameGuest(page', page)
      /\ page'.pcs = page.pcs
      /\ \/ /\ Head(sock.down).t = "roster"
            /\ page' = Rostered(page, Head(sock.down).me)
         \/ /\ Head(sock.down).t = "offer"
            /\ page' = IF page.capture THEN Answered(page, Head(sock.down)) ELSE page
  <2>1. CASE ReadRoster
    <3>1. Head(sock.down).t = "roster" /\ page' = Rostered(page, Head(sock.down).me)
      BY <2>1 DEF ReadRoster, Frame
    <3>2. Head(sock.down).me \in Entries
      BY <1>2, <3>1, FrameTypes
    <3> QED BY <1>0, <3>1, <3>2, RosteredTyped, RosteredSame
  <2>2. CASE ReadOffer
    <3>1. /\ Head(sock.down).t = "offer"
          /\ page' = IF page.capture THEN Answered(page, Head(sock.down)) ELSE page
      BY <2>2 DEF ReadOffer, Frame
    <3>2. Head(sock.down).from \in Viewers
      BY <1>2, <3>1, FrameTypes
    <3>3. page.viewers \cup {Head(sock.down).from} \in SUBSET Viewers
          /\ page.raced \cup {Head(sock.down).from} \in SUBSET Viewers
      BY <1>0, <3>2 DEF PageStates
    <3> QED BY <1>0, <3>1, <3>3 DEF Answered, PageStates, SameGuest
  <2> QED BY <2>1, <2>2 DEF Reads
<1>7. GuestTyped'
  BY <1>0, <1>3, <1>4, <1>6 DEF GuestTyped
<1>8. SocketOfSession' /\ Surroundings' /\ DevicesReleased'
  <2>1. sock.stage \notin {"none", "opening", "opened"}
    BY <1>1 DEF DevicesInv, SocketOfSession
  <2> QED BY <1>4, <1>5, <1>6, <2>1
          DEF DevicesInv, SocketOfSession, Surroundings, DevicesReleased, SameGuest
<1> QED BY <1>1, <1>3, <1>4, <1>6, <1>7, <1>8 DEF DevicesInv

LEMMA DevicesKept == DevicesInv /\ [Next]_vars => DevicesInv'
<1> SUFFICES ASSUME DevicesInv, [Next]_vars
             PROVE  DevicesInv'
  OBVIOUS
<1>1. CASE UNCHANGED vars
  BY <1>1 DEF vars, DevicesInv, GuestTyped, SocketOfSession, Surroundings, DevicesReleased
<1>2. CASE PageMoves
  BY <1>2, PageMovesKeep
<1>3. CASE SocketMoves
  BY <1>3, SocketMovesKeep
<1>4. CASE Talks
  BY <1>4, TalksKeep
<1>5. CASE Reads
  BY <1>5, ReadsKeep
<1>6. CASE ServerNext
  <2>1. Onward
    BY <1>6, ServerMoves DEF DevicesInv
  <2> QED BY <2>1 DEF Onward, DevicesInv, GuestTyped, SocketOfSession, Surroundings, DevicesReleased
<1> QED BY <1>1, <1>2, <1>3, <1>4, <1>5, <1>6, GuestCases
        DEF PageMoves, SocketMoves, Talks, Reads

LEMMA DevicesInitially == Init => DevicesInv
<1> SUFFICES ASSUME Init PROVE DevicesInv
  OBVIOUS
<1>1. NoEntry \in Entries
  BY DEF NoEntry, Entries, Shares
<1>2. page \in PageStates
  <2>1. 0 \in 0..MaxFailedOpens
    BY GuestPageAssumption
  <2> QED BY <1>1, <2>1, Nothing DEF Init, PageStates, Phases
<1>3. room \in RoomStates /\ 0 \in 0..MaxDrops /\ drops = 0
  <2>1. room \in RoomStates
    BY DEF Init, RoomStates
  <2> QED BY <2>1, GuestPageAssumption DEF Init
<1>4. sock = Closed
  BY DEF Init
<1>5. GuestTyped
  BY <1>2, <1>3, <1>4, ClosedTyped, GuestPageAssumption DEF GuestTyped
<1>6. SocketOfSession /\ Surroundings /\ DevicesReleased
  BY <1>4, ClosedTyped DEF Init, SocketOfSession, Surroundings, DevicesReleased
<1> QED BY <1>5, <1>6 DEF DevicesInv

\* Every value of the guest's page keeps its type, and what is built on a socket goes
\* with the session, for any bounds.
THEOREM GuestTypeCorrect == Spec => []GuestTypeOK
<1>1. DevicesInv => GuestTypeOK
  BY DEF DevicesInv, GuestTyped, SocketOfSession, GuestTypeOK, PageStates, SockStates, Stages,
         RoomStates
<1> QED BY <1>1, DevicesInitially, DevicesKept, PTL DEF Spec

\* Whatever prompt, request or picker was pending when the guest left, was removed or
\* closed the page, and whenever it is answered: the camera and the screen stay
\* released.
THEOREM DevicesAreReleased == Spec => []DevicesReleased
<1>1. DevicesInv => DevicesReleased
  BY DEF DevicesInv
<1> QED BY <1>1, DevicesInitially, DevicesKept, PTL DEF Spec

-----------------------------------------------------------------------------
(* The share that the page takes to be live *)

LEMMA FrameSequences ==
    ASSUME NEW q \in Seq(Frames)
    PROVE  /\ Len(q) \in Nat
           /\ \A f \in Frames : /\ Append(q, f) \in Seq(Frames) /\ Len(Append(q, f)) = Len(q) + 1
                                /\ Append(q, f)[Len(q) + 1] = f
                                /\ \A k \in 1..Len(q) : Append(q, f)[k] = q[k]
           /\ q # <<>> => /\ Tail(q) \in Seq(Frames) /\ Len(Tail(q)) = Len(q) - 1 /\ Len(q) > 0
                          /\ Head(q) = q[1] /\ \A k \in 1..(Len(q) - 1) : Tail(q)[k] = q[k + 1]
OBVIOUS

\* A frame that is yet to come changes nothing of what the earlier ones show.
LEMMA ShowsBefore ==
    ASSUME NEW q \in Seq(Frames), NEW f \in Frames, NEW i \in 0..Len(q), NEW share
    PROVE  Shows(Append(q, f), i, share) <=> Shows(q, i, share)
<1>1. \A k \in 1..i : Append(q, f)[k] = q[k]
  BY FrameSequences
<1> QED BY <1>1 DEF Shows

LEMMA ShowsAppended ==
    ASSUME NEW q \in Seq(Frames), NEW f \in Frames, NEW share
    PROVE  Shows(Append(q, f), Len(q) + 1, share)
              <=> IF f.t = "roster" THEN f.me.share = "live" ELSE Shows(q, Len(q), share)
<1> DEFINE n == Len(q)
           a == Append(q, f)
<1>1. n \in Nat /\ a[n + 1] = f /\ \A k \in 1..n : a[k] = q[k]
  BY FrameSequences
<1> HIDE DEF n, a
<1>2. CASE f.t = "roster"
  <2>1. Shows(a, n + 1, share) <=> f.me.share = "live"
    BY <1>1, <1>2 DEF Shows
  <2> QED BY <1>2, <2>1 DEF n, a
<1>3. CASE f.t # "roster"
  <2>1. \A j \in 1..n : (\A k \in (j + 1)..(n + 1) : a[k].t # "roster")
                            <=> (\A k \in (j + 1)..n : q[k].t # "roster")
    BY <1>1, <1>3
  <2>2. (\A k \in 1..(n + 1) : a[k].t # "roster") <=> (\A k \in 1..n : q[k].t # "roster")
    BY <1>1, <1>3
  <2>3. Shows(a, n + 1, share) <=> Shows(q, n, share)
    <3>1. ASSUME NEW j \in 1..(n + 1), a[j].t = "roster"
          PROVE  j \in 1..n /\ q[j] = a[j]
      BY <1>1, <1>3, <3>1
    <3>2. ASSUME NEW j \in 1..n
          PROVE  j \in 1..(n + 1) /\ q[j] = a[j]
      BY <1>1
    <3> QED BY SMTT(30), <2>1, <2>2, <3>1, <3>2 DEF Shows
  <2> QED BY <1>3, <2>3 DEF n, a
<1> QED BY <1>2, <1>3

\* Reading the first frame.
LEMMA ShowsRead ==
    ASSUME NEW q \in Seq(Frames), q # <<>>, NEW i \in 1..Len(q), NEW share
    PROVE  Shows(q, i, share)
              <=> Shows(Tail(q), i - 1, IF Head(q).t = "roster" THEN Head(q).me.share ELSE share)
<1> DEFINE r == Tail(q)
           s == IF Head(q).t = "roster" THEN Head(q).me.share ELSE share
<1>1. /\ i \in Nat \ {0} /\ Head(q) = q[1]
      /\ \A k \in 1..(i - 1) : r[k] = q[k + 1]
  BY FrameSequences
<1>2. \A k \in 2..i : q[k] = r[k - 1] /\ k - 1 \in 1..(i - 1)
  BY <1>1
<1> HIDE DEF r
<1>3. ASSUME Shows(q, i, share)
      PROVE  Shows(r, i - 1, s)
  <2>1. CASE share = "live" /\ \A k \in 1..i : q[k].t # "roster"
    BY <1>1, <2>1 DEF Shows
  <2>2. ASSUME NEW j \in 1..i, q[j].t = "roster", q[j].me.share = "live",
               \A k \in (j + 1)..i : q[k].t # "roster"
        PROVE  Shows(r, i - 1, s)
    <3>1. CASE j = 1
      <4>1. s = "live" /\ \A k \in 1..(i - 1) : r[k].t # "roster"
        BY <1>1, <2>2, <3>1
      <4> QED BY <4>1 DEF Shows
    <3>2. CASE j # 1
      <4>1. /\ j - 1 \in 1..(i - 1) /\ r[j - 1].t = "roster" /\ r[j - 1].me.share = "live"
        BY <1>2, <2>2, <3>2
      <4>2. \A k \in ((j - 1) + 1)..(i - 1) : r[k].t # "roster"
        BY <1>1, <2>2, <3>2
      <4> QED BY <4>1, <4>2 DEF Shows
    <3> QED BY <3>1, <3>2
  <2> QED BY <1>3, <2>1, <2>2 DEF Shows
<1>4. ASSUME Shows(r, i - 1, s)
      PROVE  Shows(q, i, share)
  <2>1. CASE s = "live" /\ \A k \in 1..(i - 1) : r[k].t # "roster"
    <3>1. \A k \in 2..i : q[k].t # "roster"
      BY <1>2, <2>1
    <3>2. CASE q[1].t = "roster"
      <4>1. 1 \in 1..i /\ q[1].me.share = "live" /\ \A k \in (1 + 1)..i : q[k].t # "roster"
        BY <1>1, <2>1, <3>1, <3>2
      <4> QED BY <3>2, <4>1 DEF Shows
    <3>3. CASE q[1].t # "roster"
      <4>1. share = "live" /\ \A k \in 1..i : q[k].t # "roster"
        BY <1>1, <2>1, <3>1, <3>3
      <4> QED BY <4>1 DEF Shows
    <3> QED BY <3>2, <3>3
  <2>2. ASSUME NEW j \in 1..(i - 1), r[j].t = "roster", r[j].me.share = "live",
               \A k \in (j + 1)..(i - 1) : r[k].t # "roster"
        PROVE  Shows(q, i, share)
    <3>1. j + 1 \in 1..i /\ q[j + 1].t = "roster" /\ q[j + 1].me.share = "live"
      BY <1>1, <2>2
    <3>2. ASSUME NEW k \in ((j + 1) + 1)..i
          PROVE  q[k].t # "roster"
      <4>1. k \in 2..i /\ k - 1 \in (j + 1)..(i - 1)
        BY <1>1
      <4> QED BY <1>2, <2>2, <4>1
    <3> QED BY <3>1, <3>2 DEF Shows
  <2> QED BY <1>4, <2>1, <2>2 DEF Shows
<1> QED BY <1>3, <1>4 DEF r

-----------------------------------------------------------------------------
(* A screen that is backstage *)

\* What a step of the server tells a page.
SaysNothing ==
    /\ sock'.down = sock.down
    /\ sock'.stage \in {"seeding", "joined"} =>
          /\ sock.stage \in {"seeding", "joined"}
          /\ room'.ghost = room.ghost /\ room'.selected = room.selected
SaysRoster ==
    \E me \in Entries :
       /\ sock'.down = Append(sock.down, RosterFrame(me))
       /\ me.share = "live" <=> room'.selected
       /\ ~room'.ghost
SaysOffer ==
    \E v \in Viewers, own \in BOOLEAN :
       /\ sock'.down = Append(sock.down, OfferFrame(v, own)) /\ room' = room
       /\ sock.stage \in {"seeding", "joined"} /\ Relays(v, own)
SaysTerminate ==
    \E final \in BOOLEAN :
       sock'.down = Append(sock.down, TerminateFrame(final)) /\ sock'.stage = "closing"

LEMMA ServerSays ==
    ASSUME BackstageInv, ServerNext
    PROVE  SaysNothing \/ SaysRoster \/ SaysOffer \/ SaysTerminate
<1>0. /\ page \in PageStates /\ sock \in SockStates /\ room \in RoomStates
      /\ sock.stage \in {"seeding", "joined"} => ~room.ghost
  BY DEF BackstageInv, DevicesInv, GuestTyped, ToldOfShare
<1> USE <1>0
<1>1. ASSUME NEW r \in RoomStates, NEW s \in SockStates, s.down = sock.down, s.stage = sock.stage,
             r.ghost = room.ghost, room' = r, sock' = Push(s, RosterFrame(Entry(r)))
      PROVE  SaysNothing \/ SaysRoster
  <2>1. Entry(r) \in Entries /\ RosterFrame(Entry(r)) \in Frames /\ (Entry(r).share = "live" <=> r.selected)
    BY EntryTyped
  <2>2. CASE sock.stage \in {"seeding", "joined"}
    <3>1. sock'.down = Append(sock.down, RosterFrame(Entry(r)))
      <4>1. Push(s, RosterFrame(Entry(r))).down = Append(s.down, RosterFrame(Entry(r)))
        BY ZenonT(60), <1>1, <2>1, <2>2, PushTyped
      <4> QED BY <1>1, <4>1
    <3> QED BY <1>1, <2>1, <2>2, <3>1 DEF SaysRoster
  <2>3. CASE sock.stage \notin {"seeding", "joined"}
    BY <1>1, <2>3 DEF Push, SaysNothing
  <2> QED BY <2>2, <2>3
<1>2. ASSUME NEW r \in RoomStates, Announce(r), r.ghost = room.ghost
      PROVE  SaysNothing \/ SaysRoster
  BY <1>1, <1>2 DEF Announce
<1>3. CASE Join
  <2>1. room' = [room EXCEPT !.ghost = FALSE, !.canScreen = FALSE] /\ room' \in RoomStates
        /\ ~room'.ghost
    BY <1>3 DEF Join, RoomStates
  <2>2. Entry(room') \in Entries /\ (Entry(room').share = "live" <=> room'.selected)
    BY <2>1, EntryTyped
  <2>3. sock'.down = <<RosterFrame(Entry(room'))>> /\ sock.stage = "opened"
    BY <1>3 DEF Join, SockStates
  <2>4. sock'.down = Append(sock.down, RosterFrame(Entry(room')))
    <3>1. sock.down = <<>>
      BY <2>3 DEF BackstageInv, DevicesInv, SocketOfSession
    <3> QED BY <2>3, <3>1
  <2> QED BY <2>1, <2>2, <2>4 DEF SaysRoster
<1>4. CASE Seed
  <2> DEFINE r == [room EXCEPT !.canScreen = TRUE]
  <2>1. CASE room.row /\ ~room.canScreen
    <3>1. /\ room' = r /\ sock.stage = "seeding"
          /\ sock' = [sock EXCEPT !.stage = "joined", !.down = Append(@, RosterFrame(Entry(r)))]
      BY <1>4, <2>1 DEF Seed
    <3>2. r \in RoomStates /\ r.ghost = room.ghost
      BY DEF RoomStates
    <3> HIDE DEF r
    <3>3. Entry(r) \in Entries /\ (Entry(r).share = "live" <=> r.selected)
      BY <3>2, EntryTyped
    <3>4. sock'.down = Append(sock.down, RosterFrame(Entry(r)))
      BY <3>1 DEF SockStates
    <3> QED BY <3>1, <3>2, <3>3, <3>4 DEF SaysRoster
  <2>2. CASE ~(room.row /\ ~room.canScreen)
    BY <1>4, <2>2 DEF Seed, SockStates, SaysNothing
  <2> QED BY <2>1, <2>2
<1>5. CASE GhostLeaves
  BY <1>5 DEF GhostLeaves, SaysNothing
<1>6. CASE Revoke
  BY <1>6 DEF Revoke, SaysNothing
<1>7. CASE ReadUp
  <2> DEFINE s == [sock EXCEPT !.up = Tail(@)]
             r == CASE Head(sock.up) = "screen-start" /\ Admits(room)
                          -> [room EXCEPT !.pooled = TRUE]
                    [] Head(sock.up) = "screen-stop" -> Pulled(room)
                    [] OTHER -> room
  <2>1. s \in SockStates /\ s.stage = sock.stage /\ s.down = sock.down
    <3>1. Tail(sock.up) \in Seq({"screen-start", "screen-stop"})
      BY <1>7 DEF ReadUp, SockStates
    <3> QED BY <3>1 DEF SockStates
  <2>2. r \in RoomStates /\ r.ghost = room.ghost
    BY PulledTyped DEF RoomStates
  <2>3. \/ sock' = s /\ room' = room
        \/ room' = r /\ sock' = Push(s, RosterFrame(Entry(r)))
    BY <1>7 DEF ReadUp
  <2> HIDE DEF s, r
  <2>4. CASE sock' = s /\ room' = room
    BY <2>1, <2>4 DEF SaysNothing
  <2>5. CASE room' = r /\ sock' = Push(s, RosterFrame(Entry(r)))
    BY <1>1, <2>1, <2>2, <2>5
  <2> QED BY <2>3, <2>4, <2>5
<1>8. CASE ForceNoShare
  <2>1. /\ [Pulled(room) EXCEPT !.locked = TRUE] \in RoomStates
        /\ [Pulled(room) EXCEPT !.locked = TRUE].ghost = room.ghost
    BY DEF Pulled, RoomStates
  <2> QED BY <1>2, <1>8, <2>1 DEF ForceNoShare
<1>9. CASE ReleaseShare
  <2>1. /\ [room EXCEPT !.locked = FALSE] \in RoomStates
        /\ [room EXCEPT !.locked = FALSE].ghost = room.ghost
    BY DEF RoomStates
  <2> QED BY <1>2, <1>9, <2>1 DEF ReleaseShare
<1>10. ASSUME NEW can \in BOOLEAN, SetCanScreen(can)
       PROVE  SaysNothing \/ SaysRoster
  <2>1. /\ [room EXCEPT !.row = TRUE, !.canScreen = TRUE, !.locked = FALSE] \in RoomStates
        /\ [Pulled(room) EXCEPT !.row = FALSE, !.canScreen = FALSE, !.locked = TRUE] \in RoomStates
        /\ [room EXCEPT !.row = TRUE, !.canScreen = TRUE, !.locked = FALSE].ghost = room.ghost
        /\ [Pulled(room) EXCEPT !.row = FALSE, !.canScreen = FALSE, !.locked = TRUE].ghost = room.ghost
    BY DEF Pulled, RoomStates
  <2>2. CASE Member
    BY <1>2, <1>10, <2>1, <2>2 DEF SetCanScreen
  <2>3. CASE ~Member
    BY <1>10, <2>3 DEF SetCanScreen, Member, SaysNothing
  <2> QED BY <2>2, <2>3
<1>11. ASSUME NEW on \in BOOLEAN, Select(on)
       PROVE  SaysNothing \/ SaysRoster
  <2>1. /\ [room EXCEPT !.selected = on] \in RoomStates
        /\ [room EXCEPT !.selected = on].ghost = room.ghost
    BY DEF RoomStates
  <2> QED BY <1>2, <1>11, <2>1 DEF Select
<1>12. ASSUME NEW v \in Viewers, NEW own \in BOOLEAN, Watch(v, own)
       PROVE  SaysOffer
  <2>1. OfferFrame(v, own) \in Frames
    BY OfferTyped
  <2>2. /\ sock.stage \in {"seeding", "joined"} /\ Relays(v, own) /\ room' = room
        /\ sock' = Push(sock, OfferFrame(v, own))
    BY <1>12 DEF Watch
  <2>3. sock'.down = Append(sock.down, OfferFrame(v, own))
    BY <2>1, <2>2, PushTyped
  <2> QED BY <2>2, <2>3 DEF SaysOffer
<1>13. ASSUME NEW final \in BOOLEAN, Terminate(final)
       PROVE  SaysTerminate
  <2>1. sock' = [sock EXCEPT !.stage = "closing", !.down = Append(@, TerminateFrame(final))]
    BY <1>13 DEF Terminate
  <2>2. /\ sock'.stage = "closing"
        /\ sock'.down = Append(sock.down, TerminateFrame(final))
    BY <2>1 DEF SockStates
  <2> QED BY <2>2 DEF SaysTerminate
<1> QED BY <1>3, <1>4, <1>5, <1>6, <1>7, <1>8, <1>9, <1>10, <1>11, <1>12, <1>13
        DEF ServerNext

\* A frame is put behind the others.
LEMMA OffersStay ==
    ASSUME OffersOfLive, sock.down \in Seq(Frames), NEW f \in Frames,
           sock'.down = Append(sock.down, f), page'.seen = page.seen,
           f.t = "offer" /\ f.from # Host /\ ~f.own =>
              Shows(sock.down, Len(sock.down), page.seen.share)
    PROVE  OffersOfLive'
<1> DEFINE q == sock.down
           share == page.seen.share
<1>1. Len(q) \in Nat /\ Len(sock'.down) = Len(q) + 1 /\ sock'.down[Len(q) + 1] = f
      /\ \A k \in 1..Len(q) : sock'.down[k] = q[k]
  BY FrameSequences
<1> SUFFICES ASSUME NEW i \in 1..Len(sock'.down),
                    sock'.down[i].t = "offer", sock'.down[i].from # Host, ~sock'.down[i].own
             PROVE  Shows(sock'.down, i - 1, share)
  BY DEF OffersOfLive
<1>2. i - 1 \in 0..Len(q)
  BY <1>1
<1>3. Shows(q, i - 1, share)
  <2>1. CASE i \in 1..Len(q)
    BY <1>1, <2>1 DEF OffersOfLive
  <2>2. CASE i = Len(q) + 1
    BY <1>1, <2>2
  <2> QED BY <1>1, <2>1, <2>2
<1>4. Shows(Append(q, f), i - 1, share)
  BY <1>2, <1>3, ShowsBefore
<1> QED BY <1>4

LEMMA BackstageServer ==
    ASSUME BackstageInv, ServerNext
    PROVE  BackstageInv'
<1> DEFINE q == sock.down
           share == page.seen.share
<1>1. Onward
  BY ServerMoves DEF BackstageInv, DevicesInv
<1>2. page' = page /\ q \in Seq(Frames) /\ Len(q) \in Nat
  BY <1>1 DEF Onward, BackstageInv, DevicesInv, GuestTyped, SockStates
<1>3. DevicesInv' /\ NoViewersOfNothing' /\ BackstageForHostOnly'
  <2>1. [Next]_vars
    BY DEF Next
  <2> QED BY <1>2, <2>1, DevicesKept DEF BackstageInv, NoViewersOfNothing, BackstageForHostOnly
<1>4. OffersOfLive /\ ToldOfShare /\ room \in RoomStates
  BY DEF BackstageInv, DevicesInv, GuestTyped
<1>5. CASE SaysNothing
  BY <1>2, <1>3, <1>4, <1>5 DEF SaysNothing, OffersOfLive, ToldOfShare, BackstageInv
<1>6. CASE SaysRoster
  <2>1. PICK me \in Entries : /\ sock'.down = Append(q, RosterFrame(me))
                              /\ me.share = "live" <=> room'.selected
                              /\ ~room'.ghost
    BY <1>6 DEF SaysRoster
  <2>2. RosterFrame(me) \in Frames /\ RosterFrame(me).t = "roster" /\ RosterFrame(me).me = me
    BY DEF RosterFrame, Frames
  <2>3. OffersOfLive'
    BY <1>2, <1>4, <2>1, <2>2, OffersStay
  <2>4. Shows(sock'.down, Len(q) + 1, share) <=> room'.selected
    BY <1>2, <2>1, <2>2, ShowsAppended
  <2>5. Len(sock'.down) = Len(q) + 1
    BY <1>2, <2>1, <2>2, FrameSequences
  <2> QED BY <1>2, <1>3, <2>1, <2>3, <2>4, <2>5 DEF ToldOfShare, BackstageInv
<1>7. CASE SaysOffer
  <2>1. PICK v \in Viewers, own \in BOOLEAN :
                             /\ sock'.down = Append(q, OfferFrame(v, own))
                             /\ room' = room
                             /\ sock.stage \in {"seeding", "joined"} /\ Relays(v, own)
    BY <1>7 DEF SaysOffer
  <2> DEFINE f == OfferFrame(v, own)
  <2>2. f \in Frames /\ f.t = "offer" /\ f.from = v /\ f.own = own
    BY OfferTyped
  <2>3. Shows(q, Len(q), share) <=> room.selected
    BY <1>4, <2>1 DEF ToldOfShare
  <2>4. v # Host /\ ~own => room.selected
    BY <2>1 DEF Relays
  <2>5. sock'.down = Append(q, f)
    BY <2>1
  <2> HIDE DEF f
  <2>6. OffersOfLive'
    BY <1>2, <1>4, <2>2, <2>3, <2>4, <2>5, OffersStay
  <2>7. Shows(sock'.down, Len(q) + 1, share) <=> room'.selected
    BY <1>2, <2>1, <2>2, <2>3, <2>5, ShowsAppended
  <2>8. Len(sock'.down) = Len(q) + 1 /\ ~room'.ghost
    BY <1>2, <1>4, <2>1, <2>2, <2>5, FrameSequences DEF ToldOfShare
  <2> QED BY <1>2, <1>3, <2>6, <2>7, <2>8 DEF ToldOfShare, BackstageInv
<1>8. CASE SaysTerminate
  <2>1. PICK final \in BOOLEAN : sock'.down = Append(q, TerminateFrame(final)) /\ sock'.stage = "closing"
    BY <1>8 DEF SaysTerminate
  <2>2. TerminateFrame(final) \in Frames /\ TerminateFrame(final).t = "terminate"
    BY DEF TerminateFrame, Frames
  <2>3. OffersOfLive'
    BY <1>2, <1>4, <2>1, <2>2, OffersStay
  <2> QED BY <1>3, <2>1, <2>3 DEF ToldOfShare, BackstageInv
<1> QED BY <1>5, <1>6, <1>7, <1>8, ServerSays

LEMMA BackstageReads ==
    ASSUME BackstageInv, Reads
    PROVE  BackstageInv'
<1> DEFINE q == sock.down
           share == page.seen.share
           read == IF Head(q).t = "roster" THEN Head(q).me.share ELSE share
<1>1. /\ DevicesInv' /\ room' = room /\ q # <<>>
      /\ sock'.stage = sock.stage /\ sock'.down = Tail(q)
      /\ \/ Head(q).t = "roster" /\ page' = Rostered(page, Head(q).me)
         \/ /\ Head(q).t = "offer"
            /\ page' = IF page.capture THEN Answered(page, Head(q)) ELSE page
  BY ReadsKeep DEF BackstageInv
<1>2. /\ page \in PageStates /\ q \in Seq(Frames)
      /\ NoViewersOfNothing /\ OffersOfLive /\ ToldOfShare /\ BackstageForHostOnly
  BY DEF BackstageInv, DevicesInv, GuestTyped, SockStates
<1>3. /\ Len(q) \in Nat \ {0} /\ Head(q) = q[1] /\ Head(q) \in Frames /\ Len(Tail(q)) = Len(q) - 1
      /\ \A k \in 1..(Len(q) - 1) : Tail(q)[k] = q[k + 1]
  BY <1>1, <1>2, FrameSequences
<1>4. /\ page'.seen.share = read /\ NoViewersOfNothing' /\ BackstageForHostOnly'
  <2>1. CASE Head(q).t = "roster"
    <3>1. page' = Rostered(page, Head(q).me) /\ Head(q).me \in Entries
      BY <1>1, <1>3, <2>1, FrameTypes
    <3>2. /\ page'.seen = Head(q).me
          /\ page'.viewers \subseteq page.viewers
          /\ ~page'.capture => page'.viewers = {} \/ ~page.capture
          /\ page'.capture /\ Head(q).me.share # "live" => page'.viewers \subseteq {Host}
      BY <1>2, <3>1, RosteredTyped
    <3> QED BY <1>2, <2>1, <3>2 DEF NoViewersOfNothing, BackstageForHostOnly
  <2>2. CASE Head(q).t = "offer"
    <3>1. page' = IF page.capture THEN Answered(page, Head(q)) ELSE page
      BY <1>1, <2>2
    <3>2. /\ page'.seen = page.seen /\ page'.capture = page.capture
          /\ page'.viewers = IF page.capture THEN page.viewers \cup {Head(q).from} ELSE page.viewers
          /\ page.raced \subseteq page'.raced
          /\ page.capture /\ Head(q).own => Head(q).from \in page'.raced
      BY <1>2, <3>1 DEF Answered, PageStates
    <3>3. Head(q).from # Host /\ ~Head(q).own => share = "live"
      <4>1. Head(q).from # Host /\ ~Head(q).own => Shows(q, 1 - 1, share)
        BY <1>2, <1>3, <2>2 DEF OffersOfLive
      <4>2. Shows(q, 0, share) => share = "live"
        BY DEF Shows
      <4> QED BY <4>1, <4>2
    <3> QED BY <1>2, <2>2, <3>2, <3>3 DEF NoViewersOfNothing, BackstageForHostOnly
  <2> QED BY <1>1, <2>1, <2>2
<1>5. \A i \in 1..Len(q) : Shows(q, i, share) <=> Shows(Tail(q), i - 1, read)
  BY <1>1, <1>2, ShowsRead
<1> HIDE DEF read
<1>6. OffersOfLive'
  <2> SUFFICES ASSUME NEW i \in 1..Len(Tail(q)), Tail(q)[i].t = "offer", Tail(q)[i].from # Host,
                      ~Tail(q)[i].own
               PROVE  Shows(Tail(q), i - 1, read)
    BY <1>1, <1>4 DEF OffersOfLive
  <2>1. i \in 1..Len(q) /\ i + 1 \in 1..Len(q) /\ Tail(q)[i] = q[i + 1]
    BY <1>3
  <2>2. Shows(q, (i + 1) - 1, share)
    BY <1>2, <2>1 DEF OffersOfLive
  <2> QED BY <1>5, <2>1, <2>2
<1>7. ToldOfShare'
  <2>1. Shows(q, Len(q), share) <=> Shows(Tail(q), Len(Tail(q)), read)
    BY <1>3, <1>5
  <2> QED BY <1>1, <1>2, <1>4, <2>1 DEF ToldOfShare
<1> QED BY <1>1, <1>4, <1>6, <1>7 DEF BackstageInv

LEMMA BackstageKept == BackstageInv /\ [Next]_vars => BackstageInv'
<1> SUFFICES ASSUME BackstageInv, [Next]_vars
             PROVE  BackstageInv'
  OBVIOUS
<1>0. DevicesInv /\ DevicesInv'
  BY DevicesKept DEF BackstageInv
<1> USE <1>0 DEF BackstageInv, NoViewersOfNothing, OffersOfLive, ToldOfShare, BackstageForHostOnly
<1>1. CASE UNCHANGED vars
  BY <1>1 DEF vars
<1>2. CASE PageMoves
  BY <1>2, PageMovesKeep
<1>3. CASE SocketMoves
  <2>1. sock'.down = <<>> /\ page'.viewers = {} /\ sock'.stage \notin {"seeding", "joined"}
    BY <1>3, SocketMovesKeep
  <2> QED BY <2>1
<1>4. CASE Talks
  <2>1. sock'.stage = sock.stage /\ sock'.down = sock.down
    BY <1>4, TalksKeep
  <2>2. /\ room' = room /\ page'.seen = page.seen
        /\ \/ /\ page'.viewers = page.viewers /\ page'.raced = page.raced
              /\ page'.capture = page.capture
           \/ page'.viewers = {}
    BY <1>4, TalksSay
  <2>3. NoViewersOfNothing' /\ BackstageForHostOnly'
    BY <2>2
  <2> QED BY <2>1, <2>2, <2>3
<1>5. CASE Reads
  BY <1>5, BackstageReads
<1>6. CASE ServerNext
  BY <1>6, BackstageServer
<1> QED BY <1>1, <1>2, <1>3, <1>4, <1>5, <1>6, GuestCases
        DEF PageMoves, SocketMoves, Talks, Reads

\* Whatever rosters and offers are on their way: a screen that the guest was told is not
\* live is received by nobody but the host, and by whoever had its own offer let through
\* while it was the live sharer, until the next roster is read.
THEOREM BackstageIsForTheHost == Spec => []BackstageForHostOnly
<1>1. Init => BackstageInv
  <2> SUFFICES ASSUME Init PROVE BackstageInv
    OBVIOUS
  <2>1. DevicesInv /\ sock = Closed /\ page.viewers = {}
    BY DevicesInitially DEF Init
  <2> QED BY <2>1, ClosedTyped
          DEF BackstageInv, NoViewersOfNothing, OffersOfLive, ToldOfShare, BackstageForHostOnly
<1>2. BackstageInv => BackstageForHostOnly
  BY DEF BackstageInv
<1> QED BY <1>1, <1>2, BackstageKept, PTL DEF Spec
================================================================================
