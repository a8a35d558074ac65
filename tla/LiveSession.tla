------------------------------ MODULE LiveSession ------------------------------
(***************************************************************************)
(* One host's live session: the rows of sessions and passes, the room the  *)
(* hub has registered for the host, and the handlers that keep them        *)
(* together (internal/web, internal/store, internal/signaling/hub.go).     *)
(* The handlers of a host take turns under the per-host binding lock; the  *)
(* commands of connected peers, the deadlines of invites, the grace timers *)
(* and the idle-session reaper do not take it.                             *)
(*                                                                         *)
(* The room is the slot bindings of module Room without epochs and pages.  *)
(* A command that a handler posts takes effect where it is posted: it      *)
(* reads nothing of the database, so what overtakes it in the queue of the *)
(* room could as well have come before the post.                           *)
(***************************************************************************)
EXTENDS FiniteSets

CONSTANTS
    Host,        \* the greenroom connection of the host
    Guests,      \* pass ids
    Streams,     \* the host's streams
    StreamOf,    \* the stream a pass invites to
    CamSlots,    \* the cam slots of the host, shared by its streams
    None,        \* no stream, no slot, nobody
    Fails        \* the database calls that may fail: "list" and "replay" (the pass
                 \* lists of goLive), "rollback", "revoke" (Kick), "reap" (onReaped)

ASSUME LiveAssumption ==
    /\ Host \notin Guests
    /\ None \notin Guests \cup Streams \cup CamSlots
    /\ StreamOf \in [Guests -> Streams]
    /\ Fails \subseteq {"list", "replay", "rollback", "revoke", "reap"}

Participants == Guests \cup {Host}

VARIABLES
    session,   \* sessions: the stream of the active session, or None
    status,    \* passes.status: joinable, expired or revoked
    slotOf,    \* passes.slot_id
    room,      \* the room registered for the host: absent, open or draining
    present,   \* the participants connected to it
    occ,       \* cam slot -> its occupant, connected or held by a grace window
    dialing,   \* the participants whose handshake resolved the registered room
    binds,     \* the holder of the binding lock and what it has yet to do
    reaper,    \* where the reaper stands: idle, picked, ending or closing
    closers,   \* who is tearing down the registered room: handler, reaper
    kicked,    \* the passes a kick revoked, since their last re-issue
    left       \* the guests that gave up their slot since they joined

dbVars == <<session, status, slotOf>>
roomVars == <<room, present, occ>>
historyVars == <<kicked, left>>
vars == <<dbVars, roomVars, dialing, binds, reaper, closers, historyVars>>

-----------------------------------------------------------------------------
(* Helpers *)

Free == [op |-> "free", passes |-> {}, arg |-> None]
Held(op, passes, arg) == [op |-> op, passes |-> passes, arg |-> arg]
BindsFree == binds = Free
Holding(op) == binds.op = op
NobodyOn == [s \in CamSlots |-> None]

\* resolvePass at the handshake, guestAdmissible under the lock: an invite that
\* is in force, for the live stream or before any is live.
Admissible(g) == status[g] = "joinable" /\ session \in {None, StreamOf[g]}

\* What the commands of the room leave on the cam slots.
BoundTo(s, g) ==
    [c \in CamSlots |-> IF c = s THEN g ELSE IF occ[c] = g THEN None ELSE occ[c]]
FreedOf(S) == [c \in CamSlots |-> IF occ[c] \in S THEN None ELSE occ[c]]
Resumed(s, g) ==
    IF g \in present /\ occ[s] \in {None, g} THEN BoundTo(s, g) ELSE occ
\* Mutant: a new occupant that is offline leaves the slot as it was.
ReboundOnly(s, g) == IF g \in present THEN BoundTo(s, g) ELSE occ
Rerouted(s, g) ==
    IF g \in present THEN BoundTo(s, g)
    ELSE [c \in CamSlots |-> IF c = s \/ occ[c] = g THEN None ELSE occ[c]]

Drained == room' = "draining" /\ present' = {}
Deregistered ==
    /\ room' = "absent" /\ present' = {} /\ occ' = NobodyOn
    /\ dialing' = {} /\ closers' = {}

-----------------------------------------------------------------------------
Init ==
    /\ session = None
    /\ status = [g \in Guests |-> "joinable"]
    /\ slotOf = [g \in Guests |-> None]
    /\ room = "absent" /\ present = {} /\ occ = NobodyOn
    /\ dialing = {} /\ binds = Free
    /\ reaper = "idle" /\ closers = {}
    /\ kicked = {} /\ left = {}

-----------------------------------------------------------------------------
(* Connections: ws.serve *)

\* The handshake, up to hub.Room, which spawns the room on first use.
Dial(p) ==
    /\ p \notin dialing
    /\ p \in Guests => Admissible(p)
    /\ dialing' = dialing \cup {p}
    /\ room' = IF room = "absent" THEN "open" ELSE room
    /\ UNCHANGED <<dbVars, present, occ, binds, reaper, closers, historyVars>>

\* The host joins without the lock; a draining room admits nobody.
HostJoins ==
    /\ Host \in dialing
    /\ dialing' = dialing \ {Host}
    /\ present' = IF room = "open" THEN present \cup {Host} ELSE present
    /\ UNCHANGED <<dbVars, room, occ, binds, reaper, closers, historyVars>>

\* A guest takes the lock and is checked again.
\* Mutant: it is not.
LockJoinUnchecked(g) ==
    /\ BindsFree /\ g \in dialing
    /\ binds' = Held("join", {g}, None)
    /\ UNCHANGED <<dbVars, roomVars, dialing, reaper, closers, historyVars>>
LockJoin(g) ==
    /\ BindsFree /\ g \in dialing
    /\ IF Admissible(g)
       THEN binds' = Held("join", {g}, None) /\ UNCHANGED dialing
       ELSE dialing' = dialing \ {g} /\ UNCHANGED binds
    /\ UNCHANGED <<dbVars, roomVars, reaper, closers, historyVars>>

\* A second connection of a guest takes over from the first.
JoinRoom(g) ==
    /\ Holding("join") /\ g \in binds.passes
    /\ dialing' = dialing \ {g}
    /\ IF g \in dialing /\ room = "open"
       THEN /\ present' = present \cup {g}
            /\ left' = left \ {g}
            /\ binds' = Held("replay", {g}, None)
       ELSE binds' = Free /\ UNCHANGED <<present, left>>
    /\ UNCHANGED <<dbVars, room, occ, reaper, closers, kicked>>

\* The persisted binding is resumed when the guest's stream is live; otherwise
\* what the guest still holds is given up.
Replay(g) ==
    /\ Holding("replay") /\ g \in binds.passes
    /\ occ' = IF slotOf[g] # None /\ session = StreamOf[g]
              THEN Resumed(slotOf[g], g) ELSE FreedOf({g})
    /\ binds' = Free
    /\ UNCHANGED <<dbVars, room, present, dialing, reaper, closers, historyVars>>

Leave(p) ==
    /\ p \in present
    /\ present' = present \ {p}
    /\ UNCHANGED <<dbVars, room, occ, dialing, binds, reaper, closers, historyVars>>

GraceExpires(s) ==
    /\ occ[s] # None /\ occ[s] \notin present
    /\ occ' = [occ EXCEPT ![s] = None]
    /\ UNCHANGED <<dbVars, room, present, dialing, binds, reaper, closers, historyVars>>

\* The kick revokes the pass and evicts its peer in one command of the room; a
\* failed write is only logged.
Kick(a, g) ==
    /\ a \in present /\ g \in present /\ a # g
    /\ \/ status' = [status EXCEPT ![g] = "revoked"] /\ kicked' = kicked \cup {g}
       \/ "revoke" \in Fails /\ UNCHANGED <<status, kicked>>
    /\ present' = present \ {g}
    /\ occ' = FreedOf({g})
    /\ UNCHANGED <<session, slotOf, room, dialing, binds, reaper, closers, left>>

-----------------------------------------------------------------------------
(* Invites and bindings *)

\* The deadline of an invite passes; whoever is connected stays.
Expire(g) ==
    /\ status[g] = "joinable"
    /\ status' = [status EXCEPT ![g] = "expired"]
    /\ UNCHANGED <<session, slotOf, roomVars, dialing, binds, reaper, closers, historyVars>>

RevokeInvite(g) ==
    /\ BindsFree
    /\ status' = [status EXCEPT ![g] = "revoked"]
    /\ binds' = Held("vacate", {g}, None)
    /\ UNCHANGED <<session, slotOf, roomVars, dialing, reaper, closers, historyVars>>

\* A fresh invite starts unbound.
ReissueInvite(g) ==
    /\ BindsFree
    /\ status' = [status EXCEPT ![g] = "joinable"]
    /\ slotOf' = [slotOf EXCEPT ![g] = None]
    /\ kicked' = kicked \ {g}
    /\ binds' = Held("vacate", {g}, None)
    /\ UNCHANGED <<session, roomVars, dialing, reaper, closers, left>>

\* The guest leaves for good: out of its slot, whatever its socket does.
PassLeave(g) ==
    /\ BindsFree
    /\ binds' = Held("vacate", {g}, None)
    /\ left' = left \cup {g}
    /\ UNCHANGED <<dbVars, roomVars, dialing, reaper, closers, kicked>>

Vacate ==
    /\ Holding("vacate")
    /\ occ' = FreedOf(binds.passes)
    /\ binds' = Free
    /\ UNCHANGED <<dbVars, room, present, dialing, reaper, closers, historyVars>>

\* AssignPassSlot: the slot is cleared from every other row of the stream.
Assigned(g, s) ==
    [h \in Guests |->
        CASE h = g -> s
          [] h # g /\ s # None /\ slotOf[h] = s /\ StreamOf[h] = StreamOf[g] -> None
          [] OTHER -> slotOf[h]]

\* putPassSlot: the row first, displacing whoever the stream had on the slot; the
\* room follows when the stream is live.
PutPassSlot(g, s) ==
    /\ BindsFree
    /\ s # None => status[g] = "joinable"
    /\ slotOf' = Assigned(g, s)
    /\ binds' = IF session # StreamOf[g] THEN Free
                ELSE IF s = None THEN Held("vacate", {g}, None)
                ELSE Held("route", {g}, s)
    /\ UNCHANGED <<session, status, roomVars, dialing, reaper, closers, historyVars>>

Route(g) ==
    /\ Holding("route") /\ g \in binds.passes
    /\ occ' = Rerouted(binds.arg, g)
    /\ binds' = Free
    /\ UNCHANGED <<dbVars, room, present, dialing, reaper, closers, historyVars>>

-----------------------------------------------------------------------------
(* Going live and ending *)

GoLive(S) ==
    /\ BindsFree /\ session = None
    /\ session' = S
    /\ binds' = Held("evict", {}, S)
    /\ UNCHANGED <<status, slotOf, roomVars, dialing, reaper, closers, historyVars>>

\* Who must not be in the room of S: the guests of other streams and those whose invite
\* is no longer good.
Retired(S) == {g \in Guests : StreamOf[g] = S /\ status[g] # "joinable"}
OtherStreamPasses(S) == {g \in Guests : StreamOf[g] # S}
Stragglers(S) == OtherStreamPasses(S) \cup Retired(S)
\* Who is to be bound when S goes live.
BoundPasses(S) ==
    {g \in Guests : StreamOf[g] = S /\ status[g] = "joinable" /\ slotOf[g] # None}

\* The stragglers go, then the persisted bindings are read for the replay; when
\* the passes cannot be listed the session is rolled back.
EvictStragglers ==
    /\ Holding("evict")
    /\ \/ /\ present' = present \ Stragglers(binds.arg)
          /\ occ' = FreedOf(Stragglers(binds.arg))
          /\ \/ binds' = Held("resume", BoundPasses(binds.arg), binds.arg)
             \/ "replay" \in Fails /\ binds' = Free
       \/ /\ "list" \in Fails
          /\ binds' = Held("rollback", {}, binds.arg)
          /\ UNCHANGED <<present, occ>>
    /\ UNCHANGED <<dbVars, room, dialing, reaper, closers, historyVars>>

\* The error of the rollback itself is dropped.
Rollback ==
    /\ Holding("rollback")
    /\ \/ session' = None
       \/ "rollback" \in Fails /\ UNCHANGED session
    /\ binds' = Free
    /\ UNCHANGED <<status, slotOf, roomVars, dialing, reaper, closers, historyVars>>

\* One binding of the replay, in whatever order the rows came.
ResumeBinding(g) ==
    /\ Holding("resume") /\ g \in binds.passes
    /\ occ' = Resumed(slotOf[g], g)
    /\ binds' = Held("resume", binds.passes \ {g}, binds.arg)
    /\ UNCHANGED <<dbVars, room, present, dialing, reaper, closers, historyVars>>

WentLive ==
    /\ Holding("resume") /\ binds.passes = {}
    /\ binds' = Free
    /\ UNCHANGED <<dbVars, roomVars, dialing, reaper, closers, historyVars>>

EndSession(S) ==
    /\ BindsFree /\ session = S
    /\ session' = None
    /\ binds' = Held("terminate", {}, None)
    /\ UNCHANGED <<status, slotOf, roomVars, dialing, reaper, closers, historyVars>>

\* An admin suspends the host, live or not.
ForceEndLive ==
    /\ BindsFree
    /\ session' = None
    /\ binds' = Held("terminate", {}, None)
    /\ UNCHANGED <<status, slotOf, roomVars, dialing, reaper, closers, historyVars>>

\* The room is drained while it is still registered, then closed and dropped.
Terminate ==
    /\ Holding("terminate")
    /\ IF room = "absent"
       THEN binds' = Free /\ UNCHANGED <<room, present, closers>>
       ELSE /\ Drained
            /\ binds' = Held("deregister", {}, None)
            /\ closers' = closers \cup {"handler"}
    /\ UNCHANGED <<dbVars, occ, dialing, reaper, historyVars>>

Deregister ==
    /\ Holding("deregister")
    /\ binds' = Free
    /\ IF "handler" \in closers THEN Deregistered
       ELSE UNCHANGED <<roomVars, dialing, closers>>
    /\ UNCHANGED <<dbVars, reaper, historyVars>>

-----------------------------------------------------------------------------
(* The idle-session reaper *)

\* The sweep finds an active session with no participants, idle for long enough.
ReapPick ==
    /\ reaper = "idle"
    /\ session # None /\ present = {}
    /\ reaper' = "picked"
    /\ UNCHANGED <<dbVars, roomVars, dialing, binds, closers, historyVars>>

\* ReapIfIdle: the room, spawned if there is none, is drained unless somebody is
\* connected to it.  A room that is already closed answers for itself.
\* Mutant: without a room there is nothing to reap.
ReapTerminateRoomOnly ==
    /\ reaper = "picked"
    /\ IF room # "absent" /\ present = {}
       THEN /\ Drained
            /\ reaper' = "ending"
            /\ closers' = closers \cup {"reaper"}
       ELSE reaper' = "idle" /\ UNCHANGED <<room, present, closers>>
    /\ UNCHANGED <<dbVars, occ, dialing, binds, historyVars>>
ReapTerminate ==
    /\ reaper = "picked"
    /\ \/ /\ present = {}
          /\ Drained
          /\ reaper' = "ending"
          /\ closers' = closers \cup {"reaper"}
       \/ /\ present # {} \/ "handler" \in closers
          /\ reaper' = "idle"
          /\ UNCHANGED <<room, present, closers>>
    /\ UNCHANGED <<dbVars, occ, dialing, binds, historyVars>>

\* onReaped: whatever session the host has now.
ReapEnd ==
    /\ reaper = "ending"
    /\ reaper' = "closing"
    /\ \/ session' = None
       \/ "reap" \in Fails /\ UNCHANGED session
    /\ UNCHANGED <<status, slotOf, roomVars, dialing, binds, closers, historyVars>>

\* Mutant: the closed room stays registered.
ReapLeavesRoom ==
    /\ reaper = "closing"
    /\ reaper' = "idle"
    /\ UNCHANGED <<dbVars, roomVars, dialing, closers, binds, historyVars>>
ReapClose ==
    /\ reaper = "closing"
    /\ reaper' = "idle"
    /\ IF "reaper" \in closers THEN Deregistered
       ELSE UNCHANGED <<roomVars, dialing, closers>>
    /\ UNCHANGED <<dbVars, binds, historyVars>>

-----------------------------------------------------------------------------
\* The process stops and starts again: the database is all there is.
Restart ==
    /\ room' = "absent" /\ present' = {} /\ occ' = NobodyOn
    /\ dialing' = {} /\ binds' = Free
    /\ reaper' = "idle" /\ closers' = {}
    /\ left' = {}
    /\ UNCHANGED <<dbVars, kicked>>

Connecting ==
    \/ \E p \in Participants : Dial(p) \/ Leave(p)
    \/ HostJoins
    \/ \E g \in Guests : LockJoin(g)
    \/ \E s \in CamSlots : GraceExpires(s)

Invites ==
    \/ \E g \in Guests : Expire(g) \/ RevokeInvite(g) \/ ReissueInvite(g) \/ PassLeave(g)
    \/ \E a \in Participants, g \in Guests : Kick(a, g)
    \/ \E g \in Guests, s \in CamSlots \cup {None} : PutPassSlot(g, s)

Sessions == \E S \in Streams : GoLive(S) \/ EndSession(S)

\* What the holder of the lock does next.
HolderStep ==
    \/ \E g \in Guests : JoinRoom(g) \/ Replay(g) \/ Route(g) \/ ResumeBinding(g)
    \/ Vacate \/ EvictStragglers \/ Rollback \/ WentLive \/ Terminate \/ Deregister

Reaper == ReapPick \/ ReapTerminate \/ ReapEnd \/ ReapClose

Next ==
    \/ Connecting \/ Invites \/ Sessions \/ ForceEndLive
    \/ HolderStep \/ Reaper \/ Restart

Spec == Init /\ [][Next]_vars

\* The handlers and everybody else, without the reaper.
HandlersNext ==
    Connecting \/ Invites \/ Sessions \/ ForceEndLive \/ HolderStep \/ Restart
HandlersSpec == Init /\ [][HandlersNext]_vars

\* A handler that has the lock runs to its end; the reaper sweeps on a ticker, and
\* the end of the session it asks for anew after every failure succeeds at last.
Fairness ==
    /\ WF_vars(HolderStep)
    /\ WF_vars(ReapPick) /\ WF_vars(ReapTerminate)
    /\ WF_vars(ReapEnd) /\ WF_vars(ReapClose)
    /\ SF_vars(ReapEnd /\ session' = None)

\* What the holder of the lock is about to do, and to whom.
Single == {{g} : g \in Guests}
Tasks ==
    {Free}
    \cup [op : {"join", "replay", "vacate"}, passes : Single, arg : {None}]
    \cup [op : {"route"}, passes : Single, arg : CamSlots]
    \cup [op : {"evict", "rollback"}, passes : {{}}, arg : Streams]
    \cup [op : {"resume"}, passes : SUBSET Guests, arg : Streams]
    \cup [op : {"terminate", "deregister"}, passes : {{}}, arg : {None}]

TypeOK ==
    /\ session \in Streams \cup {None}
    /\ status \in [Guests -> {"joinable", "expired", "revoked"}]
    /\ slotOf \in [Guests -> CamSlots \cup {None}]
    /\ room \in {"absent", "open", "draining"}
    /\ present \subseteq Participants /\ dialing \subseteq Participants
    /\ occ \in [CamSlots -> Guests \cup {None}]
    /\ binds \in Tasks
    /\ reaper \in {"idle", "picked", "ending", "closing"}
    /\ closers \subseteq {"handler", "reaper"}
    /\ kicked \subseteq Guests /\ left \subseteq Guests

-----------------------------------------------------------------------------
(* Properties *)

\* EN-2: once goLive is through with a stream, only that stream's guests are in
\* the room, however their joins interleave with it; goLive without its pass lists
\* does not go live, as long as it can take the session back.
OnlyLiveStream ==
    "rollback" \notin Fails /\ session # None /\ ~Holding("evict") /\ ~Holding("rollback") =>
        \A g \in present \cap Guests : StreamOf[g] = session

\* D-20: between the handlers of a host, the cam slot a connected guest is live on
\* is the one its pass is bound to, and a guest of the live stream whose pass is
\* bound is live on that slot, unless it gave the slot up.
LiveMatchesBindings ==
    Fails \cap {"replay", "rollback"} = {} /\ BindsFree /\ session # None /\ room = "open" =>
        \A g \in present \cap Guests, s \in CamSlots :
            /\ occ[s] = g => slotOf[g] = s
            /\ slotOf[g] = s /\ status[g] = "joinable" /\ g \notin left => occ[s] = g

\* A teardown always gets to the end: the room that refuses every connection is
\* deregistered, so the host and the guests can come back.
DrainEnds == room = "draining" ~> room # "draining"

\* D-40: a session that everybody has abandoned ends.
AbandonedEnds == session # None ~> session = None \/ present # {}

\* RF-22: the peer of a pass that a kick revoked is not in the room.
KickedStaysOut == kicked \cap present = {}

\* D-40: between the check that a session is idle and its end nobody is connected
\* to the host's session.
ReapedIsIdle == reaper = "ending" /\ session # None => present = {}
===============================================================================
