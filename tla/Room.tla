--------------------------------- MODULE Room ---------------------------------
(***************************************************************************)
(* The room actor of one host's live session (internal/signaling): a       *)
(* single goroutine that owns the peers, the slot bindings, the            *)
(* suppression locks and the screenshare preview pool.  Every command      *)
(* posted to the actor is one action; commands of different connections,   *)
(* of the HTTP handlers and of the grace timers interleave freely.         *)
(*                                                                         *)
(* Left out: names, meters, health statistics, chat, media signalling and  *)
(* the broadcast-level streaming flag, none of which the state below       *)
(* depends on.                                                             *)
(***************************************************************************)
EXTENDS Integers, FiniteSets

CONSTANTS
    Host,           \* the peer id of the host's greenroom connection
    Guests,         \* pass ids: guests and co-hosts
    CredentialRole, \* the role a pass carries, "guest" or "cohost"
    CamSlots,       \* the camera slots cam-1, cam-2, ...
    HostSlot,       \* the slot of the host's own camera
    ScreenSlot,     \* the screenshare slot
    SourceOf,       \* the peer id of each slot's OBS source page
    Modalities,     \* what a lock can suppress: mic, cam, share
    None,           \* no peer: the empty peer id
    StoreFails,     \* TRUE when a write to pass_locks may fail
    MaxEpoch,       \* bound on the binding changes of one slot
    MaxGrace,       \* bound on the disconnections held by one slot
    MaxReports      \* bound on program reports in flight

Slots == CamSlots \cup {HostSlot, ScreenSlot}
People == Guests \cup {Host}
Sources == {SourceOf[s] : s \in Slots}
Peers == People \cup Sources

ASSUME NamesAssumption ==
    /\ Host \notin Guests
    /\ None \notin Peers
    /\ SourceOf \in [Slots -> Sources]
    /\ \A s, t \in Slots : SourceOf[s] = SourceOf[t] => s = t
    /\ People \cap Sources = {}
    /\ HostSlot \notin CamSlots /\ ScreenSlot \notin CamSlots
    /\ HostSlot # ScreenSlot

ASSUME RolesAssumption ==
    /\ CredentialRole \in [Guests -> {"guest", "cohost"}]
    /\ Modalities \subseteq {"mic", "cam", "share"} /\ "share" \in Modalities
    /\ StoreFails \in BOOLEAN

ASSUME BoundsAssumption == MaxEpoch \in Nat /\ MaxGrace \in Nat /\ MaxReports \in Nat

VARIABLES
    role,        \* peers: the current role of a peer, "none" when not in the room
    live,        \* the modalities each peer presents as on
    hand,        \* the peers with a raised hand
    canScreen,   \* the peers afforded a screenshare
    slots,       \* slot label -> binding
    timers,      \* grace expiries armed and not yet run
    reports,     \* program reports sent by source pages, not yet run
    locks,       \* target -> modality -> rank floor, 0 when not locked
    durable,     \* the pass_locks table, in the shape of locks
    previews,    \* screenPreviews: the peers sharing a screen
    terminating  \* the room is draining

peerVars == <<role, live, hand, canScreen>>
slotVars == <<slots, timers, reports>>
lockVars == <<locks, durable>>
vars == <<peerVars, slotVars, lockVars, previews, terminating>>

Unknown == "status-unavailable"
OnAirStates == {"on-air", "not-on-air", Unknown}
Unlocked == 0
Floors == {Unlocked, 1, 2}
Origins == {"attached", "displaced", "evicted"}

SlotStates == [occupant : Peers \cup {None}, source : Sources \cup {None},
               epoch : Nat, onAir : OnAirStates, disconnected : BOOLEAN,
               graceGen : Nat]
Timers == [slot : CamSlots, occupant : Peers, gen : Nat]
\* What a source page says of the binding it was told; origin is what has become
\* of the connection the report came in on.
Reports == [slot : Slots, occupant : Peers, epoch : Nat, active : BOOLEAN,
            origin : Origins]

-----------------------------------------------------------------------------
(* Helpers *)

InRoom(p) == role[p] # "none"
IsParticipant(p) == role[p] \in {"host", "cohost", "guest"}
Rank(p) == CASE role[p] = "host" -> 2
             [] role[p] = "cohost" -> 1
             [] role[p] = "guest" -> 0
             [] OTHER -> -1
Above(a, t) == IsParticipant(a) /\ IsParticipant(t) /\ Rank(a) > Rank(t)
Locked(p, m) == locks[p][m] # Unlocked
LiveSharer == slots[ScreenSlot].occupant

\* Mutant: a binding changes hands under the epoch it had.
BoundSameEpoch(st, p) ==
    [st EXCEPT !.occupant = p, !.onAir = Unknown, !.disconnected = FALSE]
Bound(st, p) ==
    [occupant |-> p, source |-> st.source, epoch |-> st.epoch + 1,
     onAir |-> Unknown, disconnected |-> FALSE, graceGen |-> st.graceGen]
Vacated(st) == Bound(st, None)

\* One cam slot per occupant: binding a cam slot vacates the others p holds.
OtherCamSlots(sid, p) ==
    IF sid \in CamSlots
    THEN {s \in CamSlots \ {sid} : slots[s].occupant = p} ELSE {}

Rebound(sid, p) ==
    [s \in Slots |-> CASE s = sid -> Bound(slots[s], p)
                       [] s \in OtherCamSlots(sid, p) -> Vacated(slots[s])
                       [] OTHER -> slots[s]]
VacatedAll(S) == [s \in Slots |-> IF s \in S THEN Vacated(slots[s]) ELSE slots[s]]

\* A page that replaces its own live connection bumps the epoch, so that what
\* the displaced connection still reports is recognised as stale.
\* Mutant: it does not.
AttachedSameEpoch(st, p) == [st EXCEPT !.source = p, !.onAir = Unknown]
Attached(st, p) ==
    [occupant |-> st.occupant, source |-> p,
     epoch |-> IF st.source # None THEN st.epoch + 1 ELSE st.epoch,
     onAir |-> Unknown, disconnected |-> st.disconnected, graceGen |-> st.graceGen]

\* Binding changes stay within MaxEpoch; grace expiries are not bounded by it.
SetSlots(new) == /\ \A s \in Slots : new[s].epoch <= MaxEpoch
                 /\ slots' = new

\* leave: what the departure of the peers S does to one slot.  A transient drop
\* holds a cam slot for its occupant; everything else vacates it.
Freed(st, S) ==
    IF st.source \in S THEN [st EXCEPT !.source = None, !.onAir = Unknown] ELSE st
Held(st) ==
    [occupant |-> st.occupant, source |-> st.source, epoch |-> st.epoch,
     onAir |-> Unknown, disconnected |-> TRUE, graceGen |-> st.graceGen + 1]
Left(s, S, terminal) ==
    LET freed == Freed(slots[s], S)
    IN  IF slots[s].occupant \notin S THEN freed
        ELSE IF s \in CamSlots /\ ~terminal THEN Held(freed) ELSE Vacated(freed)

Remove(S) ==
    /\ role' = [p \in Peers |-> IF p \in S THEN "none" ELSE role[p]]
    /\ live' = [p \in Peers |-> IF p \in S THEN {} ELSE live[p]]
    /\ hand' = hand \ S
    /\ canScreen' = canScreen \ S
    /\ previews' = previews \ S

\* A socket that closed delivers nothing more; one that is being evicted is still
\* read until it closes.
LeftReports(S, terminal) ==
    LET left == {r \in reports : SourceOf[r.slot] \in S /\ r.origin = "attached"}
    IN  IF terminal THEN (reports \ left) \cup {[r EXCEPT !.origin = "evicted"] : r \in left}
        ELSE reports \ left

\* The expiries a transient drop of p arms, for the disconnections recorded in new.
Armed(p, new) ==
    {[slot |-> s, occupant |-> p, gen |-> new[s].graceGen] :
        s \in {c \in CamSlots : new[c].occupant = p /\ new[c].disconnected}}

Depart(S, terminal) ==
    /\ Remove(S)
    /\ SetSlots([s \in Slots |-> Left(s, S, terminal)])
    /\ reports' = LeftReports(S, terminal)
    /\ UNCHANGED <<lockVars, terminating>>

\* persistLock: one row of pass_locks; a failed write is only logged.  Only
\* passes have rows.
\* Mutant: a released lock keeps its row.
PersistSavesOnly(t, m, floor) ==
    IF t \in Guests /\ floor # Unlocked
    THEN durable' = [durable EXCEPT ![t][m] = floor] ELSE UNCHANGED durable
Persist(t, m, floor) ==
    \/ /\ t \in Guests
       /\ durable' = [durable EXCEPT ![t][m] = floor]
    \/ /\ StoreFails \/ t \notin Guests
       /\ UNCHANGED durable

SetLock(t, m, floor) ==
    /\ locks' = [locks EXCEPT ![t][m] = floor]
    /\ Persist(t, m, floor)

\* pullFromShare: out of the preview pool, and off the screen slot when live.
\* Mutant: the live share stays on the screen slot.
PullFromPoolOnly(p) == previews' = previews \ {p} /\ UNCHANGED slots
PullFromShare(p) ==
    /\ previews' = previews \ {p}
    /\ SetSlots(VacatedAll({s \in {ScreenSlot} : slots[s].occupant = p}))

-----------------------------------------------------------------------------
NoLocks == [p \in Peers |-> [m \in Modalities |-> Unlocked]]
FreshSlot == [occupant |-> None, source |-> None, epoch |-> 0,
              onAir |-> Unknown, disconnected |-> FALSE, graceGen |-> 0]

Init ==
    /\ role = [p \in Peers |-> "none"]
    /\ live = [p \in Peers |-> {}]
    /\ hand = {} /\ canScreen = {} /\ previews = {}
    /\ slots = [s \in Slots |-> FreshSlot]
    /\ timers = {} /\ reports = {}
    /\ locks = NoLocks /\ durable = NoLocks
    /\ terminating = FALSE

-----------------------------------------------------------------------------
(* Connections *)

\* A rejoin over a live connection keeps presence and hand, and starts again
\* with the role of the credential and no screenshare eligibility.
Join(p) ==
    /\ ~terminating
    /\ role' = [role EXCEPT ![p] = IF p = Host THEN "host" ELSE CredentialRole[p]]
    /\ canScreen' = canScreen \ {p}
    /\ UNCHANGED <<live, hand, slotVars, lockVars, previews, terminating>>

\* A source page connects, and with that attaches to its slot; what its previous
\* connection sent may still be read.
JoinSource(s) ==
    /\ ~terminating
    /\ role' = [role EXCEPT ![SourceOf[s]] = "obs"]
    /\ canScreen' = canScreen \ {SourceOf[s]}
    /\ SetSlots([slots EXCEPT ![s] = Attached(@, SourceOf[s])])
    /\ reports' = {IF r.slot = s /\ r.origin = "attached"
                   THEN [r EXCEPT !.origin = "displaced"] ELSE r : r \in reports}
    /\ UNCHANGED <<live, hand, timers, lockVars, previews, terminating>>

\* The socket of the current connection closed: an expiry is armed for each cam
\* slot held for the peer.
Leave(p) ==
    /\ InRoom(p) /\ ~terminating
    /\ \A s \in CamSlots : slots[s].occupant = p => slots[s].graceGen < MaxGrace
    /\ Depart({p}, FALSE)
    /\ timers' = timers \cup Armed(p, slots')

Kick(a, t) ==
    /\ Above(a, t)
    /\ Depart({t}, TRUE)
    /\ UNCHANGED timers

\* Passes that are gone leave at once, connected or held by a grace window.
EvictPeers(S) ==
    /\ Depart(S, TRUE)
    /\ UNCHANGED timers

\* The page of a rotated token is told to stop; until its socket closes, what it
\* has sent is still read.
RotateSource(s) ==
    LET p == SourceOf[s]
    IN  /\ InRoom(p) /\ ~IsParticipant(p)
        /\ Depart({p}, TRUE)
        /\ UNCHANGED timers

\* terminateWith: the connections are closed and nobody joins any more.
Terminate ==
    /\ ~terminating
    /\ terminating' = TRUE
    /\ UNCHANGED <<peerVars, slotVars, lockVars, previews>>

\* The actor stops (the session ended, or the process crashed) and a new one is
\* spawned for the host: nothing but pass_locks survives.
Respawn ==
    /\ role' = [p \in Peers |-> "none"]
    /\ live' = [p \in Peers |-> {}]
    /\ hand' = {} /\ canScreen' = {} /\ previews' = {}
    /\ slots' = [s \in Slots |-> FreshSlot]
    /\ timers' = {} /\ reports' = {}
    /\ terminating' = FALSE
    /\ \/ locks' = durable
       \/ StoreFails /\ locks' = NoLocks
    /\ UNCHANGED durable

-----------------------------------------------------------------------------
(* Slot bindings *)

UnchangedByBinding == UNCHANGED <<peerVars, timers, reports, lockVars, previews, terminating>>

Rebind(sid, p) ==
    /\ sid # ScreenSlot /\ InRoom(p)
    /\ SetSlots(Rebound(sid, p))
    /\ UnchangedByBinding

\* Replay of a persisted binding: it resumes, it never displaces.
ResumeBind(sid, p) ==
    /\ sid # ScreenSlot /\ InRoom(p)
    /\ slots[sid].occupant \in {None, p}
    /\ SetSlots(Rebound(sid, p))
    /\ UnchangedByBinding

\* The new occupant is offline: the slot, and what the occupant still holds, go
\* to the placeholder.
\* Mutant: it is bound all the same.
RebindOffline(sid, p) ==
    /\ sid # ScreenSlot
    /\ SetSlots(Rebound(sid, p))
    /\ UnchangedByBinding
RebindOrVacate(sid, p) ==
    /\ sid # ScreenSlot
    /\ SetSlots(IF InRoom(p) THEN Rebound(sid, p)
                ELSE VacatedAll({sid} \cup OtherCamSlots(sid, p)))
    /\ UnchangedByBinding

VacateOccupant(p) ==
    LET held == {s \in CamSlots : slots[s].occupant = p}
    IN  /\ held # {}
        /\ SetSlots(VacatedAll(held))
        /\ UnchangedByBinding

Unbind(sid) ==
    /\ sid # ScreenSlot
    /\ SetSlots(VacatedAll({sid}))
    /\ UnchangedByBinding

SetHostMedia(active) ==
    /\ role[Host] = "host"
    /\ IF active THEN slots[HostSlot].occupant # Host ELSE slots[HostSlot].occupant # None
    /\ SetSlots(IF active THEN Rebound(HostSlot, Host) ELSE VacatedAll({HostSlot}))
    /\ UnchangedByBinding

\* A grace timer fires; it acts only on the disconnection it was armed for, and
\* not when the occupant is back.
\* Mutant: whether or not the occupant is back.
DueIfHeld(t) ==
    LET st == slots[t.slot]
    IN  st.occupant = t.occupant /\ st.disconnected /\ st.graceGen = t.gen
\* Mutant: it waits for a page to tell.
DueWhenSourced(t) ==
    LET st == slots[t.slot]
    IN  /\ st.occupant = t.occupant /\ st.disconnected /\ st.graceGen = t.gen
        /\ ~InRoom(t.occupant) /\ st.source # None
Due(t) ==
    LET st == slots[t.slot]
    IN  /\ st.occupant = t.occupant /\ st.disconnected /\ st.graceGen = t.gen
        /\ ~InRoom(t.occupant)

ExpireGrace(t) ==
    /\ timers' = timers \ {t}
    /\ slots' = IF Due(t) THEN VacatedAll({t.slot}) ELSE slots
    /\ UNCHANGED <<peerVars, reports, lockVars, previews, terminating>>

-----------------------------------------------------------------------------
(* On-air reports of the source pages *)

\* An attached page reports on the binding it holds, in the order of its socket.
CanReport(s) ==
    /\ slots[s].source # None /\ slots[s].occupant # None
    /\ ~\E r \in reports : r.slot = s /\ r.origin = "attached"

SourceReports(s, active) ==
    /\ CanReport(s)
    /\ Cardinality(reports) < MaxReports
    /\ reports' = reports \cup
          {[slot |-> s, occupant |-> slots[s].occupant, epoch |-> slots[s].epoch,
            active |-> active, origin |-> "attached"]}
    /\ UNCHANGED <<peerVars, slots, timers, lockVars, previews, terminating>>

\* The epoch gate.
\* Mutant: it lets a report in on a slot that is only held.
CredibleWhileHeld(r) == r.epoch = slots[r.slot].epoch
Credible(r) == r.epoch = slots[r.slot].epoch /\ ~slots[r.slot].disconnected

ObsActive(r) ==
    /\ reports' = reports \ {r}
    /\ slots' = IF Credible(r)
                THEN [slots EXCEPT ![r.slot].onAir =
                         IF r.active THEN "on-air" ELSE "not-on-air"]
                ELSE slots
    /\ UNCHANGED <<peerVars, timers, lockVars, previews, terminating>>

\* The socket of a displaced or evicted page closes before a report is read.
ReportLost(r) ==
    /\ r.origin # "attached"
    /\ reports' = reports \ {r}
    /\ UNCHANGED <<peerVars, slots, timers, lockVars, previews, terminating>>

-----------------------------------------------------------------------------
(* Presence, hands and moderation *)

\* A modality that is locked cannot be switched on by its owner.
\* Mutant: it can.
ApplyAnyState(p, on, off) ==
    /\ IsParticipant(p)
    /\ live' = [live EXCEPT ![p] = (@ \ off) \cup on]
    /\ UNCHANGED <<role, hand, canScreen, slotVars, lockVars, previews, terminating>>
ApplyState(p, on, off) ==
    /\ IsParticipant(p)
    /\ live' = [live EXCEPT ![p] = (@ \ off) \cup {m \in on : ~Locked(p, m)}]
    /\ UNCHANGED <<role, hand, canScreen, slotVars, lockVars, previews, terminating>>

SetHand(p, raised) ==
    /\ IsParticipant(p)
    /\ hand' = IF raised THEN hand \cup {p} ELSE hand \ {p}
    /\ UNCHANGED <<role, live, canScreen, slotVars, lockVars, previews, terminating>>

DismissHand(t) ==
    /\ role[Host] = "host" /\ IsParticipant(t)
    /\ hand' = hand \ {t}
    /\ UNCHANGED <<role, live, canScreen, slotVars, lockVars, previews, terminating>>

\* Mutant: a lock in force is replaced whatever its floor.
CanForceAnyFloor(a, t, m) == Above(a, t)
CanForce(a, t, m) == Above(a, t) /\ Rank(a) > locks[t][m]

ForceOff(a, t, m) ==
    /\ CanForce(a, t, m)
    /\ SetLock(t, m, Rank(a))
    /\ live' = [live EXCEPT ![t] = @ \ {m}]
    /\ IF m = "share" THEN PullFromShare(t) ELSE UNCHANGED <<slots, previews>>
    /\ UNCHANGED <<role, hand, canScreen, timers, reports, terminating>>

\* The target may be offline; it never releases itself.
Release(a, t, m) ==
    /\ InRoom(a) /\ a # t
    /\ Locked(t, m) /\ Rank(a) >= locks[t][m]
    /\ SetLock(t, m, Unlocked)
    /\ UNCHANGED <<peerVars, slotVars, previews, terminating>>

SetRole(t, newRole) ==
    /\ role[Host] = "host"
    /\ InRoom(t) /\ Rank(t) < 2 /\ role[t] # newRole
    /\ role' = [role EXCEPT ![t] = newRole]
    /\ hand' = hand \ {t}
    /\ UNCHANGED <<live, canScreen, slotVars, lockVars, previews, terminating>>

-----------------------------------------------------------------------------
(* Screenshare *)

\* The seed of a join: eligibility only.
SetScreenEligible(p) ==
    /\ InRoom(p)
    /\ canScreen' = canScreen \cup {p}
    /\ UNCHANGED <<role, live, hand, slotVars, lockVars, previews, terminating>>

\* The host grants: a share lock at the host's own floor goes.
HostShareLock(p) == locks[p]["share"] = 2

GrantScreen(p) ==
    /\ InRoom(p)
    /\ canScreen' = canScreen \cup {p}
    /\ IF HostShareLock(p) THEN SetLock(p, "share", Unlocked) ELSE UNCHANGED lockVars
    /\ UNCHANGED <<role, live, hand, slotVars, previews, terminating>>

\* The host revokes: a share lock is set unless moderation set one already, and
\* a share in progress is pulled.
RevokeScreen(p) ==
    /\ InRoom(p)
    /\ canScreen' = canScreen \ {p}
    /\ IF Locked(p, "share")
       THEN UNCHANGED <<lockVars, live>>
       ELSE /\ SetLock(p, "share", 2)
            /\ live' = [live EXCEPT ![p] = @ \ {"share"}]
    /\ PullFromShare(p)
    /\ UNCHANGED <<role, hand, timers, reports, terminating>>

ScreenStart(p) ==
    /\ IsParticipant(p) /\ p \in canScreen /\ ~Locked(p, "share")
    /\ previews' = previews \cup {p}
    /\ UNCHANGED <<peerVars, slotVars, lockVars, terminating>>

ScreenStop(p) ==
    /\ p \in previews \/ LiveSharer = p
    /\ PullFromShare(p)
    /\ UNCHANGED <<peerVars, timers, reports, lockVars, terminating>>

\* The host puts one sharer of the pool live; nobody follows when it goes.
ScreenSelect(p) ==
    /\ role[Host] = "host"
    /\ p \in previews /\ LiveSharer # p
    /\ SetSlots(Rebound(ScreenSlot, p))
    /\ UnchangedByBinding

ScreenClear ==
    /\ role[Host] = "host" /\ LiveSharer # None
    /\ SetSlots(VacatedAll({ScreenSlot}))
    /\ UnchangedByBinding

-----------------------------------------------------------------------------
Connections ==
    \/ \E p \in People : Join(p)
    \/ \E s \in Slots : JoinSource(s)
    \/ \E p \in Peers : Leave(p)
    \/ \E s \in Slots : RotateSource(s)
    \/ \E S \in SUBSET Guests : EvictPeers(S)
    \/ Terminate
    \/ Respawn

Bindings ==
    \/ \E s \in Slots, p \in Peers : Rebind(s, p)
    \/ \E s \in CamSlots, p \in Guests : ResumeBind(s, p)
    \/ \E s \in CamSlots, p \in Guests : RebindOrVacate(s, p)
    \/ \E p \in Guests : VacateOccupant(p)
    \/ \E s \in Slots : Unbind(s)
    \/ \E active \in BOOLEAN : SetHostMedia(active)
    \/ \E t \in timers : ExpireGrace(t)

Program ==
    \/ \E s \in Slots, active \in BOOLEAN : SourceReports(s, active)
    \/ \E r \in reports : ObsActive(r)
    \/ \E r \in reports : ReportLost(r)

Moderation ==
    \/ \E p \in People, on, off \in SUBSET Modalities :
          on \cap off = {} /\ ApplyState(p, on, off)
    \/ \E p \in People, raised \in BOOLEAN : SetHand(p, raised)
    \/ \E t \in Peers : DismissHand(t)
    \/ \E a \in People, t \in Peers : Kick(a, t)
    \/ \E a \in People, t \in Peers, m \in Modalities : ForceOff(a, t, m)
    \/ \E a \in People, t \in Peers, m \in Modalities : Release(a, t, m)
    \/ \E t \in Peers, r \in {"cohost", "guest"} : SetRole(t, r)

Screenshare ==
    \/ \E p \in Guests : SetScreenEligible(p) \/ GrantScreen(p) \/ RevokeScreen(p)
    \/ \E p \in People : ScreenStart(p) \/ ScreenStop(p) \/ ScreenSelect(p)
    \/ ScreenClear

Next == Connections \/ Bindings \/ Program \/ Moderation \/ Screenshare

Spec == Init /\ [][Next]_vars

\* time.AfterFunc runs every armed timer and the actor reads every posted command.
Fairness == \A s \in CamSlots : WF_vars(\E t \in timers : t.slot = s /\ ExpireGrace(t))

TypeOK ==
    /\ role \in [Peers -> {"none", "host", "cohost", "guest", "obs"}]
    /\ live \in [Peers -> SUBSET Modalities]
    /\ hand \subseteq Peers /\ canScreen \subseteq Peers /\ previews \subseteq Peers
    /\ slots \in [Slots -> SlotStates]
    /\ timers \subseteq Timers
    /\ reports \subseteq Reports
    /\ locks \in [Peers -> [Modalities -> Floors]]
    /\ durable \in [Peers -> [Modalities -> Floors]]
    /\ terminating \in BOOLEAN

-----------------------------------------------------------------------------
(* Properties *)

\* D-20: however moves, replays, drops and rejoins interleave, a guest is never
\* live in two camera sources.
OneCamPerOccupant ==
    \A s, t \in CamSlots :
        slots[s].occupant = slots[t].occupant /\ s # t => slots[s].occupant = None

\* EN-3: a slot is bound to a peer of the room or is held, marked disconnected,
\* for one that dropped; only a bound cam slot is held.
BoundToPresentOrHeld ==
    \A s \in Slots :
        /\ slots[s].occupant # None =>
              InRoom(slots[s].occupant) \/ slots[s].disconnected
        /\ slots[s].disconnected => s \in CamSlots /\ slots[s].occupant # None

\* D-40: a slot held for an absent peer has the expiry of this very disconnection
\* armed, so the hold ends.
HoldHasExpiry ==
    \A s \in CamSlots :
        slots[s].disconnected /\ ~InRoom(slots[s].occupant) =>
            [slot |-> s, occupant |-> slots[s].occupant, gen |-> slots[s].graceGen]
                \in timers

\* D-40: a guest that dropped and stays away does not keep its slot.
HoldEnds ==
    \A s \in CamSlots :
        slots[s].disconnected ~> ~slots[s].disconnected \/ InRoom(slots[s].occupant)

\* D-24: on-air is asserted only for a slot with a connected occupant.
OnAirHasOccupant ==
    \A s \in Slots :
        slots[s].onAir # Unknown =>
            /\ slots[s].occupant # None /\ InRoom(slots[s].occupant)
            /\ ~slots[s].disconnected

\* EN-3: a report that the epoch gate would let through is about the peer that
\* occupies the slot now, and did not come in on a connection the page replaced.
CurrentEpochNamesOccupant ==
    \A r \in reports :
        /\ r.epoch <= slots[r.slot].epoch
        /\ r.epoch = slots[r.slot].epoch =>
              r.occupant = slots[r.slot].occupant /\ r.origin # "displaced"

\* D-21: the live screenshare is one of the shares of the preview pool, and a
\* peer that is share-locked or gone shares nothing.
ShareFromPool ==
    /\ LiveSharer # None => LiveSharer \in previews
    /\ \A p \in previews : InRoom(p) /\ ~Locked(p, "share")

\* EN-7: a locked modality is off, whatever the target sends and however it
\* reconnects.
LockedIsOff == \A p \in Peers, m \in Modalities : Locked(p, m) => m \notin live[p]

\* D-13: nobody ever holds a lock over the host, and only the host is a host.
HostImmune ==
    /\ \A m \in Modalities : ~Locked(Host, m)
    /\ \A p \in Peers : role[p] = "host" => p = Host

\* AD-22: when writes succeed, pass_locks is the locks of the passes at all times,
\* so a restart restores them all and invents none.
DurableIsCurrent ==
    ~StoreFails => \A p \in Guests : durable[p] = locks[p]

\* EN-3: within the life of an actor an epoch never goes back, and a slot never
\* changes hands under the same epoch.
EpochStep ==
    \A s \in Slots :
        /\ slots'[s].epoch >= slots[s].epoch
        /\ slots'[s].occupant # slots[s].occupant => slots'[s].epoch > slots[s].epoch
EpochsAdvance == [][Respawn \/ EpochStep]_vars

\* D-20, D-40: whatever the moves, replays, drops, evictions and grace timers,
\* the cam slots change hands only as SlotBinding says: a drop keeps the slot and
\* arms its expiry, an expiry takes no slot from a guest who is back, and a guest
\* that is moved leaves the slot it came from.
Seating == INSTANCE SlotBinding WITH
    Occupants <- Peers, Seats <- CamSlots, Nobody <- None,
    seat <- [s \in CamSlots |-> slots[s].occupant],
    here <- {p \in Peers : InRoom(p)},
    alarms <- timers
KeepsSeats == Seating!SeatSpec

\* D-13: a lock in force is never taken over at a lower rank.
FloorsOnlyRise ==
    [][\A p \in Peers, m \in Modalities :
          locks'[p][m] # Unlocked => locks'[p][m] >= locks[p][m] \/ StoreFails]_vars

\* AC-9: granting eligibility back never lifts a co-host's moderation.
GrantKeepsModeration ==
    [][\A p \in Peers :
          p \in canScreen' \ canScreen /\ locks[p]["share"] = 1
              => locks'[p]["share"] = 1]_vars
===============================================================================
