------------------------------ MODULE RoomProofs ------------------------------
(***************************************************************************)
(* Proofs about the room for every host, every set of guests, slots and    *)
(* modalities, and every value of the bounds, and about the pages of its   *)
(* slots for any losses: the pages leave the room what it is in module     *)
(* Room, a page never gives a wrong account of the binding in force, and   *)
(* one that lost nothing follows it, over the connection that its occupant *)
(* has now.                                                                *)
(***************************************************************************)
EXTENDS SourcePage, TLAPS

-----------------------------------------------------------------------------
(* What the helpers return *)

\* Binding a slot to p starts a new epoch that nothing is known about.
LEMMA BoundFields ==
    ASSUME NEW st \in SlotStates, NEW p \in Peers \cup {None}
    PROVE  /\ Bound(st, p) \in SlotStates
           /\ Bound(st, p).occupant = p
           /\ Bound(st, p).source = st.source
           /\ Bound(st, p).epoch = st.epoch + 1
           /\ Bound(st, p).onAir = Unknown
           /\ ~Bound(st, p).disconnected
           /\ Bound(st, p).graceGen = st.graceGen
BY DEF Bound, SlotStates, Unknown, OnAirStates

\* A vacated slot is one bound to nobody.
LEMMA VacatedFields ==
    ASSUME NEW st \in SlotStates
    PROVE  /\ Vacated(st) \in SlotStates
           /\ Vacated(st).occupant = None
           /\ Vacated(st).source = st.source
           /\ Vacated(st).epoch = st.epoch + 1
           /\ Vacated(st).onAir = Unknown
           /\ ~Vacated(st).disconnected
           /\ Vacated(st).graceGen = st.graceGen
BY BoundFields DEF Vacated

\* A held slot keeps its binding, and the disconnection is counted.
LEMMA HeldFields ==
    ASSUME NEW st \in SlotStates
    PROVE  /\ Held(st) \in SlotStates
           /\ Held(st).occupant = st.occupant
           /\ Held(st).source = st.source
           /\ Held(st).epoch = st.epoch
           /\ Held(st).onAir = Unknown
           /\ Held(st).disconnected
           /\ Held(st).graceGen = st.graceGen + 1
BY DEF Held, SlotStates, Unknown, OnAirStates

\* A page that departs takes its reflection with it and nothing else.
LEMMA FreedFields ==
    ASSUME NEW st \in SlotStates, NEW S
    PROVE  /\ Freed(st, S) \in SlotStates
           /\ Freed(st, S).occupant = st.occupant
           /\ Freed(st, S).source = IF st.source \in S THEN None ELSE st.source
           /\ Freed(st, S).epoch = st.epoch
           /\ Freed(st, S).onAir = IF st.source \in S THEN Unknown ELSE st.onAir
           /\ Freed(st, S).disconnected = st.disconnected
           /\ Freed(st, S).graceGen = st.graceGen
<1>1. CASE st.source \in S
  BY <1>1 DEF Freed, SlotStates, Unknown, OnAirStates
<1>2. CASE st.source \notin S
  BY <1>2 DEF Freed
<1> QED BY <1>1, <1>2

\* A page that attaches keeps the binding; a displaced page costs an epoch.
LEMMA AttachedFields ==
    ASSUME NEW st \in SlotStates, NEW p \in Sources
    PROVE  /\ Attached(st, p) \in SlotStates
           /\ Attached(st, p).occupant = st.occupant
           /\ Attached(st, p).source = p
           /\ Attached(st, p).epoch =
                IF st.source # None THEN st.epoch + 1 ELSE st.epoch
           /\ Attached(st, p).onAir = Unknown
           /\ Attached(st, p).disconnected = st.disconnected
           /\ Attached(st, p).graceGen = st.graceGen
BY DEF Attached, SlotStates, Unknown, OnAirStates

LEMMA FreshSlotFields ==
    /\ FreshSlot \in SlotStates
    /\ FreshSlot.occupant = None /\ FreshSlot.source = None
    /\ FreshSlot.onAir = Unknown /\ ~FreshSlot.disconnected
BY DEF FreshSlot, SlotStates, Unknown, OnAirStates

LEMMA LeftFields ==
    ASSUME NEW s \in Slots, slots[s] \in SlotStates, NEW S, NEW terminal \in BOOLEAN
    PROVE  /\ Left(s, S, terminal) \in SlotStates
           /\ Left(s, S, terminal).source =
                IF slots[s].source \in S THEN None ELSE slots[s].source
           /\ slots[s].occupant \notin S =>
                Left(s, S, terminal) = Freed(slots[s], S)
           /\ slots[s].occupant \in S /\ s \in CamSlots /\ ~terminal =>
                Left(s, S, terminal) = Held(Freed(slots[s], S))
           /\ slots[s].occupant \in S /\ (s \notin CamSlots \/ terminal) =>
                Left(s, S, terminal) = Vacated(Freed(slots[s], S))
<1>1. /\ Freed(slots[s], S) \in SlotStates
      /\ Freed(slots[s], S).source =
           IF slots[s].source \in S THEN None ELSE slots[s].source
  BY FreedFields
<1>2. CASE slots[s].occupant \notin S
  BY <1>1, <1>2 DEF Left
<1>3. CASE slots[s].occupant \in S /\ s \in CamSlots /\ ~terminal
  BY <1>1, <1>3, HeldFields DEF Left
<1>4. CASE slots[s].occupant \in S /\ (s \notin CamSlots \/ terminal)
  BY <1>1, <1>4, VacatedFields DEF Left
<1> QED BY <1>2, <1>3, <1>4

\* A move binds one slot, vacates the others p held and leaves the rest alone.
LEMMA ReboundSlots ==
    ASSUME NEW sid \in Slots, NEW p \in Peers, NEW s \in Slots
    PROVE  /\ s = sid => Rebound(sid, p)[s] = Bound(slots[s], p)
           /\ s # sid /\ s \in OtherCamSlots(sid, p) => Rebound(sid, p)[s] = Vacated(slots[s])
           /\ s # sid /\ s \notin OtherCamSlots(sid, p) => Rebound(sid, p)[s] = slots[s]
<1>1. sid \notin OtherCamSlots(sid, p)
  BY DEF OtherCamSlots
<1> QED BY <1>1 DEF Rebound

LEMMA NamesFacts ==
    /\ Host \in Peers /\ Host \in People /\ Guests \subseteq People
    /\ People \subseteq Peers /\ Sources \subseteq Peers
    /\ CamSlots \subseteq Slots /\ HostSlot \in Slots /\ ScreenSlot \in Slots
    /\ ScreenSlot \notin CamSlots /\ ScreenSlot # HostSlot
    /\ None \notin Peers /\ Host \notin Guests
    /\ \A s \in Slots : SourceOf[s] \in Sources
BY NamesAssumption DEF Peers, People, Sources, Slots

-----------------------------------------------------------------------------
(* How a step changes the slots: most commands leave them alone; the others *)
(* rebind one, vacate some, remove peers, attach a page, reflect a report  *)
(* or start the room again.                                                *)

KeepsPeers == \A p \in Peers : role[p] # "none" => role'[p] # "none"

Stays == /\ KeepsPeers
         /\ slots' = slots /\ timers' = timers
         /\ reports' \subseteq reports \/ \E s \in Slots, b \in BOOLEAN : SourceReports(s, b)
Rebinds == \E sid \in Slots, p \in Peers :
              /\ IF sid = ScreenSlot THEN p \in previews ELSE InRoom(p)
              /\ slots' = Rebound(sid, p)
              /\ UnchangedByBinding
Vacates == \E S \in SUBSET Slots :
              /\ slots' = VacatedAll(S)
              /\ KeepsPeers /\ timers' = timers /\ reports' = reports
Departs == \E S \in SUBSET Peers, terminal \in BOOLEAN :
              /\ Depart(S, terminal)
              /\ IF terminal THEN timers' = timers
                 ELSE \E p \in Peers : S = {p} /\ timers' = timers \cup Armed(p, slots')
Attaches == \E s \in Slots : JoinSource(s)
Expires == \E t \in timers : ExpireGrace(t)
Reflects == \E r \in reports : ObsActive(r)

\* Every command does one of these to the slots.
LEMMA SlotStep ==
    ASSUME TypeOK, Next
    PROVE  \/ Stays \/ Rebinds \/ Vacates \/ Departs \/ Attaches \/ Expires
           \/ Reflects \/ Respawn
<1> USE NamesFacts DEF TypeOK
<1>1. CASE Connections
  <2>1. ASSUME NEW p \in People, Join(p) PROVE Stays
    BY <2>1, RolesAssumption DEF Join, Stays, KeepsPeers, slotVars, People
  <2>2. ASSUME NEW p \in Peers, Leave(p) PROVE Departs
    BY <2>2 DEF Leave, Departs
  <2>3. ASSUME NEW s \in Slots, RotateSource(s) PROVE Departs
    BY <2>3 DEF RotateSource, Departs
  <2>4. ASSUME NEW S \in SUBSET Guests, EvictPeers(S) PROVE Departs
    BY <2>4 DEF EvictPeers, Departs
  <2>5. ASSUME Terminate PROVE Stays
    BY <2>5 DEF Terminate, Stays, KeepsPeers, slotVars, peerVars
  <2> QED BY <1>1, <2>1, <2>2, <2>3, <2>4, <2>5 DEF Connections, Attaches
<1>2. CASE Bindings
  <2>1. ASSUME NEW s \in Slots, NEW p \in Peers, Rebind(s, p) PROVE Rebinds
    BY <2>1 DEF Rebind, Rebinds, SetSlots
  <2>2. ASSUME NEW s \in CamSlots, NEW p \in Guests, ResumeBind(s, p) PROVE Rebinds
    BY <2>2 DEF ResumeBind, Rebinds, SetSlots
  <2>3. ASSUME NEW s \in CamSlots, NEW p \in Guests, RebindOrVacate(s, p)
        PROVE  Rebinds \/ Vacates
    <3>1. CASE InRoom(p)
      BY <2>3, <3>1 DEF RebindOrVacate, Rebinds, SetSlots
    <3>2. CASE ~InRoom(p)
      <4>1. {s} \cup OtherCamSlots(s, p) \in SUBSET Slots
        BY DEF OtherCamSlots
      <4>2. slots' = VacatedAll({s} \cup OtherCamSlots(s, p))
        BY <2>3, <3>2 DEF RebindOrVacate, SetSlots
      <4> QED BY <2>3, <4>1, <4>2
              DEF RebindOrVacate, Vacates, UnchangedByBinding, peerVars, KeepsPeers
    <3> QED BY <3>1, <3>2
  <2>4. ASSUME NEW p \in Guests, VacateOccupant(p) PROVE Vacates
    <3>1. {s \in CamSlots : slots[s].occupant = p} \in SUBSET Slots
      OBVIOUS
    <3> QED BY <2>4, <3>1
            DEF VacateOccupant, Vacates, SetSlots, UnchangedByBinding, peerVars, KeepsPeers
  <2>5. ASSUME NEW s \in Slots, Unbind(s) PROVE Vacates
    BY <2>5 DEF Unbind, Vacates, SetSlots, UnchangedByBinding, peerVars, KeepsPeers
  <2>6. ASSUME NEW active \in BOOLEAN, SetHostMedia(active) PROVE Rebinds \/ Vacates
    BY <2>6 DEF SetHostMedia, Rebinds, Vacates, SetSlots, UnchangedByBinding, peerVars,
                KeepsPeers, InRoom
  <2> QED BY <1>2, <2>1, <2>2, <2>3, <2>4, <2>5, <2>6 DEF Bindings, Expires
<1>3. CASE Program
  <2>1. ASSUME NEW s \in Slots, NEW b \in BOOLEAN, SourceReports(s, b) PROVE Stays
    BY <2>1 DEF SourceReports, Stays, KeepsPeers, peerVars
  <2>2. ASSUME NEW r \in reports, ReportLost(r) PROVE Stays
    BY <2>2 DEF ReportLost, Stays, KeepsPeers, peerVars
  <2> QED BY <1>3, <2>1, <2>2 DEF Program, Reflects
<1>4. CASE Moderation
  <2> USE DEF Stays, KeepsPeers, slotVars, peerVars
  <2>1. ASSUME NEW p \in People, NEW on, NEW off, ApplyState(p, on, off) PROVE Stays
    BY <2>1 DEF ApplyState
  <2>2. ASSUME NEW p \in People, NEW raised \in BOOLEAN, SetHand(p, raised) PROVE Stays
    BY <2>2 DEF SetHand
  <2>3. ASSUME NEW t \in Peers, DismissHand(t) PROVE Stays
    BY <2>3 DEF DismissHand
  <2>4. ASSUME NEW a \in People, NEW t \in Peers, Kick(a, t) PROVE Departs
    BY <2>4 DEF Kick, Departs
  <2>5. ASSUME NEW a \in People, NEW t \in Peers, NEW m \in Modalities, ForceOff(a, t, m)
        PROVE  Stays \/ Vacates
    <3>1. CASE m = "share"
      BY <2>5, <3>1 DEF ForceOff, PullFromShare, SetSlots, Vacates
    <3>2. CASE m # "share"
      BY <2>5, <3>2 DEF ForceOff
    <3> QED BY <3>1, <3>2
  <2>6. ASSUME NEW a \in People, NEW t \in Peers, NEW m \in Modalities, Release(a, t, m)
        PROVE  Stays
    BY <2>6 DEF Release
  <2>7. ASSUME NEW t \in Peers, NEW r \in {"cohost", "guest"}, SetRole(t, r) PROVE Stays
    BY <2>7 DEF SetRole
  <2> QED BY <1>4, <2>1, <2>2, <2>3, <2>4, <2>5, <2>6, <2>7 DEF Moderation
<1>5. CASE Screenshare
  <2> USE DEF Stays, KeepsPeers, slotVars, peerVars
  <2>1. ASSUME NEW p \in Guests, SetScreenEligible(p) \/ GrantScreen(p) PROVE Stays
    BY <2>1 DEF SetScreenEligible, GrantScreen
  <2>2. ASSUME NEW p \in Guests, RevokeScreen(p) PROVE Vacates
    BY <2>2 DEF RevokeScreen, PullFromShare, SetSlots, Vacates
  <2>3. ASSUME NEW p \in People, ScreenStart(p) PROVE Stays
    BY <2>3 DEF ScreenStart
  <2>4. ASSUME NEW p \in People, ScreenStop(p) PROVE Vacates
    BY <2>4 DEF ScreenStop, PullFromShare, SetSlots, Vacates
  <2>5. ASSUME NEW p \in People, ScreenSelect(p) PROVE Rebinds
    BY <2>5 DEF ScreenSelect, Rebinds, SetSlots
  <2>6. ASSUME ScreenClear PROVE Vacates
    BY <2>6 DEF ScreenClear, SetSlots, Vacates, UnchangedByBinding
  <2> QED BY <1>5, <2>1, <2>2, <2>3, <2>4, <2>5, <2>6 DEF Screenshare
<1> QED BY <1>1, <1>2, <1>3, <1>4, <1>5 DEF Next

-----------------------------------------------------------------------------
(* Type correctness *)

\* What a step makes of the slots, the expiries and the reports has their types.
LEMMA SlotTypeStep ==
    ASSUME TypeOK, Next
    PROVE  /\ slots' \in [Slots -> SlotStates]
           /\ timers' \subseteq Timers
           /\ reports' \subseteq Reports
<1> USE NamesFacts
<1>0. /\ slots \in [Slots -> SlotStates] /\ \A s \in Slots : slots[s] \in SlotStates
      /\ timers \subseteq Timers /\ reports \subseteq Reports
  BY DEF TypeOK
<1>1. CASE Stays
  <2>1. ASSUME NEW s \in Slots, NEW b \in BOOLEAN, SourceReports(s, b)
        PROVE  reports' \subseteq Reports
    <3>1. /\ slots[s].occupant \in Peers /\ slots[s].epoch \in Nat
      BY <1>0, <2>1 DEF SourceReports, CanReport, SlotStates
    <3>2. [slot |-> s, occupant |-> slots[s].occupant, epoch |-> slots[s].epoch,
           active |-> b, origin |-> "attached"] \in Reports
      BY <3>1 DEF Reports, Origins
    <3> QED BY <1>0, <2>1, <3>2 DEF SourceReports
  <2> QED BY <1>0, <1>1, <2>1 DEF Stays
<1>2. CASE Rebinds
  <2> PICK sid \in Slots, p \in Peers : slots' = Rebound(sid, p) /\ UnchangedByBinding
    BY <1>2 DEF Rebinds
  <2>1. slots' \in [Slots -> SlotStates]
    BY <1>0, BoundFields, VacatedFields DEF Rebound
  <2> QED BY <1>0, <2>1 DEF UnchangedByBinding
<1>3. CASE Vacates
  BY <1>0, <1>3, VacatedFields DEF Vacates, VacatedAll
<1>4. CASE Departs
  <2> PICK S \in SUBSET Peers, terminal \in BOOLEAN :
         /\ Depart(S, terminal)
         /\ IF terminal THEN timers' = timers
            ELSE \E p \in Peers : S = {p} /\ timers' = timers \cup Armed(p, slots')
    BY <1>4 DEF Departs
  <2>1. slots' \in [Slots -> SlotStates]
    BY <1>0, LeftFields DEF Depart, SetSlots
  <2>2. timers' \subseteq Timers
    <3>1. ASSUME NEW p \in Peers PROVE Armed(p, slots') \subseteq Timers
      BY <2>1 DEF Armed, Timers, SlotStates
    <3> QED BY <1>0, <3>1
  <2>3. reports' \subseteq Reports
    <3>1. ASSUME NEW r \in Reports PROVE [r EXCEPT !.origin = "evicted"] \in Reports
      BY DEF Reports, Origins
    <3>2. LeftReports(S, terminal) \subseteq Reports
      BY <1>0, <3>1 DEF LeftReports
    <3> QED BY <3>2 DEF Depart
  <2> QED BY <2>1, <2>2, <2>3
<1>5. CASE Attaches
  <2> PICK s \in Slots : JoinSource(s)
    BY <1>5 DEF Attaches
  <2>1. slots' \in [Slots -> SlotStates]
    BY <1>0, AttachedFields DEF JoinSource, SetSlots
  <2>2. ASSUME NEW r \in Reports PROVE [r EXCEPT !.origin = "displaced"] \in Reports
    BY DEF Reports, Origins
  <2> QED BY <1>0, <2>1, <2>2 DEF JoinSource
<1>6. CASE Expires
  <2> PICK t \in timers : ExpireGrace(t)
    BY <1>6 DEF Expires
  <2>1. VacatedAll({t.slot}) \in [Slots -> SlotStates]
    BY <1>0, VacatedFields DEF VacatedAll
  <2> QED BY <1>0, <2>1 DEF ExpireGrace
<1>7. CASE Reflects
  <2> PICK r \in reports : ObsActive(r)
    BY <1>7 DEF Reflects
  <2>1. ASSUME NEW st \in SlotStates, NEW a \in OnAirStates
        PROVE  [st EXCEPT !.onAir = a] \in SlotStates
    BY DEF SlotStates
  <2>2. (IF r.active THEN "on-air" ELSE "not-on-air") \in OnAirStates
    BY DEF OnAirStates
  <2>3. slots' \in [Slots -> SlotStates]
    BY <1>0, <2>1, <2>2 DEF ObsActive
  <2> QED BY <1>0, <2>3 DEF ObsActive
<1>8. CASE Respawn
  BY <1>8, FreshSlotFields DEF Respawn
<1> QED BY <1>1, <1>2, <1>3, <1>4, <1>5, <1>6, <1>7, <1>8, SlotStep

\* What a departure makes of the peers has their types.
LEMMA RemoveType ==
    ASSUME TypeOK, NEW S, Remove(S)
    PROVE  /\ role' \in [Peers -> {"none", "host", "cohost", "guest", "obs"}]
           /\ live' \in [Peers -> SUBSET Modalities]
           /\ hand' \subseteq Peers /\ canScreen' \subseteq Peers /\ previews' \subseteq Peers
BY DEF TypeOK, Remove

LEMMA NoLocksType == NoLocks \in [Peers -> [Modalities -> Floors]]
BY DEF NoLocks, Floors

\* A lock that is set or cleared is a lock in memory and in the table.
LEMMA SetLockType ==
    ASSUME TypeOK, NEW t \in Peers, NEW m \in Modalities, NEW floor \in Floors,
           SetLock(t, m, floor)
    PROVE  /\ locks' \in [Peers -> [Modalities -> Floors]]
           /\ durable' \in [Peers -> [Modalities -> Floors]]
<1> DEFINE L == [Peers -> [Modalities -> Floors]]
<1>1. ASSUME NEW f \in L PROVE [f EXCEPT ![t][m] = floor] \in L
  OBVIOUS
<1>2. locks \in L /\ durable \in L
  BY DEF TypeOK
<1>3. /\ locks' = [locks EXCEPT ![t][m] = floor]
      /\ \/ durable' = [durable EXCEPT ![t][m] = floor]
         \/ durable' = durable
  BY DEF SetLock, Persist
<1> QED BY <1>1, <1>2, <1>3

\* The peers and the locks.
PeerLockTypes ==
    /\ role \in [Peers -> {"none", "host", "cohost", "guest", "obs"}]
    /\ live \in [Peers -> SUBSET Modalities]
    /\ hand \subseteq Peers /\ canScreen \subseteq Peers /\ previews \subseteq Peers
    /\ locks \in [Peers -> [Modalities -> Floors]]
    /\ durable \in [Peers -> [Modalities -> Floors]]
    /\ terminating \in BOOLEAN

LEMMA PeerLockTypeStep ==
    ASSUME TypeOK, Next
    PROVE  PeerLockTypes'
<1> USE NamesFacts, NoLocksType DEF PeerLockTypes
<1>0. PeerLockTypes
  BY DEF TypeOK
<1>a. UnchangedByBinding => PeerLockTypes'
  BY <1>0 DEF UnchangedByBinding, peerVars, lockVars
<1>1. CASE Connections
  <2>1. ASSUME NEW p \in People, Join(p) PROVE PeerLockTypes'
    <3>1. (IF p = Host THEN "host" ELSE CredentialRole[p]) \in {"host", "cohost", "guest"}
      BY RolesAssumption DEF People
    <3> QED BY <1>0, <2>1, <3>1 DEF Join, lockVars
  <2>2. ASSUME NEW s \in Slots, JoinSource(s) PROVE PeerLockTypes'
    BY <1>0, <2>2 DEF JoinSource, lockVars
  <2>3. ASSUME NEW S, NEW terminal, Depart(S, terminal) PROVE PeerLockTypes'
    BY <1>0, <2>3, RemoveType DEF Depart, lockVars
  <2>4. ASSUME Terminate PROVE PeerLockTypes'
    BY <1>0, <2>4 DEF Terminate, peerVars, lockVars
  <2>5. ASSUME Respawn PROVE PeerLockTypes'
    BY <1>0, <2>5 DEF Respawn
  <2> QED BY <1>1, <2>1, <2>2, <2>3, <2>4, <2>5 DEF Connections, Leave, RotateSource, EvictPeers
<1>2. CASE Bindings
  <2>1. ASSUME NEW t \in timers, ExpireGrace(t) PROVE PeerLockTypes'
    BY <1>0, <2>1 DEF ExpireGrace, peerVars, lockVars
  <2> QED BY <1>2, <1>a, <2>1 DEF Bindings, Rebind, ResumeBind, RebindOrVacate,
                                 VacateOccupant, Unbind, SetHostMedia
<1>3. CASE Program
  BY <1>0, <1>3 DEF Program, SourceReports, ObsActive, ReportLost, peerVars, lockVars
<1>4. CASE Moderation
  <2>1. ASSUME NEW p \in People, NEW on \in SUBSET Modalities, NEW off \in SUBSET Modalities,
               ApplyState(p, on, off)
        PROVE  PeerLockTypes'
    <3>1. (live[p] \ off) \cup {m \in on : ~Locked(p, m)} \in SUBSET Modalities
      BY <1>0
    <3> QED BY <1>0, <2>1, <3>1 DEF ApplyState, lockVars
  <2>2. ASSUME NEW p \in Peers, \/ \E raised \in BOOLEAN : SetHand(p, raised)
                               \/ DismissHand(p)
        PROVE  PeerLockTypes'
    BY <1>0, <2>2 DEF SetHand, DismissHand, lockVars
  <2>3. ASSUME NEW a \in People, NEW t \in Peers, Kick(a, t) PROVE PeerLockTypes'
    BY <1>0, <2>3, RemoveType DEF Kick, Depart, lockVars
  <2>4. ASSUME NEW a \in People, NEW t \in Peers, NEW m \in Modalities, ForceOff(a, t, m)
        PROVE  PeerLockTypes'
    <3>1. Rank(a) \in Floors
      BY <2>4 DEF ForceOff, CanForce, Above, IsParticipant, Rank, Floors, Unlocked
    <3>2. /\ locks' \in [Peers -> [Modalities -> Floors]]
          /\ durable' \in [Peers -> [Modalities -> Floors]]
      BY <2>4, <3>1, SetLockType DEF ForceOff
    <3>3. previews' \subseteq Peers
      BY <1>0, <2>4 DEF ForceOff, PullFromShare
    <3> QED BY <1>0, <2>4, <3>2, <3>3 DEF ForceOff
  <2>5. ASSUME NEW a \in People, NEW t \in Peers, NEW m \in Modalities, Release(a, t, m)
        PROVE  PeerLockTypes'
    <3>1. /\ locks' \in [Peers -> [Modalities -> Floors]]
          /\ durable' \in [Peers -> [Modalities -> Floors]]
      BY <2>5, SetLockType DEF Release, Floors
    <3> QED BY <1>0, <2>5, <3>1 DEF Release, peerVars
  <2>6. ASSUME NEW t \in Peers, NEW r \in {"cohost", "guest"}, SetRole(t, r)
        PROVE  PeerLockTypes'
    BY <1>0, <2>6 DEF SetRole, lockVars
  <2> QED BY <1>4, <2>1, <2>2, <2>3, <2>4, <2>5, <2>6 DEF Moderation
<1>5. CASE Screenshare
  <2>1. ASSUME NEW p \in Guests, SetScreenEligible(p) PROVE PeerLockTypes'
    BY <1>0, <2>1 DEF SetScreenEligible, lockVars
  <2>2. ASSUME NEW p \in Guests, GrantScreen(p) PROVE PeerLockTypes'
    <3>1. /\ locks' \in [Peers -> [Modalities -> Floors]]
          /\ durable' \in [Peers -> [Modalities -> Floors]]
      BY <1>0, <2>2, SetLockType, RolesAssumption DEF GrantScreen, Floors, lockVars
    <3> QED BY <1>0, <2>2, <3>1 DEF GrantScreen
  <2>3. ASSUME NEW p \in Guests, RevokeScreen(p) PROVE PeerLockTypes'
    <3>1. /\ locks' \in [Peers -> [Modalities -> Floors]]
          /\ durable' \in [Peers -> [Modalities -> Floors]]
      <4>1. CASE Locked(p, "share")
        BY <1>0, <2>3, <4>1 DEF RevokeScreen, lockVars
      <4>2. CASE ~Locked(p, "share")
        BY <2>3, <4>2, SetLockType, RolesAssumption DEF RevokeScreen, Floors
      <4> QED BY <4>1, <4>2
    <3>2. live' = live \/ live' = [live EXCEPT ![p] = @ \ {"share"}]
      BY <2>3 DEF RevokeScreen
    <3>3. /\ role' = role /\ hand' = hand /\ terminating' = terminating
          /\ canScreen' = canScreen \ {p} /\ previews' = previews \ {p}
      BY <2>3 DEF RevokeScreen, PullFromShare
    <3>4. live' \in [Peers -> SUBSET Modalities]
      BY <1>0, <3>2
    <3> QED BY <1>0, <3>1, <3>3, <3>4
  <2>4. ASSUME NEW p \in People, ScreenStart(p) \/ ScreenStop(p) \/ ScreenSelect(p)
        PROVE  PeerLockTypes'
    BY <1>0, <1>a, <2>4 DEF ScreenStart, ScreenStop, ScreenSelect, PullFromShare,
                           peerVars, lockVars
  <2> QED BY <1>5, <1>a, <2>1, <2>2, <2>3, <2>4 DEF Screenshare, ScreenClear
<1> QED BY <1>1, <1>2, <1>3, <1>4, <1>5 DEF Next

\* Type correctness: the room's state always has the shape the actor declares.
THEOREM TypeCorrect == Spec => []TypeOK
<1>1. Init => TypeOK
  BY NoLocksType, FreshSlotFields DEF Init, TypeOK
<1>2. TypeOK /\ [Next]_vars => TypeOK'
  <2> SUFFICES ASSUME TypeOK, [Next]_vars PROVE TypeOK'
    OBVIOUS
  <2>1. CASE Next
    BY <2>1, SlotTypeStep, PeerLockTypeStep DEF TypeOK, PeerLockTypes
  <2>2. CASE UNCHANGED vars
    BY <2>2 DEF vars, peerVars, slotVars, lockVars, TypeOK, InRoom
  <2> QED BY <2>1, <2>2
<1> QED BY <1>1, <1>2, PTL DEF Spec

-----------------------------------------------------------------------------
(* Slot bindings *)

LEMMA OneCamStep ==
    ASSUME TypeOK, OneCamPerOccupant, Next
    PROVE  OneCamPerOccupant'
<1> USE NamesFacts
<1>0. \A s \in Slots : slots[s] \in SlotStates
  BY DEF TypeOK
<1> SUFFICES ASSUME NEW s \in CamSlots, NEW t \in CamSlots, s # t,
                    slots'[s].occupant = slots'[t].occupant
             PROVE  slots'[s].occupant = None
  BY DEF OneCamPerOccupant
<1>1. CASE slots' = slots
  BY <1>1 DEF OneCamPerOccupant
<1>2. CASE Rebinds
  <2> PICK sid \in Slots, p \in Peers : slots' = Rebound(sid, p)
    BY <1>2 DEF Rebinds
  <2>1. slots'[sid].occupant = p
    <3>1. slots'[sid] = Bound(slots[sid], p)
      BY ReboundSlots
    <3> QED BY <1>0, <3>1, BoundFields
  <2>2. ASSUME NEW c \in CamSlots, c # sid, c \in OtherCamSlots(sid, p)
        PROVE  slots'[c].occupant = None
    BY <1>0, <2>2, VacatedFields, ReboundSlots
  <2>3. ASSUME NEW c \in CamSlots, c # sid, c \notin OtherCamSlots(sid, p)
        PROVE  /\ slots'[c].occupant = slots[c].occupant
               /\ sid \in CamSlots => slots[c].occupant # p
    BY <2>3, ReboundSlots DEF OtherCamSlots
  <2> QED BY <2>1, <2>2, <2>3 DEF OneCamPerOccupant
<1>3. ASSUME NEW S, slots' = VacatedAll(S) PROVE slots'[s].occupant = None
  <2>1. ASSUME NEW c \in CamSlots
        PROVE  slots'[c].occupant \in {None, slots[c].occupant}
    BY <1>0, <1>3, VacatedFields DEF VacatedAll
  <2> QED BY <2>1 DEF OneCamPerOccupant
<1>4. CASE Departs
  <2> PICK S \in SUBSET Peers, terminal \in BOOLEAN :
         slots' = [c \in Slots |-> Left(c, S, terminal)]
    BY <1>4 DEF Departs, Depart, SetSlots
  <2>1. ASSUME NEW c \in CamSlots
        PROVE  slots'[c].occupant \in {None, slots[c].occupant}
    BY <1>0, LeftFields, FreedFields, HeldFields, VacatedFields
  <2>2. ASSUME NEW c \in CamSlots, NEW d \in CamSlots,
               slots[c].occupant = slots[d].occupant
        PROVE  slots'[c].occupant = slots'[d].occupant
    BY SMTT(30), <1>0, <2>2, LeftFields, FreedFields, HeldFields, VacatedFields
  <2> QED BY <2>1, <2>2 DEF OneCamPerOccupant
<1>5. CASE Attaches
  BY <1>0, <1>5, AttachedFields DEF Attaches, JoinSource, SetSlots, OneCamPerOccupant, TypeOK
<1>6. CASE Expires
  BY <1>1, <1>3, <1>6 DEF Expires, ExpireGrace
<1>7. CASE Reflects
  <2>1. slots'[s].occupant = slots[s].occupant /\ slots'[t].occupant = slots[t].occupant
    BY <1>0, <1>7 DEF Reflects, ObsActive, SlotStates, TypeOK
  <2> QED BY <2>1 DEF OneCamPerOccupant
<1>8. CASE Respawn
  BY <1>8, FreshSlotFields DEF Respawn
<1> QED BY <1>1, <1>2, <1>3, <1>4, <1>5, <1>6, <1>7, <1>8, SlotStep DEF Stays, Vacates

\* D-20: no guest is ever bound to two camera sources at once.
THEOREM OneCamCorrect == Spec => []OneCamPerOccupant
<1>1. Init => OneCamPerOccupant
  BY NamesFacts, FreshSlotFields DEF Init, OneCamPerOccupant
<1>2. TypeOK /\ OneCamPerOccupant /\ [Next]_vars => OneCamPerOccupant'
  BY OneCamStep DEF OneCamPerOccupant, vars, slotVars
<1> QED BY <1>1, <1>2, TypeCorrect, PTL DEF Spec

\* The epoch of a slot counts its changes of hands, in every step but a restart.
LEMMA EpochEffect ==
    ASSUME TypeOK, Next, ~Respawn
    PROVE  \A s \in Slots :
              \/ slots'[s].epoch = slots[s].epoch + 1
              \/ /\ slots'[s].epoch = slots[s].epoch
                 /\ slots'[s].occupant = slots[s].occupant
<1> USE NamesFacts
<1>0. \A s \in Slots : slots[s] \in SlotStates
  BY DEF TypeOK
<1> SUFFICES ASSUME NEW s \in Slots
             PROVE  \/ slots'[s].epoch = slots[s].epoch + 1
                    \/ /\ slots'[s].epoch = slots[s].epoch
                       /\ slots'[s].occupant = slots[s].occupant
  OBVIOUS
<1>1. CASE slots' = slots
  BY <1>1
<1>2. CASE Rebinds
  <2> PICK sid \in Slots, p \in Peers : slots' = Rebound(sid, p)
    BY <1>2 DEF Rebinds
  <2>1. slots'[s] \in {Bound(slots[s], p), Vacated(slots[s]), slots[s]}
    BY ReboundSlots
  <2>2. Bound(slots[s], p).epoch = slots[s].epoch + 1 /\ Vacated(slots[s]).epoch = slots[s].epoch + 1
    BY <1>0, BoundFields, VacatedFields
  <2> QED BY <2>1, <2>2
<1>3. ASSUME NEW S, slots' = VacatedAll(S)
      PROVE  \/ slots'[s].epoch = slots[s].epoch + 1
             \/ slots'[s] = slots[s]
  BY <1>0, <1>3, VacatedFields DEF VacatedAll
<1>4. CASE Departs
  <2> PICK S \in SUBSET Peers, terminal \in BOOLEAN :
         slots' = [c \in Slots |-> Left(c, S, terminal)]
    BY <1>4 DEF Departs, Depart, SetSlots
  <2> QED BY <1>0, LeftFields, FreedFields, HeldFields, VacatedFields
<1>5. CASE Attaches
  BY <1>0, <1>5, AttachedFields DEF Attaches, JoinSource, SetSlots, TypeOK
<1>6. CASE Expires
  BY <1>1, <1>3, <1>6 DEF Expires, ExpireGrace
<1>7. CASE Reflects
  BY <1>0, <1>7 DEF Reflects, ObsActive, SlotStates, TypeOK
<1> QED BY <1>1, <1>2, <1>3, <1>4, <1>5, <1>6, <1>7, SlotStep DEF Stays, Vacates

\* EN-3: within the life of an actor an epoch never goes back, and no slot
\* changes hands under the epoch it had.
THEOREM EpochsAdvanceCorrect == Spec => EpochsAdvance
<1>1. TypeOK /\ [Next]_vars => [Respawn \/ EpochStep]_vars
  <2> SUFFICES ASSUME TypeOK, Next, ~Respawn PROVE EpochStep
    OBVIOUS
  <2>1. \A s \in Slots : slots[s].epoch \in Nat
    BY DEF TypeOK, SlotStates
  <2> QED BY <2>1, EpochEffect DEF EpochStep
<1> QED BY <1>1, TypeCorrect, PTL DEF Spec, EpochsAdvance

-----------------------------------------------------------------------------
(* Locks and ranks *)

\* The host is a host or absent and nobody else is one; pass_locks has rows for
\* passes only.
HostAlone ==
    /\ role[Host] \in {"none", "host"}
    /\ \A p \in Peers : role[p] = "host" => p = Host
    /\ \A p \in Peers \ Guests, m \in Modalities : durable[p][m] = Unlocked
    /\ \A m \in Modalities : locks[Host][m] = Unlocked

\* What a step does to the locks: one lock of a peer other than the host is set
\* or cleared, or all are loaded.
LocksStay == locks' = locks /\ durable' = durable
LockSet == \E a \in People, t \in Peers \ {Host}, m \in Modalities, floor \in Floors :
              /\ SetLock(t, m, floor)
              /\ floor = Unlocked \/ floor > locks[t][m]
LocksLoaded == Respawn

LEMMA LockStep ==
    ASSUME TypeOK, HostAlone, Next
    PROVE  LocksStay \/ LockSet \/ LocksLoaded
<1> USE NamesFacts
<1>0. \A t \in Peers, m \in Modalities : locks[t][m] \in Floors
  BY DEF TypeOK
<1>1. ASSUME UNCHANGED lockVars PROVE LocksStay
  BY <1>1 DEF lockVars, LocksStay
<1>2. CASE Connections
  BY <1>1, <1>2 DEF Connections, Join, JoinSource, Leave, RotateSource, EvictPeers, Depart,
                    Terminate, LocksLoaded
<1>3. CASE Bindings
  BY <1>1, <1>3 DEF Bindings, Rebind, ResumeBind, RebindOrVacate, VacateOccupant, Unbind,
                    SetHostMedia, ExpireGrace, UnchangedByBinding
<1>4. CASE Program
  BY <1>1, <1>4 DEF Program, SourceReports, ObsActive, ReportLost
<1>5. CASE Moderation
  <2>1. ASSUME NEW a \in People, NEW t \in Peers, NEW m \in Modalities, ForceOff(a, t, m)
        PROVE  LockSet
    <3>1. /\ t # Host /\ Rank(a) \in Floors /\ Rank(a) > locks[t][m]
      BY <2>1 DEF ForceOff, CanForce, Above, IsParticipant, Rank, Floors, Unlocked, HostAlone
    <3> QED BY <2>1, <3>1 DEF ForceOff, LockSet
  <2>2. ASSUME NEW a \in People, NEW t \in Peers, NEW m \in Modalities, Release(a, t, m)
        PROVE  LockSet
    <3>1. t # Host /\ Unlocked \in Floors
      BY <2>2 DEF Release, Locked, HostAlone, Floors
    <3> QED BY <2>2, <3>1 DEF Release, LockSet
  <2> QED BY <1>1, <1>5, <2>1, <2>2 DEF Moderation, ApplyState, SetHand, DismissHand, Kick,
                                       Depart, SetRole
<1>6. CASE Screenshare
  <2>1. ASSUME NEW p \in Guests, GrantScreen(p) PROVE LocksStay \/ LockSet
    BY <1>1, <2>1, RolesAssumption DEF GrantScreen, LockSet, Floors
  <2>2. ASSUME NEW p \in Guests, RevokeScreen(p) PROVE LocksStay \/ LockSet
    <3>1. CASE Locked(p, "share")
      BY <1>1, <2>2, <3>1 DEF RevokeScreen
    <3>2. CASE ~Locked(p, "share")
      BY <2>2, <3>2, RolesAssumption DEF RevokeScreen, Locked, LockSet, Floors, Unlocked
    <3> QED BY <3>1, <3>2
  <2> QED BY <1>1, <1>6, <2>1, <2>2 DEF Screenshare, SetScreenEligible, ScreenStart, ScreenStop,
                                       ScreenSelect, ScreenClear, UnchangedByBinding
<1> QED BY <1>2, <1>3, <1>4, <1>5, <1>6 DEF Next

\* Whoever changes role leaves, joins with its credential or is promoted by the
\* host; the host is only ever a host.
RoleStep(p) ==
    \/ role'[p] = role[p] \/ role'[p] = "none"
    \/ p = Host /\ role'[p] = "host"
    \/ p # Host /\ role'[p] \in {"cohost", "guest", "obs"}

LEMMA RoleSteps ==
    ASSUME TypeOK, HostAlone, Next
    PROVE  \A p \in Peers : RoleStep(p)
<1> USE NamesFacts DEF RoleStep
<1>0. role \in [Peers -> {"none", "host", "cohost", "guest", "obs"}]
  BY DEF TypeOK
<1>1. ASSUME role' = role PROVE \A p \in Peers : RoleStep(p)
  BY <1>1
<1>2. ASSUME NEW S, Remove(S) PROVE \A p \in Peers : RoleStep(p)
  BY <1>2 DEF Remove
<1>3. CASE Connections
  <2>1. ASSUME NEW q \in People, Join(q) PROVE \A p \in Peers : RoleStep(p)
    <3>1. q # Host => CredentialRole[q] \in {"cohost", "guest"}
      BY RolesAssumption DEF People
    <3> QED BY <1>0, <2>1, <3>1 DEF Join
  <2>2. ASSUME NEW s \in Slots, JoinSource(s) PROVE \A p \in Peers : RoleStep(p)
    <3>1. SourceOf[s] \in Peers /\ SourceOf[s] # Host
      BY NamesAssumption
    <3> QED BY <1>0, <2>2, <3>1 DEF JoinSource
  <2>3. ASSUME Respawn PROVE \A p \in Peers : RoleStep(p)
    BY <2>3 DEF Respawn
  <2> QED BY <1>1, <1>2, <1>3, <2>1, <2>2, <2>3
          DEF Connections, Leave, RotateSource, EvictPeers, Depart, Terminate, peerVars
<1>4. CASE Bindings
  BY <1>1, <1>4 DEF Bindings, Rebind, ResumeBind, RebindOrVacate, VacateOccupant, Unbind,
                    SetHostMedia, ExpireGrace, UnchangedByBinding, peerVars
<1>5. CASE Program
  BY <1>1, <1>5 DEF Program, SourceReports, ObsActive, ReportLost, peerVars
<1>6. CASE Moderation
  <2>1. ASSUME NEW t \in Peers, NEW r \in {"cohost", "guest"}, SetRole(t, r)
        PROVE  \A p \in Peers : RoleStep(p)
    <3>1. t # Host
      BY <2>1 DEF SetRole, InRoom, Rank, HostAlone
    <3> QED BY <1>0, <2>1, <3>1 DEF SetRole
  <2> QED BY <1>1, <1>2, <1>6, <2>1 DEF Moderation, ApplyState, SetHand, DismissHand, Kick, Depart,
                                       ForceOff, Release, peerVars
<1>7. CASE Screenshare
  BY <1>1, <1>7 DEF Screenshare, SetScreenEligible, GrantScreen, RevokeScreen, ScreenStart,
                    ScreenStop, ScreenSelect, ScreenClear, UnchangedByBinding, peerVars
<1> QED BY <1>3, <1>4, <1>5, <1>6, <1>7 DEF Next

LEMMA HostAloneStep ==
    ASSUME TypeOK, HostAlone, Next
    PROVE  HostAlone'
<1> USE NamesFacts
<1>1. /\ \A p \in Peers \ Guests, m \in Modalities : durable'[p][m] = Unlocked
      /\ \A m \in Modalities : locks'[Host][m] = Unlocked
  <2>1. CASE LocksStay
    BY <2>1 DEF LocksStay, HostAlone
  <2>2. CASE LockSet
    <3> PICK t \in Peers \ {Host}, m \in Modalities, floor \in Floors : SetLock(t, m, floor)
      BY <2>2 DEF LockSet
    <3>1. locks'[Host] = locks[Host]
      BY DEF SetLock, TypeOK
    <3>2. \A p \in Peers \ Guests : durable'[p] = durable[p]
      BY DEF SetLock, Persist, TypeOK
    <3> QED BY <3>1, <3>2 DEF HostAlone
  <2>3. CASE LocksLoaded
    BY <2>3 DEF LocksLoaded, Respawn, NoLocks, HostAlone
  <2> QED BY <2>1, <2>2, <2>3, LockStep
<1>2. \A p \in Peers : RoleStep(p)
  BY RoleSteps
<1> QED BY <1>1, <1>2 DEF HostAlone, RoleStep

LEMMA HostAloneInvariant == Spec => []HostAlone
<1>1. Init => HostAlone
  BY NamesFacts DEF Init, HostAlone, NoLocks
<1>2. TypeOK /\ HostAlone /\ [Next]_vars => HostAlone'
  BY HostAloneStep DEF HostAlone, vars, peerVars, lockVars
<1> QED BY <1>1, <1>2, TypeCorrect, PTL DEF Spec

\* D-13: nobody ever holds a lock over the host, and only the host is a host.
THEOREM HostImmuneCorrect == Spec => []HostImmune
<1>1. HostAlone => HostImmune
  BY DEF HostAlone, HostImmune, Locked
<1> QED BY <1>1, HostAloneInvariant, PTL

\* AD-22: as long as writes succeed, pass_locks is the locks of the passes.
THEOREM DurableIsCurrentCorrect == Spec => []DurableIsCurrent
<1> USE NamesFacts
<1>1. Init => DurableIsCurrent
  BY DEF Init, DurableIsCurrent
<1>2. TypeOK /\ HostAlone /\ DurableIsCurrent /\ [Next]_vars => DurableIsCurrent'
  <2> SUFFICES ASSUME TypeOK, HostAlone, DurableIsCurrent, [Next]_vars, ~StoreFails
               PROVE  \A p \in Guests : durable'[p] = locks'[p]
    BY DEF DurableIsCurrent
  <2>1. CASE LocksStay
    BY <2>1 DEF LocksStay, DurableIsCurrent
  <2>2. CASE LockSet
    <3> PICK t \in Peers \ {Host}, m \in Modalities, floor \in Floors : SetLock(t, m, floor)
      BY <2>2 DEF LockSet
    <3>1. t \in Guests => durable' = [durable EXCEPT ![t][m] = floor]
      BY DEF SetLock, Persist
    <3>2. t \notin Guests => durable' = durable
      BY DEF SetLock, Persist
    <3> QED BY <3>1, <3>2 DEF SetLock, DurableIsCurrent, TypeOK
  <2>3. CASE LocksLoaded
    BY <2>3 DEF LocksLoaded, Respawn
  <2> QED BY <2>1, <2>2, <2>3, LockStep DEF vars, lockVars, LocksStay
<1> QED BY <1>1, <1>2, TypeCorrect, HostAloneInvariant, PTL DEF Spec

\* D-13: a lock in force is never taken over at a lower rank, not even by a restart.
THEOREM FloorsOnlyRiseCorrect == Spec => FloorsOnlyRise
<1> USE NamesFacts
<1> DEFINE Rise == \A p \in Peers, m \in Modalities :
                      locks'[p][m] # Unlocked => locks'[p][m] >= locks[p][m] \/ StoreFails
<1>1. TypeOK /\ HostAlone /\ DurableIsCurrent /\ [Next]_vars => [Rise]_vars
  <2> SUFFICES ASSUME TypeOK, HostAlone, DurableIsCurrent, Next,
                      NEW p \in Peers, NEW m \in Modalities,
                      locks'[p][m] # Unlocked, ~StoreFails
               PROVE  locks'[p][m] >= locks[p][m]
    OBVIOUS
  <2>0. locks[p][m] \in Floors /\ \A f \in Floors : f >= f
    BY DEF TypeOK, Floors, Unlocked
  <2>1. CASE LocksStay
    BY <2>0, <2>1 DEF LocksStay
  <2>2. CASE LockSet
    <3> PICK t \in Peers \ {Host}, n \in Modalities, floor \in Floors :
           SetLock(t, n, floor) /\ (floor = Unlocked \/ floor > locks[t][n])
      BY <2>2 DEF LockSet
    <3>1. CASE p = t /\ m = n
      BY <2>0, <3>1 DEF SetLock, TypeOK, Floors, Unlocked
    <3>2. CASE ~(p = t /\ m = n)
      BY <2>0, <3>2 DEF SetLock, TypeOK
    <3> QED BY <3>1, <3>2
  <2>3. CASE LocksLoaded
    <3>1. locks' = durable
      BY <2>3 DEF LocksLoaded, Respawn
    <3>2. p \in Guests
      BY <3>1 DEF HostAlone
    <3> QED BY <2>0, <3>1, <3>2 DEF DurableIsCurrent
  <2> QED BY <2>1, <2>2, <2>3, LockStep
<1> QED BY <1>1, TypeCorrect, HostAloneInvariant, DurableIsCurrentCorrect, PTL
        DEF Spec, FloorsOnlyRise

LEMMA LockedIsOffStep ==
    ASSUME TypeOK, LockedIsOff, Next
    PROVE  LockedIsOff'
<1> USE NamesFacts DEF LockedIsOff
<1>0. live \in [Peers -> SUBSET Modalities]
  BY DEF TypeOK
<1>1. ASSUME locks' = locks, \A p \in Peers : live'[p] \subseteq live[p]
      PROVE  LockedIsOff'
  BY <1>1 DEF Locked
<1>2. ASSUME NEW t \in Peers, NEW m \in Modalities, SetLock(t, m, Unlocked), live' = live
      PROVE  LockedIsOff'
  BY <1>2 DEF SetLock, Locked, TypeOK
<1>3. ASSUME NEW t \in Peers, NEW m \in Modalities, NEW floor, SetLock(t, m, floor),
             live' = [live EXCEPT ![t] = @ \ {m}]
      PROVE  LockedIsOff'
  BY <1>3 DEF SetLock, Locked, TypeOK
<1>4. CASE Connections
  <2>1. ASSUME NEW S, Remove(S), locks' = locks PROVE LockedIsOff'
    BY <1>1, <2>1 DEF Remove
  <2>2. ASSUME Respawn PROVE LockedIsOff'
    BY <2>2 DEF Respawn
  <2> QED BY <1>1, <1>4, <2>1, <2>2
          DEF Connections, Join, JoinSource, Leave, RotateSource, EvictPeers, Depart,
              Terminate, peerVars, lockVars
<1>5. CASE Bindings
  BY <1>1, <1>5 DEF Bindings, Rebind, ResumeBind, RebindOrVacate, VacateOccupant, Unbind,
                    SetHostMedia, ExpireGrace, UnchangedByBinding, peerVars, lockVars
<1>6. CASE Program
  BY <1>1, <1>6 DEF Program, SourceReports, ObsActive, ReportLost, peerVars, lockVars
<1>7. CASE Moderation
  <2>1. ASSUME NEW p \in People, NEW on, NEW off, ApplyState(p, on, off) PROVE LockedIsOff'
    <3>1. live'[p] \subseteq live[p] \cup {m \in on : ~Locked(p, m)}
      BY <1>0, <2>1 DEF ApplyState
    <3>2. \A q \in Peers : q # p => live'[q] = live[q]
      BY <1>0, <2>1 DEF ApplyState
    <3>3. locks' = locks
      BY <2>1 DEF ApplyState, lockVars
    <3> QED BY <3>1, <3>2, <3>3 DEF Locked
  <2>2. ASSUME NEW a \in People, NEW t \in Peers, NEW m \in Modalities, ForceOff(a, t, m)
        PROVE  LockedIsOff'
    BY <1>3, <2>2 DEF ForceOff
  <2>3. ASSUME NEW a \in People, NEW t \in Peers, NEW m \in Modalities, Release(a, t, m)
        PROVE  LockedIsOff'
    BY <1>2, <2>3 DEF Release, peerVars
  <2>4. ASSUME NEW S, Remove(S), locks' = locks PROVE LockedIsOff'
    BY <1>1, <2>4 DEF Remove
  <2> QED BY <1>1, <1>7, <2>1, <2>2, <2>3, <2>4
          DEF Moderation, SetHand, DismissHand, Kick, Depart, SetRole, lockVars
<1>8. CASE Screenshare
  <2>1. ASSUME NEW p \in Guests, GrantScreen(p) PROVE LockedIsOff'
    BY <1>1, <1>2, <2>1, RolesAssumption DEF GrantScreen, lockVars
  <2>2. ASSUME NEW p \in Guests, RevokeScreen(p) PROVE LockedIsOff'
    <3>1. CASE Locked(p, "share")
      BY <1>1, <2>2, <3>1 DEF RevokeScreen, lockVars
    <3>2. CASE ~Locked(p, "share")
      BY <1>3, <2>2, <3>2, RolesAssumption DEF RevokeScreen
    <3> QED BY <3>1, <3>2
  <2> QED BY <1>1, <1>8, <2>1, <2>2
          DEF Screenshare, SetScreenEligible, ScreenStart, ScreenStop, ScreenSelect, ScreenClear,
              UnchangedByBinding, peerVars, lockVars
<1> QED BY <1>4, <1>5, <1>6, <1>7, <1>8 DEF Next

\* EN-7: a locked modality is off, whatever the target sends and however it
\* reconnects.
THEOREM LockedIsOffCorrect == Spec => []LockedIsOff
<1>1. Init => LockedIsOff
  BY DEF Init, LockedIsOff
<1>2. TypeOK /\ LockedIsOff /\ [Next]_vars => LockedIsOff'
  BY LockedIsOffStep DEF LockedIsOff, Locked, vars, peerVars, lockVars
<1> QED BY <1>1, <1>2, TypeCorrect, PTL DEF Spec

\* AC-9: granting eligibility back never lifts a co-host's moderation.
THEOREM GrantKeepsModerationCorrect == Spec => GrantKeepsModeration
<1> DEFINE Keeps == \A p \in Peers :
                       p \in canScreen' \ canScreen /\ locks[p]["share"] = 1
                           => locks'[p]["share"] = 1
<1>1. TypeOK /\ [Next]_vars => [Keeps]_vars
  <2> SUFFICES ASSUME TypeOK, Next, NEW p \in Peers, p \in canScreen', p \notin canScreen,
                      locks[p]["share"] = 1
               PROVE  locks'[p]["share"] = 1
    OBVIOUS
  <2>1. \E q \in Guests : SetScreenEligible(q) \/ GrantScreen(q)
    <3>1. CASE Connections
      BY <3>1 DEF Connections, Join, JoinSource, Leave, RotateSource, EvictPeers, Depart, Remove,
                  Terminate, Respawn, peerVars
    <3>2. CASE Bindings
      BY <3>2 DEF Bindings, Rebind, ResumeBind, RebindOrVacate, VacateOccupant, Unbind,
                  SetHostMedia, ExpireGrace, UnchangedByBinding, peerVars
    <3>3. CASE Program
      BY <3>3 DEF Program, SourceReports, ObsActive, ReportLost, peerVars
    <3>4. CASE Moderation
      BY <3>4 DEF Moderation, ApplyState, SetHand, DismissHand, Kick, Depart, Remove, ForceOff,
                  Release, SetRole, peerVars
    <3>5. CASE Screenshare
      BY <3>5 DEF Screenshare, RevokeScreen, ScreenStart, ScreenStop, ScreenSelect, ScreenClear,
                  UnchangedByBinding, peerVars
    <3> QED BY <3>1, <3>2, <3>3, <3>4, <3>5 DEF Next
  <2> PICK q \in Guests : SetScreenEligible(q) \/ GrantScreen(q)
    BY <2>1
  <2>2. CASE p = q
    <3>1. ~HostShareLock(q)
      BY <2>2 DEF HostShareLock
    <3>2. locks' = locks
      BY <3>1 DEF SetScreenEligible, GrantScreen, lockVars
    <3> QED BY <3>2
  <2>3. CASE p # q
    BY <2>3 DEF SetScreenEligible, GrantScreen
  <2> QED BY <2>2, <2>3
<1> QED BY <1>1, TypeCorrect, PTL DEF Spec, GrantKeepsModeration

-----------------------------------------------------------------------------
(* Screenshare *)

\* Whoever is in the pool is in the room and may share.
PoolSound == \A p \in previews : role[p] # "none" /\ locks[p]["share"] = Unlocked

LEMMA PoolStep ==
    ASSUME TypeOK, ShareFromPool, Next
    PROVE  PoolSound'
<1> USE NamesFacts, RolesAssumption
<1>0. /\ \A p \in previews : p \in Peers /\ role[p] # "none" /\ locks[p]["share"] = Unlocked
      /\ locks \in [Peers -> [Modalities -> Floors]]
  BY DEF TypeOK, ShareFromPool, InRoom, Locked
<1>1. ASSUME previews' \subseteq previews, KeepsPeers, locks' = locks PROVE PoolSound'
  BY <1>0, <1>1 DEF KeepsPeers, PoolSound
<1>a. ASSUME previews' = previews, role' = role, locks' = locks PROVE PoolSound'
  BY <1>0, <1>a DEF PoolSound
<1>2. ASSUME NEW S, Remove(S), locks' = locks PROVE PoolSound'
  BY <1>0, <1>2 DEF Remove, PoolSound
<1>3. ASSUME NEW t \in Peers, NEW m \in Modalities, NEW floor, SetLock(t, m, floor),
             (m = "share" /\ t \notin previews') \/ m # "share" \/ floor = Unlocked,
             previews' \subseteq previews, role' = role
      PROVE  PoolSound'
  BY <1>0, <1>3 DEF SetLock, PoolSound
<1>4. CASE Connections
  <2>1. ASSUME NEW p \in People, Join(p) PROVE PoolSound'
    <3>1. (IF p = Host THEN "host" ELSE CredentialRole[p]) # "none"
      BY DEF People
    <3> QED BY <1>1, <2>1, <3>1 DEF Join, KeepsPeers, TypeOK, lockVars
  <2>2. ASSUME NEW s \in Slots, JoinSource(s) PROVE PoolSound'
    BY <1>1, <2>2 DEF JoinSource, KeepsPeers, TypeOK, lockVars
  <2>3. ASSUME Terminate PROVE PoolSound'
    BY <1>a, <2>3 DEF Terminate, peerVars, lockVars
  <2>4. ASSUME Respawn PROVE PoolSound'
    BY <2>4 DEF Respawn, PoolSound
  <2> QED BY <1>2, <1>4, <2>1, <2>2, <2>3, <2>4
          DEF Connections, Leave, RotateSource, EvictPeers, Depart, lockVars
<1>5. CASE Bindings
  BY <1>a, <1>5 DEF Bindings, Rebind, ResumeBind, RebindOrVacate, VacateOccupant, Unbind,
                    SetHostMedia, ExpireGrace, UnchangedByBinding, peerVars, lockVars
<1>6. CASE Program
  BY <1>a, <1>6 DEF Program, SourceReports, ObsActive, ReportLost, peerVars, lockVars
<1>7. CASE Moderation
  <2>1. ASSUME NEW a \in People, NEW t \in Peers, NEW m \in Modalities, ForceOff(a, t, m)
        PROVE  PoolSound'
    <3>1. CASE m = "share"
      BY <1>3, <2>1, <3>1 DEF ForceOff, PullFromShare
    <3>2. CASE m # "share"
      BY <1>3, <2>1, <3>2 DEF ForceOff
    <3> QED BY <3>1, <3>2
  <2>2. ASSUME NEW a \in People, NEW t \in Peers, NEW m \in Modalities, Release(a, t, m)
        PROVE  PoolSound'
    BY <1>3, <2>2 DEF Release, peerVars
  <2>3. ASSUME NEW t \in Peers, NEW r \in {"cohost", "guest"}, SetRole(t, r) PROVE PoolSound'
    BY <1>1, <2>3 DEF SetRole, KeepsPeers, TypeOK, lockVars
  <2> QED BY <1>a, <1>2, <1>7, <2>1, <2>2, <2>3
          DEF Moderation, ApplyState, SetHand, DismissHand, Kick, Depart, lockVars
<1>8. CASE Screenshare
  <2>1. ASSUME NEW p \in Guests, GrantScreen(p) PROVE PoolSound'
    <3>1. CASE HostShareLock(p)
      BY <1>3, <2>1, <3>1 DEF GrantScreen
    <3>2. CASE ~HostShareLock(p)
      BY <1>1, <2>1, <3>2 DEF GrantScreen, lockVars, KeepsPeers
    <3> QED BY <3>1, <3>2
  <2>2. ASSUME NEW p \in Guests, RevokeScreen(p) PROVE PoolSound'
    <3>1. CASE Locked(p, "share")
      BY <1>1, <2>2, <3>1 DEF RevokeScreen, PullFromShare, lockVars, KeepsPeers
    <3>2. CASE ~Locked(p, "share")
      BY <1>3, <2>2, <3>2 DEF RevokeScreen, PullFromShare
    <3> QED BY <3>1, <3>2
  <2>3. ASSUME NEW p \in People, ScreenStart(p) PROVE PoolSound'
    BY <1>0, <2>3 DEF ScreenStart, PoolSound, IsParticipant, Locked, peerVars, lockVars
  <2>4. ASSUME NEW p \in People, ScreenStop(p) PROVE PoolSound'
    BY <1>1, <2>4 DEF ScreenStop, PullFromShare, peerVars, lockVars, KeepsPeers
  <2> QED BY <1>a, <1>8, <2>1, <2>2, <2>3, <2>4
          DEF Screenshare, SetScreenEligible, ScreenSelect, ScreenClear, UnchangedByBinding,
              peerVars, lockVars
<1> QED BY <1>4, <1>5, <1>6, <1>7, <1>8 DEF Next

\* The live share comes from the pool.
LiveFromPool == slots[ScreenSlot].occupant # None => slots[ScreenSlot].occupant \in previews

LEMMA LiveStep ==
    ASSUME TypeOK, ShareFromPool, Next
    PROVE  LiveFromPool'
<1> USE NamesFacts
<1>0. /\ \A s \in Slots : slots[s] \in SlotStates
      /\ slots[ScreenSlot].occupant # None => slots[ScreenSlot].occupant \in previews
  BY DEF TypeOK, ShareFromPool, LiveSharer
<1>1. ASSUME slots'[ScreenSlot].occupant \in {None, slots[ScreenSlot].occupant},
             previews \subseteq previews'
      PROVE  LiveFromPool'
  BY <1>0, <1>1 DEF LiveFromPool
<1>2. ASSUME NEW p, PullFromShare(p) PROVE LiveFromPool'
  <2>1. slots'[ScreenSlot].occupant \in {None, slots[ScreenSlot].occupant} \ {p}
        \/ slots'[ScreenSlot].occupant = None
    BY <1>0, <1>2, VacatedFields DEF PullFromShare, SetSlots, VacatedAll
  <2> QED BY <1>0, <1>2, <2>1 DEF PullFromShare, LiveFromPool
<1>3. ASSUME NEW S, NEW terminal \in BOOLEAN, Depart(S, terminal) PROVE LiveFromPool'
  <2>1. slots'[ScreenSlot] = Left(ScreenSlot, S, terminal) /\ previews' = previews \ S
    BY <1>3 DEF Depart, SetSlots, Remove
  <2>2. CASE slots[ScreenSlot].occupant \in S
    BY <1>0, <2>1, <2>2, LeftFields, FreedFields, VacatedFields DEF LiveFromPool
  <2>3. CASE slots[ScreenSlot].occupant \notin S
    BY <1>0, <2>1, <2>3, LeftFields, FreedFields DEF LiveFromPool
  <2> QED BY <2>2, <2>3
<1>4. ASSUME NEW sid \in Slots \ {ScreenSlot}, NEW p \in Peers, slots' = Rebound(sid, p)
      PROVE  slots'[ScreenSlot] = slots[ScreenSlot]
  BY <1>4, ReboundSlots DEF OtherCamSlots
<1>5. ASSUME NEW S, slots' = VacatedAll(S)
      PROVE  slots'[ScreenSlot].occupant \in {None, slots[ScreenSlot].occupant}
  BY <1>0, <1>5, VacatedFields DEF VacatedAll
<1>6. CASE Connections
  <2>1. ASSUME NEW s \in Slots, JoinSource(s) PROVE LiveFromPool'
    <3>1. slots'[ScreenSlot].occupant = slots[ScreenSlot].occupant
      BY <1>0, <2>1, AttachedFields DEF JoinSource, SetSlots, TypeOK
    <3> QED BY <1>1, <2>1, <3>1 DEF JoinSource
  <2>2. ASSUME Respawn PROVE LiveFromPool'
    BY <2>2, FreshSlotFields DEF Respawn, LiveFromPool
  <2> QED BY <1>1, <1>3, <1>6, <2>1, <2>2
          DEF Connections, Join, Leave, RotateSource, EvictPeers, Terminate, slotVars
<1>7. CASE Bindings
  <2>1. ASSUME NEW s \in Slots, NEW p \in Peers,
               Rebind(s, p) \/ ResumeBind(s, p) \/ RebindOrVacate(s, p)
        PROVE  LiveFromPool'
    BY <1>1, <1>4, <1>5, <2>1 DEF Rebind, ResumeBind, RebindOrVacate, SetSlots, UnchangedByBinding
  <2>2. ASSUME NEW active \in BOOLEAN, SetHostMedia(active) PROVE LiveFromPool'
    BY <1>1, <1>4, <1>5, <2>2 DEF SetHostMedia, SetSlots, UnchangedByBinding
  <2>3. ASSUME NEW t \in timers, ExpireGrace(t) PROVE LiveFromPool'
    BY <1>1, <1>5, <2>3 DEF ExpireGrace
  <2>4. Guests \subseteq Peers
    OBVIOUS
  <2> QED BY <1>1, <1>5, <1>7, <2>1, <2>2, <2>3, <2>4
          DEF Bindings, VacateOccupant, Unbind, SetSlots, UnchangedByBinding
<1>8. CASE Program
  <2>1. ASSUME NEW r \in reports, ObsActive(r) PROVE LiveFromPool'
    <3>1. slots'[ScreenSlot].occupant = slots[ScreenSlot].occupant
      BY <1>0, <2>1 DEF ObsActive, SlotStates, TypeOK
    <3> QED BY <1>1, <2>1, <3>1 DEF ObsActive
  <2> QED BY <1>1, <1>8, <2>1 DEF Program, SourceReports, ReportLost
<1>9. CASE Moderation
  <2>1. ASSUME NEW a \in People, NEW t \in Peers, NEW m \in Modalities, ForceOff(a, t, m)
        PROVE  LiveFromPool'
    BY <1>1, <1>2, <2>1 DEF ForceOff
  <2> QED BY <1>1, <1>3, <1>9, <2>1
          DEF Moderation, ApplyState, SetHand, DismissHand, Kick, Release, SetRole, slotVars
<1>10. CASE Screenshare
  <2>1. ASSUME NEW p \in People, ScreenSelect(p) PROVE LiveFromPool'
    <3>1. slots'[ScreenSlot] = Bound(slots[ScreenSlot], p)
      BY <2>1, ReboundSlots DEF ScreenSelect, SetSlots
    <3> QED BY <1>0, <2>1, <3>1, BoundFields DEF ScreenSelect, LiveFromPool, UnchangedByBinding
  <2>2. ASSUME NEW p \in People, ScreenStart(p) PROVE LiveFromPool'
    BY <1>1, <2>2 DEF ScreenStart, slotVars
  <2> QED BY <1>1, <1>2, <1>5, <1>10, <2>1, <2>2
          DEF Screenshare, SetScreenEligible, GrantScreen, RevokeScreen, ScreenStop, ScreenClear,
              SetSlots, UnchangedByBinding, slotVars
<1> QED BY <1>6, <1>7, <1>8, <1>9, <1>10 DEF Next

\* D-21: the live screenshare is one of the shares of the preview pool, and a
\* peer that is share-locked or gone shares nothing.
THEOREM ShareFromPoolCorrect == Spec => []ShareFromPool
<1> USE NamesFacts
<1>1. Init => ShareFromPool
  BY FreshSlotFields DEF Init, ShareFromPool, LiveSharer
<1>2. TypeOK /\ ShareFromPool /\ Next => ShareFromPool'
  BY PoolStep, LiveStep DEF PoolSound, LiveFromPool, ShareFromPool, LiveSharer, InRoom, Locked
<1>3. ShareFromPool /\ UNCHANGED vars => ShareFromPool'
  BY DEF ShareFromPool, LiveSharer, InRoom, Locked, vars, peerVars, slotVars, lockVars
<1> QED BY <1>1, <1>2, <1>3, TypeCorrect, PTL DEF Spec

-----------------------------------------------------------------------------
(* Holds *)

LEMMA AttachKeepsPeers ==
    ASSUME TypeOK, NEW s \in Slots, JoinSource(s)
    PROVE  KeepsPeers
BY DEF TypeOK, JoinSource, KeepsPeers

LEMMA BindingStep ==
    ASSUME TypeOK, ShareFromPool, BoundToPresentOrHeld, Next
    PROVE  BoundToPresentOrHeld'
<1> USE NamesFacts
<1>0. \A s \in Slots : slots[s] \in SlotStates
  BY DEF TypeOK
<1> DEFINE Good(st) == /\ st.occupant # None => role'[st.occupant] # "none" \/ st.disconnected
                       /\ st.disconnected => st.occupant # None
<1> SUFFICES ASSUME NEW s \in Slots
             PROVE  /\ Good(slots'[s])
                    /\ slots'[s].disconnected => s \in CamSlots
  BY DEF BoundToPresentOrHeld, InRoom
<1>1. /\ slots[s].occupant \in Peers \cup {None}
      /\ slots[s].occupant # None => role[slots[s].occupant] # "none" \/ slots[s].disconnected
      /\ slots[s].disconnected => s \in CamSlots /\ slots[s].occupant # None
  BY <1>0 DEF BoundToPresentOrHeld, InRoom, SlotStates
<1>2. ASSUME KeepsPeers, slots'[s].occupant = slots[s].occupant,
             slots'[s].disconnected = slots[s].disconnected
      PROVE  Good(slots'[s]) /\ (slots'[s].disconnected => s \in CamSlots)
  BY <1>1, <1>2 DEF KeepsPeers
<1>3. ASSUME slots'[s] = Vacated(slots[s]) PROVE Good(slots'[s]) /\ ~slots'[s].disconnected
  BY <1>0, <1>3, VacatedFields
<1>4. CASE Stays
  BY <1>2, <1>4 DEF Stays
<1>5. CASE Rebinds
  <2> PICK sid \in Slots, p \in Peers : /\ IF sid = ScreenSlot THEN p \in previews ELSE InRoom(p)
                                        /\ slots' = Rebound(sid, p)
                                        /\ UnchangedByBinding
    BY <1>5 DEF Rebinds
  <2>1. KeepsPeers /\ role'[p] # "none"
    BY DEF UnchangedByBinding, peerVars, KeepsPeers, InRoom, ShareFromPool
  <2>2. CASE s = sid
    <3>1. slots'[s] = Bound(slots[s], p)
      BY <2>2, ReboundSlots
    <3> QED BY <1>0, <2>1, <3>1, BoundFields
  <2>3. CASE s # sid
    <3>1. slots'[s] = slots[s] \/ slots'[s] = Vacated(slots[s])
      BY <2>3, ReboundSlots
    <3> QED BY <1>2, <1>3, <2>1, <3>1
  <2> QED BY <2>2, <2>3
<1>6. CASE Vacates
  BY <1>2, <1>3, <1>6 DEF Vacates, VacatedAll
<1>7. CASE Departs
  <2> PICK S \in SUBSET Peers, terminal \in BOOLEAN : Depart(S, terminal)
    BY <1>7 DEF Departs
  <2>1. /\ slots'[s] = Left(s, S, terminal)
        /\ \A q \in Peers \ S : role'[q] = role[q]
    BY DEF Depart, SetSlots, Remove
  <2>2. CASE slots[s].occupant \notin S
    BY <1>0, <1>1, <2>1, <2>2, LeftFields, FreedFields
  <2>3. CASE slots[s].occupant \in S /\ s \in CamSlots /\ ~terminal
    BY <1>0, <2>1, <2>3, LeftFields, FreedFields, HeldFields
  <2>4. CASE slots[s].occupant \in S /\ (s \notin CamSlots \/ terminal)
    BY <1>0, <2>1, <2>4, LeftFields, FreedFields, VacatedFields
  <2> QED BY <2>2, <2>3, <2>4
<1>8. CASE Attaches
  <2> PICK t \in Slots : JoinSource(t)
    BY <1>8 DEF Attaches
  <2>1. slots'[s] = IF s = t THEN Attached(slots[t], SourceOf[t]) ELSE slots[s]
    BY DEF JoinSource, SetSlots, TypeOK
  <2> QED BY <1>0, <1>2, <2>1, AttachedFields, AttachKeepsPeers
<1>9. CASE Expires
  BY <1>2, <1>3, <1>9 DEF Expires, ExpireGrace, VacatedAll, KeepsPeers, peerVars
<1>10. CASE Reflects
  <2>1. /\ slots'[s].occupant = slots[s].occupant
        /\ slots'[s].disconnected = slots[s].disconnected
    BY <1>0, <1>10 DEF Reflects, ObsActive, SlotStates, TypeOK
  <2> QED BY <1>2, <1>10, <2>1 DEF Reflects, ObsActive, KeepsPeers, peerVars
<1>11. CASE Respawn
  BY <1>11, FreshSlotFields DEF Respawn
<1> QED BY <1>4, <1>5, <1>6, <1>7, <1>8, <1>9, <1>10, <1>11, SlotStep

\* EN-3: a slot is bound to a peer of the room or is held, marked disconnected,
\* for one that dropped; only a bound cam slot is held.
THEOREM BoundCorrect == Spec => []BoundToPresentOrHeld
<1>1. Init => BoundToPresentOrHeld
  BY FreshSlotFields DEF Init, BoundToPresentOrHeld
<1>2. TypeOK /\ ShareFromPool /\ BoundToPresentOrHeld /\ [Next]_vars => BoundToPresentOrHeld'
  BY BindingStep DEF BoundToPresentOrHeld, InRoom, vars, peerVars, slotVars
<1> QED BY <1>1, <1>2, TypeCorrect, ShareFromPoolCorrect, PTL DEF Spec

\* The expiry of the disconnection recorded in st.
Expiry(s, st) == [slot |-> s, occupant |-> st.occupant, gen |-> st.graceGen]
LEMMA ExpiryStep ==
    ASSUME TypeOK, BoundToPresentOrHeld, HoldHasExpiry, Next
    PROVE  HoldHasExpiry'
<1> USE NamesFacts
<1>0. \A s \in Slots : slots[s] \in SlotStates
  BY DEF TypeOK
<1> SUFFICES ASSUME NEW s \in CamSlots, slots'[s].disconnected,
                    role'[slots'[s].occupant] = "none"
             PROVE  Expiry(s, slots'[s]) \in timers'
  BY DEF HoldHasExpiry, InRoom, Expiry
<1>1. ASSUME slots[s].disconnected, role[slots[s].occupant] = "none"
      PROVE  Expiry(s, slots[s]) \in timers
  BY <1>1 DEF HoldHasExpiry, InRoom, Expiry
<1>2. slots[s].disconnected => slots[s].occupant \in Peers
  BY <1>0 DEF BoundToPresentOrHeld, SlotStates
<1>3. ASSUME KeepsPeers, slots'[s].occupant = slots[s].occupant,
             slots'[s].disconnected = slots[s].disconnected,
             slots'[s].graceGen = slots[s].graceGen
      PROVE  Expiry(s, slots[s]) \in timers /\ Expiry(s, slots'[s]) = Expiry(s, slots[s])
  <2>1. role[slots[s].occupant] = "none"
    BY <1>2, <1>3 DEF KeepsPeers
  <2> QED BY <1>1, <1>3, <2>1 DEF Expiry
<1>4. slots'[s] # Vacated(slots[s])
  BY <1>0, VacatedFields
<1>5. CASE Stays
  BY <1>3, <1>5 DEF Stays
<1>6. CASE Rebinds
  <2> PICK sid \in Slots, p \in Peers : slots' = Rebound(sid, p) /\ UnchangedByBinding
    BY <1>6 DEF Rebinds
  <2>1. slots'[s] = slots[s]
    BY SMTT(30), <1>0, <1>4, ReboundSlots, BoundFields
  <2>2. KeepsPeers /\ timers' = timers
    BY DEF UnchangedByBinding, peerVars, KeepsPeers
  <2> QED BY <1>3, <2>1, <2>2
<1>7. CASE Vacates
  <2>1. slots'[s] = slots[s]
    BY <1>4, <1>7 DEF Vacates, VacatedAll
  <2> QED BY <1>3, <1>7, <2>1 DEF Vacates
<1>8. CASE Departs
  <2> PICK S \in SUBSET Peers, terminal \in BOOLEAN :
         /\ Depart(S, terminal)
         /\ IF terminal THEN timers' = timers
            ELSE \E p \in Peers : S = {p} /\ timers' = timers \cup Armed(p, slots')
    BY <1>8 DEF Departs
  <2>1. /\ slots'[s] = Left(s, S, terminal) /\ timers \subseteq timers'
        /\ \A q \in Peers \ S : role'[q] = role[q]
    BY DEF Depart, SetSlots, Remove
  <2>2. CASE slots[s].occupant \notin S
    <3>1. slots'[s] = Freed(slots[s], S)
      BY <1>0, <2>1, <2>2, LeftFields
    <3>2. /\ slots'[s].occupant = slots[s].occupant
          /\ slots'[s].disconnected = slots[s].disconnected
          /\ slots'[s].graceGen = slots[s].graceGen
      <4>1. /\ Freed(slots[s], S).occupant = slots[s].occupant
            /\ Freed(slots[s], S).disconnected = slots[s].disconnected
            /\ Freed(slots[s], S).graceGen = slots[s].graceGen
        BY <1>0, FreedFields
      <4> QED BY <3>1, <4>1
    <3>3. role[slots[s].occupant] = "none"
      BY <1>2, <2>1, <2>2, <3>2
    <3> QED BY <1>1, <2>1, <3>2, <3>3 DEF Expiry
  <2>3. CASE slots[s].occupant \in S /\ terminal
    <3>1. slots'[s] = Vacated(Freed(slots[s], S))
      BY <1>0, <2>1, <2>3, LeftFields
    <3>2. Freed(slots[s], S) \in SlotStates
      BY <1>0, FreedFields
    <3> QED BY <3>1, <3>2, VacatedFields
  <2>4. CASE slots[s].occupant \in S /\ ~terminal
    <3>1. slots'[s].occupant = slots[s].occupant
      BY <1>0, <2>1, <2>4, LeftFields, FreedFields, HeldFields
    <3>2. PICK p \in Peers : S = {p} /\ timers' = timers \cup Armed(p, slots')
      BY <2>4
    <3> QED BY <2>4, <3>1, <3>2 DEF Armed, Expiry
  <2> QED BY <2>2, <2>3, <2>4
<1>9. CASE Attaches
  <2> PICK t \in Slots : JoinSource(t)
    BY <1>9 DEF Attaches
  <2>1. slots'[s] = IF s = t THEN Attached(slots[t], SourceOf[t]) ELSE slots[s]
    BY DEF JoinSource, SetSlots, TypeOK
  <2>2. /\ slots'[s].occupant = slots[s].occupant
        /\ slots'[s].disconnected = slots[s].disconnected
        /\ slots'[s].graceGen = slots[s].graceGen
    <3>1. SourceOf[t] \in Sources /\ slots[t] \in SlotStates
      BY <1>0
    <3>2. /\ Attached(slots[t], SourceOf[t]).occupant = slots[t].occupant
          /\ Attached(slots[t], SourceOf[t]).disconnected = slots[t].disconnected
          /\ Attached(slots[t], SourceOf[t]).graceGen = slots[t].graceGen
      BY <3>1, AttachedFields
    <3> QED BY <2>1, <3>2
  <2> QED BY <1>3, <2>2, AttachKeepsPeers DEF JoinSource
<1>10. CASE Expires
  <2> PICK t \in timers : ExpireGrace(t)
    BY <1>10 DEF Expires
  <2>1. KeepsPeers
    BY DEF ExpireGrace, KeepsPeers, peerVars
  <2>2. slots'[s] = slots[s]
    BY <1>4 DEF ExpireGrace, VacatedAll
  <2>3. Expiry(s, slots[s]) \in timers /\ Expiry(s, slots'[s]) = Expiry(s, slots[s])
    BY <1>3, <2>1, <2>2
  <2>4. Expiry(s, slots[s]) # t
    <3> SUFFICES ASSUME t = Expiry(s, slots[s]) PROVE FALSE
      OBVIOUS
    <3>1. t.slot = s /\ t.occupant = slots[s].occupant /\ t.gen = slots[s].graceGen
      BY DEF Expiry
    <3>2. Due(t)
      BY <2>2, <3>1 DEF Due, InRoom, ExpireGrace, peerVars
    <3>3. slots'[s] = Vacated(slots[s])
      BY <3>1, <3>2 DEF ExpireGrace, VacatedAll
    <3> QED BY <1>4, <3>3
  <2> QED BY <2>3, <2>4 DEF ExpireGrace
<1>11. CASE Reflects
  <2>1. /\ slots'[s].occupant = slots[s].occupant
        /\ slots'[s].disconnected = slots[s].disconnected
        /\ slots'[s].graceGen = slots[s].graceGen
    <3> PICK r \in reports : ObsActive(r)
      BY <1>11 DEF Reflects
    <3> DEFINE a == IF r.active THEN "on-air" ELSE "not-on-air"
    <3>1. slots' = slots \/ slots' = [slots EXCEPT ![r.slot].onAir = a]
      BY DEF ObsActive
    <3>2. slots'[s] = slots[s] \/ slots'[s] = [slots[s] EXCEPT !.onAir = a]
      BY <3>1 DEF TypeOK
    <3> QED BY <1>0, <3>2 DEF SlotStates
  <2> QED BY <1>3, <1>11, <2>1 DEF Reflects, ObsActive, KeepsPeers, peerVars
<1>12. CASE Respawn
  BY <1>12, FreshSlotFields DEF Respawn
<1> QED BY <1>5, <1>6, <1>7, <1>8, <1>9, <1>10, <1>11, <1>12, SlotStep

\* D-40: a slot held for an absent peer has the expiry of this very disconnection
\* armed, so no hold is without an end.
THEOREM HoldHasExpiryCorrect == Spec => []HoldHasExpiry
<1>1. Init => HoldHasExpiry
  BY NamesFacts, FreshSlotFields DEF Init, HoldHasExpiry
<1>2. TypeOK /\ BoundToPresentOrHeld /\ HoldHasExpiry /\ [Next]_vars => HoldHasExpiry'
  BY ExpiryStep DEF HoldHasExpiry, InRoom, vars, peerVars, slotVars
<1> QED BY <1>1, <1>2, TypeCorrect, BoundCorrect, PTL DEF Spec

-----------------------------------------------------------------------------
(* On-air reports *)

\* A slot is attached to its own page or to none, and what is in flight on an
\* attached connection is from a page that is still there.
SourcesSound ==
    /\ \A s \in Slots : slots[s].source \in {None, SourceOf[s]}
    /\ \A r \in reports : r.origin = "attached" => slots[r.slot].source # None

\* Sources are touched by attaching and departing alone.
LEMMA SourceEffect ==
    ASSUME TypeOK, Next, NEW s \in Slots
    PROVE  \/ slots'[s].source = slots[s].source
           \/ Departs \/ Attaches \/ Respawn
<1> USE NamesFacts
<1>0. slots[s] \in SlotStates
  BY DEF TypeOK
<1>1. CASE Rebinds
  <2> PICK sid \in Slots, p \in Peers : slots' = Rebound(sid, p)
    BY <1>1 DEF Rebinds
  <2>1. slots'[s] \in {slots[s], Bound(slots[s], p), Vacated(slots[s])}
    BY ReboundSlots
  <2>2. /\ Bound(slots[s], p).source = slots[s].source
        /\ Vacated(slots[s]).source = slots[s].source
    BY <1>0, BoundFields, VacatedFields
  <2> QED BY <2>1, <2>2
<1>2. CASE Vacates \/ Expires
  <2>1. slots'[s] \in {slots[s], Vacated(slots[s])}
    BY <1>2 DEF Vacates, Expires, ExpireGrace, VacatedAll
  <2> QED BY <1>0, <2>1, VacatedFields
<1>3. CASE Reflects
  <2> PICK r \in reports : ObsActive(r)
    BY <1>3 DEF Reflects
  <2> DEFINE a == IF r.active THEN "on-air" ELSE "not-on-air"
  <2>1. slots' = slots \/ slots' = [slots EXCEPT ![r.slot].onAir = a]
    BY DEF ObsActive
  <2>2. slots'[s] = slots[s] \/ slots'[s] = [slots[s] EXCEPT !.onAir = a]
    BY <2>1 DEF TypeOK
  <2> QED BY <1>0, <2>2 DEF SlotStates
<1> QED BY <1>1, <1>2, <1>3, SlotStep DEF Stays

LEMMA ReportStep ==
    ASSUME TypeOK, SourcesSound, CurrentEpochNamesOccupant, Next
    PROVE  SourcesSound' /\ CurrentEpochNamesOccupant'
<1> USE NamesFacts
<1>0. /\ \A s \in Slots : slots[s] \in SlotStates /\ slots[s].epoch \in Nat
      /\ reports \subseteq Reports
  BY DEF TypeOK, SlotStates
<1>1. CASE Respawn
  BY <1>1, FreshSlotFields DEF Respawn, SourcesSound, CurrentEpochNamesOccupant
<1> SUFFICES ASSUME ~Respawn
             PROVE  SourcesSound' /\ CurrentEpochNamesOccupant'
  BY <1>1
<1>2. ASSUME NEW r \in reports
      PROVE  /\ r.slot \in Slots /\ r.epoch \in Nat
             /\ r.epoch <= slots'[r.slot].epoch
             /\ r.epoch = slots'[r.slot].epoch =>
                   r.occupant = slots'[r.slot].occupant /\ r.origin # "displaced"
  <2>1. r.slot \in Slots /\ r.epoch \in Nat
    BY <1>0 DEF Reports
  <2> QED BY <1>0, <2>1, EpochEffect DEF CurrentEpochNamesOccupant
<1>3. CASE Departs
  <2> PICK S \in SUBSET Peers, terminal \in BOOLEAN : Depart(S, terminal)
    BY <1>3 DEF Departs
  <2>1. \A s \in Slots : slots'[s].source =
                            IF slots[s].source \in S THEN None ELSE slots[s].source
    BY <1>0, LeftFields DEF Depart, SetSlots
  <2>2. ASSUME NEW r \in reports'
        PROVE  \/ r \in reports /\ ~(SourceOf[r.slot] \in S /\ r.origin = "attached")
               \/ \E q \in reports : r = [q EXCEPT !.origin = "evicted"]
    BY DEF Depart, LeftReports
  <2>3. SourcesSound'
    <3>1. ASSUME NEW r \in reports', r.origin = "attached" PROVE slots'[r.slot].source # None
      <4>1. r \in reports /\ SourceOf[r.slot] \notin S
        BY <1>0, <2>2, <3>1 DEF Reports
      <4> QED BY <1>2, <2>1, <3>1, <4>1 DEF SourcesSound
    <3> QED BY <2>1, <3>1 DEF SourcesSound
  <2>4. CurrentEpochNamesOccupant'
    <3> SUFFICES ASSUME NEW r \in reports'
                 PROVE  /\ r.epoch <= slots'[r.slot].epoch
                        /\ r.epoch = slots'[r.slot].epoch =>
                              r.occupant = slots'[r.slot].occupant /\ r.origin # "displaced"
      BY DEF CurrentEpochNamesOccupant
    <3>1. CASE r \in reports
      BY <1>2, <3>1
    <3>2. ASSUME NEW q \in reports, r = [q EXCEPT !.origin = "evicted"]
          PROVE  /\ r.slot = q.slot /\ r.epoch = q.epoch /\ r.occupant = q.occupant
                 /\ r.origin = "evicted"
      BY <1>0, <3>2 DEF Reports
    <3> QED BY <1>2, <2>2, <3>1, <3>2
  <2> QED BY <2>3, <2>4
<1>4. CASE Attaches
  <2> PICK s \in Slots : JoinSource(s)
    BY <1>4 DEF Attaches
  <2>1. \A t \in Slots : slots'[t] = IF t = s THEN Attached(slots[s], SourceOf[s]) ELSE slots[t]
    BY DEF JoinSource, SetSlots, TypeOK
  <2>2. /\ slots'[s].source = SourceOf[s]
        /\ slots[s].source # None => slots'[s].epoch = slots[s].epoch + 1
    BY <1>0, <2>1, AttachedFields
  <2>3. ASSUME NEW r \in reports'
        PROVE  \/ r \in reports /\ ~(r.slot = s /\ r.origin = "attached")
               \/ \E q \in reports : /\ q.slot = s /\ q.origin = "attached"
                                     /\ r = [q EXCEPT !.origin = "displaced"]
    BY DEF JoinSource
  <2>4. ASSUME NEW q \in reports, NEW r, r = [q EXCEPT !.origin = "displaced"]
        PROVE  r.slot = q.slot /\ r.epoch = q.epoch /\ r.origin = "displaced"
    BY <1>0, <2>4 DEF Reports
  <2>5. SourcesSound'
    <3>1. ASSUME NEW r \in reports', r.origin = "attached" PROVE slots'[r.slot].source # None
      <4>1. r \in reports /\ r.slot # s
        BY <2>3, <2>4, <3>1
      <4> QED BY <1>2, <2>1, <3>1, <4>1 DEF SourcesSound
    <3> QED BY <2>1, <2>2, <3>1 DEF SourcesSound
  <2>6. CurrentEpochNamesOccupant'
    <3>1. ASSUME NEW q \in reports, q.slot = s, q.origin = "attached"
          PROVE  q.epoch <= slots'[s].epoch /\ q.epoch # slots'[s].epoch
      <4>1. slots[s].source # None /\ q.epoch <= slots[s].epoch /\ q.epoch \in Nat
        BY <1>2, <3>1 DEF SourcesSound, CurrentEpochNamesOccupant
      <4> QED BY <1>0, <2>2, <4>1
    <3> SUFFICES ASSUME NEW r \in reports'
                 PROVE  /\ r.epoch <= slots'[r.slot].epoch
                        /\ r.epoch = slots'[r.slot].epoch =>
                              r.occupant = slots'[r.slot].occupant /\ r.origin # "displaced"
      BY DEF CurrentEpochNamesOccupant
    <3> QED BY <1>2, <2>3, <2>4, <3>1
  <2> QED BY <2>5, <2>6
<1>5. CASE ~Departs /\ ~Attaches
  <2>1. \A s \in Slots : slots'[s].source = slots[s].source
    BY <1>5, SourceEffect
  <2>2. ASSUME NEW r \in reports' PROVE
           \/ r \in reports
           \/ /\ slots' = slots /\ r.slot \in Slots /\ slots[r.slot].source # None
              /\ r.epoch = slots[r.slot].epoch /\ r.occupant = slots[r.slot].occupant
              /\ r.origin = "attached"
    <3>1. CASE Stays
      BY <2>2, <3>1 DEF Stays, SourceReports, CanReport
    <3>2. CASE Rebinds
      BY <2>2, <3>2 DEF Rebinds, UnchangedByBinding
    <3>3. CASE Vacates \/ Expires \/ Reflects
      BY <2>2, <3>3 DEF Vacates, Expires, ExpireGrace, Reflects, ObsActive
    <3> QED BY <1>5, <3>1, <3>2, <3>3, SlotStep
  <2>3. SourcesSound'
    BY <1>2, <2>1, <2>2 DEF SourcesSound
  <2>4. CurrentEpochNamesOccupant'
    BY <1>0, <1>2, <2>2 DEF CurrentEpochNamesOccupant
  <2> QED BY <2>3, <2>4
<1> QED BY <1>3, <1>4, <1>5

ReportInv == SourcesSound /\ CurrentEpochNamesOccupant

LEMMA ReportInvariant == Spec => []ReportInv
<1>1. Init => ReportInv
  BY FreshSlotFields DEF Init, ReportInv, SourcesSound, CurrentEpochNamesOccupant
<1>2. TypeOK /\ ReportInv /\ [Next]_vars => ReportInv'
  BY ReportStep DEF ReportInv, SourcesSound, CurrentEpochNamesOccupant, vars, slotVars
<1> QED BY <1>1, <1>2, TypeCorrect, PTL DEF Spec

\* EN-3: a report that the epoch gate would let through is about the peer that
\* occupies the slot now, and did not come in on a connection the page replaced.
THEOREM CurrentEpochCorrect == Spec => []CurrentEpochNamesOccupant
<1>1. ReportInv => CurrentEpochNamesOccupant
  BY DEF ReportInv
<1> QED BY <1>1, ReportInvariant, PTL

LEMMA OnAirStep ==
    ASSUME TypeOK, BoundToPresentOrHeld, CurrentEpochNamesOccupant, OnAirHasOccupant, Next
    PROVE  OnAirHasOccupant'
<1> USE NamesFacts
<1>0. \A s \in Slots : slots[s] \in SlotStates
  BY DEF TypeOK
<1> SUFFICES ASSUME NEW s \in Slots, slots'[s].onAir # Unknown
             PROVE  /\ slots'[s].occupant # None /\ role'[slots'[s].occupant] # "none"
                    /\ ~slots'[s].disconnected
  BY DEF OnAirHasOccupant, InRoom
<1> DEFINE Goal == /\ slots'[s].occupant # None /\ role'[slots'[s].occupant] # "none"
                   /\ ~slots'[s].disconnected
<1>1. ASSUME KeepsPeers, slots'[s] = slots[s] PROVE Goal
  BY <1>0, <1>1 DEF KeepsPeers, OnAirHasOccupant, InRoom, SlotStates
<1>2. slots'[s] # Vacated(slots[s])
  BY <1>0, VacatedFields
<1>3. CASE Stays
  BY <1>1, <1>3 DEF Stays
<1>4. CASE Rebinds
  <2> PICK sid \in Slots, p \in Peers : slots' = Rebound(sid, p) /\ UnchangedByBinding
    BY <1>4 DEF Rebinds
  <2>1. slots'[s] = slots[s]
    BY SMTT(30), <1>0, <1>2, ReboundSlots, BoundFields
  <2> QED BY <1>1, <2>1 DEF UnchangedByBinding, peerVars, KeepsPeers
<1>5. CASE Vacates
  BY <1>1, <1>2, <1>5 DEF Vacates, VacatedAll
<1>6. CASE Departs
  <2> PICK S \in SUBSET Peers, terminal \in BOOLEAN : Depart(S, terminal)
    BY <1>6 DEF Departs
  <2>1. /\ slots'[s] = Left(s, S, terminal)
        /\ \A q \in Peers \ S : role'[q] = role[q]
    BY DEF Depart, SetSlots, Remove
  <2>2. Freed(slots[s], S) \in SlotStates
    BY <1>0, FreedFields
  <2>3. slots[s].occupant \notin S
    <3>1. CASE slots[s].occupant \in S /\ s \in CamSlots /\ ~terminal
      BY <1>0, <2>1, <2>2, <3>1, LeftFields, HeldFields
    <3>2. CASE slots[s].occupant \in S /\ (s \notin CamSlots \/ terminal)
      BY <1>0, <2>1, <2>2, <3>2, LeftFields, VacatedFields
    <3> QED BY <3>1, <3>2
  <2>4. slots'[s] = slots[s]
    <3>1. slots'[s] = Freed(slots[s], S)
      BY <1>0, <2>1, <2>3, LeftFields
    <3>2. slots[s].source \notin S
      BY <1>0, <3>1, FreedFields
    <3> QED BY <3>1, <3>2 DEF Freed
  <2> QED BY <1>0, <2>1, <2>3, <2>4 DEF OnAirHasOccupant, InRoom, SlotStates
<1>7. CASE Attaches
  <2> PICK t \in Slots : JoinSource(t)
    BY <1>7 DEF Attaches
  <2>1. slots'[s] = IF s = t THEN Attached(slots[t], SourceOf[t]) ELSE slots[s]
    BY DEF JoinSource, SetSlots, TypeOK
  <2> QED BY <1>0, <1>1, <2>1, AttachedFields, AttachKeepsPeers
<1>8. CASE Expires
  BY <1>1, <1>2, <1>8 DEF Expires, ExpireGrace, VacatedAll, KeepsPeers, peerVars
<1>9. CASE Reflects
  <2> PICK r \in reports : ObsActive(r)
    BY <1>9 DEF Reflects
  <2>1. KeepsPeers
    BY DEF ObsActive, KeepsPeers, peerVars
  <2>2. CASE s = r.slot /\ Credible(r)
    <3> DEFINE a == IF r.active THEN "on-air" ELSE "not-on-air"
    <3>1. slots'[s] = [slots[s] EXCEPT !.onAir = a]
      BY <2>2 DEF ObsActive, TypeOK
    <3>2. slots'[s].occupant = slots[s].occupant /\ slots'[s].disconnected = slots[s].disconnected
      BY <1>0, <3>1 DEF SlotStates
    <3>3. ~slots[s].disconnected /\ slots[s].occupant = r.occupant
      BY <2>2 DEF Credible, CurrentEpochNamesOccupant
    <3>4. r.occupant \in Peers
      BY DEF TypeOK, Reports
    <3>5. role[slots[s].occupant] # "none"
      BY <3>3, <3>4 DEF BoundToPresentOrHeld, InRoom
    <3> QED BY <2>1, <3>2, <3>3, <3>4, <3>5 DEF KeepsPeers
  <2>3. CASE ~(s = r.slot /\ Credible(r))
    <3>1. slots'[s] = slots[s]
      BY <2>3 DEF ObsActive, TypeOK
    <3> QED BY <1>1, <2>1, <3>1
  <2> QED BY <2>2, <2>3
<1>10. CASE Respawn
  BY <1>10, FreshSlotFields DEF Respawn
<1> QED BY <1>3, <1>4, <1>5, <1>6, <1>7, <1>8, <1>9, <1>10, SlotStep

\* D-24: on-air is asserted only for a slot with a connected occupant.
THEOREM OnAirCorrect == Spec => []OnAirHasOccupant
<1>1. Init => OnAirHasOccupant
  BY FreshSlotFields DEF Init, OnAirHasOccupant
<1>2. ReportInv => CurrentEpochNamesOccupant
  BY DEF ReportInv
<1>3. TypeOK /\ BoundToPresentOrHeld /\ CurrentEpochNamesOccupant /\ OnAirHasOccupant
        /\ [Next]_vars => OnAirHasOccupant'
  BY OnAirStep DEF OnAirHasOccupant, InRoom, vars, peerVars, slotVars
<1> QED BY <1>1, <1>2, <1>3, TypeCorrect, BoundCorrect, ReportInvariant, PTL DEF Spec

-----------------------------------------------------------------------------
(* The seats: under the mapping of Seating every command of the actor is a  *)
(* step of SlotBinding or leaves its state alone.                           *)

SeatStep == Seating!SeatNext \/ UNCHANGED Seating!seatVars

\* Nobody comes or goes, and no expiry is armed or runs.
SamePeople ==
    /\ \A p \in Peers : (role'[p] # "none") <=> (role[p] # "none")
    /\ timers' = timers

LEMMA SameHere ==
    ASSUME SamePeople
    PROVE  {p \in Peers : InRoom(p)}' = {p \in Peers : InRoom(p)} /\ timers' = timers
BY DEF SamePeople, InRoom

\* A command that keeps the occupants of the cam slots is no step at all.
LEMMA KeepsAll ==
    ASSUME SamePeople, \A c \in CamSlots : slots'[c].occupant = slots[c].occupant
    PROVE  SeatStep
<1>1. [s \in CamSlots |-> slots[s].occupant]' = [s \in CamSlots |-> slots[s].occupant]
  OBVIOUS
<1> QED BY <1>1, SameHere DEF SeatStep, Seating!seatVars

\* Vacating slots is clearing those of them that are seats.
LEMMA Clears ==
    ASSUME TypeOK, SamePeople, NEW S \in SUBSET Slots, slots' = VacatedAll(S)
    PROVE  SeatStep
<1>1. \A c \in CamSlots :
         slots'[c].occupant = IF c \in S \cap CamSlots THEN None ELSE slots[c].occupant
  BY NamesFacts, VacatedFields DEF VacatedAll, TypeOK
<1>2. Seating!Clear(S \cap CamSlots)
  BY <1>1, SameHere DEF Seating!Clear, Seating!Free
<1>3. S \cap CamSlots \in SUBSET CamSlots
  OBVIOUS
<1> QED BY <1>2, <1>3 DEF SeatStep, Seating!SeatNext

\* Binding a peer to a cam slot gives it that seat and frees the one it had.
LEMMA Gives ==
    ASSUME TypeOK, SamePeople, NEW sid \in Slots, NEW p \in Peers,
           sid \in CamSlots => InRoom(p), slots' = Rebound(sid, p)
    PROVE  SeatStep
<1> USE NamesFacts
<1>0. \A s \in Slots : slots[s] \in SlotStates
  BY DEF TypeOK
<1>1. CASE sid \in CamSlots
  <2>1. \A c \in CamSlots :
           slots'[c].occupant = IF c = sid THEN p
                                ELSE IF slots[c].occupant = p THEN None ELSE slots[c].occupant
    <3> SUFFICES ASSUME NEW c \in CamSlots
                 PROVE  slots'[c].occupant =
                           IF c = sid THEN p
                           ELSE IF slots[c].occupant = p THEN None ELSE slots[c].occupant
      OBVIOUS
    <3>1. c # sid => (c \in OtherCamSlots(sid, p) <=> slots[c].occupant = p)
      BY <1>1 DEF OtherCamSlots
    <3>2. Bound(slots[c], p).occupant = p /\ Vacated(slots[c]).occupant = None
      BY <1>0, BoundFields, VacatedFields
    <3> QED BY <3>1, <3>2, ReboundSlots
  <2>2. Seating!Give(sid, p)
    BY <1>1, <2>1, SameHere DEF Seating!Give, Seating!Free, Seating!SeatsOf
  <2> QED BY <1>1, <2>2 DEF SeatStep, Seating!SeatNext
<1>2. CASE sid \notin CamSlots
  <2>1. \A c \in CamSlots : slots'[c] = slots[c]
    BY <1>2, ReboundSlots DEF OtherCamSlots
  <2> QED BY <2>1, KeepsAll
<1> QED BY <1>1, <1>2

\* Removing peers for good frees their seats.
LEMMA Evicts ==
    ASSUME TypeOK, NEW S \in SUBSET Peers, Depart(S, TRUE), timers' = timers
    PROVE  SeatStep
<1> USE NamesFacts
<1>1. \A c \in CamSlots :
         slots'[c].occupant = IF slots[c].occupant \in S THEN None ELSE slots[c].occupant
  <2> SUFFICES ASSUME NEW c \in CamSlots
               PROVE  slots'[c].occupant =
                         IF slots[c].occupant \in S THEN None ELSE slots[c].occupant
    OBVIOUS
  <2>1. slots[c] \in SlotStates /\ slots'[c] = Left(c, S, TRUE)
    BY DEF Depart, SetSlots, TypeOK
  <2>2. Freed(slots[c], S) \in SlotStates /\ Freed(slots[c], S).occupant = slots[c].occupant
    BY <2>1, FreedFields
  <2>3. Vacated(Freed(slots[c], S)).occupant = None
    BY <2>2, VacatedFields
  <2> QED BY <2>1, <2>2, <2>3 DEF Left
<1>2. {p \in Peers : InRoom(p)}' = {p \in Peers : InRoom(p)} \ S
  BY DEF Depart, Remove, InRoom, TypeOK
<1>3. Seating!Evict(S)
  BY <1>1, <1>2 DEF Seating!Evict, Seating!Free, Seating!SeatsOf
<1> QED BY <1>3 DEF SeatStep, Seating!SeatNext

\* A transient drop keeps the seat and arms an expiry for it.
LEMMA Drops ==
    ASSUME TypeOK, NEW p \in Peers, Leave(p)
    PROVE  SeatStep
<1> USE NamesFacts
<1>0. /\ \A s \in Slots : slots[s] \in SlotStates
      /\ slots' = [s \in Slots |-> Left(s, {p}, FALSE)]
  BY DEF Leave, Depart, SetSlots, TypeOK
<1>1. \A c \in CamSlots :
         /\ slots'[c].occupant = slots[c].occupant
         /\ slots[c].occupant = p => slots'[c].disconnected
  <2> SUFFICES ASSUME NEW c \in CamSlots
               PROVE  /\ slots'[c].occupant = slots[c].occupant
                      /\ slots[c].occupant = p => slots'[c].disconnected
    OBVIOUS
  <2>1. Freed(slots[c], {p}) \in SlotStates /\ Freed(slots[c], {p}).occupant = slots[c].occupant
    BY <1>0, FreedFields
  <2>2. LET held == Held(Freed(slots[c], {p}))
        IN  held.occupant = slots[c].occupant /\ held.disconnected
    BY <2>1, HeldFields
  <2>3. slots'[c] = IF slots[c].occupant # p THEN Freed(slots[c], {p})
                    ELSE Held(Freed(slots[c], {p}))
    BY <1>0 DEF Left
  <2> QED BY <2>1, <2>2, <2>3
<1>2. {q \in Peers : InRoom(q)}' = {q \in Peers : InRoom(q)} \ {p}
  BY DEF Leave, Depart, Remove, InRoom, TypeOK
<1>3. timers' = timers \cup Armed(p, slots')
  BY DEF Leave
<1>4. \A c \in CamSlots : slots[c].occupant = p => \E a \in timers' : a.slot = c
  <2> SUFFICES ASSUME NEW c \in CamSlots, slots[c].occupant = p
               PROVE  \E a \in timers' : a.slot = c
    OBVIOUS
  <2>1. [slot |-> c, occupant |-> p, gen |-> slots'[c].graceGen] \in Armed(p, slots')
    BY <1>1 DEF Armed
  <2> QED BY <1>3, <2>1
<1>5. p \in {q \in Peers : InRoom(q)}
  BY DEF Leave
<1>6. Seating!Drop(p)
  BY <1>1, <1>2, <1>3, <1>4, <1>5 DEF Seating!Drop, Seating!SeatsOf
<1> QED BY <1>6 DEF SeatStep, Seating!SeatNext

\* A join moves nobody.
LEMMA Arrives ==
    ASSUME TypeOK, NEW p \in Peers, NEW r, r # "none", role' = [role EXCEPT ![p] = r],
           timers' = timers, \A c \in CamSlots : slots'[c].occupant = slots[c].occupant
    PROVE  SeatStep
<1>1. {q \in Peers : InRoom(q)}' = {q \in Peers : InRoom(q)} \cup {p}
  BY DEF InRoom, TypeOK
<1>2. Seating!Arrive(p)
  BY <1>1 DEF Seating!Arrive
<1> QED BY <1>2 DEF SeatStep, Seating!SeatNext

\* A grace timer takes the slot of somebody who is away, or nothing.
LEMMA Rings ==
    ASSUME TypeOK, BoundToPresentOrHeld, HoldHasExpiry, NEW t \in timers, ExpireGrace(t)
    PROVE  SeatStep
<1> USE NamesFacts
<1>0. /\ t.slot \in CamSlots /\ t.occupant \in Peers
      /\ \A s \in Slots : slots[s] \in SlotStates
  BY DEF TypeOK, Timers
<1>1. {q \in Peers : InRoom(q)}' = {q \in Peers : InRoom(q)} /\ timers' = timers \ {t}
  BY DEF ExpireGrace, peerVars, InRoom
<1>2. CASE Due(t)
  <2>1. \A c \in CamSlots : slots'[c].occupant = IF c \in {t.slot} THEN None ELSE slots[c].occupant
    BY <1>0, <1>2, VacatedFields DEF ExpireGrace, VacatedAll
  <2>2. slots[t.slot].occupant \notin {q \in Peers : InRoom(q)} \cup {None}
    BY <1>0, <1>2 DEF Due
  <2>3. Seating!Ring(t)
    BY <1>0, <1>1, <2>1, <2>2 DEF Seating!Ring, Seating!Free
  <2> QED BY <2>3 DEF SeatStep, Seating!SeatNext
<1>3. CASE ~Due(t)
  <2> DEFINE st == slots[t.slot]
  <2>0. slots' = slots /\ timers' = timers \ {t}
    BY <1>3 DEF ExpireGrace
  <2>2. ASSUME st.occupant # None, ~InRoom(st.occupant)
        PROVE  \E b \in timers' : b.slot = t.slot
    <3>1. st.disconnected
      BY <1>0, <2>2 DEF BoundToPresentOrHeld
    <3>2. [slot |-> t.slot, occupant |-> st.occupant, gen |-> st.graceGen] \in timers
      BY <1>0, <2>2, <3>1 DEF HoldHasExpiry
    <3>3. [slot |-> t.slot, occupant |-> st.occupant, gen |-> st.graceGen] # t
      BY <1>3, <2>2, <3>1 DEF Due
    <3> QED BY <2>0, <3>2, <3>3
  <2>3. st.occupant \in Peers \cup {None}
    BY <1>0 DEF SlotStates
  <2>4. \/ st.occupant \in {q \in Peers : InRoom(q)} \cup {None}
        \/ \E b \in timers' : b.slot = t.slot
    BY <2>2, <2>3
  <2>5. [s \in CamSlots |-> slots[s].occupant][t.slot] = st.occupant
    BY <1>0
  <2>6. [s \in CamSlots |-> slots[s].occupant]' = [s \in CamSlots |-> slots[s].occupant]
    BY <2>0
  <2> HIDE DEF st
  <2>1. Seating!Ring(t)
    BY <1>1, <2>4, <2>5, <2>6 DEF Seating!Ring
  <2> QED BY <2>1 DEF SeatStep, Seating!SeatNext
<1> QED BY <1>2, <1>3

LEMMA Reopens ==
    ASSUME Respawn
    PROVE  SeatStep
<1>1. /\ {q \in Peers : InRoom(q)}' = {} /\ timers' = {}
      /\ \A c \in CamSlots : slots'[c].occupant = None
  BY NamesFacts, FreshSlotFields DEF Respawn, InRoom
<1>2. Seating!Reopen
  BY <1>1 DEF Seating!Reopen, Seating!Free
<1> QED BY <1>2 DEF SeatStep, Seating!SeatNext

LEMMA SeatsStep ==
    ASSUME TypeOK, HostAlone, BoundToPresentOrHeld, HoldHasExpiry, Next
    PROVE  SeatStep
<1> USE NamesFacts
<1>0. \A s \in Slots : slots[s] \in SlotStates
  BY DEF TypeOK
<1>1. ASSUME role' = role, timers' = timers PROVE SamePeople
  BY <1>1 DEF SamePeople
<1>2. ASSUME role' = role, timers' = timers, slots' = slots PROVE SeatStep
  BY <1>2, <1>1, KeepsAll
<1>3. CASE Connections
  <2>1. ASSUME NEW p \in People, Join(p) PROVE SeatStep
    <3>1. PICK r : r # "none" /\ role' = [role EXCEPT ![p] = r]
      BY <2>1, RolesAssumption DEF Join, People
    <3>2. slots' = slots /\ timers' = timers
      BY <2>1 DEF Join, slotVars
    <3> QED BY <3>1, <3>2, Arrives
  <2>2. ASSUME NEW s \in Slots, JoinSource(s) PROVE SeatStep
    <3>1. SourceOf[s] \in Peers /\ role' = [role EXCEPT ![SourceOf[s]] = "obs"]
      BY <2>2 DEF JoinSource
    <3>2. slots' = [slots EXCEPT ![s] = Attached(slots[s], SourceOf[s])] /\ timers' = timers
      BY <2>2 DEF JoinSource, SetSlots
    <3>3. Attached(slots[s], SourceOf[s]).occupant = slots[s].occupant
      BY <1>0, AttachedFields
    <3>4. \A c \in CamSlots : slots'[c].occupant = slots[c].occupant
      BY <3>2, <3>3 DEF TypeOK
    <3> QED BY <3>1, <3>2, <3>4, Arrives
  <2>3. ASSUME NEW p \in Peers, Leave(p) PROVE SeatStep
    BY <2>3, Drops
  <2>4. ASSUME NEW s \in Slots, RotateSource(s) PROVE SeatStep
    BY <2>4, Evicts DEF RotateSource
  <2>5. ASSUME NEW S \in SUBSET Guests, EvictPeers(S) PROVE SeatStep
    BY <2>5, Evicts DEF EvictPeers
  <2>6. ASSUME Terminate PROVE SeatStep
    BY <2>6, <1>2 DEF Terminate, peerVars, slotVars
  <2> QED BY <1>3, <2>1, <2>2, <2>3, <2>4, <2>5, <2>6, Reopens DEF Connections
<1>4. CASE Bindings
  <2>0. ASSUME UnchangedByBinding PROVE SamePeople
    BY <2>0, <1>1 DEF UnchangedByBinding, peerVars
  <2>1. ASSUME NEW s \in Slots, NEW p \in Peers, Rebind(s, p) PROVE SeatStep
    BY <2>0, <2>1, Gives DEF Rebind, SetSlots
  <2>2. ASSUME NEW s \in CamSlots, NEW p \in Guests, ResumeBind(s, p) PROVE SeatStep
    BY <2>0, <2>2, Gives DEF ResumeBind, SetSlots
  <2>3. ASSUME NEW s \in CamSlots, NEW p \in Guests, RebindOrVacate(s, p) PROVE SeatStep
    <3>1. CASE InRoom(p)
      BY <2>0, <2>3, <3>1, Gives DEF RebindOrVacate, SetSlots
    <3>2. CASE ~InRoom(p)
      <4>1. {s} \cup OtherCamSlots(s, p) \in SUBSET Slots
        BY DEF OtherCamSlots
      <4>2. slots' = VacatedAll({s} \cup OtherCamSlots(s, p)) /\ SamePeople
        BY <2>0, <2>3, <3>2 DEF RebindOrVacate, SetSlots
      <4> QED BY <4>1, <4>2, Clears
    <3> QED BY <3>1, <3>2
  <2>4. ASSUME NEW p \in Guests, VacateOccupant(p) PROVE SeatStep
    <3>1. {s \in CamSlots : slots[s].occupant = p} \in SUBSET Slots
      OBVIOUS
    <3> QED BY <2>0, <2>4, <3>1, Clears DEF VacateOccupant, SetSlots
  <2>5. ASSUME NEW s \in Slots, Unbind(s) PROVE SeatStep
    BY <2>0, <2>5, Clears DEF Unbind, SetSlots
  <2>6. ASSUME NEW active \in BOOLEAN, SetHostMedia(active) PROVE SeatStep
    <3>1. CASE active
      BY <2>0, <2>6, <3>1, Gives, NamesAssumption DEF SetHostMedia, SetSlots
    <3>2. CASE ~active
      BY <2>0, <2>6, <3>2, Clears DEF SetHostMedia, SetSlots
    <3> QED BY <3>1, <3>2
  <2> QED BY <1>4, <2>1, <2>2, <2>3, <2>4, <2>5, <2>6, Rings DEF Bindings
<1>5. CASE Program
  <2>1. ASSUME NEW r \in reports, ObsActive(r) PROVE SeatStep
    <3>1. role' = role /\ timers' = timers
      BY <2>1 DEF ObsActive, peerVars
    <3>2. \A c \in CamSlots : slots'[c].occupant = slots[c].occupant
      BY <1>0, <2>1 DEF ObsActive, SlotStates, TypeOK
    <3> QED BY <1>1, <3>1, <3>2, KeepsAll
  <2> QED BY <1>2, <1>5, <2>1 DEF Program, SourceReports, ReportLost, peerVars
<1>6. CASE Moderation
  <2>1. ASSUME NEW a \in People, NEW t \in Peers, Kick(a, t) PROVE SeatStep
    BY <2>1, Evicts DEF Kick
  <2>2. ASSUME NEW a \in People, NEW t \in Peers, NEW m \in Modalities, ForceOff(a, t, m)
        PROVE  SeatStep
    <3>1. role' = role /\ timers' = timers
      BY <2>2 DEF ForceOff
    <3>2. CASE m = "share"
      BY <1>1, <2>2, <3>1, <3>2, Clears DEF ForceOff, PullFromShare, SetSlots
    <3>3. CASE m # "share"
      BY <1>2, <2>2, <3>1, <3>3 DEF ForceOff
    <3> QED BY <3>2, <3>3
  <2>3. ASSUME NEW t \in Peers, NEW r \in {"cohost", "guest"}, SetRole(t, r) PROVE SeatStep
    <3>1. SamePeople /\ slots' = slots
      BY <2>3 DEF SetRole, InRoom, SamePeople, slotVars, TypeOK
    <3> QED BY <3>1, KeepsAll
  <2> QED BY <1>2, <1>6, <2>1, <2>2, <2>3
          DEF Moderation, ApplyState, SetHand, DismissHand, Release, peerVars, slotVars
<1>7. CASE Screenshare
  <2>1. ASSUME NEW p, PullFromShare(p), role' = role, timers' = timers PROVE SeatStep
    BY <1>1, <2>1, Clears DEF PullFromShare, SetSlots
  <2>2. ASSUME NEW p \in Guests, RevokeScreen(p) PROVE SeatStep
    BY <2>1, <2>2 DEF RevokeScreen
  <2>3. ASSUME NEW p \in People, ScreenStop(p) PROVE SeatStep
    BY <2>1, <2>3 DEF ScreenStop, peerVars
  <2>4. ASSUME NEW p \in People, ScreenSelect(p) PROVE SeatStep
    BY <1>1, <2>4, Gives DEF ScreenSelect, SetSlots, UnchangedByBinding, peerVars
  <2>5. ASSUME ScreenClear PROVE SeatStep
    BY <1>1, <2>5, Clears DEF ScreenClear, SetSlots, UnchangedByBinding, peerVars
  <2> QED BY <1>2, <1>7, <2>2, <2>3, <2>4, <2>5
          DEF Screenshare, SetScreenEligible, GrantScreen, ScreenStart, peerVars, slotVars
<1> QED BY <1>3, <1>4, <1>5, <1>6, <1>7 DEF Next

\* D-20, D-40: for any guests, slots and bounds, whatever commands interleave, the
\* cam slots change hands only as SlotBinding says.
THEOREM KeepsSeatsCorrect == Spec => KeepsSeats
<1>1. Init => Seating!Empty
  BY NamesFacts, FreshSlotFields DEF Init, Seating!Empty, InRoom
<1>2. TypeOK /\ HostAlone /\ BoundToPresentOrHeld /\ HoldHasExpiry /\ [Next]_vars
        => [Seating!SeatNext]_Seating!seatVars
  <2>1. ASSUME UNCHANGED vars PROVE UNCHANGED Seating!seatVars
    BY <2>1 DEF vars, peerVars, slotVars, Seating!seatVars, InRoom
  <2> QED BY <2>1, SeatsStep DEF SeatStep
<1> QED BY <1>1, <1>2, TypeCorrect, HostAloneInvariant, BoundCorrect, HoldHasExpiryCorrect, PTL
        DEF Spec, KeepsSeats, Seating!SeatSpec

\* What the rules of the seats come to, for any seats and occupants.
LEMMA SeatsKept ==
    ASSUME Seating!OneSeatEach, Seating!AwayHasAlarm, Seating!SeatNext
    PROVE  Seating!OneSeatEach' /\ Seating!AwayHasAlarm'
<1> DEFINE In == {p \in Peers : InRoom(p)}
           Of(c) == slots[c].occupant
           Alarmed(c) == \E a \in timers : a.slot = c
<1>1. /\ \A c, d \in CamSlots : Of(c) = Of(d) /\ Of(c) # None => c = d
      /\ \A c \in CamSlots : Of(c) \in In \cup {None} \/ Alarmed(c)
  BY DEF Seating!OneSeatEach, Seating!AwayHasAlarm
<1>2. SUFFICES /\ \A c, d \in CamSlots : Of(c)' = Of(d)' /\ Of(c)' # None => c = d
               /\ \A c \in CamSlots : Of(c)' \in In' \cup {None} \/ Alarmed(c)'
  BY DEF Seating!OneSeatEach, Seating!AwayHasAlarm
\* Free seats stay with nobody, and whoever keeps a seat has an alarm where it is away.
<1>3. ASSUME NEW S \in SUBSET CamSlots, timers \subseteq timers',
             \A c \in CamSlots : Of(c)' = IF c \in S THEN None ELSE Of(c),
             \A c \in CamSlots \ S : Of(c) \in In => Of(c) \in In' \/ Alarmed(c)'
      PROVE  /\ \A c, d \in CamSlots : Of(c)' = Of(d)' /\ Of(c)' # None => c = d
             /\ \A c \in CamSlots : Of(c)' \in In' \cup {None} \/ Alarmed(c)'
  <2>1. \A c \in CamSlots : Alarmed(c) => Alarmed(c)'
    BY <1>3
  <2> HIDE DEF In, Of, Alarmed
  <2> QED BY <1>1, <1>3, <2>1
<1>4. ASSUME NEW S \in SUBSET CamSlots, Seating!Clear(S)
      PROVE  /\ \A c, d \in CamSlots : Of(c)' = Of(d)' /\ Of(c)' # None => c = d
             /\ \A c \in CamSlots : Of(c)' \in In' \cup {None} \/ Alarmed(c)'
  <2>1. /\ \A c \in CamSlots : Of(c)' = IF c \in S THEN None ELSE Of(c)
        /\ timers' = timers /\ In' = In
    BY <1>4 DEF Seating!Clear, Seating!Free
  <2> HIDE DEF In, Of, Alarmed
  <2> QED BY <1>3, <2>1
<1>5. ASSUME NEW p \in Peers, Seating!Arrive(p)
      PROVE  /\ \A c, d \in CamSlots : Of(c)' = Of(d)' /\ Of(c)' # None => c = d
             /\ \A c \in CamSlots : Of(c)' \in In' \cup {None} \/ Alarmed(c)'
  <2>1. /\ \A c \in CamSlots : Of(c)' = IF c \in {} THEN None ELSE Of(c)
        /\ timers' = timers /\ In' = In \cup {p}
    BY <1>5 DEF Seating!Arrive
  <2> HIDE DEF In, Of, Alarmed
  <2>2. {} \in SUBSET CamSlots /\ \A c \in CamSlots : Of(c) \in In => Of(c) \in In'
    BY <2>1
  <2> QED BY <1>3, <2>1, <2>2
<1>6. ASSUME NEW p \in Peers, Seating!Drop(p)
      PROVE  /\ \A c, d \in CamSlots : Of(c)' = Of(d)' /\ Of(c)' # None => c = d
             /\ \A c \in CamSlots : Of(c)' \in In' \cup {None} \/ Alarmed(c)'
  <2>1. /\ \A c \in CamSlots : Of(c)' = IF c \in {} THEN None ELSE Of(c)
        /\ timers \subseteq timers' /\ In' = In \ {p}
        /\ \A c \in CamSlots : Of(c) = p => Alarmed(c)'
    BY <1>6 DEF Seating!Drop, Seating!SeatsOf
  <2> HIDE DEF In, Of, Alarmed
  <2>2. ASSUME NEW c \in CamSlots, Of(c) \in In PROVE Of(c) \in In' \/ Alarmed(c)'
    BY <2>1, <2>2
  <2>3. {} \in SUBSET CamSlots
    OBVIOUS
  <2> QED BY <1>3, <2>1, <2>2, <2>3
<1>7. ASSUME NEW P \in SUBSET Peers, Seating!Evict(P)
      PROVE  /\ \A c, d \in CamSlots : Of(c)' = Of(d)' /\ Of(c)' # None => c = d
             /\ \A c \in CamSlots : Of(c)' \in In' \cup {None} \/ Alarmed(c)'
  <2> DEFINE S == {c \in CamSlots : Of(c) \in P}
  <2>1. /\ \A c \in CamSlots : Of(c)' = IF c \in S THEN None ELSE Of(c)
        /\ timers' = timers /\ In' = In \ P
    BY <1>7 DEF Seating!Evict, Seating!Free, Seating!SeatsOf
  <2>2. S \in SUBSET CamSlots /\ \A c \in CamSlots \ S : Of(c) \notin P
    OBVIOUS
  <2> HIDE DEF In, Of, Alarmed, S
  <2>3. \A c \in CamSlots \ S : Of(c) \in In => Of(c) \in In'
    BY <2>1, <2>2
  <2> QED BY <1>3, <2>1, <2>2, <2>3
<1>8. ASSUME NEW s \in CamSlots, NEW p \in Peers, Seating!Give(s, p)
      PROVE  /\ \A c, d \in CamSlots : Of(c)' = Of(d)' /\ Of(c)' # None => c = d
             /\ \A c \in CamSlots : Of(c)' \in In' \cup {None} \/ Alarmed(c)'
  <2>1. /\ \A c \in CamSlots : Of(c)' = IF c = s THEN p ELSE IF Of(c) = p THEN None ELSE Of(c)
        /\ timers' = timers /\ In' = In /\ p \in In
    BY <1>8 DEF Seating!Give, Seating!Free, Seating!SeatsOf
  <2>2. \A c \in CamSlots : Alarmed(c) => Alarmed(c)'
    BY <2>1
  <2> HIDE DEF In, Of, Alarmed
  <2> QED BY <1>1, <2>1, <2>2
<1>9. ASSUME NEW a \in timers, Seating!Ring(a)
      PROVE  /\ \A c, d \in CamSlots : Of(c)' = Of(d)' /\ Of(c)' # None => c = d
             /\ \A c \in CamSlots : Of(c)' \in In' \cup {None} \/ Alarmed(c)'
  <2>1. timers' = timers \ {a} /\ In' = In
    BY <1>9 DEF Seating!Ring
  <2>2. \A c \in CamSlots : c # a.slot /\ Alarmed(c) => Alarmed(c)'
    BY <2>1
  <2>3. \/ /\ \A c \in CamSlots : Of(c)' = Of(c)
           /\ a.slot \in CamSlots => Of(a.slot) \in In \cup {None} \/ Alarmed(a.slot)'
        \/ \A c \in CamSlots : Of(c)' = IF c = a.slot THEN None ELSE Of(c)
    BY <1>9 DEF Seating!Ring, Seating!Free
  <2> HIDE DEF In, Of, Alarmed
  <2> QED BY <1>1, <2>1, <2>2, <2>3
<1>10. CASE Seating!Reopen
  <2>1. \A c \in CamSlots : Of(c)' = None
    BY <1>10 DEF Seating!Reopen, Seating!Free
  <2> HIDE DEF In, Of, Alarmed
  <2> QED BY <2>1
<1> HIDE DEF In, Of, Alarmed
<1> QED BY <1>2, <1>4, <1>5, <1>6, <1>7, <1>8, <1>9, <1>10 DEF Seating!SeatNext

\* D-20, D-40: whoever moves the seats as SlotBinding says never seats anybody twice,
\* and has an alarm set for every seat whose owner is away; so does the room.
THEOREM SeatsAreFreed == Spec => [](Seating!OneSeatEach /\ Seating!AwayHasAlarm)
<1>1. Seating!Empty => Seating!OneSeatEach /\ Seating!AwayHasAlarm
  BY DEF Seating!Empty, Seating!OneSeatEach, Seating!AwayHasAlarm
<1>2. ASSUME Seating!OneSeatEach, Seating!AwayHasAlarm, UNCHANGED Seating!seatVars
      PROVE  Seating!OneSeatEach' /\ Seating!AwayHasAlarm'
  BY <1>2 DEF Seating!OneSeatEach, Seating!AwayHasAlarm, Seating!seatVars
<1>3. /\ Seating!OneSeatEach /\ Seating!AwayHasAlarm /\ [Seating!SeatNext]_Seating!seatVars
      => Seating!OneSeatEach' /\ Seating!AwayHasAlarm'
  BY <1>2, SeatsKept
<1> QED BY <1>1, <1>3, KeepsSeatsCorrect, PTL DEF KeepsSeats, Seating!SeatSpec

-----------------------------------------------------------------------------
(* The pages of the slots *)

GuestsTyped ==
    /\ row \in [Guests -> CamSlots \cup {None}]
    /\ replaying \in Guests \cup {None} /\ refused \subseteq Guests

PagesTyped ==
    /\ page \in [Slots -> Pages]
    /\ wire \in [Slots -> Seq(Frames)] /\ \A s \in Slots : Len(wire[s]) <= MaxWire
    /\ missed \subseteq Slots

\* A page and its frames speak of no epoch that is to come, and rightly of the one in
\* force; the last word of a page that missed nothing is of the epoch in force.
Wired(s) ==
    /\ ~page[s].open => page[s] = Closed /\ wire[s] = <<>>
    /\ page[s].open => slots[s].source = SourceOf[s]
    /\ page[s].epoch <= slots[s].epoch
    /\ page[s].open /\ page[s].epoch = slots[s].epoch => page[s].occupant = slots[s].occupant
    /\ \A i \in 1..Len(wire[s]) :
          /\ wire[s][i].epoch <= slots[s].epoch
          /\ wire[s][i].epoch = slots[s].epoch => wire[s][i].occupant = slots[s].occupant
    /\ page[s].open /\ s \notin missed =>
          IF wire[s] = <<>> THEN page[s].epoch = slots[s].epoch
                            ELSE wire[s][Len(wire[s])].epoch = slots[s].epoch

GuestsOnly == \A s \in Slots : slots[s].occupant \in Guests \cup {None}
WireInv == PagesTyped /\ GuestsOnly /\ \A s \in Slots : Wired(s)

-----------------------------------------------------------------------------
(* The room under the pages is the room *)

LEMMA GuestsTypedKept == GuestsTyped /\ [PageNext]_allVars => GuestsTyped'
<1> SUFFICES ASSUME GuestsTyped, [PageNext]_allVars PROVE GuestsTyped'
  OBVIOUS
<1> USE DEF GuestsTyped
<1>1. CASE UNCHANGED guestVars
  BY <1>1 DEF guestVars
<1>2. ASSUME NEW g \in Guests, NEW s \in CamSlots, Assign(g, s) \/ HostRebinds(s, g)
      PROVE  GuestsTyped'
  BY <1>2 DEF Assign, HostRebinds
<1>3. ASSUME NEW g \in Guests, Unassign(g) \/ GuestJoins(g) \/ Replay(g)
      PROVE  GuestsTyped'
  BY <1>3 DEF Unassign, GuestJoins, Replay
<1>4. CASE RoomRestarts
  BY <1>4 DEF RoomRestarts
<1>5. ASSUME NEW s \in Slots,
             PageReads(s) \/ PageDrops(s) \/ PageConnects(s) \/ PageLeaves(s) \/ PageRotated(s)
      PROVE  UNCHANGED guestVars
  BY <1>5 DEF PageReads, PageDrops, PageConnects, PageLeaves, PageRotated
<1>6. ASSUME NEW g \in Guests, GuestLeaves(g) \/ Evicted(g) \/ Renamed(g)
      PROVE  UNCHANGED guestVars
  BY <1>6 DEF GuestLeaves, Evicted, Renamed
<1>7. ASSUME GraceEnds \/ \E s \in CamSlots : HostUnbinds(s)
      PROVE  UNCHANGED guestVars
  BY <1>7 DEF GraceEnds, HostUnbinds
<1>8. CASE UNCHANGED allVars
  BY <1>8 DEF allVars, guestVars
<1> QED BY <1>1, <1>2, <1>3, <1>4, <1>5, <1>6, <1>7, <1>8
        DEF PageNext, PageSteps, GuestSteps, HostSteps

\* What the pages, the guests and the host do is a command of the room, or none.
LEMMA RoomSteps == GuestsTyped /\ [PageNext]_allVars => [Next]_vars
<1> SUFFICES ASSUME GuestsTyped, [PageNext]_allVars PROVE Next \/ UNCHANGED vars
  OBVIOUS
<1> USE NamesFacts
<1>1. ASSUME NEW s \in Slots,
             PageReads(s) \/ PageDrops(s) \/ PageConnects(s) \/ PageLeaves(s) \/ PageRotated(s)
      PROVE  Next \/ UNCHANGED vars
  <2>1. SourceOf[s] \in Peers
    OBVIOUS
  <2> QED BY <1>1, <2>1 DEF PageReads, PageDrops, PageConnects, PageLeaves, PageRotated,
                            Next, Connections
<1>2. ASSUME NEW g \in Guests,
             GuestJoins(g) \/ GuestLeaves(g) \/ Evicted(g) \/ Renamed(g)
      PROVE  Next \/ UNCHANGED vars
  <2>1. g \in People /\ g \in Peers /\ {g} \in SUBSET Guests
    OBVIOUS
  <2> QED BY <1>2, <2>1 DEF GuestJoins, GuestLeaves, Evicted, Renamed, Next, Connections
<1>3. ASSUME NEW g \in Guests, Replay(g)
      PROVE  Next \/ UNCHANGED vars
  <2>1. row[g] # None => row[g] \in CamSlots
    BY DEF GuestsTyped
  <2> QED BY <1>3, <2>1 DEF Replay, Next, Bindings
<1>4. CASE GraceEnds
  BY <1>4 DEF GraceEnds, Next, Bindings
<1>5. ASSUME NEW g \in Guests, NEW s \in CamSlots, Assign(g, s) \/ HostRebinds(s, g)
      PROVE  Next \/ UNCHANGED vars
  <2>1. g \in Peers /\ s \in Slots
    OBVIOUS
  <2> QED BY <1>5, <2>1 DEF Assign, HostRebinds, Next, Bindings
<1>6. ASSUME NEW g \in Guests, Unassign(g)
      PROVE  Next \/ UNCHANGED vars
  BY <1>6 DEF Unassign, Next, Bindings
<1>7. ASSUME NEW s \in CamSlots, HostUnbinds(s)
      PROVE  Next \/ UNCHANGED vars
  <2>1. s \in Slots
    OBVIOUS
  <2> QED BY <1>7, <2>1 DEF HostUnbinds, Next, Bindings
<1>8. CASE RoomRestarts
  BY <1>8 DEF RoomRestarts, Next, Connections
<1>9. CASE UNCHANGED allVars
  BY <1>9 DEF allVars
<1> QED BY <1>1, <1>2, <1>3, <1>4, <1>5, <1>6, <1>7, <1>8, <1>9
        DEF PageNext, PageSteps, GuestSteps, HostSteps

LEMMA GuestsAreTyped == PageSpec => []GuestsTyped
<1>1. PageInit => GuestsTyped
  BY DEF PageInit, GuestsTyped
<1> QED BY <1>1, GuestsTypedKept, PTL DEF PageSpec

\* The room that the pages are attached to is module Room: whatever is proved of its
\* bindings, locks and reports holds while pages drop, return and are rotated, and
\* while joins replay what is persisted.
THEOREM PagesLeaveTheRoom == PageSpec => Spec
<1>1. PageInit => Init
  BY DEF PageInit
<1> QED BY <1>1, GuestsAreTyped, RoomSteps, PTL DEF PageSpec, Spec

-----------------------------------------------------------------------------
(* What the commands do to a slot *)

\* It is bound anew, or held for an occupant that left, or left alone.
SlotMoved(s) ==
    \/ slots'[s] = slots[s]
    \/ slots'[s] = Held(slots[s]) /\ role'[slots[s].occupant] = "none"
    \/ \E p \in Guests \cup {None} : slots'[s] = Bound(slots[s], p)

LEMMA MovedFields ==
    ASSUME NEW s \in Slots, slots[s] \in SlotStates, slots[s].occupant \in Guests \cup {None},
           SlotMoved(s)
    PROVE  /\ slots'[s].source = slots[s].source
           /\ slots'[s].occupant \in Guests \cup {None}
           /\ slots'[s].epoch \in Nat
           /\ \/ slots'[s].epoch = slots[s].epoch + 1
              \/ /\ slots'[s].epoch = slots[s].epoch
                 /\ slots'[s].occupant = slots[s].occupant
<1>1. Guests \cup {None} \subseteq Peers \cup {None} /\ slots[s].epoch \in Nat
  BY NamesFacts DEF SlotStates
<1>2. CASE slots'[s] = slots[s]
  BY <1>1, <1>2
<1>3. CASE slots'[s] = Held(slots[s])
  BY <1>1, <1>3, HeldFields
<1>4. ASSUME NEW p \in Guests \cup {None}, slots'[s] = Bound(slots[s], p)
      PROVE  /\ slots'[s].source = slots[s].source
             /\ slots'[s].occupant = p
             /\ slots'[s].epoch = slots[s].epoch + 1
  BY <1>1, <1>4, BoundFields
<1> QED BY <1>1, <1>2, <1>3, <1>4 DEF SlotMoved

\* The commands that move guests.
Moves ==
    \/ \E g \in Guests : Replay(g) \/ GuestLeaves(g) \/ Evicted(g) \/ Renamed(g)
    \/ GraceEnds \/ HostSteps

LEMMA MovesSlots ==
    ASSUME TypeOK, GuestsTyped, Moves
    PROVE  \A s \in Slots : SlotMoved(s)
<1> USE NamesFacts
<1>0. \A s \in Slots : slots[s] \in SlotStates /\ slots[s].source \in Sources \cup {None}
  BY DEF TypeOK, SlotStates
<1>1. CASE slots' = slots
  BY <1>1 DEF SlotMoved
<1>2. ASSUME NEW S, slots' = VacatedAll(S)
      PROVE  \A s \in Slots : SlotMoved(s)
  BY <1>2 DEF VacatedAll, Vacated, SlotMoved
<1>3. ASSUME NEW sid \in Slots, NEW g \in Guests, slots' = Rebound(sid, g)
      PROVE  \A s \in Slots : SlotMoved(s)
  <2>1. g \in Peers
    OBVIOUS
  <2> QED BY <1>3, <2>1, ReboundSlots DEF Vacated, SlotMoved
<1>4. ASSUME NEW g \in Guests, NEW terminal \in BOOLEAN, Depart({g}, terminal)
      PROVE  \A s \in Slots : SlotMoved(s)
  <2> SUFFICES ASSUME NEW s \in Slots PROVE SlotMoved(s)
    OBVIOUS
  <2>1. Freed(slots[s], {g}) = slots[s]
    BY <1>0, NamesAssumption DEF Freed, People
  <2>2. slots'[s] = Left(s, {g}, terminal) /\ role'[g] = "none"
    BY <1>4 DEF Depart, SetSlots, Remove
  <2>3. \/ Left(s, {g}, terminal) \in {slots[s], Vacated(slots[s])}
        \/ Left(s, {g}, terminal) = Held(slots[s]) /\ slots[s].occupant = g
    BY <1>0, <2>1 DEF Left
  <2> QED BY <2>2, <2>3 DEF Vacated, SlotMoved
<1>5. ASSUME NEW g \in Guests, Replay(g)
      PROVE  \A s \in Slots : SlotMoved(s)
  <2>1. CASE row[g] # None /\ ResumeBind(row[g], g)
    <3>1. row[g] \in Slots /\ slots' = Rebound(row[g], g)
      BY <2>1 DEF GuestsTyped, ResumeBind, SetSlots
    <3> QED BY <1>3, <3>1
  <2>2. CASE VacateOccupant(g)
    BY <1>2, <2>2 DEF VacateOccupant, SetSlots
  <2> QED BY <1>1, <1>5, <2>1, <2>2 DEF Replay, vars, slotVars
<1>6. ASSUME NEW g \in Guests, GuestLeaves(g) \/ Evicted(g)
      PROVE  \A s \in Slots : SlotMoved(s)
  <2>1. Depart({g}, FALSE) \/ Depart({g}, TRUE)
    BY <1>6 DEF GuestLeaves, Evicted, Leave, EvictPeers
  <2> QED BY <1>4, <2>1
<1>7. ASSUME NEW g \in Guests, Renamed(g)
      PROVE  \A s \in Slots : SlotMoved(s)
  BY <1>1, <1>7 DEF Renamed, vars, slotVars
<1>8. CASE GraceEnds
  BY <1>1, <1>2, <1>8 DEF GraceEnds, ExpireGrace
<1>9. ASSUME NEW g \in Guests, NEW s \in CamSlots, Assign(g, s)
      PROVE  \A c \in Slots : SlotMoved(c)
  <2>1. slots' = Rebound(s, g) \/ \E S : slots' = VacatedAll(S)
    BY <1>9 DEF Assign, RebindOrVacate, SetSlots
  <2> QED BY <1>2, <1>3, <2>1
<1>10. ASSUME NEW g \in Guests, NEW s \in CamSlots, HostRebinds(s, g)
       PROVE  \A c \in Slots : SlotMoved(c)
  BY <1>3, <1>10 DEF HostRebinds, Rebind, SetSlots
<1>11. ASSUME NEW g \in Guests, Unassign(g)
       PROVE  \A s \in Slots : SlotMoved(s)
  BY <1>1, <1>2, <1>11 DEF Unassign, VacateOccupant, SetSlots, vars, slotVars
<1>12. ASSUME NEW s \in CamSlots, HostUnbinds(s)
       PROVE  \A c \in Slots : SlotMoved(c)
  BY <1>2, <1>12 DEF HostUnbinds, Unbind, SetSlots
<1> QED BY <1>5, <1>6, <1>7, <1>8, <1>9, <1>10, <1>11, <1>12 DEF Moves, HostSteps

\* Whoever moves guests tells the pages of the slots that change their epoch.
Telling(tell) ==
    /\ \A s \in Slots : Told(s) => s \in tell
    /\ Deliver(tell) \/ (UNCHANGED pageVars /\ slots' = slots)

LEMMA MovesTell ==
    ASSUME Moves
    PROVE  \E tell \in SUBSET Slots : Telling(tell)
<1>1. ASSUME Tell
      PROVE  \E tell \in SUBSET Slots : Telling(tell)
  <2>1. {s \in Slots : Told(s)} \in SUBSET Slots
    OBVIOUS
  <2>2. Telling({s \in Slots : Told(s)})
    BY <1>1 DEF Tell, Telling
  <2> QED BY <2>1, <2>2
<1>2. ASSUME UNCHANGED <<vars, pageVars>>
      PROVE  \E tell \in SUBSET Slots : Telling(tell)
  <2>1. Telling({})
    BY <1>2 DEF Told, Telling, vars, slotVars
  <2> QED BY <2>1
<1>3. ASSUME NEW g \in Guests, Renamed(g)
      PROVE  \E tell \in SUBSET Slots : Telling(tell)
  <2>1. {s \in Slots : slots[s].occupant = g /\ slots[s].source # None} \in SUBSET Slots
    OBVIOUS
  <2>2. Telling({s \in Slots : slots[s].occupant = g /\ slots[s].source # None})
    BY <1>3 DEF Renamed, Told, Telling, vars, slotVars
  <2> QED BY <2>1, <2>2
<1>4. ASSUME NEW g \in Guests, Replay(g)
      PROVE  Tell \/ UNCHANGED <<vars, pageVars>>
  BY <1>4 DEF Replay
<1>5. ASSUME NEW g \in Guests, GuestLeaves(g) \/ Evicted(g) \/ Unassign(g)
      PROVE  Tell \/ UNCHANGED <<vars, pageVars>>
  BY <1>5 DEF GuestLeaves, Evicted, Unassign
<1>6. ASSUME NEW s \in CamSlots, HostUnbinds(s) \/ \E g \in Guests : Assign(g, s) \/ HostRebinds(s, g)
      PROVE  Tell
  BY <1>6 DEF HostUnbinds, Assign, HostRebinds
<1>7. CASE GraceEnds
  BY <1>1, <1>7 DEF GraceEnds
<1>8. \/ \E g \in Guests : Replay(g) \/ GuestLeaves(g) \/ Evicted(g) \/ Renamed(g) \/ Unassign(g)
      \/ \E s \in CamSlots : HostUnbinds(s) \/ \E g \in Guests : Assign(g, s) \/ HostRebinds(s, g)
      \/ GraceEnds
  BY DEF Moves, HostSteps
<1> QED BY <1>1, <1>2, <1>3, <1>4, <1>5, <1>6, <1>7, <1>8

-----------------------------------------------------------------------------
(* What a page knows *)

LEMMA FrameQueues ==
    ASSUME NEW q \in Seq(Frames)
    PROVE  /\ Len(q) \in Nat /\ (q = <<>> <=> Len(q) = 0)
           /\ \A i \in 1..Len(q) : q[i] \in Frames
           /\ \A f \in Frames : /\ Append(q, f) \in Seq(Frames) /\ Len(Append(q, f)) = Len(q) + 1
                                /\ Append(q, f)[Len(q) + 1] = f
                                /\ \A k \in 1..Len(q) : Append(q, f)[k] = q[k]
           /\ q # <<>> => /\ Tail(q) \in Seq(Frames) /\ Len(Tail(q)) = Len(q) - 1 /\ Len(q) > 0
                          /\ Head(q) = q[1] /\ \A k \in 1..(Len(q) - 1) : Tail(q)[k] = q[k + 1]
OBVIOUS

LEMMA MovesWired ==
    ASSUME TypeOK, GuestsTyped, WireInv, Moves
    PROVE  WireInv'
<1>0. /\ \A s \in Slots : slots[s] \in SlotStates /\ slots[s].occupant \in Guests \cup {None}
      /\ page \in [Slots -> Pages] /\ wire \in [Slots -> Seq(Frames)] /\ missed \subseteq Slots
  BY DEF TypeOK, WireInv, GuestsOnly, PagesTyped
<1>1. ASSUME NEW s \in Slots
      PROVE  /\ slots'[s].source = slots[s].source
             /\ slots'[s].occupant \in Guests \cup {None}
             /\ slots'[s].epoch \in Nat
             /\ \/ slots'[s].epoch = slots[s].epoch + 1
                \/ /\ slots'[s].epoch = slots[s].epoch
                   /\ slots'[s].occupant = slots[s].occupant
  BY <1>0, MovesSlots, MovedFields
<1>2. GuestsOnly'
  BY <1>1 DEF GuestsOnly
<1>3. PICK tell \in SUBSET Slots : Telling(tell)
  BY MovesTell
<1>4. CASE UNCHANGED pageVars /\ slots' = slots
  BY <1>2, <1>4 DEF pageVars, WireInv, PagesTyped, Wired
<1>5. ASSUME Deliver(tell)
      PROVE  WireInv'
  <2>1. PICK lost \in SUBSET tell :
           /\ \A s \in tell \ lost : Len(wire[s]) < MaxWire
           /\ wire' = [s \in Slots |-> IF s \in tell \ lost /\ page[s].open
                                       THEN Append(wire[s], FrameOf(s)) ELSE wire[s]]
           /\ missed' = missed \cup lost
           /\ page' = page
    BY <1>5 DEF Deliver
  <2>2. ASSUME NEW s \in Slots
        PROVE  FrameOf(s) \in Frames /\ FrameOf(s).epoch = slots'[s].epoch
               /\ FrameOf(s).occupant = slots'[s].occupant
    BY <1>1 DEF FrameOf, Frames, People
  <2>3. PagesTyped'
    <3> SUFFICES ASSUME NEW s \in Slots
                 PROVE  wire'[s] \in Seq(Frames) /\ Len(wire'[s]) <= MaxWire
      BY <1>0, <2>1 DEF PagesTyped
    <3>1. CASE s \in tell \ lost /\ page[s].open
      <4>1. wire'[s] = Append(wire[s], FrameOf(s)) /\ Len(wire[s]) < MaxWire
        BY <2>1, <3>1
      <4> QED BY <1>0, <2>2, <4>1, FrameQueues, PageAssumption
    <3>2. CASE ~(s \in tell \ lost /\ page[s].open)
      BY <1>0, <2>1, <3>2 DEF WireInv, PagesTyped
    <3> QED BY <3>1, <3>2
  <2>4. ASSUME NEW s \in Slots
        PROVE  Wired(s)'
    <3>0. /\ Wired(s) /\ page'[s] = page[s] /\ slots[s].epoch \in Nat
          /\ wire[s] \in Seq(Frames) /\ page[s].epoch \in Nat \cup {-1}
      BY <1>0, <2>1 DEF WireInv, SlotStates, Pages
    <3>1. CASE s \in tell \ lost /\ page[s].open
      <4> DEFINE q == wire[s]
                 f == FrameOf(s)
      <4>1. wire'[s] = Append(q, f) /\ f \in Frames
        BY <2>1, <2>2, <3>1
      <4>2. /\ Len(q) \in Nat /\ Len(wire'[s]) = Len(q) + 1 /\ wire'[s][Len(q) + 1] = f
            /\ \A k \in 1..Len(q) : wire'[s][k] = q[k] /\ q[k] \in Frames
            /\ wire'[s] # <<>>
        BY <3>0, <4>1, FrameQueues
      <4>3. ASSUME NEW i \in 1..Len(wire'[s])
            PROVE  /\ wire'[s][i].epoch <= slots'[s].epoch
                   /\ wire'[s][i].epoch = slots'[s].epoch =>
                         wire'[s][i].occupant = slots'[s].occupant
        <5>1. CASE i = Len(q) + 1
          BY <1>1, <2>2, <4>2, <5>1
        <5>2. CASE i \in 1..Len(q)
          <6>1. /\ wire'[s][i] = q[i] /\ q[i].epoch \in Nat
                /\ q[i].epoch <= slots[s].epoch
                /\ q[i].epoch = slots[s].epoch => q[i].occupant = slots[s].occupant
            BY <3>0, <4>2, <5>2 DEF Wired, Frames
          <6> QED BY <1>1, <3>0, <6>1
        <5> QED BY <4>2, <5>1, <5>2
      <4>4. /\ page[s].epoch <= slots'[s].epoch
            /\ page[s].epoch = slots'[s].epoch => page[s].occupant = slots'[s].occupant
        BY <1>1, <3>0, <3>1 DEF Wired
      <4> HIDE DEF q, f
      <4> QED BY <1>1, <2>2, <3>0, <3>1, <4>2, <4>3, <4>4 DEF Wired, f
    <3>2. CASE ~(s \in tell \ lost /\ page[s].open)
      <4>1. wire'[s] = wire[s]
        BY <2>1, <3>2
      <4>2. ASSUME page[s].open, s \notin missed'
            PROVE  slots'[s].epoch = slots[s].epoch /\ slots'[s].occupant = slots[s].occupant
        <5>1. s \notin tell
          BY <2>1, <3>2, <4>2
        <5>2. slots'[s].source # None
          BY <1>1, <3>0, <4>2, NamesFacts DEF Wired
        <5> QED BY <1>1, <1>3, <5>1, <5>2 DEF Telling, Told
      <4>3. ASSUME NEW i \in 1..Len(wire'[s])
            PROVE  /\ wire'[s][i].epoch <= slots'[s].epoch
                   /\ wire'[s][i].epoch = slots'[s].epoch =>
                         wire'[s][i].occupant = slots'[s].occupant
        <5>1. /\ wire'[s][i] = wire[s][i] /\ wire[s][i].epoch \in Nat
              /\ wire[s][i].epoch <= slots[s].epoch
              /\ wire[s][i].epoch = slots[s].epoch => wire[s][i].occupant = slots[s].occupant
          BY <3>0, <4>1, FrameQueues DEF Wired, Frames
        <5> QED BY <1>1, <3>0, <5>1
      <4>4. /\ page[s].epoch <= slots'[s].epoch
            /\ page[s].open /\ page[s].epoch = slots'[s].epoch =>
                  page[s].occupant = slots'[s].occupant
        BY <1>1, <3>0 DEF Wired
      <4>5. missed \subseteq missed'
        BY <2>1
      <4> QED BY <1>1, <3>0, <4>1, <4>2, <4>3, <4>4, <4>5 DEF Wired
    <3> QED BY <3>1, <3>2
  <2> QED BY <1>2, <2>3, <2>4 DEF WireInv
<1> QED BY <1>3, <1>4, <1>5 DEF Telling

\* A page that is closed knows nothing and is sent nothing.
LEMMA ClosedWired ==
    ASSUME NEW s \in Slots, slots'[s].epoch \in Nat, page'[s] = Closed, wire'[s] = <<>>
    PROVE  Wired(s)'
BY DEF Wired, Closed

LEMMA ReadsWired ==
    ASSUME TypeOK, WireInv, NEW s \in Slots, PageReads(s)
    PROVE  WireInv'
<1> DEFINE pg == page[s]
           q == wire[s]
           f == Head(wire[s])
           e == slots[s].epoch
           o == slots[s].occupant
<1>0. /\ pg.open /\ q # <<>> /\ Wired(s)
      /\ page' = [page EXCEPT ![s] = Follow(s, f)] /\ wire' = [wire EXCEPT ![s] = Tail(q)]
      /\ slots' = slots /\ missed' = missed
      /\ page \in [Slots -> Pages] /\ wire \in [Slots -> Seq(Frames)]
      /\ e \in Nat
  BY DEF PageReads, WireInv, PagesTyped, vars, slotVars, TypeOK, SlotStates
<1>1. /\ Len(q) \in Nat \ {0} /\ f = q[1] /\ f \in Frames /\ Tail(q) \in Seq(Frames)
      /\ Len(Tail(q)) = Len(q) - 1 /\ \A k \in 1..(Len(q) - 1) : Tail(q)[k] = q[k + 1]
      /\ Tail(q) = <<>> <=> Len(q) = 1
      /\ \A k \in 1..Len(q) : q[k] \in Frames
  <2>1. q \in Seq(Frames) /\ q # <<>>
    BY <1>0
  <2> HIDE DEF q
  <2>2. /\ Len(q) \in Nat \ {0} /\ Head(q) = q[1] /\ Tail(q) \in Seq(Frames)
        /\ Len(Tail(q)) = Len(q) - 1 /\ \A k \in 1..(Len(q) - 1) : Tail(q)[k] = q[k + 1]
        /\ \A k \in 1..Len(q) : q[k] \in Frames
    BY <2>1, FrameQueues
  <2>3. Tail(q) = <<>> <=> Len(Tail(q)) = 0
    BY <2>2, FrameQueues
  <2>4. Head(q) \in Frames /\ f = Head(q)
    BY <2>2 DEF q
  <2> QED BY <2>2, <2>3, <2>4
<1>2. /\ f.epoch \in Nat /\ f.epoch <= e /\ (f.epoch = e => f.occupant = o)
      /\ f.occupant \in People \cup {None} /\ pg \in Pages
  BY <1>0, <1>1 DEF Wired, Frames
<1>3. /\ page'[s] \in Pages /\ page'[s].open /\ page'[s].epoch <= e
      /\ page'[s].epoch = e => page'[s].occupant = o
      /\ f.epoch = e => page'[s].epoch = e
  <2>1. page'[s] = Follow(s, f)
    BY <1>0
  <2>2. pg.epoch <= e /\ (pg.epoch = e => pg.occupant = o)
    BY <1>0 DEF Wired
  <2>3. Reaches(s, f.occupant) \in BOOLEAN
    BY DEF Reaches, InRoom
  <2> HIDE DEF f, e, o
  <2>4. CASE f.epoch < pg.epoch
    <3>1. page'[s] = pg
      BY <2>1, <2>4 DEF Follow
    <3> QED BY <1>0, <1>2, <2>2, <2>4, <3>1 DEF Pages
  <2>5. CASE ~(f.epoch < pg.epoch) /\ f.occupant = None
    <3>1. page'[s] = [pg EXCEPT !.occupant = None, !.epoch = f.epoch, !.linked = FALSE]
      BY <2>1, <2>5 DEF Follow
    <3> QED BY <1>0, <1>2, <2>5, <3>1 DEF Pages
  <2>6. CASE ~(f.epoch < pg.epoch) /\ f.occupant # None /\ pg.occupant = f.occupant /\ pg.epoch = f.epoch
    <3>1. page'[s] = pg
      BY <2>1, <2>6 DEF Follow
    <3> QED BY <1>0, <1>2, <2>2, <2>6, <3>1
  <2>7. CASE /\ ~(f.epoch < pg.epoch) /\ f.occupant # None
             /\ ~(pg.occupant = f.occupant /\ pg.epoch = f.epoch)
    <3>1. page'[s] = [pg EXCEPT !.occupant = f.occupant, !.epoch = f.epoch,
                                !.linked = Reaches(s, f.occupant)]
      BY <2>1, <2>7 DEF Follow
    <3> QED BY <1>0, <1>2, <2>3, <2>7, <3>1 DEF Pages
  <2> QED BY <2>4, <2>5, <2>6, <2>7
<1>4. Wired(s)'
  <2>1. wire'[s] = Tail(q)
    BY <1>0
  <2>2. ASSUME NEW i \in 1..Len(Tail(q))
        PROVE  /\ Tail(q)[i].epoch <= e
               /\ Tail(q)[i].epoch = e => Tail(q)[i].occupant = o
    <3>1. i + 1 \in 1..Len(q) /\ Tail(q)[i] = q[i + 1]
      BY <1>1
    <3> QED BY <1>0, <3>1 DEF Wired
  <2>3. ASSUME s \notin missed
        PROVE  IF Tail(q) = <<>> THEN page'[s].epoch = e ELSE Tail(q)[Len(Tail(q))].epoch = e
    <3>1. q[Len(q)].epoch = e
      BY <1>0, <2>3 DEF Wired
    <3>2. CASE Len(q) = 1
      BY <1>1, <1>3, <3>1, <3>2
    <3>3. CASE Len(q) # 1
      <4>1. Len(q) - 1 \in 1..(Len(q) - 1)
        BY <1>1, <3>3
      <4> QED BY <1>1, <3>1, <3>3, <4>1
    <3> QED BY <3>2, <3>3
  <2> QED BY <1>0, <1>3, <2>1, <2>2, <2>3 DEF Wired
<1>5. ASSUME NEW c \in Slots, c # s
      PROVE  Wired(c)'
  <2>1. Wired(c) /\ page'[c] = page[c] /\ wire'[c] = wire[c]
    BY <1>0, <1>5 DEF WireInv
  <2> QED BY <1>0, <2>1 DEF Wired
<1>6. PagesTyped'
  <2>1. Len(Tail(q)) <= MaxWire
    BY <1>1, PageAssumption DEF WireInv, PagesTyped
  <2> QED BY <1>0, <1>1, <1>3, <2>1 DEF WireInv, PagesTyped
<1>7. GuestsOnly'
  BY <1>0 DEF WireInv, GuestsOnly
<1> QED BY <1>4, <1>5, <1>6, <1>7 DEF WireInv

\* Steps that close a page, or leave the rest alone.
LEMMA ClosesWired ==
    ASSUME TypeOK, TypeOK', WireInv, NEW S \in SUBSET Slots, PagesTyped', GuestsOnly',
           \A s \in S : page'[s] = Closed /\ wire'[s] = <<>>,
           \A s \in Slots \ S :
              /\ page'[s] = page[s] /\ wire'[s] = wire[s] /\ (s \in missed <=> s \in missed')
              /\ slots'[s].epoch = slots[s].epoch /\ slots'[s].occupant = slots[s].occupant
              /\ slots'[s].source = slots[s].source
    PROVE  WireInv'
<1>1. ASSUME NEW s \in S PROVE Wired(s)'
  BY ClosedWired DEF TypeOK, SlotStates
<1>2. ASSUME NEW s \in Slots \ S PROVE Wired(s)'
  BY DEF WireInv, Wired
<1> QED BY <1>1, <1>2 DEF WireInv

LEMMA DropsWired ==
    ASSUME TypeOK, TypeOK', WireInv, NEW s \in Slots, PageDrops(s)
    PROVE  WireInv'
<1>1. /\ page' = [page EXCEPT ![s] = Closed] /\ wire' = [wire EXCEPT ![s] = <<>>]
      /\ slots' = slots /\ missed' = missed
  BY DEF PageDrops, Forget, vars, slotVars
<1>2. Closed \in Pages /\ <<>> \in Seq(Frames) /\ Len(<<>>) <= MaxWire
  BY PageAssumption DEF Closed, Pages
<1>3. PagesTyped' /\ GuestsOnly'
  BY <1>1, <1>2 DEF WireInv, PagesTyped, GuestsOnly
<1>4. page'[s] = Closed /\ wire'[s] = <<>>
  BY <1>1 DEF WireInv, PagesTyped
<1>5. {s} \in SUBSET Slots /\ \A c \in Slots \ {s} : page'[c] = page[c] /\ wire'[c] = wire[c]
  BY <1>1 DEF WireInv, PagesTyped
<1> QED BY <1>1, <1>3, <1>4, <1>5, ClosesWired

LEMMA ConnectsWired ==
    ASSUME TypeOK, TypeOK', WireInv, NEW s \in Slots, PageConnects(s)
    PROVE  WireInv'
<1>0. /\ \A c \in Slots : slots[c] \in SlotStates /\ slots'[c] \in SlotStates
      /\ page \in [Slots -> Pages] /\ wire \in [Slots -> Seq(Frames)] /\ SourceOf[s] \in Sources
      /\ slots \in [Slots -> SlotStates]
  BY NamesFacts DEF TypeOK, WireInv, PagesTyped
<1>1. /\ ~page[s].open /\ JoinSource(s)
      /\ page' = [page EXCEPT ![s].open = TRUE]
      /\ wire' = [wire EXCEPT ![s] = <<FrameOf(s)>>]
      /\ missed' = missed \ {s}
  BY DEF PageConnects
<1>2. slots' = [slots EXCEPT ![s] = Attached(slots[s], SourceOf[s])]
  BY <1>1 DEF JoinSource, SetSlots
<1>3. /\ slots'[s].occupant = slots[s].occupant /\ slots'[s].source = SourceOf[s]
      /\ slots'[s].epoch \in Nat
      /\ \A c \in Slots \ {s} : slots'[c] = slots[c]
  <2>1. slots'[s] = Attached(slots[s], SourceOf[s]) /\ slots'[s] \in SlotStates
    BY <1>0, <1>2
  <2>2. \A c \in Slots \ {s} : slots'[c] = slots[c]
    BY <1>0, <1>2
  <2> QED BY <1>0, <2>1, <2>2, AttachedFields DEF SlotStates
<1>4. GuestsOnly'
  BY <1>3 DEF WireInv, GuestsOnly
<1>5. /\ FrameOf(s) \in Frames /\ FrameOf(s).epoch = slots'[s].epoch
      /\ FrameOf(s).occupant = slots'[s].occupant
  BY <1>3, <1>4 DEF FrameOf, Frames, People, GuestsOnly
<1>6. /\ <<FrameOf(s)>> \in Seq(Frames) /\ Len(<<FrameOf(s)>>) = 1
      /\ <<FrameOf(s)>>[1] = FrameOf(s) /\ <<FrameOf(s)>> # <<>>
  BY <1>5
<1>7. page[s] = Closed /\ page'[s] = [Closed EXCEPT !.open = TRUE]
  BY <1>0, <1>1 DEF WireInv, Wired
<1>8. /\ page'[s] \in Pages /\ page'[s].open /\ page'[s].epoch = -1
  BY <1>7 DEF Closed, Pages
<1>9. Wired(s)'
  <2>1. wire'[s] = <<FrameOf(s)>>
    BY <1>0, <1>1
  <2> QED BY <1>3, <1>5, <1>6, <1>8, <2>1 DEF Wired
<1>10. ASSUME NEW c \in Slots, c # s
       PROVE  Wired(c)'
  <2>1. /\ Wired(c) /\ page'[c] = page[c] /\ wire'[c] = wire[c] /\ slots'[c] = slots[c]
        /\ c \in missed <=> c \in missed'
    BY <1>0, <1>1, <1>3, <1>10 DEF WireInv
  <2> QED BY <2>1 DEF Wired
<1>11. PagesTyped'
  <2>1. 1 <= MaxWire
    BY PageAssumption
  <2> QED BY <1>0, <1>1, <1>6, <1>8, <2>1 DEF WireInv, PagesTyped
<1> QED BY <1>4, <1>9, <1>10, <1>11 DEF WireInv

\* The departure of a page's connection frees the slot of its page and moves nobody.
LEMMA SourceDeparts ==
    ASSUME TypeOK, GuestsOnly, NEW s \in Slots, NEW terminal \in BOOLEAN,
           Depart({SourceOf[s]}, terminal)
    PROVE  \A c \in Slots : slots'[c] = Freed(slots[c], {SourceOf[s]})
<1> SUFFICES ASSUME NEW c \in Slots PROVE slots'[c] = Freed(slots[c], {SourceOf[s]})
  OBVIOUS
<1>1. slots'[c] = Left(c, {SourceOf[s]}, terminal)
  BY DEF Depart, SetSlots
<1>2. slots[c].occupant # SourceOf[s]
  BY NamesAssumption, NamesFacts DEF GuestsOnly, People
<1> QED BY <1>1, <1>2 DEF Left

LEMMA SourceGone ==
    ASSUME TypeOK, TypeOK', WireInv, NEW s \in Slots, NEW terminal \in BOOLEAN,
           Depart({SourceOf[s]}, terminal), ~page'[s].open, PagesTyped',
           page'[s] = Closed /\ wire'[s] = <<>>, missed' = missed,
           \A c \in Slots \ {s} : page'[c] = page[c] /\ wire'[c] = wire[c]
    PROVE  WireInv'
<1>0. \A c \in Slots : slots[c] \in SlotStates
  BY DEF TypeOK
<1>1. \A c \in Slots : slots'[c] = Freed(slots[c], {SourceOf[s]})
  BY SourceDeparts DEF WireInv
<1>2. \A c \in Slots : /\ slots'[c].epoch = slots[c].epoch
                       /\ slots'[c].occupant = slots[c].occupant
                       /\ slots'[c].source = IF slots[c].source = SourceOf[s] THEN None ELSE slots[c].source
  BY <1>0, <1>1, FreedFields
<1>3. GuestsOnly'
  BY <1>2 DEF WireInv, GuestsOnly
<1>4. ASSUME NEW c \in Slots \ {s}
      PROVE  Wired(c)'
  <2>1. Wired(c) /\ SourceOf[c] # SourceOf[s]
    BY NamesAssumption DEF WireInv
  <2> QED BY <1>2, <2>1 DEF Wired
<1>5. Wired(s)'
  BY ClosedWired DEF TypeOK, SlotStates
<1> QED BY <1>3, <1>4, <1>5 DEF WireInv

LEMMA LeavesWired ==
    ASSUME TypeOK, TypeOK', WireInv, NEW s \in Slots, PageLeaves(s) \/ PageRotated(s)
    PROVE  WireInv'
<1>0. /\ Closed \in Pages /\ <<>> \in Seq(Frames) /\ Len(<<>>) <= MaxWire /\ ~Closed.open
      /\ page \in [Slots -> Pages] /\ wire \in [Slots -> Seq(Frames)]
  BY PageAssumption DEF Closed, Pages, WireInv, PagesTyped
<1>1. CASE PageLeaves(s)
  <2>1. /\ Depart({SourceOf[s]}, FALSE) /\ page' = page /\ wire' = wire /\ missed' = missed
        /\ ~page[s].open
    BY <1>1 DEF PageLeaves, Leave, pageVars
  <2>2. page[s] = Closed /\ wire[s] = <<>>
    BY <2>1 DEF WireInv, Wired
  <2>3. PagesTyped'
    BY <2>1 DEF WireInv, PagesTyped
  <2> QED BY <2>1, <2>2, <2>3, SourceGone
<1>2. CASE PageRotated(s)
  <2>1. /\ Depart({SourceOf[s]}, TRUE) /\ missed' = missed
        /\ page' = [page EXCEPT ![s] = Closed] /\ wire' = [wire EXCEPT ![s] = <<>>]
    BY <1>2 DEF PageRotated, RotateSource
  <2>2. /\ page'[s] = Closed /\ wire'[s] = <<>> /\ ~page'[s].open
        /\ \A c \in Slots \ {s} : page'[c] = page[c] /\ wire'[c] = wire[c]
    BY <1>0, <2>1
  <2>3. PagesTyped'
    BY <1>0, <2>1 DEF WireInv, PagesTyped
  <2> QED BY <2>1, <2>2, <2>3, SourceGone
<1> QED BY <1>1, <1>2

LEMMA JoinsWired ==
    ASSUME TypeOK, TypeOK', WireInv, NEW g \in Guests, GuestJoins(g)
    PROVE  WireInv'
<1>1. /\ slots' = slots /\ wire' = wire /\ missed' = missed
      /\ page' = [s \in Slots |-> [page[s] EXCEPT !.linked = @ /\ page[s].occupant # g]]
  BY DEF GuestJoins, Join, slotVars
<1>2. ASSUME NEW s \in Slots
      PROVE  /\ page'[s] \in Pages /\ page'[s].open = page[s].open
             /\ page'[s].epoch = page[s].epoch /\ page'[s].occupant = page[s].occupant
             /\ page[s] = Closed => page'[s] = Closed
  <2>1. (page[s].linked /\ page[s].occupant # g) \in BOOLEAN
    OBVIOUS
  <2>2. page[s] \in Pages
    BY DEF WireInv, PagesTyped
  <2>3. page[s] = Closed => ~page[s].linked
    BY DEF Closed
  <2> QED BY <1>1, <2>1, <2>2, <2>3 DEF Pages, Closed
<1>3. PagesTyped' /\ GuestsOnly'
  <2>1. page' \in [Slots -> Pages]
    BY <1>1, <1>2
  <2> QED BY <1>1, <2>1 DEF WireInv, PagesTyped, GuestsOnly
<1>4. ASSUME NEW s \in Slots PROVE Wired(s)'
  BY <1>1, <1>2 DEF WireInv, Wired
<1> QED BY <1>3, <1>4 DEF WireInv

LEMMA RestartsWired ==
    ASSUME TypeOK, TypeOK', WireInv, RoomRestarts
    PROVE  WireInv'
<1>1. /\ slots' = [s \in Slots |-> FreshSlot] /\ missed' = {}
      /\ page' = [s \in Slots |-> IF page[s].open THEN Closed ELSE page[s]]
      /\ wire' = [s \in Slots |-> <<>>]
  BY DEF RoomRestarts, Respawn, Forget
<1>2. ASSUME NEW s \in Slots
      PROVE  page'[s] = Closed /\ wire'[s] = <<>>
  BY <1>1 DEF WireInv, Wired
<1>3. Closed \in Pages /\ <<>> \in Seq(Frames) /\ Len(<<>>) <= MaxWire
  BY PageAssumption DEF Closed, Pages
<1>4. PagesTyped'
  <2>1. page' \in [Slots -> Pages]
    BY <1>1, <1>2, <1>3
  <2> QED BY <1>1, <1>3, <2>1 DEF PagesTyped
<1>5. GuestsOnly'
  BY <1>1, FreshSlotFields DEF GuestsOnly
<1>6. ASSUME NEW s \in Slots PROVE Wired(s)'
  BY <1>2, ClosedWired DEF TypeOK, SlotStates
<1> QED BY <1>4, <1>5, <1>6 DEF WireInv

LEMMA PageCases ==
    ASSUME PageNext
    PROVE  \/ Moves
           \/ \E s \in Slots : \/ PageReads(s) \/ PageDrops(s) \/ PageConnects(s)
                               \/ PageLeaves(s) \/ PageRotated(s)
           \/ \E g \in Guests : GuestJoins(g)
           \/ RoomRestarts
BY DEF PageNext, PageSteps, GuestSteps, Moves

LEMMA WireKept ==
    TypeOK /\ TypeOK' /\ GuestsTyped /\ WireInv /\ [PageNext]_allVars => WireInv'
<1> SUFFICES ASSUME TypeOK, TypeOK', GuestsTyped, WireInv, [PageNext]_allVars
             PROVE  WireInv'
  OBVIOUS
<1>1. CASE UNCHANGED allVars
  BY <1>1 DEF allVars, vars, slotVars, pageVars, WireInv, PagesTyped, GuestsOnly, Wired
<1>2. CASE PageNext
  BY <1>2, PageCases, MovesWired, ReadsWired, DropsWired, ConnectsWired, LeavesWired,
     JoinsWired, RestartsWired
<1> QED BY <1>1, <1>2

LEMMA WireInitially == PageInit => WireInv
<1> SUFFICES ASSUME PageInit PROVE WireInv
  OBVIOUS
<1>1. /\ slots = [s \in Slots |-> FreshSlot] /\ page = [s \in Slots |-> Closed]
      /\ wire = [s \in Slots |-> <<>>] /\ missed = {}
  BY DEF PageInit, Init
<1>2. Closed \in Pages /\ <<>> \in Seq(Frames) /\ Len(<<>>) <= MaxWire
  BY PageAssumption DEF Closed, Pages
<1>3. PagesTyped /\ GuestsOnly
  BY <1>1, <1>2, FreshSlotFields DEF PagesTyped, GuestsOnly
<1>4. ASSUME NEW s \in Slots PROVE Wired(s)
  BY <1>1 DEF Wired, Closed, FreshSlot
<1> QED BY <1>3, <1>4 DEF WireInv

LEMMA RoomTyped == PageSpec => []TypeOK
BY PagesLeaveTheRoom, TypeCorrect, PTL

LEMMA WireInvariant == PageSpec => []WireInv
BY WireInitially, WireKept, GuestsAreTyped, RoomTyped, PTL DEF PageSpec

\* EN-1: whatever a page lost and however late it reads what it was sent, a report that
\* it makes under the epoch of its slot is about the occupant of the slot.
THEOREM ReportsTheOccupant == PageSpec => []PageReportsOccupant
<1>1. WireInv => PageReportsOccupant
  BY DEF WireInv, Wired, PageReportsOccupant
<1> QED BY <1>1, WireInvariant, PTL

\* EN-3: a page that lost no frame shows the occupant of its slot once it has read
\* everything, however the moves, drops, rotations and restarts interleaved.
THEOREM FollowsTheSlot == PageSpec => []PageFollowsSlot
<1>1. WireInv => PageFollowsSlot
  BY DEF WireInv, Wired, PageFollowsSlot, Settled
<1> QED BY <1>1, WireInvariant, PTL

\* Every value of the pages, of their wires and of the guests' bindings keeps its type,
\* and no wire holds more than its bound.
THEOREM PageTypeCorrect == PageSpec => []PageTypeOK
<1>1. WireInv /\ TypeOK /\ GuestsTyped => PageTypeOK
  BY DEF WireInv, PagesTyped, GuestsTyped, PageTypeOK
<1> QED BY <1>1, WireInvariant, RoomTyped, GuestsAreTyped, PTL

-----------------------------------------------------------------------------
(* The connection that a page is linked to *)

\* The occupant of the slot is there, and its binding is not about to be replayed, nor
\* was its replay refused.
Attended(s) ==
    LET p == slots[s].occupant
    IN  p # None /\ p # replaying /\ InRoom(p) /\ p \notin refused

LinkOK(s) ==
    Attended(s) =>
       /\ ~slots[s].disconnected
       /\ page[s].open /\ page[s].epoch = slots[s].epoch => page[s].linked
LinkInv == \A s \in CamSlots : LinkOK(s)

\* The guest whose binding is settled leaves no cam slot as it was.
LEMMA SettledAnew ==
    ASSUME TypeOK, GuestsTyped, NEW g \in Guests, NEW s \in CamSlots, slots[s].occupant = g,
           \/ Replay(g)
           \/ \E c \in CamSlots : Assign(g, c) \/ HostRebinds(c, g)
    PROVE  slots'[s].epoch = slots[s].epoch + 1 \/ ~Attended(s)'
<1> USE NamesFacts
<1>0. slots[s] \in SlotStates /\ s \in Slots /\ g # None
  BY DEF TypeOK
<1>1. Vacated(slots[s]).epoch = slots[s].epoch + 1 /\ Bound(slots[s], g).epoch = slots[s].epoch + 1
  BY <1>0, VacatedFields, BoundFields
<1>2. ASSUME NEW c \in CamSlots, slots' = Rebound(c, g)
      PROVE  slots'[s].epoch = slots[s].epoch + 1
  <2>1. s = c \/ s \in OtherCamSlots(c, g)
    BY DEF OtherCamSlots
  <2>2. slots'[s] \in {Bound(slots[s], g), Vacated(slots[s])}
    BY <1>0, <1>2, <2>1, ReboundSlots
  <2> QED BY <1>1, <2>2
<1>3. ASSUME NEW S, s \in S, slots' = VacatedAll(S)
      PROVE  slots'[s].epoch = slots[s].epoch + 1
  BY <1>0, <1>1, <1>3 DEF VacatedAll
<1>4. CASE Replay(g)
  <2>1. CASE row[g] # None /\ ~Refused(g) /\ InRoom(g)
    <3>1. ResumeBind(row[g], g) /\ row[g] \in CamSlots
      BY <1>4, <2>1 DEF Replay, GuestsTyped
    <3> QED BY <1>2, <3>1 DEF ResumeBind, SetSlots
  <2>2. CASE row[g] = None
    <3>1. VacateOccupant(g)
      BY <1>4, <2>2 DEF Replay
    <3>2. /\ slots' = VacatedAll({c \in CamSlots : slots[c].occupant = g})
          /\ s \in {c \in CamSlots : slots[c].occupant = g}
      BY <3>1 DEF VacateOccupant, SetSlots
    <3> QED BY <1>3, <3>2
  <2>3. CASE row[g] # None /\ (Refused(g) \/ ~InRoom(g))
    <3>1. slots' = slots /\ role' = role
      BY <1>4, <2>3 DEF Replay, vars, slotVars, peerVars
    <3>2. Refused(g) => g \in refused'
      BY <1>4 DEF Replay
    <3> QED BY <2>3, <3>1, <3>2 DEF Attended, InRoom
  <2> QED BY <2>1, <2>2, <2>3
<1>5. ASSUME NEW c \in CamSlots, Assign(g, c)
      PROVE  slots'[s].epoch = slots[s].epoch + 1
  <2>1. CASE InRoom(g)
    BY <1>2, <1>5, <2>1 DEF Assign, RebindOrVacate, SetSlots
  <2>2. CASE ~InRoom(g)
    <3>1. slots' = VacatedAll({c} \cup OtherCamSlots(c, g))
      BY <1>5, <2>2 DEF Assign, RebindOrVacate, SetSlots
    <3>2. s \in {c} \cup OtherCamSlots(c, g)
      BY DEF OtherCamSlots
    <3> QED BY <1>3, <3>1, <3>2
  <2> QED BY <2>1, <2>2
<1>6. ASSUME NEW c \in CamSlots, HostRebinds(c, g)
      PROVE  slots'[s].epoch = slots[s].epoch + 1
  BY <1>2, <1>6 DEF HostRebinds, Rebind, SetSlots
<1> QED BY <1>4, <1>5, <1>6

\* Nobody appears in the room with a move.
LEMMA MovesBringNobody ==
    ASSUME Moves, NEW p \in Guests, role'[p] # "none"
    PROVE  role[p] # "none"
<1>1. ASSUME NEW g \in Guests, NEW terminal \in BOOLEAN, Depart({g}, terminal)
      PROVE  role[p] # "none"
  BY <1>1, NamesFacts DEF Depart, Remove
<1>2. ASSUME role' = role
      PROVE  role[p] # "none"
  BY <1>2
<1>3. CASE \E g \in Guests : GuestLeaves(g) \/ Evicted(g)
  BY <1>1, <1>3 DEF GuestLeaves, Evicted, Leave, EvictPeers
<1>4. CASE \E g \in Guests : Replay(g) \/ Renamed(g) \/ Unassign(g)
  BY <1>2, <1>4 DEF Replay, Renamed, Unassign, ResumeBind, VacateOccupant, UnchangedByBinding,
                    vars, peerVars
<1>5. CASE GraceEnds
  BY <1>2, <1>5 DEF GraceEnds, ExpireGrace, peerVars
<1>6. CASE \E s \in CamSlots : HostUnbinds(s) \/ \E g \in Guests : Assign(g, s) \/ HostRebinds(s, g)
  BY <1>2, <1>6 DEF HostUnbinds, Unbind, Assign, RebindOrVacate, HostRebinds, Rebind,
                    UnchangedByBinding, peerVars
<1> QED BY <1>3, <1>4, <1>5, <1>6 DEF Moves, HostSteps

\* Only the guest that is settled stops being replayed or refused.
LEMMA MovesSettle ==
    ASSUME GuestsTyped, Moves, NEW p \in Guests,
           p = replaying \/ p \in refused, p # replaying' /\ p \notin refused'
    PROVE  Replay(p) \/ \E c \in CamSlots : Assign(p, c) \/ HostRebinds(c, p)
<1>1. ~UNCHANGED <<replaying, refused>>
  OBVIOUS
<1>2. ASSUME NEW g \in Guests, Replay(g) PROVE Replay(p)
  BY <1>2 DEF Replay
<1>3. ASSUME NEW g \in Guests, NEW c \in CamSlots, Assign(g, c) \/ HostRebinds(c, g)
      PROVE  g = p
  BY <1>3 DEF Assign, HostRebinds
<1>4. ASSUME NEW g \in Guests, GuestLeaves(g) \/ Evicted(g) \/ Renamed(g) \/ Unassign(g)
      PROVE  FALSE
  BY <1>1, <1>4 DEF GuestLeaves, Evicted, Renamed, Unassign, guestVars
<1>5. ASSUME GraceEnds \/ \E s \in CamSlots : HostUnbinds(s)
      PROVE  FALSE
  BY <1>1, <1>5 DEF GraceEnds, HostUnbinds, guestVars
<1> QED BY <1>2, <1>3, <1>4, <1>5 DEF Moves, HostSteps

LEMMA MovesLinked ==
    ASSUME TypeOK, GuestsTyped, WireInv, LinkInv, Moves
    PROVE  LinkInv'
<1> SUFFICES ASSUME NEW s \in CamSlots, Attended(s)'
             PROVE  /\ ~slots'[s].disconnected
                    /\ page'[s].open /\ page'[s].epoch = slots'[s].epoch => page'[s].linked
  BY DEF LinkInv, LinkOK
<1>0. /\ s \in Slots /\ slots[s] \in SlotStates /\ slots[s].occupant \in Guests \cup {None}
      /\ slots[s].epoch \in Nat /\ Guests \subseteq Peers
      /\ page[s].epoch \in Nat \cup {-1} /\ page[s].epoch <= slots[s].epoch
  BY NamesFacts DEF TypeOK, WireInv, GuestsOnly, SlotStates, PagesTyped, Pages, Wired
<1>1. page' = page
  BY MovesTell DEF Telling, Deliver, pageVars
<1>2. SlotMoved(s)
  BY <1>0, MovesSlots
<1>3. ASSUME NEW p \in Guests \cup {None}, slots'[s] = Bound(slots[s], p)
      PROVE  /\ ~slots'[s].disconnected
             /\ page'[s].open /\ page'[s].epoch = slots'[s].epoch => page'[s].linked
  <2>1. ~slots'[s].disconnected /\ slots'[s].epoch = slots[s].epoch + 1
    BY <1>0, <1>3, BoundFields
  <2> QED BY <1>0, <1>1, <2>1
<1>4. ASSUME slots'[s] = Held(slots[s]), role'[slots[s].occupant] = "none"
      PROVE  FALSE
  <2>1. slots'[s].occupant = slots[s].occupant
    BY <1>0, <1>4, HeldFields
  <2> QED BY <1>4, <2>1 DEF Attended, InRoom
<1>5. ASSUME slots'[s] = slots[s]
      PROVE  Attended(s)
  <2> DEFINE p == slots[s].occupant
  <2>1. p \in Guests /\ role'[p] # "none" /\ p # replaying' /\ p \notin refused'
    BY <1>0, <1>5 DEF Attended, InRoom
  <2>2. InRoom(p)
    BY <2>1, MovesBringNobody DEF InRoom
  <2>3. p # replaying /\ p \notin refused
    <3>1. SUFFICES ASSUME p = replaying \/ p \in refused PROVE FALSE
      OBVIOUS
    <3>2. Replay(p) \/ \E c \in CamSlots : Assign(p, c) \/ HostRebinds(c, p)
      BY <2>1, <3>1, MovesSettle
    <3>3. slots'[s].epoch = slots[s].epoch + 1
      BY <2>1, <3>2, SettledAnew
    <3> QED BY <1>0, <1>5, <3>3
  <2> QED BY <2>1, <2>2, <2>3, NamesFacts DEF Attended
<1>6. CASE slots'[s] = slots[s]
  BY <1>1, <1>5, <1>6 DEF LinkInv, LinkOK
<1> QED BY <1>2, <1>3, <1>4, <1>6 DEF SlotMoved

\* Where the slot, its occupant and the guests' side stay as they were, it is enough
\* that the page keeps its link or made it anew.
LEMMA KeepsLink ==
    ASSUME LinkInv, GuestsOnly, NEW s \in CamSlots, UNCHANGED <<replaying, refused>>,
           slots'[s].occupant = slots[s].occupant,
           slots'[s].disconnected = slots[s].disconnected,
           slots[s].occupant \in Guests => role'[slots[s].occupant] = role[slots[s].occupant],
           Attended(s) /\ page'[s].open /\ page'[s].epoch = slots'[s].epoch
              => \/ page'[s].linked
                 \/ /\ page[s].open /\ page[s].epoch = slots[s].epoch
                    /\ page'[s].linked = page[s].linked
    PROVE  LinkOK(s)'
<1>1. s \in Slots
  BY NamesFacts
<1>2. Attended(s)' => Attended(s)
  BY <1>1 DEF Attended, InRoom, GuestsOnly
<1> QED BY <1>2 DEF LinkInv, LinkOK

LEMMA ReadsLinked ==
    ASSUME TypeOK, WireInv, LinkInv, NEW s \in Slots, PageReads(s)
    PROVE  LinkInv'
<1> DEFINE f == Head(wire[s])
<1>1. /\ page' = [page EXCEPT ![s] = Follow(s, f)] /\ page \in [Slots -> Pages]
      /\ slots' = slots /\ role' = role /\ UNCHANGED <<replaying, refused>>
      /\ page[s].open
  BY DEF PageReads, WireInv, PagesTyped, vars, slotVars, peerVars, guestVars
<1>2. /\ f \in Frames /\ (f.epoch = slots[s].epoch => f.occupant = slots[s].occupant)
      /\ page[s].epoch <= slots[s].epoch /\ f.epoch <= slots[s].epoch
  <2>1. wire[s] \in Seq(Frames) /\ wire[s] # <<>> /\ Wired(s)
    BY DEF PageReads, WireInv, PagesTyped
  <2>2. f = wire[s][1] /\ 1 \in 1..Len(wire[s]) /\ f \in Frames
    BY <2>1, FrameQueues
  <2> QED BY <2>1, <2>2 DEF Wired
<1>3. ASSUME Attended(s), page'[s].epoch = slots[s].epoch
      PROVE  \/ page'[s].linked
             \/ page[s].epoch = slots[s].epoch /\ page'[s].linked = page[s].linked
  <2> HIDE DEF f
  <2>0. page'[s] = Follow(s, f) /\ page[s] \in Pages
    BY <1>1
  <2>1. CASE page'[s] = page[s]
    BY <1>3, <2>1
  <2>2. CASE page'[s] = [page[s] EXCEPT !.occupant = None, !.epoch = f.epoch, !.linked = FALSE]
             /\ f.occupant = None
    <3>1. f.epoch = slots[s].epoch
      BY <1>3, <2>0, <2>2 DEF Pages
    <3> QED BY <1>2, <1>3, <2>2, <3>1 DEF Attended
  <2>3. CASE page'[s] = [page[s] EXCEPT !.occupant = f.occupant, !.epoch = f.epoch,
                                        !.linked = Reaches(s, f.occupant)]
    <3>1. f.epoch = slots[s].epoch /\ page'[s].linked = Reaches(s, f.occupant)
      BY <1>3, <2>0, <2>3 DEF Pages
    <3> QED BY <1>2, <1>3, <3>1 DEF Attended, Reaches
  <2> QED BY <2>0, <2>1, <2>2, <2>3 DEF Follow
<1>4. ASSUME NEW c \in CamSlots PROVE LinkOK(c)'
  <2>1. CASE c = s
    BY <1>1, <1>3, <2>1, KeepsLink DEF WireInv
  <2>2. CASE c # s
    <3>1. page'[c] = page[c]
      BY <1>1, <2>2, NamesFacts
    <3> QED BY <1>1, <3>1, KeepsLink DEF WireInv
  <2> QED BY <2>1, <2>2
<1> QED BY <1>4 DEF LinkInv

\* A page that closed or has only opened is in nobody's way.
LEMMA ShutLinked ==
    ASSUME LinkInv, GuestsOnly, NEW s \in Slots, UNCHANGED <<replaying, refused>>,
           \A c \in Slots : /\ slots'[c].occupant = slots[c].occupant
                            /\ slots'[c].disconnected = slots[c].disconnected,
           \A c \in Slots \ {s} : page'[c] = page[c] /\ slots'[c].epoch = slots[c].epoch,
           \A g \in Guests : role'[g] = role[g],
           page'[s].open => page'[s].epoch # slots'[s].epoch \/ page'[s] = page[s],
           page'[s] = page[s] => slots'[s].epoch = slots[s].epoch
    PROVE  LinkInv'
<1>1. ASSUME NEW c \in CamSlots PROVE LinkOK(c)'
  <2>1. c \in Slots
    BY NamesFacts
  <2> QED BY <2>1, KeepsLink
<1> QED BY <1>1 DEF LinkInv

LEMMA DropsLinked ==
    ASSUME TypeOK, WireInv, LinkInv, NEW s \in Slots, PageDrops(s)
    PROVE  LinkInv'
<1>1. /\ page' = [page EXCEPT ![s] = Closed] /\ page \in [Slots -> Pages]
      /\ slots' = slots /\ role' = role /\ UNCHANGED <<replaying, refused>>
  BY DEF PageDrops, Forget, WireInv, PagesTyped, vars, slotVars, peerVars, guestVars
<1>2. ~page'[s].open /\ \A c \in Slots \ {s} : page'[c] = page[c]
  BY <1>1 DEF Closed
<1> QED BY <1>1, <1>2, ShutLinked DEF WireInv

LEMMA ConnectsLinked ==
    ASSUME TypeOK, WireInv, LinkInv, NEW s \in Slots, PageConnects(s)
    PROVE  LinkInv'
<1>0. /\ \A c \in Slots : slots[c] \in SlotStates
      /\ slots \in [Slots -> SlotStates] /\ page \in [Slots -> Pages]
      /\ SourceOf[s] \in Sources /\ role \in [Peers -> {"none", "host", "cohost", "guest", "obs"}]
  BY NamesFacts DEF TypeOK, WireInv, PagesTyped
<1>1. /\ slots' = [slots EXCEPT ![s] = Attached(slots[s], SourceOf[s])]
      /\ role' = [role EXCEPT ![SourceOf[s]] = "obs"]
      /\ page' = [page EXCEPT ![s].open = TRUE] /\ ~page[s].open
      /\ UNCHANGED <<replaying, refused>>
  BY DEF PageConnects, JoinSource, SetSlots, guestVars
<1>2. page[s] = Closed /\ page'[s] = [Closed EXCEPT !.open = TRUE]
  BY <1>0, <1>1 DEF WireInv, Wired
<1>3. page'[s].epoch = -1 /\ page'[s] # page[s]
  BY <1>1, <1>2 DEF Closed
<1>4. slots'[s] = Attached(slots[s], SourceOf[s]) /\ \A c \in Slots \ {s} : slots'[c] = slots[c]
  BY <1>0, <1>1
<1>5. /\ slots'[s].occupant = slots[s].occupant /\ slots'[s].disconnected = slots[s].disconnected
      /\ slots'[s].epoch \in Nat
  <2>1. slots[s].source # None => slots[s].epoch + 1 \in Nat
    BY <1>0 DEF SlotStates
  <2> QED BY <1>0, <1>4, <2>1 DEF Attached, SlotStates
<1>6. \A g \in Guests : role'[g] = role[g]
  BY <1>0, <1>1, NamesAssumption, NamesFacts DEF People
<1>7. \A c \in Slots \ {s} : page'[c] = page[c]
  BY <1>0, <1>1
<1> QED BY <1>1, <1>3, <1>4, <1>5, <1>6, <1>7, ShutLinked DEF WireInv

LEMMA LeavesLinked ==
    ASSUME TypeOK, WireInv, LinkInv, NEW s \in Slots, PageLeaves(s) \/ PageRotated(s)
    PROVE  LinkInv'
<1>0. \A c \in Slots : slots[c] \in SlotStates
  BY DEF TypeOK
<1>1. \E terminal \in BOOLEAN : Depart({SourceOf[s]}, terminal)
  BY DEF PageLeaves, Leave, PageRotated, RotateSource
<1>2. \A c \in Slots : slots'[c] = Freed(slots[c], {SourceOf[s]})
  BY <1>1, SourceDeparts DEF WireInv
<1>3. \A c \in Slots : /\ slots'[c].occupant = slots[c].occupant
                       /\ slots'[c].disconnected = slots[c].disconnected
                       /\ slots'[c].epoch = slots[c].epoch
  BY <1>0, <1>2, FreedFields
<1>4. \A g \in Guests : role'[g] = role[g]
  BY <1>1, NamesAssumption, NamesFacts DEF Depart, Remove, People
<1>5. /\ UNCHANGED <<replaying, refused>>
      /\ page' = page \/ page' = [page EXCEPT ![s] = Closed]
  BY DEF PageLeaves, PageRotated, pageVars, guestVars
<1>6. /\ \A c \in Slots \ {s} : page'[c] = page[c]
      /\ page'[s].open => page'[s] = page[s]
  BY <1>5 DEF WireInv, PagesTyped, Closed
<1> QED BY <1>3, <1>4, <1>5, <1>6, ShutLinked DEF WireInv

LEMMA JoinsLinked ==
    ASSUME TypeOK, GuestsTyped, WireInv, LinkInv, NEW g \in Guests, GuestJoins(g)
    PROVE  LinkInv'
<1>1. /\ replaying = None /\ replaying' = g /\ refused' = refused /\ slots' = slots
      /\ \A p \in Guests \ {g} : role'[p] = role[p]
      /\ page' = [s \in Slots |-> [page[s] EXCEPT !.linked = @ /\ page[s].occupant # g]]
  BY NamesFacts DEF GuestJoins, Join, slotVars, TypeOK
<1>2. ASSUME NEW s \in CamSlots, Attended(s)'
      PROVE  /\ ~slots'[s].disconnected
             /\ page'[s].open /\ page'[s].epoch = slots'[s].epoch => page'[s].linked
  <2> DEFINE p == slots[s].occupant
  <2>1. s \in Slots /\ p \in Guests \ {g}
    BY <1>1, <1>2, NamesFacts DEF Attended, WireInv, GuestsOnly
  <2>2. Attended(s)
    BY <1>1, <1>2, <2>1, NamesAssumption DEF Attended, InRoom
  <2>3. /\ page'[s].open = page[s].open /\ page'[s].epoch = page[s].epoch
        /\ page'[s].linked = (page[s].linked /\ page[s].occupant # g)
    BY <1>1, <2>1 DEF WireInv, PagesTyped, Pages
  <2>4. page[s].open /\ page[s].epoch = slots[s].epoch => page[s].occupant = p
    BY <2>1 DEF WireInv, Wired
  <2> QED BY <1>1, <2>1, <2>2, <2>3, <2>4 DEF LinkInv, LinkOK
<1> QED BY <1>2 DEF LinkInv, LinkOK

LEMMA RestartsLinked ==
    ASSUME RoomRestarts
    PROVE  LinkInv'
<1>1. \A s \in Slots : slots'[s] = FreshSlot
  BY DEF RoomRestarts, Respawn
<1>2. ASSUME NEW s \in CamSlots PROVE ~Attended(s)'
  BY <1>1, NamesFacts DEF Attended, FreshSlot
<1> QED BY <1>2 DEF LinkInv, LinkOK

LEMMA LinkKept ==
    TypeOK /\ GuestsTyped /\ WireInv /\ LinkInv /\ [PageNext]_allVars => LinkInv'
<1> SUFFICES ASSUME TypeOK, GuestsTyped, WireInv, LinkInv, [PageNext]_allVars
             PROVE  LinkInv'
  OBVIOUS
<1>1. CASE UNCHANGED allVars
  BY <1>1 DEF allVars, vars, slotVars, peerVars, pageVars, guestVars, LinkInv, LinkOK, Attended, InRoom
<1>2. CASE PageNext
  BY <1>2, PageCases, MovesLinked, ReadsLinked, DropsLinked, ConnectsLinked, LeavesLinked,
     JoinsLinked, RestartsLinked
<1> QED BY <1>1, <1>2

LEMMA LinkInitially == PageInit => LinkInv
BY NamesFacts DEF PageInit, Init, LinkInv, LinkOK, Attended, FreshSlot

\* D-40, AC-3: once a guest is back and its binding replayed, a page that lost nothing
\* and has read everything is linked to its new connection and not to the one that
\* died, and its slot is no longer held, unless the replay was refused.
THEOREM LinksToTheLatest == PageSpec => []LinkedToLatest
<1>1. PageSpec => []LinkInv
  BY LinkInitially, LinkKept, WireInvariant, GuestsAreTyped, RoomTyped, PTL DEF PageSpec
<1>2. WireInv /\ LinkInv => LinkedToLatest
  <2> SUFFICES ASSUME WireInv, LinkInv, NEW s \in CamSlots, Settled(s), s \notin missed,
                      Attended(s)
               PROVE  page[s].linked /\ ~slots[s].disconnected
    BY DEF LinkedToLatest, Attended
  <2>1. page[s].open /\ page[s].epoch = slots[s].epoch
    BY NamesFacts DEF WireInv, Wired, Settled
  <2> QED BY <2>1 DEF LinkInv, LinkOK
<1> QED BY <1>1, <1>2, WireInvariant, PTL
=================================================================================
