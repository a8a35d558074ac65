-------------------------------- MODULE MCRoom --------------------------------
(***************************************************************************)
(* Instances of the room for TLC.  The commands of the actor multiply into *)
(* more states than one run can visit, so each run takes the commands that *)
(* bear on its question and leaves the others unsent.                      *)
(***************************************************************************)
EXTENDS Room

CONSTANT c1    \* the cam slot that has a page

\* The page of a slot is the peer src-<slot>.
MCSourceOf == [s \in Slots |-> <<"src", s>>]
AllGuests == [g \in Guests |-> "guest"]
AllCohosts == [g \in Guests |-> "cohost"]

\* Guests are moved over the cam slots while they come and go.
Moves ==
    \/ \E p \in Guests : Join(p) \/ Leave(p) \/ VacateOccupant(p)
    \/ \E S \in SUBSET Guests : EvictPeers(S)
    \/ \E s \in CamSlots, p \in Guests :
          Rebind(s, p) \/ ResumeBind(s, p) \/ RebindOrVacate(s, p)
    \/ \E s \in CamSlots : Unbind(s)
    \/ \E t \in timers : ExpireGrace(t)

\* The page of one slot comes, goes, is displaced and rotated, and reports.
Reporting(s) ==
    \/ JoinSource(s) \/ Leave(SourceOf[s]) \/ RotateSource(s)
    \/ \E active \in BOOLEAN : SourceReports(s, active)
    \/ \E r \in reports : ObsActive(r)
    \/ \E r \in reports : ReportLost(r)
BindingsSpec == Init /\ [][Moves \/ Reporting(c1)]_vars /\ Fairness

\* Moderation, screenshare and the host's own camera, with restarts of the room.
Moderating ==
    \/ \E p \in People : Join(p) \/ Leave(p)
    \/ Respawn
    \/ \E p \in Guests, m \in Modalities :
          ApplyState(p, {m}, {}) \/ ApplyState(p, {}, {m})
    \/ \E a \in People, t \in People, m \in Modalities :
          ForceOff(a, t, m) \/ Release(a, t, m)
    \/ \E a \in People, t \in Guests : Kick(a, t)
    \/ \E t \in Guests, r \in {"cohost", "guest"} : SetRole(t, r)
    \/ Screenshare
    \/ Terminate \/ \E active \in BOOLEAN : SetHostMedia(active)
ModerationSpec == Init /\ [][Moderating]_vars

\* The comments on leave: no on-air is asserted without a live signal behind it;
\* a slot whose page is gone has none.
OnAirHasSource == \A s \in Slots : slots[s].onAir # Unknown => slots[s].source # None
===============================================================================
