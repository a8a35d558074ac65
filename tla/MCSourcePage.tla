----------------------------- MODULE MCSourcePage -----------------------------
(***************************************************************************)
(* Instances of the source pages for TLC: two guests and two cam slots, of *)
(* which one has a page. The other slot is there to be moved to and from:  *)
(* the host's unpersisted frames address the first.                        *)
(***************************************************************************)
EXTENDS SourcePage, TLC

CONSTANTS c1

MCSourceOf == [s \in Slots |-> <<"src", s>>]
AllGuests == [g \in Guests |-> "guest"]
GuestSymmetry == Permutations(Guests)

OnePageNext ==
    \/ PageSteps({c1}) \/ GuestSteps \/ RoomRestarts
    \/ \E g \in Guests :
          Unassign(g) \/ HostRebinds(c1, g) \/ \E s \in CamSlots : Assign(g, s)
    \/ HostUnbinds(c1)
OnePageSpec == PageInit /\ [][OnePageNext]_allVars
===============================================================================
