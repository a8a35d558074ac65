----------------------------- MODULE MCLiveSession -----------------------------
(***************************************************************************)
(* Instances of the live session for TLC: two guests of one stream and one *)
(* of another, and for the bindings a second slot.                         *)
(***************************************************************************)
EXTENDS LiveSession, TLC

CONSTANTS g1, g2, g3, A, B

MCStreamOf == [g \in Guests |-> IF g = g3 THEN B ELSE A]

\* Guests of a stream and cam slots are alike.
BindingSymmetry == Permutations({g \in Guests : g # g3}) \cup Permutations(CamSlots)

\* Sessions that begin, end, are abandoned and reaped; the bindings rest.
ReapNext ==
    \/ Connecting \/ Sessions \/ ForceEndLive \/ HolderStep \/ Reaper
    \/ \E g \in Guests : Expire(g)
    \/ \E g \in Guests : Kick(Host, g)
ReapSpec == Init /\ [][ReapNext]_vars /\ Fairness
===============================================================================
