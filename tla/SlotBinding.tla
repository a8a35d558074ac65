------------------------------ MODULE SlotBinding ------------------------------
(***************************************************************************)
(* What the room of a session promises of its camera slots, without epochs,*)
(* locks, pages or generations.  A seat is given to somebody who is there, *)
(* one seat each.  Who drops keeps the seat and finds it again on return,  *)
(* unless the host gives or clears it, its owner is evicted, or an alarm   *)
(* set when the owner dropped rings while the owner is away.  Nothing else *)
(* ever moves anybody.                                                     *)
(***************************************************************************)
CONSTANTS
    Occupants,   \* who can be bound to a slot
    Seats,       \* the camera slots
    Nobody       \* the occupant of a free seat

VARIABLES
    seat,        \* whom each seat belongs to
    here,        \* who is in the room
    alarms       \* set, and not yet rung; each names its slot

seatVars == <<seat, here, alarms>>

Free(S) == [s \in Seats |-> IF s \in S THEN Nobody ELSE seat[s]]
SeatsOf(P) == {s \in Seats : seat[s] \in P}

Empty == seat = [s \in Seats |-> Nobody] /\ here = {} /\ alarms = {}

Arrive(p) == here' = here \cup {p} /\ UNCHANGED <<seat, alarms>>

\* The seat is kept for p, for as long as its alarm takes to ring.
Drop(p) ==
    /\ p \in here /\ here' = here \ {p}
    /\ alarms \subseteq alarms'
    /\ \A s \in SeatsOf({p}) : \E a \in alarms' : a.slot = s
    /\ UNCHANGED seat

Evict(P) == here' = here \ P /\ seat' = Free(SeatsOf(P)) /\ UNCHANGED alarms

Give(s, p) ==
    /\ p \in here
    /\ seat' = [c \in Seats |-> IF c = s THEN p ELSE Free(SeatsOf({p}))[c]]
    /\ UNCHANGED <<here, alarms>>

Clear(S) == seat' = Free(S) /\ UNCHANGED <<here, alarms>>

\* An alarm frees its own seat or none: never the seat of somebody there, and the
\* seat of somebody away unless another alarm is still to ring for it.
Ring(a) ==
    /\ alarms' = alarms \ {a}
    /\ \/ /\ seat[a.slot] \in here \cup {Nobody} \/ \E b \in alarms' : b.slot = a.slot
          /\ UNCHANGED seat
       \/ seat[a.slot] \notin here \cup {Nobody} /\ seat' = Free({a.slot})
    /\ UNCHANGED here

Reopen == here' = {} /\ alarms' = {} /\ seat' = Free(Seats)

SeatNext ==
    \/ \E S \in SUBSET Seats : Clear(S)
    \/ \E p \in Occupants : Arrive(p) \/ Drop(p)
    \/ \E s \in Seats, p \in Occupants : Give(s, p)
    \/ \E a \in alarms : Ring(a)
    \/ Reopen
    \/ \E P \in SUBSET Occupants : Evict(P)

SeatSpec == Empty /\ [][SeatNext]_seatVars

\* What the rules come to: nobody has two seats, and the seat of somebody away is
\* on its way to be free.
OneSeatEach ==
    \A s, t \in Seats : seat[s] = seat[t] /\ seat[s] # Nobody => s = t
AwayHasAlarm ==
    \A s \in Seats : seat[s] \in here \cup {Nobody} \/ \E a \in alarms : a.slot = s
===============================================================================
