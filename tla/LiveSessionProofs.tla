-------------------------- MODULE LiveSessionProofs --------------------------
(***************************************************************************)
(* Theorems about the live session, for every number of guests, streams    *)
(* and slots.                                                               *)
(***************************************************************************)
EXTENDS LiveSession, TLAPS

(* What the holder of the lock relies on. *)

\* The guest that is being let in was admissible, and only the reaper has moved since.
JoinAdmitted ==
    Holding("join") => \A g \in binds.passes : session \in {None, StreamOf[g]}

\* While a stream goes live nothing else does.
GoingLive ==
    Holding("evict") \/ Holding("rollback") \/ Holding("resume") => session \in {None, binds.arg}

StreamInv == TypeOK /\ JoinAdmitted /\ GoingLive /\ OnlyLiveStream

(* The bindings, as long as the reaper keeps out of it. *)

\* Nobody ends a session behind the holder's back.
HolderSession ==
    /\ reaper = "idle"
    /\ Holding("evict") \/ Holding("rollback") \/ Holding("resume") => session = binds.arg
    /\ Holding("route") => \A g \in binds.passes : session = StreamOf[g]
    /\ Holding("terminate") \/ Holding("deregister") => session = None

\* A room that drains is deregistered by the handler that drains it.
RoomOfHolder ==
    /\ room = "absent" => present = {} /\ occ = NobodyOn
    /\ room = "draining" => Holding("deregister")
    /\ Holding("deregister") => "handler" \in closers

\* Without a session, and until the stragglers of the new one are out, nobody is
\* on a slot.
EmptyUntilLive ==
    (session = None \/ Holding("evict") \/ Holding("rollback"))
        /\ ~Holding("terminate") /\ ~Holding("deregister")
    => occ = NobodyOn

\* One guest of a stream per slot.
OneRowPerSlot ==
    \A g, h \in Guests :
        slotOf[g] # None /\ slotOf[g] = slotOf[h] /\ StreamOf[g] = StreamOf[h] => g = h

\* The rows that the commands still to be posted are about.
TaskMatchesRows ==
    /\ Holding("route") => \A g \in binds.passes : slotOf[g] = binds.arg
    /\ Holding("vacate") => \A g \in binds.passes :
           slotOf[g] = None \/ status[g] # "joinable" \/ g \in left
    /\ Holding("resume") => \A g \in binds.passes :
           slotOf[g] # None /\ StreamOf[g] = session

\* Whoever is on a slot, connected or not, is bound to it and of the live stream,
\* but for what the holder is about to undo.
OccupantsBound ==
    session # None => \A g \in Guests, s \in CamSlots : occ[s] = g =>
        /\ StreamOf[g] = session
        /\ \/ slotOf[g] = s
           \/ Holding("vacate") /\ g \in binds.passes
           \/ Holding("route") /\ (g \in binds.passes \/ s = binds.arg)

\* Who is bound and connected is on its slot, but for what the holder is about to do.
BoundOccupy ==
    session # None /\ room = "open" /\ ~Holding("evict") /\ ~Holding("rollback") =>
        \A g \in present \cap Guests :
            slotOf[g] # None /\ status[g] = "joinable" /\ g \notin left =>
                \/ occ[slotOf[g]] = g
                \/ (Holding("route") \/ Holding("replay") \/ Holding("resume"))
                       /\ g \in binds.passes

BindingInv ==
    /\ StreamInv
    /\ HolderSession /\ RoomOfHolder /\ EmptyUntilLive
    /\ OneRowPerSlot /\ TaskMatchesRows /\ OccupantsBound /\ BoundOccupy

-----------------------------------------------------------------------------
(* Types *)

\* The tasks that the handlers take on, and what a task says of its fields.
LEMMA TaskTypes ==
    /\ Free \in Tasks
    /\ \A g \in Guests : /\ Held("join", {g}, None) \in Tasks
                         /\ Held("replay", {g}, None) \in Tasks
                         /\ Held("vacate", {g}, None) \in Tasks
                         /\ \A c \in CamSlots : Held("route", {g}, c) \in Tasks
    /\ \A S \in Streams : /\ Held("evict", {}, S) \in Tasks
                          /\ Held("rollback", {}, S) \in Tasks
                          /\ \A G \in SUBSET Guests : Held("resume", G, S) \in Tasks
    /\ Held("terminate", {}, None) \in Tasks
    /\ Held("deregister", {}, None) \in Tasks
<1>1. \A g \in Guests : {g} \in Single
  BY DEF Single
<1> QED BY <1>1 DEF Tasks, Held

LEMMA TaskFields ==
    ASSUME NEW t \in Tasks
    PROVE  /\ t.passes \subseteq Guests
           /\ t.op \in {"evict", "rollback", "resume"} => t.arg \in Streams
           /\ t.op = "route" => t.arg \in CamSlots
           /\ t.op \in {"join", "replay", "vacate", "route"} =>
                  \E g \in Guests : t.passes = {g}
           /\ t.op \in {"evict", "rollback", "terminate", "deregister"} => t.passes = {}
           /\ t.op = "resume" => t = [op |-> "resume", passes |-> t.passes, arg |-> t.arg]
           /\ t.op \in {"free", "join", "replay", "vacate", "route", "evict", "rollback",
                        "resume", "terminate", "deregister"}
<1>1. \A P \in Single : \E g \in Guests : P = {g}
  BY DEF Single
<1> QED BY <1>1 DEF Tasks, Free

\* The slots after a command are the slots of a room.
LEMMA OccTypes ==
    ASSUME TypeOK
    PROVE  /\ NobodyOn \in [CamSlots -> Guests \cup {None}]
           /\ \A S : FreedOf(S) \in [CamSlots -> Guests \cup {None}]
           /\ \A g \in Guests, c \in CamSlots \cup {None} :
                  /\ BoundTo(c, g) \in [CamSlots -> Guests \cup {None}]
                  /\ Resumed(c, g) \in [CamSlots -> Guests \cup {None}]
                  /\ Rerouted(c, g) \in [CamSlots -> Guests \cup {None}]
BY DEF TypeOK, NobodyOn, FreedOf, BoundTo, Resumed, Rerouted

\* Every step keeps the types.
LEMMA TypeStep ==
    ASSUME TypeOK, [Next]_vars
    PROVE  TypeOK'
<1> USE LiveAssumption, TaskTypes, OccTypes
<1> USE DEF Participants, dbVars, roomVars, historyVars
<1>1. CASE Connecting
  <2>1. ASSUME NEW p \in Participants, Dial(p) PROVE TypeOK'
    BY <2>1 DEF Dial, TypeOK
  <2>2. ASSUME NEW p \in Participants, Leave(p) PROVE TypeOK'
    BY <2>2 DEF Leave, TypeOK
  <2>3. CASE HostJoins
    BY <2>3 DEF HostJoins, TypeOK
  <2>4. ASSUME NEW g \in Guests, LockJoin(g) PROVE TypeOK'
    <3>1. CASE Admissible(g)
      <4>1. binds' = Held("join", {g}, None) /\ dialing' = dialing
        BY <2>4, <3>1 DEF LockJoin
      <4>2. binds' \in Tasks
        BY <4>1
      <4> QED BY <2>4, <4>1, <4>2 DEF LockJoin, TypeOK
    <3>2. CASE ~Admissible(g)
      BY <2>4, <3>2 DEF LockJoin, TypeOK
    <3> QED BY <3>1, <3>2
  <2>5. ASSUME NEW c \in CamSlots, GraceExpires(c) PROVE TypeOK'
    BY <2>5 DEF GraceExpires, TypeOK
  <2> QED BY <1>1, <2>1, <2>2, <2>3, <2>4, <2>5 DEF Connecting
<1>2. CASE Invites
  <2>1. ASSUME NEW g \in Guests, Expire(g) PROVE TypeOK'
    BY <2>1 DEF Expire, TypeOK
  <2>2. ASSUME NEW g \in Guests, RevokeInvite(g) PROVE TypeOK'
    BY <2>2 DEF RevokeInvite, TypeOK
  <2>3. ASSUME NEW g \in Guests, ReissueInvite(g) PROVE TypeOK'
    BY <2>3 DEF ReissueInvite, TypeOK
  <2>4. ASSUME NEW g \in Guests, PassLeave(g) PROVE TypeOK'
    BY <2>4 DEF PassLeave, TypeOK
  <2>5. ASSUME NEW a \in Participants, NEW g \in Guests, Kick(a, g) PROVE TypeOK'
    BY <2>5 DEF Kick, TypeOK
  <2>6. ASSUME NEW g \in Guests, NEW c \in CamSlots \cup {None}, PutPassSlot(g, c)
        PROVE  TypeOK'
    <3>1. slotOf' \in [Guests -> CamSlots \cup {None}]
      BY <2>6 DEF PutPassSlot, Assigned, TypeOK
    <3>2. binds' \in Tasks
      BY <2>6 DEF PutPassSlot, Assigned
    <3> QED BY <2>6, <3>1, <3>2 DEF PutPassSlot, Assigned, TypeOK
  <2> QED BY <1>2, <2>1, <2>2, <2>3, <2>4, <2>5, <2>6 DEF Invites
<1>3. CASE Sessions
  <2>1. ASSUME NEW S \in Streams, GoLive(S) PROVE TypeOK'
    BY <2>1 DEF GoLive, TypeOK
  <2>2. ASSUME NEW S \in Streams, EndSession(S) PROVE TypeOK'
    BY <2>2 DEF EndSession, TypeOK
  <2> QED BY <1>3, <2>1, <2>2 DEF Sessions
<1>4. CASE ForceEndLive
  BY <1>4 DEF ForceEndLive, TypeOK
<1>5. CASE HolderStep
  <2>0. binds \in Tasks
    BY DEF TypeOK
  <2>1. ASSUME NEW g \in Guests, JoinRoom(g) PROVE TypeOK'
    <3>1. binds' \in Tasks
      BY <2>1 DEF JoinRoom
    <3>2. /\ present' \subseteq Participants /\ dialing' \subseteq Participants
          /\ left' \subseteq Guests
      BY <2>1 DEF JoinRoom, TypeOK
    <3> QED BY <2>1, <3>1, <3>2 DEF JoinRoom, TypeOK
  <2>2. ASSUME NEW g \in Guests, Replay(g) PROVE TypeOK'
    BY <2>2 DEF Replay, TypeOK
  <2>3. ASSUME NEW g \in Guests, Route(g) PROVE TypeOK'
    <3>1. binds.arg \in CamSlots
      BY <2>0, <2>3, TaskFields DEF Route, Holding
    <3> QED BY <2>3, <3>1 DEF Route, TypeOK
  <2>4. ASSUME NEW g \in Guests, ResumeBinding(g) PROVE TypeOK'
    <3>1. binds.arg \in Streams /\ binds.passes \subseteq Guests
      BY <2>0, <2>4, TaskFields DEF ResumeBinding, Holding
    <3>2. binds' \in Tasks
      BY <2>4, <3>1 DEF ResumeBinding
    <3> QED BY <2>4, <3>2 DEF ResumeBinding, TypeOK
  <2>5. CASE Vacate
    BY <2>5 DEF Vacate, TypeOK
  <2>6. CASE EvictStragglers
    <3>1. binds.arg \in Streams
      BY <2>0, <2>6, TaskFields DEF EvictStragglers, Holding
    <3>2. binds' \in Tasks
      BY <2>6, <3>1 DEF EvictStragglers, BoundPasses
    <3> QED BY <2>6, <3>2 DEF EvictStragglers, TypeOK
  <2>7. CASE Rollback
    BY <2>7 DEF Rollback, TypeOK
  <2>8. CASE WentLive
    BY <2>8 DEF WentLive, TypeOK
  <2>9. CASE Terminate
    BY <2>9 DEF Terminate, Drained, TypeOK
  <2>10. CASE Deregister
    BY <2>10 DEF Deregister, Deregistered, TypeOK
  <2> QED BY <1>5, <2>1, <2>2, <2>3, <2>4, <2>5, <2>6, <2>7, <2>8, <2>9, <2>10 DEF HolderStep
<1>6. CASE Reaper
  BY <1>6 DEF Reaper, ReapPick, ReapTerminate, ReapEnd, ReapClose, Drained, Deregistered, TypeOK
<1>7. CASE Restart
  BY <1>7 DEF Restart, TypeOK
<1>8. CASE UNCHANGED vars
  BY <1>8 DEF vars, TypeOK
<1> QED BY <1>1, <1>2, <1>3, <1>4, <1>5, <1>6, <1>7, <1>8 DEF Next

LEMMA InitTypes == Init => TypeOK
BY LiveAssumption, TaskTypes DEF Init, TypeOK, NobodyOn, Participants

\* Whatever the handlers, the guests and the reaper do, and whenever the process
\* restarts, the rows, the room and the lock hold values of their kind.
THEOREM TypeCorrect == Spec => []TypeOK
<1> QED BY InitTypes, TypeStep, PTL DEF Spec

-----------------------------------------------------------------------------
(* Only the live stream's guests are in the room *)

\* A guest is let in under the lock for the session of that moment, and the session
\* becomes another one only under the lock.
LEMMA StreamStep ==
    ASSUME StreamInv, [Next]_vars
    PROVE  StreamInv'
<1> DEFINE Good == JoinAdmitted /\ GoingLive /\ OnlyLiveStream
<1> SUFFICES Good'
  BY TypeStep DEF StreamInv
<1> USE LiveAssumption
<1> USE DEF Participants, dbVars, roomVars, historyVars
<1>1. ASSUME binds' = binds, session' \in {session, None}, present' \cap Guests \subseteq present
      PROVE  Good'
  BY <1>1 DEF StreamInv, JoinAdmitted, GoingLive, OnlyLiveStream, Holding
<1>2. ASSUME ~Holding("evict"), ~Holding("rollback"), session' \in {session, None},
             present' \cap Guests \subseteq present,
             binds'.op \in {"free", "replay", "vacate", "route", "terminate", "deregister"}
      PROVE  Good'
  BY <1>2 DEF StreamInv, JoinAdmitted, GoingLive, OnlyLiveStream, Holding
<1>3. CASE Connecting
  <2>1. ASSUME NEW g \in Guests, LockJoin(g) PROVE Good'
    <3>1. CASE Admissible(g)
      <4>1. /\ binds' = Held("join", {g}, None) /\ session \in {None, StreamOf[g]}
            /\ ~Holding("evict") /\ ~Holding("rollback")
        BY <2>1, <3>1 DEF LockJoin, Admissible, BindsFree, Free, Holding
      <4>2. UNCHANGED <<session, present>>
        BY <2>1 DEF LockJoin
      <4> QED BY <4>1, <4>2
               DEF StreamInv, JoinAdmitted, GoingLive, OnlyLiveStream, Holding, Held
    <3>2. CASE ~Admissible(g)
      BY <1>1, <2>1, <3>2 DEF LockJoin
    <3> QED BY <3>1, <3>2
  <2>2. CASE \E p \in Participants : Dial(p) \/ Leave(p)
    BY <1>1, <2>2 DEF Dial, Leave
  <2>3. CASE HostJoins
    BY <1>1, <2>3 DEF HostJoins
  <2>4. CASE \E c \in CamSlots : GraceExpires(c)
    BY <1>1, <2>4 DEF GraceExpires
  <2> QED BY <1>3, <2>1, <2>2, <2>3, <2>4 DEF Connecting
<1>4. CASE Invites
  <2>1. CASE \E a \in Participants, g \in Guests : Kick(a, g)
    BY <1>1, <2>1 DEF Kick
  <2>2. CASE \E g \in Guests : Expire(g)
    BY <1>1, <2>2 DEF Expire
  <2>3. CASE \E g \in Guests : RevokeInvite(g) \/ ReissueInvite(g) \/ PassLeave(g)
    BY <1>2, <2>3
    DEF RevokeInvite, ReissueInvite, PassLeave, BindsFree, Free, Held, Holding
  <2>4. CASE \E g \in Guests, c \in CamSlots \cup {None} : PutPassSlot(g, c)
    BY <1>2, <2>4 DEF PutPassSlot, Assigned, BindsFree, Free, Held, Holding
  <2> QED BY <1>4, <2>1, <2>2, <2>3, <2>4 DEF Invites
<1>5. CASE Sessions
  <2>1. ASSUME NEW S \in Streams, GoLive(S) PROVE Good'
    BY <2>1 DEF GoLive, JoinAdmitted, GoingLive, OnlyLiveStream, Holding, Held
  <2>2. ASSUME NEW S \in Streams, EndSession(S) PROVE Good'
    BY <1>2, <2>2 DEF EndSession, BindsFree, Free, Held, Holding
  <2> QED BY <1>5, <2>1, <2>2 DEF Sessions
<1>6. CASE ForceEndLive
  BY <1>2, <1>6 DEF ForceEndLive, BindsFree, Free, Held, Holding
<1>7. CASE HolderStep
  <2>1. ASSUME NEW g \in Guests, JoinRoom(g) PROVE Good'
    <3>1. CASE g \in dialing /\ room = "open"
      <4>1. /\ session \in {None, StreamOf[g]} /\ ~Holding("evict") /\ ~Holding("rollback")
        BY <2>1 DEF JoinRoom, StreamInv, JoinAdmitted, Holding
      <4>2. /\ present' = present \cup {g} /\ session' = session
            /\ binds' = Held("replay", {g}, None)
        BY <2>1, <3>1 DEF JoinRoom
      <4> QED BY <4>1, <4>2
               DEF StreamInv, JoinAdmitted, GoingLive, OnlyLiveStream, Holding, Held
    <3>2. CASE ~(g \in dialing /\ room = "open")
      BY <1>2, <2>1, <3>2 DEF JoinRoom, Free, Holding
    <3> QED BY <3>1, <3>2
  <2>2. CASE \E g \in Guests : Replay(g) \/ Route(g)
    BY <1>2, <2>2 DEF Replay, Route, Free, Holding
  <2>3. ASSUME NEW g \in Guests, ResumeBinding(g) PROVE Good'
    BY <2>3 DEF ResumeBinding, StreamInv, JoinAdmitted, GoingLive, OnlyLiveStream, Held, Holding
  <2>4. CASE Vacate \/ WentLive
    BY <1>2, <2>4 DEF Vacate, WentLive, Free, Holding
  <2>5. CASE EvictStragglers
    <3>1. session' = session /\ session \in {None, binds.arg}
      BY <2>5 DEF EvictStragglers, StreamInv, GoingLive
    <3>2. CASE binds' = Held("rollback", {}, binds.arg)
      BY <3>1, <3>2 DEF JoinAdmitted, GoingLive, OnlyLiveStream, Held, Holding
    <3>3. CASE /\ present' = present \ Stragglers(binds.arg)
               /\ binds' \in {Held("resume", BoundPasses(binds.arg), binds.arg), Free}
      <4>1. \A g \in present' \cap Guests : StreamOf[g] = binds.arg
        BY <3>3 DEF Stragglers, OtherStreamPasses, Retired
      <4> QED BY <3>1, <3>3, <4>1
               DEF JoinAdmitted, GoingLive, OnlyLiveStream, Held, Free, Holding
    <3> QED BY <2>5, <3>2, <3>3 DEF EvictStragglers
  <2>6. CASE Rollback
    BY <2>6 DEF Rollback, StreamInv, JoinAdmitted, GoingLive, OnlyLiveStream, Free, Holding
  <2>7. CASE Terminate
    BY <1>2, <2>7 DEF Terminate, Drained, Free, Held, Holding
  <2>8. CASE Deregister
    BY <1>2, <2>8 DEF Deregister, Deregistered, Free, Holding
  <2> QED BY <1>7, <2>1, <2>2, <2>3, <2>4, <2>5, <2>6, <2>7, <2>8 DEF HolderStep
<1>8. CASE Reaper
  BY <1>1, <1>8 DEF Reaper, ReapPick, ReapTerminate, ReapEnd, ReapClose, Drained, Deregistered
<1>9. CASE Restart
  BY <1>9 DEF Restart, JoinAdmitted, GoingLive, OnlyLiveStream, Free, Holding
<1>10. CASE UNCHANGED vars
  BY <1>1, <1>10 DEF vars
<1> QED BY <1>3, <1>4, <1>5, <1>6, <1>7, <1>8, <1>9, <1>10 DEF Next

\* Once goLive is through with a stream, whatever interleaves with it, only guests
\* of that stream are in the room, unless a rollback failed.
THEOREM OnlyLiveStreamCorrect == Spec => []OnlyLiveStream
<1>1. Init => StreamInv
  BY InitTypes DEF Init, StreamInv, JoinAdmitted, GoingLive, OnlyLiveStream, Free, Holding
<1>2. StreamInv => OnlyLiveStream
  BY DEF StreamInv
<1> QED BY <1>1, <1>2, StreamStep, PTL DEF Spec

-----------------------------------------------------------------------------
(* The live slots are the persisted ones *)

LEMMA HandlersAreSteps == [HandlersNext]_vars => [Next]_vars
BY DEF HandlersNext, Next

\* Without the reaper a session is the holder's, and a room without one is empty.
LEMMA RoomStep ==
    ASSUME BindingInv, [HandlersNext]_vars, "rollback" \notin Fails
    PROVE  (HolderSession /\ RoomOfHolder /\ EmptyUntilLive)'
<1> DEFINE Good == HolderSession /\ RoomOfHolder /\ EmptyUntilLive
<1> USE LiveAssumption DEF HolderSession, RoomOfHolder, EmptyUntilLive
<1> USE DEF Participants, dbVars, roomVars, historyVars, Holding
<1>0. /\ Good /\ TypeOK
      /\ \A S : occ = NobodyOn => FreedOf(S) = NobodyOn
  BY DEF BindingInv, StreamInv, FreedOf, NobodyOn
<1>1. CASE Connecting
  <2>1. CASE \E p \in Participants : Dial(p) \/ Leave(p)
    BY <1>0, <2>1 DEF Dial, Leave
  <2>2. CASE HostJoins
    BY <1>0, <2>2 DEF HostJoins
  <2>3. ASSUME NEW g \in Guests, LockJoin(g) PROVE Good'
    <3>1. CASE Admissible(g)
      BY <1>0, <2>3, <3>1 DEF LockJoin, BindsFree, Free, Held
    <3>2. CASE ~Admissible(g)
      BY <1>0, <2>3, <3>2 DEF LockJoin
    <3> QED BY <3>1, <3>2
  <2>4. ASSUME NEW c \in CamSlots, GraceExpires(c) PROVE Good'
    <3>1. occ[c] # None => occ # NobodyOn
      BY DEF NobodyOn
    <3>2. occ # NobodyOn /\ UNCHANGED <<session, room, present, binds, reaper, closers>>
      BY <2>4, <3>1 DEF GraceExpires
    <3> QED BY <1>0, <3>2
  <2> QED BY <1>1, <2>1, <2>2, <2>3, <2>4 DEF Connecting
<1>2. CASE Invites
  <2>1. CASE \E g \in Guests : Expire(g) \/ RevokeInvite(g) \/ ReissueInvite(g) \/ PassLeave(g)
    BY <1>0, <2>1 DEF Expire, RevokeInvite, ReissueInvite, PassLeave, BindsFree, Free, Held
  <2>2. CASE \E a \in Participants, g \in Guests : Kick(a, g)
    BY <1>0, <2>2 DEF Kick
  <2>3. CASE \E g \in Guests, c \in CamSlots \cup {None} : PutPassSlot(g, c)
    BY <1>0, <2>3 DEF PutPassSlot, Assigned, BindsFree, Free, Held
  <2> QED BY <1>2, <2>1, <2>2, <2>3 DEF Invites
<1>3. CASE Sessions
  BY <1>0, <1>3 DEF Sessions, GoLive, EndSession, BindsFree, Free, Held
<1>4. CASE ForceEndLive
  BY <1>0, <1>4 DEF ForceEndLive, BindsFree, Free, Held
<1>5. CASE HolderStep
  <2>1. ASSUME NEW g \in Guests, JoinRoom(g) PROVE Good'
    BY <1>0, <2>1 DEF JoinRoom, Free, Held
  <2>2. ASSUME NEW g \in Guests, Replay(g) PROVE Good'
    BY <1>0, <2>2 DEF Replay, Free, Resumed
  <2>3. ASSUME NEW g \in Guests, Route(g) PROVE Good'
    <3>1. session = StreamOf[g] /\ session # None
      BY <1>0, <2>3 DEF Route
    <3>2. room = "absent" => Rerouted(binds.arg, g) = NobodyOn
      BY <1>0 DEF Rerouted, NobodyOn
    <3> QED BY <1>0, <2>3, <3>1, <3>2 DEF Route, Free
  <2>4. ASSUME NEW g \in Guests, ResumeBinding(g) PROVE Good'
    <3>1. session = binds.arg /\ binds.arg \in Streams
      BY <1>0, <2>4, TaskFields DEF ResumeBinding, TypeOK
    <3>2. room = "absent" => Resumed(slotOf[g], g) = NobodyOn
      BY <1>0 DEF Resumed
    <3> QED BY <1>0, <2>4, <3>1, <3>2 DEF ResumeBinding, Held
  <2>5. CASE Vacate
    BY <1>0, <2>5 DEF Vacate, Free
  <2>6. CASE EvictStragglers
    BY <1>0, <2>6 DEF EvictStragglers, Held, Free
  <2>7. CASE Rollback
    BY <1>0, <2>7 DEF Rollback, Free
  <2>8. CASE WentLive
    BY <1>0, <2>8 DEF WentLive, Free
  <2>9. CASE Terminate
    BY <1>0, <2>9 DEF Terminate, Drained, Held, Free
  <2>10. CASE Deregister
    BY <1>0, <2>10 DEF Deregister, Deregistered, Free
  <2> QED BY <1>5, <2>1, <2>2, <2>3, <2>4, <2>5, <2>6, <2>7, <2>8, <2>9, <2>10 DEF HolderStep
<1>6. CASE Restart
  BY <1>6 DEF Restart, Free
<1>7. CASE UNCHANGED vars
  BY <1>0, <1>7 DEF vars
<1> QED BY <1>1, <1>2, <1>3, <1>4, <1>5, <1>6, <1>7 DEF HandlersNext

\* The rows give a slot of a stream to one guest, and a command is about the row of
\* its guest as it is.
LEMMA RowStep ==
    ASSUME BindingInv, [HandlersNext]_vars
    PROVE  (OneRowPerSlot /\ TaskMatchesRows)'
<1> DEFINE Good == OneRowPerSlot /\ TaskMatchesRows
<1> USE LiveAssumption DEF Participants, dbVars, roomVars, historyVars, Holding
<1>0. Good /\ TypeOK /\ HolderSession
  BY DEF BindingInv, StreamInv
<1>1. ASSUME UNCHANGED <<session, slotOf, status, left>>,
             binds' = binds \/ binds'.op \notin {"route", "vacate", "resume"}
      PROVE  Good'
  BY <1>0, <1>1 DEF OneRowPerSlot, TaskMatchesRows
<1>2. ASSUME UNCHANGED slotOf, binds'.op \notin {"route", "vacate", "resume"}
      PROVE  Good'
  BY <1>0, <1>2 DEF OneRowPerSlot, TaskMatchesRows
<1>3. CASE Connecting
  <2>1. ASSUME NEW g \in Guests, LockJoin(g) PROVE Good'
    <3>1. CASE Admissible(g)
      BY <1>1, <2>1, <3>1 DEF LockJoin, Held
    <3>2. CASE ~Admissible(g)
      BY <1>1, <2>1, <3>2 DEF LockJoin
    <3> QED BY <3>1, <3>2
  <2> QED BY <1>1, <1>3, <2>1 DEF Connecting, Dial, Leave, HostJoins, GraceExpires
<1>4. CASE Invites
  <2>1. ASSUME NEW g \in Guests, Expire(g) PROVE Good'
    BY <1>0, <2>1 DEF Expire, TypeOK, OneRowPerSlot, TaskMatchesRows
  <2>2. ASSUME NEW g \in Guests, RevokeInvite(g) PROVE Good'
    BY <1>0, <2>2 DEF RevokeInvite, Held, TypeOK, OneRowPerSlot, TaskMatchesRows
  <2>3. ASSUME NEW g \in Guests, ReissueInvite(g) PROVE Good'
    BY <1>0, <2>3 DEF ReissueInvite, Held, TypeOK, OneRowPerSlot, TaskMatchesRows
  <2>4. ASSUME NEW g \in Guests, PassLeave(g) PROVE Good'
    BY <1>0, <2>4 DEF PassLeave, Held, TypeOK, OneRowPerSlot, TaskMatchesRows
  <2>5. ASSUME NEW a \in Participants, NEW g \in Guests, Kick(a, g) PROVE Good'
    <3>1. \A h \in Guests : status[h] # "joinable" => status'[h] # "joinable"
      BY <1>0, <2>5 DEF Kick, TypeOK
    <3>2. UNCHANGED <<session, slotOf, binds, left>>
      BY <2>5 DEF Kick
    <3>3. OneRowPerSlot'
      BY <1>0, <3>2 DEF OneRowPerSlot
    <3>4. Holding("vacate") => binds.passes \subseteq Guests
      BY <1>0, TaskFields DEF TypeOK
    <3> QED BY <1>0, <3>1, <3>2, <3>3, <3>4 DEF TaskMatchesRows
  <2>6. ASSUME NEW g \in Guests, NEW c \in CamSlots \cup {None}, PutPassSlot(g, c)
        PROVE  Good'
    <3>1. OneRowPerSlot'
      BY <1>0, <2>6 DEF PutPassSlot, Assigned, OneRowPerSlot
    <3>2. TaskMatchesRows'
      BY <2>6 DEF PutPassSlot, Assigned, TaskMatchesRows, Held, Free
    <3> QED BY <3>1, <3>2
  <2> QED BY <1>4, <2>1, <2>2, <2>3, <2>4, <2>5, <2>6 DEF Invites
<1>5. CASE Sessions
  BY <1>2, <1>5 DEF Sessions, GoLive, EndSession, Held
<1>6. CASE ForceEndLive
  BY <1>2, <1>6 DEF ForceEndLive, Held
<1>7. CASE HolderStep
  <2>1. ASSUME NEW g \in Guests, JoinRoom(g) \/ Replay(g) \/ Route(g) PROVE Good'
    BY <1>2, <2>1 DEF JoinRoom, Replay, Route, Held, Free
  <2>2. ASSUME NEW g \in Guests, ResumeBinding(g) PROVE Good'
    BY <1>0, <2>2 DEF ResumeBinding, Held, OneRowPerSlot, TaskMatchesRows
  <2>3. CASE EvictStragglers
    <3>1. \A g \in BoundPasses(binds.arg) : slotOf[g] # None /\ StreamOf[g] = session
      BY <1>0, <2>3 DEF EvictStragglers, BoundPasses, HolderSession
    <3>2. UNCHANGED <<session, slotOf>>
      BY <2>3 DEF EvictStragglers
    <3>3. CASE binds' = Held("resume", BoundPasses(binds.arg), binds.arg)
      BY <1>0, <3>1, <3>2, <3>3 DEF Held, OneRowPerSlot, TaskMatchesRows
    <3>4. CASE binds' \in {Free, Held("rollback", {}, binds.arg)}
      BY <1>2, <3>2, <3>4 DEF Free, Held
    <3> QED BY <2>3, <3>3, <3>4 DEF EvictStragglers
  <2>4. CASE Vacate \/ Rollback \/ WentLive
    BY <1>2, <2>4 DEF Vacate, Rollback, WentLive, Free
  <2>5. CASE Terminate \/ Deregister
    BY <1>2, <2>5 DEF Terminate, Deregister, Free, Held
  <2> QED BY <1>7, <2>1, <2>2, <2>3, <2>4, <2>5 DEF HolderStep
<1>8. CASE Restart
  BY <1>2, <1>8 DEF Restart, Free
<1>9. CASE UNCHANGED vars
  BY <1>1, <1>9 DEF vars
<1> QED BY <1>3, <1>4, <1>5, <1>6, <1>7, <1>8, <1>9 DEF HandlersNext

\* Whoever is on a slot has its row, also while nobody is connected.
LEMMA OccupantStep ==
    ASSUME BindingInv, [HandlersNext]_vars, "rollback" \notin Fails
    PROVE  OccupantsBound'
<1> USE LiveAssumption DEF Participants, dbVars, roomVars, historyVars, Holding
<1>0. /\ OccupantsBound /\ TypeOK /\ HolderSession /\ TaskMatchesRows /\ EmptyUntilLive
      /\ \A c \in CamSlots, g \in Guests : NobodyOn[c] # g
  BY DEF BindingInv, StreamInv, NobodyOn
<1>1. ASSUME UNCHANGED <<session, slotOf>>, \A c \in CamSlots : occ'[c] \in {occ[c], None},
             binds' = binds \/ binds.op \notin {"vacate", "route"}
      PROVE  OccupantsBound'
  BY <1>0, <1>1 DEF OccupantsBound
<1>2. ASSUME session' = None \/ occ' = NobodyOn
      PROVE  OccupantsBound'
  BY <1>0, <1>2 DEF OccupantsBound
<1>3. CASE Connecting
  <2>1. ASSUME NEW g \in Guests, LockJoin(g) PROVE OccupantsBound'
    BY <1>1, <2>1 DEF LockJoin, BindsFree, Free
  <2>2. ASSUME NEW c \in CamSlots, GraceExpires(c) PROVE OccupantsBound'
    BY <1>0, <1>1, <2>2 DEF GraceExpires, TypeOK
  <2> QED BY <1>1, <1>3, <2>1, <2>2 DEF Connecting, Dial, Leave, HostJoins
<1>4. CASE Invites
  <2>1. ASSUME NEW g \in Guests, Expire(g) \/ RevokeInvite(g) \/ PassLeave(g)
        PROVE  OccupantsBound'
    BY <1>1, <2>1 DEF Expire, RevokeInvite, PassLeave, BindsFree, Free
  <2>2. ASSUME NEW g \in Guests, ReissueInvite(g) PROVE OccupantsBound'
    BY <1>0, <2>2
    DEF ReissueInvite, BindsFree, Free, Held, TypeOK, OccupantsBound
  <2>3. ASSUME NEW a \in Participants, NEW g \in Guests, Kick(a, g) PROVE OccupantsBound'
    BY <1>1, <2>3 DEF Kick, FreedOf
  <2>4. ASSUME NEW g \in Guests, NEW c \in CamSlots \cup {None}, PutPassSlot(g, c)
        PROVE  OccupantsBound'
    <3>1. UNCHANGED <<session, occ>> /\ binds = Free
      BY <2>4 DEF PutPassSlot, Assigned, BindsFree
    <3>2. ASSUME session # None, NEW h \in Guests, NEW k \in CamSlots, occ[k] = h
          PROVE  StreamOf[h] = session /\ slotOf[h] = k
      BY <1>0, <3>1, <3>2 DEF OccupantsBound, Free
    <3>3. CASE session # StreamOf[g]
      BY <2>4, <3>1, <3>2, <3>3 DEF PutPassSlot, Assigned, OccupantsBound
    <3>4. CASE session = StreamOf[g] /\ c = None
      BY <2>4, <3>1, <3>2, <3>4 DEF PutPassSlot, Assigned, OccupantsBound, Held
    <3>5. CASE session = StreamOf[g] /\ c # None
      BY <2>4, <3>1, <3>2, <3>5 DEF PutPassSlot, Assigned, OccupantsBound, Held
    <3> QED BY <3>3, <3>4, <3>5
  <2> QED BY <1>4, <2>1, <2>2, <2>3, <2>4 DEF Invites
<1>5. CASE Sessions
  <2>1. ASSUME NEW S \in Streams, GoLive(S) PROVE OccupantsBound'
    <3>1. occ' = NobodyOn
      BY <1>0, <2>1 DEF GoLive, BindsFree, Free, EmptyUntilLive
    <3> QED BY <1>2, <3>1
  <2> QED BY <1>2, <1>5, <2>1 DEF Sessions, EndSession
<1>6. CASE ForceEndLive
  BY <1>2, <1>6 DEF ForceEndLive
<1>7. CASE HolderStep
  <2>1. ASSUME NEW g \in Guests, JoinRoom(g) PROVE OccupantsBound'
    BY <1>1, <2>1 DEF JoinRoom
  <2>2. ASSUME NEW g \in Guests, Replay(g) PROVE OccupantsBound'
    <3>1. CASE slotOf[g] # None /\ session = StreamOf[g]
      BY <1>0, <2>2, <3>1 DEF Replay, Resumed, BoundTo, Free, TypeOK, OccupantsBound
    <3>2. CASE ~(slotOf[g] # None /\ session = StreamOf[g])
      BY <1>1, <2>2, <3>2 DEF Replay, FreedOf
    <3> QED BY <3>1, <3>2
  <2>3. ASSUME NEW g \in Guests, Route(g) PROVE OccupantsBound'
    <3>1. /\ session = StreamOf[g] /\ slotOf[g] = binds.arg
          /\ \A h \in binds.passes : h = g
      BY <1>0, <2>3, TaskFields DEF Route, HolderSession, TaskMatchesRows, TypeOK
    <3> QED BY <1>0, <2>3, <3>1 DEF Route, Rerouted, BoundTo, Free, TypeOK, OccupantsBound
  <2>4. ASSUME NEW g \in Guests, ResumeBinding(g) PROVE OccupantsBound'
    <3>1. slotOf[g] # None /\ StreamOf[g] = session
      BY <1>0, <2>4 DEF ResumeBinding, TaskMatchesRows
    <3> QED BY <1>0, <2>4, <3>1
             DEF ResumeBinding, Resumed, BoundTo, Held, TypeOK, OccupantsBound
  <2>5. CASE Vacate
    BY <1>0, <2>5 DEF Vacate, FreedOf, Free, TypeOK, OccupantsBound
  <2>6. CASE EvictStragglers
    BY <1>1, <2>6 DEF EvictStragglers, FreedOf
  <2>7. CASE Rollback
    BY <1>2, <2>7 DEF Rollback
  <2>8. CASE WentLive
    BY <1>1, <2>8 DEF WentLive
  <2>9. CASE Terminate
    BY <1>1, <2>9 DEF Terminate
  <2>10. CASE Deregister
    BY <1>1, <1>2, <2>10 DEF Deregister, Deregistered
  <2> QED BY <1>7, <2>1, <2>2, <2>3, <2>4, <2>5, <2>6, <2>7, <2>8, <2>9, <2>10 DEF HolderStep
<1>8. CASE Restart
  BY <1>2, <1>8 DEF Restart
<1>9. CASE UNCHANGED vars
  BY <1>1, <1>9 DEF vars
<1> QED BY <1>3, <1>4, <1>5, <1>6, <1>7, <1>8, <1>9 DEF HandlersNext

\* Whoever is bound and connected is on its slot.
LEMMA BoundStep ==
    ASSUME BindingInv, [HandlersNext]_vars, Fails \cap {"replay", "rollback"} = {}
    PROVE  BoundOccupy'
<1> USE LiveAssumption DEF Participants, dbVars, roomVars, historyVars, Holding
<1>0. /\ BoundOccupy /\ OccupantsBound /\ OneRowPerSlot /\ TaskMatchesRows
      /\ TypeOK /\ OnlyLiveStream /\ HolderSession /\ RoomOfHolder
      /\ "replay" \notin Fails /\ "rollback" \notin Fails
  BY DEF BindingInv, StreamInv
<1>1. ASSUME UNCHANGED <<session, room, slotOf>>, present' \cap Guests \subseteq present,
             \A h \in present' \cap Guests :
                 /\ status'[h] = "joinable" => status[h] = "joinable"
                 /\ h \in left => h \in left'
                 /\ \A c \in CamSlots : occ[c] = h => occ'[c] = h,
             binds' = binds
                 \/ binds.op \notin {"evict", "rollback", "route", "replay", "resume"}
      PROVE  BoundOccupy'
  BY <1>0, <1>1 DEF BoundOccupy, TypeOK
<1>2. ASSUME \/ session' = None \/ room' # "open" \/ present' \cap Guests = {}
             \/ binds'.op \in {"evict", "rollback"}
      PROVE  BoundOccupy'
  BY <1>2 DEF BoundOccupy
<1>3. ASSUME session # None, ~Holding("evict"), NEW g \in Guests, slotOf[g] \in CamSlots,
             StreamOf[g] = session, ~Holding("vacate"), ~Holding("route")
      PROVE  occ[slotOf[g]] \in {None, g}
  BY <1>0, <1>3 DEF OccupantsBound, OneRowPerSlot, TypeOK
<1>4. CASE Connecting
  <2>1. ASSUME NEW p \in Participants, Dial(p) PROVE BoundOccupy'
    <3>1. CASE room = "absent"
      BY <1>0, <1>2, <2>1, <3>1 DEF Dial, RoomOfHolder
    <3>2. CASE room # "absent"
      BY <1>1, <2>1, <3>2 DEF Dial
    <3> QED BY <3>1, <3>2
  <2>2. ASSUME NEW c \in CamSlots, GraceExpires(c) PROVE BoundOccupy'
    <3>1. \A h \in present, k \in CamSlots : occ[k] = h => occ'[k] = h
      BY <1>0, <2>2 DEF GraceExpires, TypeOK
    <3> QED BY <1>1, <2>2, <3>1 DEF GraceExpires
  <2>3. ASSUME NEW g \in Guests, LockJoin(g) PROVE BoundOccupy'
    BY <1>1, <2>3 DEF LockJoin, BindsFree, Free
  <2>4. CASE HostJoins
    BY <1>0, <1>1, <2>4 DEF HostJoins
  <2>5. CASE \E p \in Participants : Leave(p)
    BY <1>1, <2>5 DEF Leave
  <2> QED BY <1>4, <2>1, <2>2, <2>3, <2>4, <2>5 DEF Connecting
<1>5. CASE Invites
  <2>1. ASSUME NEW g \in Guests, Expire(g) \/ RevokeInvite(g) PROVE BoundOccupy'
    <3>1. \A h \in Guests : status'[h] = "joinable" => status[h] = "joinable"
      BY <1>0, <2>1 DEF Expire, RevokeInvite, TypeOK
    <3> QED BY <1>1, <2>1, <3>1 DEF Expire, RevokeInvite, BindsFree, Free
  <2>2. ASSUME NEW g \in Guests, PassLeave(g) PROVE BoundOccupy'
    BY <1>1, <2>2 DEF PassLeave, BindsFree, Free
  <2>3. ASSUME NEW g \in Guests, ReissueInvite(g) PROVE BoundOccupy'
    BY <1>0, <2>3 DEF ReissueInvite, BindsFree, Free, Held, TypeOK, BoundOccupy
  <2>4. ASSUME NEW a \in Participants, NEW g \in Guests, Kick(a, g) PROVE BoundOccupy'
    <3>1. \A h \in Guests : status'[h] = "joinable" => status[h] = "joinable"
      BY <1>0, <2>4 DEF Kick, TypeOK
    <3>2. \A h \in present', k \in CamSlots : occ[k] = h => occ'[k] = h
      BY <2>4 DEF Kick, FreedOf
    <3> QED BY <1>1, <2>4, <3>1, <3>2 DEF Kick
  <2>5. ASSUME NEW g \in Guests, NEW c \in CamSlots \cup {None}, PutPassSlot(g, c)
        PROVE  BoundOccupy'
    <3>1. /\ UNCHANGED <<session, status, room, present, occ, left>> /\ binds = Free
          /\ \A h \in Guests : slotOf'[h] =
                 IF h = g THEN c
                 ELSE IF c # None /\ slotOf[h] = c /\ StreamOf[h] = StreamOf[g] THEN None
                 ELSE slotOf[h]
      BY <2>5 DEF PutPassSlot, Assigned, BindsFree
    <3>2. session # None => \A h \in present \cap Guests : StreamOf[h] = session
      BY <1>0, <3>1 DEF OnlyLiveStream, Free
    <3>3. ASSUME NEW h \in present \cap Guests, session # None, room = "open", slotOf[h] # None,
                 status[h] = "joinable", h \notin left
          PROVE  occ[slotOf[h]] = h
      BY <1>0, <3>1, <3>3 DEF BoundOccupy, Free
    <3>4. CASE session # StreamOf[g]
      BY <3>1, <3>2, <3>3, <3>4 DEF BoundOccupy
    <3>5. CASE session = StreamOf[g] /\ c = None
      BY <3>1, <3>3, <3>5 DEF BoundOccupy
    <3>6. CASE session = StreamOf[g] /\ c # None
      <4>1. binds' = Held("route", {g}, c)
        BY <2>5, <3>6 DEF PutPassSlot, Assigned
      <4> QED BY <3>1, <3>3, <3>6, <4>1 DEF BoundOccupy, Held
    <3> QED BY <3>4, <3>5, <3>6
  <2> QED BY <1>5, <2>1, <2>2, <2>3, <2>4, <2>5 DEF Invites
<1>6. CASE Sessions
  BY <1>2, <1>6 DEF Sessions, GoLive, EndSession, Held
<1>7. CASE ForceEndLive
  BY <1>2, <1>7 DEF ForceEndLive
<1>8. CASE HolderStep
  <2>1. ASSUME NEW g \in Guests, JoinRoom(g) PROVE BoundOccupy'
    BY <1>0, <2>1 DEF JoinRoom, Held, Free, BoundOccupy
  <2>2. ASSUME NEW g \in Guests, Holding("replay") \/ Holding("resume"), g \in binds.passes,
               slotOf[g] # None, session = StreamOf[g], occ' = Resumed(slotOf[g], g),
               UNCHANGED <<session, status, slotOf, room, present, left>>,
               \/ binds'.op = "resume" /\ binds.passes \subseteq binds'.passes \cup {g}
               \/ binds.passes \subseteq {g}
        PROVE  BoundOccupy'
    <3>1. session # None /\ slotOf[g] \in CamSlots
      BY <1>0, <2>2 DEF TypeOK
    <3>2. occ[slotOf[g]] \in {None, g}
      BY <1>3, <2>2, <3>1
    <3>3. ASSUME g \in present PROVE occ'[slotOf[g]] = g
      BY <2>2, <3>1, <3>2, <3>3 DEF Resumed, BoundTo
    <3>4. ASSUME NEW h \in Guests, h # g, slotOf[h] \in CamSlots, occ[slotOf[h]] = h
          PROVE  occ'[slotOf[h]] = h
      BY <2>2, <3>2, <3>4 DEF Resumed, BoundTo
    <3> QED BY <1>0, <2>2, <3>3, <3>4 DEF BoundOccupy, TypeOK
  <2>3. ASSUME NEW g \in Guests, Replay(g) PROVE BoundOccupy'
    <3>1. binds.passes \subseteq {g}
      BY <1>0, <2>3, TaskFields DEF Replay, TypeOK
    <3>2. CASE slotOf[g] # None /\ session = StreamOf[g]
      BY <2>2, <2>3, <3>1, <3>2 DEF Replay
    <3>3. CASE ~(slotOf[g] # None /\ session = StreamOf[g])
      <4>1. \A h \in Guests, k \in CamSlots : occ[k] = h /\ h # g => occ'[k] = h
        BY <2>3, <3>3 DEF Replay, FreedOf
      <4>2. session # None /\ g \in present => slotOf[g] = None
        BY <1>0, <2>3, <3>3 DEF Replay, OnlyLiveStream
      <4> QED BY ZenonT(60), <1>0, <2>3, <3>1, <4>1, <4>2 DEF Replay, Free, BoundOccupy, TypeOK
    <3> QED BY <3>2, <3>3
  <2>4. ASSUME NEW g \in Guests, Route(g) PROVE BoundOccupy'
    <3>1. /\ session = StreamOf[g] /\ slotOf[g] = binds.arg /\ binds.arg \in CamSlots
          /\ binds.passes \subseteq {g}
      BY <1>0, <2>4, TaskFields DEF Route, HolderSession, TaskMatchesRows, TypeOK
    <3>2. \A h \in present \cap Guests : StreamOf[h] = session
      BY <1>0, <2>4, <3>1 DEF Route, OnlyLiveStream
    <3>3. \A h \in present \cap Guests : h # g => slotOf[h] # binds.arg
      BY <1>0, <3>1, <3>2 DEF OneRowPerSlot
    <3>4. ASSUME NEW h \in present \cap Guests, h # g, slotOf[h] \in CamSlots,
                 occ[slotOf[h]] = h
          PROVE  occ'[slotOf[h]] = h
      BY <2>4, <3>3, <3>4 DEF Route, Rerouted, BoundTo
    <3>5. g \in present => occ'[slotOf[g]] = g
      BY <2>4, <3>1 DEF Route, Rerouted, BoundTo
    <3> QED BY <1>0, <2>4, <3>1, <3>4, <3>5 DEF Route, Free, BoundOccupy, TypeOK
  <2>5. ASSUME NEW g \in Guests, ResumeBinding(g) PROVE BoundOccupy'
    <3>1. slotOf[g] # None /\ StreamOf[g] = session
      BY <1>0, <2>5 DEF ResumeBinding, TaskMatchesRows
    <3> QED BY <2>2, <2>5, <3>1 DEF ResumeBinding, Held
  <2>6. CASE Vacate
    <3>1. \A h \in Guests, k \in CamSlots : occ[k] = h /\ h \notin binds.passes => occ'[k] = h
      BY <2>6 DEF Vacate, FreedOf
    <3> QED BY <1>0, <2>6, <3>1 DEF Vacate, Free, BoundOccupy, TaskMatchesRows, TypeOK
  <2>7. CASE EvictStragglers
    <3>1. session = binds.arg /\ UNCHANGED <<session, status, slotOf>>
      BY <1>0, <2>7 DEF EvictStragglers, HolderSession
    <3>2. CASE binds' = Held("rollback", {}, binds.arg)
      BY <1>2, <3>2 DEF Held
    <3>3. CASE /\ present' = present \ Stragglers(binds.arg)
               /\ binds' = Held("resume", BoundPasses(binds.arg), binds.arg)
      <4>1. \A h \in present' \cap Guests : slotOf[h] # None => h \in BoundPasses(binds.arg)
        BY <3>3 DEF Stragglers, OtherStreamPasses, Retired, BoundPasses
      <4> QED BY <3>1, <3>3, <4>1 DEF BoundOccupy, Held
    <3> QED BY <1>0, <2>7, <3>2, <3>3 DEF EvictStragglers
  <2>8. CASE Rollback
    BY <1>0, <1>2, <2>8 DEF Rollback
  <2>9. CASE WentLive
    BY <1>0, <2>9 DEF WentLive, BoundOccupy
  <2>10. CASE Terminate \/ Deregister
    BY <1>0, <1>2, <2>10 DEF Terminate, Deregister, HolderSession
  <2> QED BY <1>8, <2>1, <2>3, <2>4, <2>5, <2>6, <2>7, <2>8, <2>9, <2>10 DEF HolderStep
<1>9. CASE Restart
  BY <1>2, <1>9 DEF Restart
<1>10. CASE UNCHANGED vars
  BY <1>1, <1>10 DEF vars
<1> QED BY <1>4, <1>5, <1>6, <1>7, <1>8, <1>9, <1>10 DEF HandlersNext

LEMMA BindingInit == Init => BindingInv
<1> SUFFICES ASSUME Init PROVE BindingInv
  OBVIOUS
<1>1. StreamInv
  BY InitTypes DEF Init, StreamInv, JoinAdmitted, GoingLive, OnlyLiveStream, Free, Holding
<1>2. /\ HolderSession /\ RoomOfHolder /\ EmptyUntilLive
      /\ TaskMatchesRows /\ OccupantsBound /\ BoundOccupy
  BY DEF Init, HolderSession, RoomOfHolder, EmptyUntilLive, TaskMatchesRows, OccupantsBound,
         BoundOccupy, Free, Holding
<1>3. OneRowPerSlot
  BY DEF Init, OneRowPerSlot
<1> QED BY <1>1, <1>2, <1>3 DEF BindingInv

LEMMA BindingImplies == BindingInv => LiveMatchesBindings
<1> SUFFICES ASSUME BindingInv, BindsFree, session # None, room = "open",
                    NEW g \in present \cap Guests, NEW s \in CamSlots
             PROVE  /\ occ[s] = g => slotOf[g] = s
                    /\ slotOf[g] = s /\ status[g] = "joinable" /\ g \notin left => occ[s] = g
  BY DEF LiveMatchesBindings
<1>1. ~Holding("vacate") /\ ~Holding("route") /\ ~Holding("replay") /\ ~Holding("resume")
      /\ ~Holding("evict") /\ ~Holding("rollback")
  BY DEF BindsFree, Free, Holding
<1>2. occ[s] = g => slotOf[g] = s
  BY <1>1 DEF BindingInv, OccupantsBound
<1>3. slotOf[g] = s /\ status[g] = "joinable" /\ g \notin left => occ[s] = g
  BY <1>1, LiveAssumption DEF BindingInv, BoundOccupy
<1> QED BY <1>2, <1>3

\* Between the handlers of a host the live cam slots are the persisted ones, for every
\* interleaving of everybody but the reaper.
THEOREM LiveMatchesBindingsCorrect == HandlersSpec => []LiveMatchesBindings
<1>1. CASE Fails \cap {"replay", "rollback"} = {}
  <2>1. BindingInv /\ [HandlersNext]_vars => BindingInv'
    <3> SUFFICES ASSUME BindingInv, [HandlersNext]_vars PROVE BindingInv'
      OBVIOUS
    <3>1. "rollback" \notin Fails
      BY <1>1
    <3>2. StreamInv'
      BY StreamStep, HandlersAreSteps DEF BindingInv
    <3> QED BY <1>1, <3>1, <3>2, RoomStep, RowStep, OccupantStep, BoundStep DEF BindingInv
  <2> QED BY <2>1, BindingInit, BindingImplies, PTL DEF HandlersSpec
<1>2. CASE Fails \cap {"replay", "rollback"} # {}
  <2>1. LiveMatchesBindings
    BY <1>2 DEF LiveMatchesBindings
  <2> QED BY <2>1, PTL
<1> QED BY <1>1, <1>2
===============================================================================
