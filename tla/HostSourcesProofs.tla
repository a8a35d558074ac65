---------------------------- MODULE HostSourcesProofs ----------------------------
(***************************************************************************)
(* What holds of the host's own camera for any number of tabs, and of the  *)
(* tokens of the OBS source URLs for any number of pages and slots.        *)
(***************************************************************************)
EXTENDS HostCapture, SourceTokens, SequenceTheorems, TLAPS

-----------------------------------------------------------------------------
(* The camera of the host *)

\* A request for the camera that is current belongs to an open page, and so does the
\* camera itself.
OpenPages ==
    \A t \in Tabs : page[t] \in {"over", "gone"} => ~camera[t] /\ ask[t] # "current"

\* The connection in force belongs to a tab that is open, or was not seen to leave.
ConnectionInForce ==
    /\ \A t \in Tabs : conn[t] = "live" => page[t] = "open"
    /\ host # Nobody => conn[host] \in {"live", "lost"}
    /\ host = Nobody => ~hostSlot

\* The last thing a connected tab has said, if the room has not read it yet, is
\* whether its camera is on; if all is read, the slot of the host says so.
LastWord ==
    \A t \in Tabs : conn[t] = "live" /\ host = t =>
       /\ told[t] # << >> => told[t][Len(told[t])] = camera[t]
       /\ told[t] = << >> /\ ~carried => hostSlot = camera[t]

CaptureInv == CaptureTypeOK /\ OpenPages /\ ConnectionInForce /\ LastWord

-----------------------------------------------------------------------------
(* Frames *)

LEMMA TailOfFrames ==
    ASSUME NEW q \in Seq(BOOLEAN), q # << >>
    PROVE  /\ Head(q) \in BOOLEAN /\ Tail(q) \in Seq(BOOLEAN)
           /\ Tail(q) # << >> => Tail(q)[Len(Tail(q))] = q[Len(q)]
           /\ Tail(q) = << >> => Head(q) = q[Len(q)]
<1>1. Len(q) \in Nat \ {0} /\ Head(q) = q[1] /\ Tail(q) \in Seq(BOOLEAN)
  BY HeadTailProperties, EmptySeq
<1>2. Len(Tail(q)) = Len(q) - 1 /\ \A i \in 1..Len(q) - 1 : Tail(q)[i] = q[i + 1]
  BY <1>1, HeadTailProperties
<1>3. Head(q) \in BOOLEAN
  BY <1>1, ElementOfSeq
<1>4. Tail(q) # << >> => Len(Tail(q)) > 0
  BY <1>1, EmptySeq
<1>5. Tail(q) = << >> => Len(q) = 1
  <2> SUFFICES ASSUME Tail(q) = << >> PROVE Len(q) = 1
    OBVIOUS
  <2>1. Len(Tail(q)) = 0
    BY EmptySeq
  <2> QED BY <1>1, <1>2, <2>1
<1> QED BY <1>1, <1>2, <1>3, <1>4, <1>5

LEMMA FramesAdded ==
    ASSUME NEW q \in Seq(BOOLEAN), NEW r \in {<<TRUE>>, <<FALSE, TRUE>>}
    PROVE  q \o r \in Seq(BOOLEAN) /\ q \o r # << >> /\ (q \o r)[Len(q \o r)] = TRUE
<1>1. r \in Seq(BOOLEAN) /\ Len(r) \in {1, 2} /\ r[Len(r)] = TRUE
  <2>1. CASE r = <<TRUE>>
    BY <2>1
  <2>2. CASE r = <<FALSE, TRUE>>
    BY <2>2
  <2> QED BY <2>1, <2>2
<1>2. q \o r \in Seq(BOOLEAN) /\ Len(q \o r) = Len(q) + Len(r)
  BY <1>1, ConcatProperties
<1>3. (q \o r)[Len(q) + Len(r)] = r[Len(r)]
  BY <1>1, ConcatProperties, LenProperties
<1>4. q \o r # << >>
  BY <1>1, <1>2, EmptySeq, LenProperties
<1> QED BY <1>1, <1>2, <1>3, <1>4

-----------------------------------------------------------------------------
(* Types *)

\* The steps of CaptureNext, one by one.
LEMMA CaptureCases ==
    ASSUME [CaptureNext]_captureVars
    PROVE  \/ Offered \/ IceFails \/ PathFails \/ UNCHANGED captureVars
           \/ \E t \in Tabs : \/ OpensTab(t) \/ Joins(t) \/ Drops(t) \/ Displaced(t)
                              \/ SessionEnds(t) \/ GivesUp(t) \/ Unmounts(t) \/ Asks(t)
                              \/ Granted(t) \/ Refused(t) \/ ReadsMedia(t) \/ ReadsLate(t)
                              \/ LateFails(t) \/ RoomNotices(t)
BY DEF CaptureNext

LEMMA ReleasedTypes ==
    ASSUME CaptureTypeOK, NEW t \in Tabs, Released(t)
    PROVE  /\ ask' \in [Tabs -> {"none", "current", "superseded"}]
           /\ camera' \in [Tabs -> BOOLEAN] /\ publisher' \in [Tabs -> BOOLEAN]
BY DEF CaptureTypeOK, Released

LEMMA HeardTypes ==
    ASSUME CaptureTypeOK, NEW active \in BOOLEAN, NEW stale \in BOOLEAN,
           SetHostMedia(active, stale)
    PROVE  /\ hostSlot' \in BOOLEAN /\ (carried' \in BOOLEAN)
           /\ link' \in Tabs \cup {"none", "offered", "mute", "dead"}
BY HostCaptureAssumption DEF CaptureTypeOK, SetHostMedia, Media

LEMMA CutType ==
    ASSUME CaptureTypeOK, NEW t \in Tabs
    PROVE  Cut(t) \in Tabs \cup {"none", "offered", "mute", "dead"}
BY DEF CaptureTypeOK, Cut

LEMMA CaptureTypesKept == CaptureTypeOK /\ [CaptureNext]_captureVars => CaptureTypeOK'
<1> SUFFICES ASSUME CaptureTypeOK, [CaptureNext]_captureVars PROVE CaptureTypeOK'
  OBVIOUS
<1> USE HostCaptureAssumption, EmptySeq
<1>1. ASSUME NEW t \in Tabs, OpensTab(t) PROVE CaptureTypeOK'
  BY <1>1 DEF OpensTab, roomVars, CaptureTypeOK
<1>2. ASSUME NEW t \in Tabs, Joins(t) PROVE CaptureTypeOK'
  <2>1. <<TRUE>> \in Seq(BOOLEAN) /\ << >> \in Seq(BOOLEAN)
    OBVIOUS
  <2>2. told' \in [Tabs -> Seq(BOOLEAN)]
    BY <1>2, <2>1 DEF Joins, CaptureTypeOK
  <2>3. conn' \in [Tabs -> {"none", "live", "lost", "evicted"}]
    BY <1>2 DEF Joins, CaptureTypeOK
  <2>4. publisher' \in [Tabs -> BOOLEAN] /\ (carried' \in BOOLEAN)
    BY <1>2 DEF Joins, Republishes, CaptureTypeOK
  <2> QED BY <1>2, <2>2, <2>3, <2>4 DEF Joins, CaptureTypeOK
<1>3. ASSUME NEW t \in Tabs, Drops(t) PROVE CaptureTypeOK'
  BY <1>3, CutType DEF Drops, CaptureTypeOK
<1>4. ASSUME NEW t \in Tabs, Displaced(t) PROVE CaptureTypeOK'
  BY <1>4, CutType, ReleasedTypes DEF Displaced, CaptureTypeOK
<1>5. ASSUME NEW t \in Tabs, SessionEnds(t) PROVE CaptureTypeOK'
  BY <1>5, ReleasedTypes DEF SessionEnds, CaptureTypeOK
<1>6. ASSUME NEW t \in Tabs, GivesUp(t) PROVE CaptureTypeOK'
  BY <1>6, ReleasedTypes DEF GivesUp, roomVars, CaptureTypeOK
<1>7. ASSUME NEW t \in Tabs, Unmounts(t) PROVE CaptureTypeOK'
  BY <1>7, CutType, ReleasedTypes DEF Unmounts, CaptureTypeOK
<1>8. ASSUME NEW t \in Tabs, Asks(t) PROVE CaptureTypeOK'
  BY <1>8 DEF Asks, roomVars, CaptureTypeOK
<1>9. ASSUME NEW t \in Tabs, Granted(t) PROVE CaptureTypeOK'
  <2>1. told' \in [Tabs -> Seq(BOOLEAN)]
    <3>1. told[t] \in Seq(BOOLEAN)
      BY DEF CaptureTypeOK
    <3>2. told[t] \o (IF camera[t] THEN <<FALSE, TRUE>> ELSE <<TRUE>>) \in Seq(BOOLEAN)
      BY <3>1, FramesAdded
    <3>3. CASE Wanted(t)
      <4>1. told'[t] \in Seq(BOOLEAN) /\ told' = [told EXCEPT ![t] = told'[t]]
        BY <1>9, <3>1, <3>2, <3>3 DEF Granted, CaptureTypeOK
      <4> QED BY <4>1 DEF CaptureTypeOK
    <3>4. CASE ~Wanted(t)
      BY <1>9, <3>4 DEF Granted, CaptureTypeOK
    <3> QED BY <3>3, <3>4
  <2> QED BY ZenonT(60), <1>9, <2>1, CutType DEF Granted, CaptureTypeOK
<1>10. ASSUME NEW t \in Tabs, Refused(t) PROVE CaptureTypeOK'
  BY <1>10 DEF Refused, roomVars, CaptureTypeOK
<1>11. ASSUME NEW t \in Tabs, ReadsMedia(t) PROVE CaptureTypeOK'
  <2>1. Head(told[t]) \in BOOLEAN /\ Tail(told[t]) \in Seq(BOOLEAN)
    BY <1>11, TailOfFrames DEF ReadsMedia, CaptureTypeOK
  <2> QED BY <1>11, <2>1, HeardTypes DEF ReadsMedia, CaptureTypeOK
<1>12. ASSUME NEW t \in Tabs, ReadsLate(t) PROVE CaptureTypeOK'
  <2>1. Head(late[t]) \in BOOLEAN /\ Tail(late[t]) \in Seq(BOOLEAN)
    BY <1>12, TailOfFrames DEF ReadsLate, CaptureTypeOK
  <2> QED BY <1>12, <2>1, HeardTypes DEF ReadsLate, CaptureTypeOK
<1>13. ASSUME NEW t \in Tabs, LateFails(t) PROVE CaptureTypeOK'
  BY <1>13 DEF LateFails, roomVars, CaptureTypeOK
<1>14. ASSUME NEW t \in Tabs, RoomNotices(t) PROVE CaptureTypeOK'
  BY <1>14 DEF RoomNotices, AfterLeave, roomVars, CaptureTypeOK
<1>15. ASSUME Offered \/ IceFails \/ PathFails PROVE CaptureTypeOK'
  BY <1>15 DEF Offered, IceFails, PathFails, CaptureTypeOK
<1>16. CASE UNCHANGED captureVars
  BY <1>16 DEF captureVars, roomVars, CaptureTypeOK
<1> QED BY <1>1, <1>2, <1>3, <1>4, <1>5, <1>6, <1>7, <1>8, <1>9, <1>10, <1>11, <1>12, <1>13,
           <1>14, <1>15, <1>16, CaptureCases

-----------------------------------------------------------------------------
(* The camera *)

LEMMA OpenPagesKept ==
    CaptureTypeOK /\ OpenPages /\ [CaptureNext]_captureVars => OpenPages'
<1> SUFFICES ASSUME CaptureTypeOK, OpenPages, [CaptureNext]_captureVars,
                    NEW u \in Tabs, page'[u] \in {"over", "gone"}
             PROVE  ~camera'[u] /\ ask'[u] # "current"
  BY DEF OpenPages
<1> DEFINE Goal == ~camera'[u] /\ ask'[u] # "current"
<1>1. ASSUME page'[u] = page[u], camera'[u] = camera[u], ask'[u] = ask[u] PROVE Goal
  BY <1>1 DEF OpenPages
<1>2. ASSUME NEW t \in Tabs, Released(t),
             \A v \in Tabs \ {t} : page'[v] = page[v]
      PROVE  Goal
  <2>1. CASE u = t
    BY <1>2, <2>1 DEF Released, CaptureTypeOK
  <2>2. CASE u # t
    BY <1>1, <1>2, <2>2 DEF Released, CaptureTypeOK
  <2> QED BY <2>1, <2>2
<1>3. ASSUME NEW t \in Tabs, Displaced(t) \/ GivesUp(t) \/ Unmounts(t) \/ SessionEnds(t)
      PROVE  Released(t) /\ \A v \in Tabs \ {t} : page'[v] = page[v]
  BY <1>3 DEF Displaced, GivesUp, Unmounts, SessionEnds, CaptureTypeOK
<1>4. ASSUME NEW t \in Tabs, OpensTab(t) PROVE Goal
  BY <1>1, <1>4 DEF OpensTab, CaptureTypeOK
<1>5. ASSUME NEW t \in Tabs, Asks(t) PROVE Goal
  BY <1>1, <1>5 DEF Asks, CaptureTypeOK
<1>6. ASSUME NEW t \in Tabs, Granted(t) PROVE Goal
  BY <1>1, <1>6 DEF Granted, Wanted, OpenPages, CaptureTypeOK
<1>7. ASSUME NEW t \in Tabs, Refused(t) PROVE Goal
  BY <1>1, <1>7 DEF Refused, OpenPages, CaptureTypeOK
<1>8. ASSUME NEW t \in Tabs,
             Joins(t) \/ Drops(t) \/ ReadsMedia(t) \/ ReadsLate(t) \/ LateFails(t) \/ RoomNotices(t)
      PROVE  Goal
  BY <1>1, <1>8 DEF Joins, Drops, ReadsMedia, ReadsLate, LateFails, RoomNotices
<1>9. ASSUME Offered \/ IceFails \/ PathFails \/ UNCHANGED captureVars PROVE Goal
  BY <1>1, <1>9 DEF Offered, IceFails, PathFails, captureVars
<1> QED BY <1>2, <1>3, <1>4, <1>5, <1>6, <1>7, <1>8, <1>9, CaptureCases

-----------------------------------------------------------------------------
(* The slot of the host *)

\* A frame of the host changes the slot only while there is a host.
LEMMA HeardFacts ==
    ASSUME NEW active \in BOOLEAN, NEW stale \in BOOLEAN, SetHostMedia(active, stale),
           CaptureTypeOK
    PROVE  /\ host = Nobody => hostSlot' = hostSlot
           /\ host # Nobody => hostSlot' = active
           /\ stale /\ host # Nobody => carried'
BY DEF SetHostMedia, Media, CaptureTypeOK

LEMMA ConnectionInForceKept ==
    CaptureTypeOK /\ ConnectionInForce /\ [CaptureNext]_captureVars => ConnectionInForce'
<1> SUFFICES ASSUME CaptureTypeOK, ConnectionInForce, [CaptureNext]_captureVars
             PROVE  ConnectionInForce'
  OBVIOUS
<1> USE HostCaptureAssumption
<1>1. ASSUME UNCHANGED <<conn, host, hostSlot>>,
             \A t \in Tabs : conn[t] = "live" => page'[t] = page[t]
      PROVE  ConnectionInForce'
  BY <1>1 DEF ConnectionInForce, CaptureTypeOK
<1>2. ASSUME NEW t \in Tabs, Joins(t) PROVE ConnectionInForce'
  BY <1>2 DEF Joins, ConnectionInForce, CaptureTypeOK
<1>3. ASSUME NEW t \in Tabs, Drops(t) PROVE ConnectionInForce'
  BY <1>3 DEF Drops, ConnectionInForce, CaptureTypeOK
<1>4. ASSUME NEW t \in Tabs, Displaced(t) PROVE ConnectionInForce'
  BY <1>4 DEF Displaced, ConnectionInForce, CaptureTypeOK
<1>5. ASSUME NEW t \in Tabs, SessionEnds(t) PROVE ConnectionInForce'
  BY <1>5 DEF SessionEnds, ConnectionInForce, CaptureTypeOK
<1>6. ASSUME NEW t \in Tabs, Unmounts(t) PROVE ConnectionInForce'
  BY <1>6 DEF Unmounts, ConnectionInForce, CaptureTypeOK
<1>7. ASSUME NEW t \in Tabs, RoomNotices(t) PROVE ConnectionInForce'
  BY <1>7 DEF RoomNotices, AfterLeave, roomVars, ConnectionInForce, CaptureTypeOK
<1>8. ASSUME NEW t \in Tabs, ReadsMedia(t) \/ ReadsLate(t) PROVE ConnectionInForce'
  <2>1. UNCHANGED <<page, conn, host>>
    BY <1>8 DEF ReadsMedia, ReadsLate
  <2>2. host = Nobody => hostSlot' = hostSlot
    BY <1>8 DEF ReadsMedia, ReadsLate, SetHostMedia
  <2> QED BY <2>1, <2>2 DEF ConnectionInForce
<1>9. ASSUME NEW t \in Tabs,
             OpensTab(t) \/ GivesUp(t) \/ Asks(t) \/ Granted(t) \/ Refused(t) \/ LateFails(t)
      PROVE  ConnectionInForce'
  <2>1. UNCHANGED <<conn, host, hostSlot>>
    BY <1>9 DEF OpensTab, GivesUp, Asks, Granted, Refused, LateFails, roomVars
  <2>2. \A v \in Tabs : conn[v] = "live" => page'[v] = page[v]
    BY <1>9 DEF OpensTab, GivesUp, Asks, Granted, Refused, LateFails, ConnectionInForce,
                CaptureTypeOK
  <2> QED BY <1>1, <2>1, <2>2
<1>10. ASSUME Offered \/ IceFails \/ PathFails \/ UNCHANGED captureVars
       PROVE  ConnectionInForce'
  BY <1>1, <1>10 DEF Offered, IceFails, PathFails, captureVars, roomVars
<1> QED BY <1>2, <1>3, <1>4, <1>5, <1>6, <1>7, <1>8, <1>9, <1>10, CaptureCases

LEMMA LastWordKept ==
    CaptureTypeOK /\ ConnectionInForce /\ LastWord /\ [CaptureNext]_captureVars => LastWord'
<1> SUFFICES ASSUME CaptureTypeOK, ConnectionInForce, LastWord, [CaptureNext]_captureVars,
                    NEW u \in Tabs, conn'[u] = "live", host' = u
             PROVE  /\ told'[u] # << >> => told'[u][Len(told'[u])] = camera'[u]
                    /\ told'[u] = << >> /\ ~carried' => hostSlot' = camera'[u]
  BY DEF LastWord
<1> DEFINE Goal == /\ told'[u] # << >> => told'[u][Len(told'[u])] = camera'[u]
                   /\ told'[u] = << >> /\ ~carried' => hostSlot' = camera'[u]
<1> USE HostCaptureAssumption
<1>1. ASSUME conn[u] = "live", host = u, UNCHANGED <<hostSlot, carried>>,
             told'[u] = told[u], camera'[u] = camera[u]
      PROVE  Goal
  BY <1>1 DEF LastWord
<1>2. ASSUME NEW t \in Tabs, Joins(t) PROVE Goal
  <2>1. u = t
    BY <1>2 DEF Joins
  <2>2. camera'[u] = camera[u] /\ hostSlot' = hostSlot
    BY <1>2 DEF Joins
  <2>3. carried' = (host # Nobody)
    BY <1>2 DEF Joins
  <2>4. CASE camera[u]
    <3>1. told'[u] = <<TRUE>>
      BY <1>2, <2>1, <2>4 DEF Joins, Republishes, CaptureTypeOK
    <3>2. told'[u] # << >> /\ told'[u][Len(told'[u])] = TRUE
      BY <3>1
    <3>3. camera[u] = TRUE
      BY <2>4 DEF CaptureTypeOK
    <3> QED BY <2>2, <3>2, <3>3
  <2>5. CASE ~camera[u]
    <3>1. told'[u] = << >>
      BY <1>2, <2>1, <2>5 DEF Joins, Republishes, CaptureTypeOK
    <3>2. ~carried' => ~hostSlot
      BY <2>3 DEF ConnectionInForce
    <3> QED BY <2>2, <2>5, <3>1, <3>2 DEF CaptureTypeOK
  <2> QED BY <2>4, <2>5
<1>3. ASSUME NEW t \in Tabs, Drops(t) PROVE Goal
  BY <1>1, <1>3 DEF Drops, CaptureTypeOK
<1>4. ASSUME NEW t \in Tabs, Displaced(t) PROVE Goal
  BY <1>1, <1>4 DEF Displaced, Released, CaptureTypeOK
<1>5. ASSUME NEW t \in Tabs PROVE ~SessionEnds(t)
  BY DEF SessionEnds
<1>6. ASSUME NEW t \in Tabs, Unmounts(t) PROVE Goal
  BY <1>1, <1>6 DEF Unmounts, Released, CaptureTypeOK
<1>7. ASSUME NEW t \in Tabs, GivesUp(t) PROVE Goal
  BY <1>1, <1>7 DEF GivesUp, Released, roomVars, CaptureTypeOK
<1>8. ASSUME NEW t \in Tabs, RoomNotices(t) PROVE Goal
  BY <1>1, <1>8 DEF RoomNotices, roomVars, CaptureTypeOK
<1>9. ASSUME NEW t \in Tabs, ReadsMedia(t) PROVE Goal
  <2>1. conn[u] = "live" /\ host = u /\ camera'[u] = camera[u]
    BY <1>9 DEF ReadsMedia
  <2>2. Head(told[t]) \in BOOLEAN /\ told[t] \in Seq(BOOLEAN) /\ told[t] # << >>
    BY <1>9, TailOfFrames DEF ReadsMedia, CaptureTypeOK
  <2>3. hostSlot' = Head(told[t])
    BY <1>9, <2>1, <2>2, HeardFacts DEF ReadsMedia
  <2>4. CASE t = u
    <3>1. told'[u] = Tail(told[u])
      BY <1>9, <2>4 DEF ReadsMedia, CaptureTypeOK
    <3>2. told[u][Len(told[u])] = camera[u]
      BY <2>1, <2>2, <2>4 DEF LastWord
    <3> QED BY <2>1, <2>2, <2>3, <2>4, <3>1, <3>2, TailOfFrames
  <2>5. CASE t # u
    <3>1. told'[u] = told[u]
      BY <1>9, <2>5 DEF ReadsMedia, CaptureTypeOK
    <3>2. carried'
      BY <1>9, <2>1, <2>2, <2>5, HeardFacts DEF ReadsMedia
    <3> QED BY <2>1, <3>1, <3>2 DEF LastWord
  <2> QED BY <2>4, <2>5
<1>10. ASSUME NEW t \in Tabs, ReadsLate(t) PROVE Goal
  <2>1. conn[u] = "live" /\ host = u /\ camera'[u] = camera[u] /\ told'[u] = told[u]
    BY <1>10 DEF ReadsLate
  <2>2. Head(late[t]) \in BOOLEAN
    BY <1>10, TailOfFrames DEF ReadsLate, CaptureTypeOK
  <2>3. carried'
    BY <1>10, <2>1, <2>2, HeardFacts DEF ReadsLate
  <2> QED BY <2>1, <2>3 DEF LastWord
<1>11. ASSUME NEW t \in Tabs, Granted(t) PROVE Goal
  <2>1. UNCHANGED <<conn, host, hostSlot, carried>>
    BY <1>11 DEF Granted
  <2>2. CASE t # u \/ ~Wanted(t)
    BY <1>1, <1>11, <2>1, <2>2 DEF Granted, CaptureTypeOK
  <2>3. CASE t = u /\ Wanted(t)
    <3>1. told[u] \in Seq(BOOLEAN) /\ camera'[u] = TRUE
      BY <1>11, <2>3 DEF Granted, CaptureTypeOK
    <3>2. told'[u] = told[u] \o (IF camera[u] THEN <<FALSE, TRUE>> ELSE <<TRUE>>)
      BY <1>11, <2>1, <2>3 DEF Granted, Connected, CaptureTypeOK
    <3>3. told'[u] # << >> /\ told'[u][Len(told'[u])] = TRUE
      BY <3>1, <3>2, FramesAdded
    <3> QED BY <3>1, <3>3
  <2> QED BY <2>2, <2>3
<1>12. ASSUME NEW t \in Tabs, OpensTab(t) \/ Asks(t) \/ Refused(t) \/ LateFails(t) PROVE Goal
  BY <1>1, <1>12 DEF OpensTab, Asks, Refused, LateFails, roomVars
<1>13. ASSUME Offered \/ IceFails \/ PathFails \/ UNCHANGED captureVars PROVE Goal
  BY <1>1, <1>13 DEF Offered, IceFails, PathFails, captureVars, roomVars
<1> QED BY <1>2, <1>3, <1>4, <1>5, <1>6, <1>7, <1>8, <1>9, <1>10, <1>11, <1>12, <1>13,
           CaptureCases

-----------------------------------------------------------------------------
LEMMA CaptureInvHolds == CaptureSpec => []CaptureInv
<1>1. CaptureInit => CaptureInv
  <2> SUFFICES ASSUME CaptureInit PROVE CaptureInv
    OBVIOUS
  <2>1. CaptureTypeOK
    BY HostCaptureAssumption, EmptySeq DEF CaptureInit, CaptureTypeOK
  <2>2. OpenPages /\ ConnectionInForce /\ LastWord
    BY DEF CaptureInit, OpenPages, ConnectionInForce, LastWord
  <2> QED BY <2>1, <2>2 DEF CaptureInv
<1>2. CaptureInv /\ [CaptureNext]_captureVars => CaptureInv'
  BY CaptureTypesKept, OpenPagesKept, ConnectionInForceKept, LastWordKept DEF CaptureInv
<1> QED BY <1>1, <1>2, PTL DEF CaptureSpec

\* releaseHostCapture, hostSetupRef: a tab that shows a terminal screen or is gone has no
\* camera on, however late the browser answers the request for it.
THEOREM CaptureIsReleased == CaptureSpec => []CaptureReleased
<1>1. CaptureInv => CaptureReleased
  BY DEF CaptureInv, OpenPages, CaptureReleased
<1> QED BY <1>1, CaptureInvHolds, PTL

\* setHostMedia, publishHostMedia, leave: once the room has read all it was told, the slot
\* of the host is bound exactly while the connected host has its camera on, unless a
\* connection took the binding over from one the room had not seen leave.
THEOREM HostSlotIsCurrent == CaptureSpec => []HostSlotFollows
<1>1. CaptureInv => HostSlotFollows
  <2> SUFFICES ASSUME CaptureInv, Settled, ~carried
               PROVE  hostSlot <=> \E t \in Tabs : Publishes(t)
    BY DEF HostSlotFollows
  <2>1. CASE host = Nobody
    <3>1. ~hostSlot
      BY <2>1 DEF CaptureInv, ConnectionInForce
    <3>2. \A t \in Tabs : ~Publishes(t)
      BY <2>1, HostCaptureAssumption DEF Publishes
    <3> QED BY <3>1, <3>2
  <2>2. CASE host # Nobody
    <3>1. host \in Tabs /\ conn[host] = "live" /\ told[host] = << >>
      BY <2>2 DEF CaptureInv, CaptureTypeOK, ConnectionInForce, Settled
    <3>2. hostSlot = camera[host]
      BY <3>1 DEF CaptureInv, LastWord
    <3>3. page[host] = "open"
      BY <3>1 DEF CaptureInv, ConnectionInForce
    <3>4. \A t \in Tabs : Publishes(t) <=> t = host /\ camera[host]
      BY <3>1, <3>3 DEF Publishes, Connected
    <3> QED BY <3>1, <3>2, <3>4
  <2> QED BY <2>1, <2>2
<1> QED BY <1>1, CaptureInvHolds, PTL

-----------------------------------------------------------------------------
(* The tokens of the source URLs *)

\* The page was loaded with a URL: no token is 0.
Shown(p) == url[p].token >= 1

\* A connection that the server admits, or has in the room, came with a URL.
CameWithUrl(c) == c.token >= 1 /\ (c.by \in Sources => Shown(c.by))

UrlsShown ==
    /\ \A p \in Sources : source[p] # "off" => Shown(p)
    /\ \A h \in handshakes : CameWithUrl(h)
    /\ \A s \in Slots : inRoom[s] # NoConn => CameWithUrl(inRoom[s])

\* A handshake that has read its token twice has a token that is in force, or is yet to
\* be torn down, or knows that it was too late for that.
AdmittedWithCause ==
    \A h \in handshakes : h.step = "checked" =>
       h.token = token[h.slot] \/ teardowns[h.slot] > 0 \/ h.overtaken

TokensInv == TokensTypeOK /\ UrlsShown /\ AdmittedWithCause /\ OldTokenIsOut

-----------------------------------------------------------------------------
(* Types *)

\* The re-check of a handshake, whatever became of its lookup.
Rechecked(h) == \E looked \in BOOLEAN : Rechecks(h, looked)

\* The steps of TokensNext, one by one.
LEMMA TokensCases ==
    ASSUME TokensNext
    PROVE  \/ EnsureSlotPool \/ RegenerateAllSlots \/ EndSession \/ Restarts
           \/ \E s \in Slots : RegenerateSlot(s) \/ TerminateSourceIfLive(s) \/ GhostLeaves(s)
           \/ \E p \in Sources : Dials(p) \/ Loses(p) \/ Stops(p)
           \/ \E p \in Sources, s \in Slots, g \in Tokens : Loads(p, s, g)
           \/ \E h \in handshakes : Rechecked(h) \/ JoinsRoom(h) \/ GhostFails(h)
BY DEF TokensNext, Admits, Finds, Rechecked

\* The parts of a step that several of them share keep the types.
LEMMA TurnType ==
    ASSUME TokensTypeOK, NEW P, NEW to \in {"waiting", "rotating"}
    PROVE  Turn(P, to) \in [Sources -> {"off", "waiting", "dialing", "on", "displacing",
                                        "rotating", "displaced", "rotated"}]
BY DEF TokensTypeOK, Turn

LEMMA GhostsType ==
    ASSUME TokensTypeOK, NEW p \in Sources
    PROVE  Ghosts({p}) \subseteq Handshakes /\ Left({p}) \in [Slots -> Conns]
<1>1. \A h \in Handshakes : [h EXCEPT !.by = Gone] \in Handshakes
  BY DEF Handshakes, Ends
<1>2. Ghosts({p}) \subseteq Handshakes
  BY <1>1 DEF Ghosts, TokensTypeOK
<1>3. \A s \in Slots : inRoom[s].by = p => [inRoom[s] EXCEPT !.by = Gone] \in Conns
  <2> SUFFICES ASSUME NEW s \in Slots, inRoom[s].by = p
               PROVE  [inRoom[s] EXCEPT !.by = Gone] \in Conns
    OBVIOUS
  <2>1. inRoom[s] # NoConn
    BY SourceTokensAssumption DEF NoConn
  <2> QED BY <2>1 DEF TokensTypeOK, Conns, Ends
<1> QED BY <1>2, <1>3 DEF Left, TokensTypeOK

LEMMA TypesKept == TokensTypeOK /\ UrlsShown /\ [TokensNext]_tokenVars => TokensTypeOK'
<1> SUFFICES ASSUME TokensTypeOK, UrlsShown, [TokensNext]_tokenVars PROVE TokensTypeOK'
  OBVIOUS
<1> USE SourceTokensAssumption
<1>1. CASE EnsureSlotPool
  BY <1>1 DEF EnsureSlotPool, Provisioned, Tokens, TokensTypeOK
<1>2. ASSUME NEW S \in SUBSET Slots, Regenerate(S) PROVE TokensTypeOK'
  <2>1. token' \in [Slots -> Tokens]
    BY <1>2 DEF Regenerate, Rotated, Tokens, TokensTypeOK
  <2>2. teardowns' \in [Slots -> Nat]
    BY <1>2 DEF Regenerate, TokensTypeOK
  <2> QED BY <1>2, <2>1, <2>2 DEF Regenerate, TokensTypeOK
<1>3. ASSUME NEW s \in Slots, TerminateSourceIfLive(s) PROVE TokensTypeOK'
  <2>1. teardowns' \in [Slots -> Nat]
    BY <1>3 DEF TerminateSourceIfLive, TokensTypeOK
  <2>2. source' \in [Sources -> {"off", "waiting", "dialing", "on", "displacing",
                                 "rotating", "displaced", "rotated"}]
    BY <1>3, TurnType DEF TerminateSourceIfLive, RotateSource
  <2>3. inRoom' \in [Slots -> Conns]
    BY <1>3 DEF TerminateSourceIfLive, RotateSource, TokensTypeOK, Conns
  <2>4. struck' \subseteq Sources
    <3>1. inRoom[s] # NoConn => Of(inRoom[s]) \subseteq Sources
      BY DEF TokensTypeOK, Conns, Of, Ends
    <3> QED BY <1>3, <3>1 DEF TerminateSourceIfLive, RotateSource, TokensTypeOK
  <2>5. handshakes' \subseteq Handshakes
    <3>1. \A h \in Handshakes : [h EXCEPT !.overtaken = TRUE] \in Handshakes
      BY DEF Handshakes
    <3> QED BY <1>3, <3>1 DEF TerminateSourceIfLive, TokensTypeOK
  <2> QED BY <1>3, <2>1, <2>2, <2>3, <2>4, <2>5 DEF TerminateSourceIfLive, TokensTypeOK
<1>4. ASSUME NEW p \in Sources, Dials(p) PROVE TokensTypeOK'
  <2>1. Shown(p)
    BY <1>4 DEF Dials, UrlsShown
  <2>2. url[p] \in [slot : Slots, token : Tokens]
    BY <2>1 DEF Shown, TokensTypeOK, NoUrl
  <2>3. [by |-> p, slot |-> url[p].slot, token |-> url[p].token, step |-> "resolved",
         overtaken |-> FALSE] \in Handshakes
    BY <2>2 DEF Handshakes, Ends
  <2>4. handshakes' \subseteq Handshakes
    BY <1>4, <2>3 DEF Dials, TokensTypeOK
  <2> QED BY <1>4, <2>4 DEF Dials, TokensTypeOK
<1>5. ASSUME NEW h \in handshakes, Rechecked(h) PROVE TokensTypeOK'
  <2>1. [h EXCEPT !.step = "checked"] \in Handshakes
    BY DEF Handshakes, TokensTypeOK
  <2>2. handshakes' \subseteq Handshakes
    BY <1>5, <2>1 DEF Rechecked, Rechecks, TokensTypeOK
  <2>3. struck' \subseteq Sources
    BY <1>5 DEF Rechecked, Rechecks, TokensTypeOK, Handshakes, Of, Ends
  <2>4. source' \in [Sources -> {"off", "waiting", "dialing", "on", "displacing", "rotating",
                                 "displaced", "rotated"}]
    BY <1>5, TurnType DEF Rechecked, Rechecks, TokensTypeOK
  <2>5. UNCHANGED <<token, teardowns, url, inRoom, loads, losses>>
    BY <1>5 DEF Rechecked, Rechecks
  <2> QED BY <2>2, <2>3, <2>4, <2>5 DEF TokensTypeOK
<1>6. ASSUME NEW h \in handshakes, JoinsRoom(h) PROVE TokensTypeOK'
  <2>1. inRoom' \in [Slots -> Conns]
    BY <1>6 DEF JoinsRoom, Conns, Handshakes, TokensTypeOK
  <2>2. source' \in [Sources -> {"off", "waiting", "dialing", "on", "displacing", "rotating",
                                 "displaced", "rotated"}]
    BY <1>6 DEF JoinsRoom, TokensTypeOK
  <2> QED BY <1>6, <2>1, <2>2 DEF JoinsRoom, TokensTypeOK
<1>7. ASSUME NEW p \in Sources, NEW s \in Slots, NEW g \in Tokens, Loads(p, s, g)
      PROVE  TokensTypeOK'
  BY <1>7, GhostsType DEF Loads, TokensTypeOK
<1>8. ASSUME NEW p \in Sources, Loses(p) PROVE TokensTypeOK'
  BY <1>8, GhostsType DEF Loses, TokensTypeOK
<1>9. ASSUME NEW p \in Sources, Stops(p) PROVE TokensTypeOK'
  BY <1>9 DEF Stops, TokensTypeOK
<1>10. ASSUME NEW h \in handshakes, GhostFails(h) PROVE TokensTypeOK'
  BY <1>10 DEF GhostFails, TokensTypeOK
<1>11. ASSUME NEW s \in Slots, GhostLeaves(s) PROVE TokensTypeOK'
  BY <1>11 DEF GhostLeaves, Conns, TokensTypeOK
<1>12. CASE EndSession
  <2>1. inRoom' \in [Slots -> Conns] /\ handshakes' \subseteq Handshakes
    BY <1>12 DEF EndSession, Conns, TokensTypeOK
  <2>2. source' \in [Sources -> {"off", "waiting", "dialing", "on", "displacing", "rotating",
                                 "displaced", "rotated"}]
    BY <1>12 DEF EndSession, AfterSession, TokensTypeOK
  <2> QED BY <1>12, <2>1, <2>2 DEF EndSession, TokensTypeOK
<1>13. CASE Restarts
  BY <1>13, TurnType DEF Restarts, Conns, TokensTypeOK
<1>14. CASE UNCHANGED tokenVars
  BY <1>14 DEF tokenVars, TokensTypeOK
<1>15. CASE TokensNext
  <2>1. ASSUME NEW s \in Slots, RegenerateSlot(s) PROVE TokensTypeOK'
    BY <1>2, <2>1 DEF RegenerateSlot
  <2>2. CASE RegenerateAllSlots
    BY <1>2, <2>2 DEF RegenerateAllSlots
  <2> QED BY <1>1, <1>3, <1>4, <1>5, <1>6, <1>7, <1>8, <1>9, <1>10, <1>11, <1>12, <1>13,
             <1>15, <2>1, <2>2, TokensCases
<1> QED BY <1>14, <1>15

-----------------------------------------------------------------------------
(* URLs *)

\* A URL that was shown stays shown: a page is only ever loaded with another one.
LEMMA ShownStays ==
    ASSUME TokensTypeOK, [TokensNext]_tokenVars, NEW p \in Sources, Shown(p)
    PROVE  Shown(p)'
<1>1. ASSUME NEW q \in Sources, NEW s \in Slots, NEW g \in Tokens, Loads(q, s, g)
      PROVE  Shown(p)'
  BY <1>1 DEF Loads, Shown, Tokens, TokensTypeOK
<1>2. ASSUME UNCHANGED url PROVE Shown(p)'
  BY <1>2 DEF Shown
<1>3. CASE UNCHANGED tokenVars
  BY <1>2, <1>3 DEF tokenVars
<1>4. ASSUME NEW s \in Slots, RegenerateSlot(s) \/ TerminateSourceIfLive(s) \/ GhostLeaves(s)
      PROVE  UNCHANGED url
  BY <1>4 DEF RegenerateSlot, Regenerate, TerminateSourceIfLive, GhostLeaves
<1>5. ASSUME NEW q \in Sources, Dials(q) \/ Loses(q) \/ Stops(q) PROVE UNCHANGED url
  BY <1>5 DEF Dials, Loses, Stops
<1>6. ASSUME NEW h \in handshakes, Rechecked(h) \/ JoinsRoom(h) \/ GhostFails(h)
      PROVE  UNCHANGED url
  BY <1>6 DEF Rechecked, Rechecks, JoinsRoom, GhostFails
<1>7. ASSUME EnsureSlotPool \/ RegenerateAllSlots \/ EndSession \/ Restarts
      PROVE  UNCHANGED url
  BY <1>7 DEF EnsureSlotPool, RegenerateAllSlots, Regenerate, EndSession, Restarts
<1> QED BY <1>1, <1>2, <1>3, <1>4, <1>5, <1>6, <1>7, TokensCases

LEMMA CameStays ==
    ASSUME TokensTypeOK, [TokensNext]_tokenVars, NEW c, CameWithUrl(c)
    PROVE  CameWithUrl(c)'
BY ShownStays DEF CameWithUrl

\* A page starts because it was loaded, or hears of a connection that it had made.
LEMMA StartsWithUrl ==
    ASSUME TokensTypeOK, UrlsShown, [TokensNext]_tokenVars, NEW p \in Sources
    PROVE  (source[p] # "off" => Shown(p))'
<1> SUFFICES ASSUME source[p] = "off", source'[p] # "off" PROVE Shown(p)'
  BY ShownStays DEF UrlsShown
<1> USE SourceTokensAssumption
<1>1. ASSUME NEW s \in Slots, inRoom[s] # NoConn, p \in Of(inRoom[s]) PROVE Shown(p)'
  BY <1>1, ShownStays DEF UrlsShown, CameWithUrl, Of
<1>2. ASSUME NEW h \in handshakes, p \in Of(h) \/ p = h.by PROVE Shown(p)'
  BY <1>2, ShownStays DEF UrlsShown, CameWithUrl, Of
<1>3. ASSUME NEW q \in Sources, NEW s \in Slots, NEW g \in Tokens, Loads(q, s, g)
      PROVE  Shown(p)'
  BY <1>3 DEF Loads, Shown, Tokens, TokensTypeOK
<1>4. ASSUME NEW s \in Slots, TerminateSourceIfLive(s) PROVE Shown(p)'
  BY <1>1, <1>4 DEF TerminateSourceIfLive, RotateSource, Turn
<1>5. ASSUME NEW h \in handshakes, Rechecked(h) \/ JoinsRoom(h) PROVE Shown(p)'
  <2>1. CASE Rechecked(h)
    BY <1>2, <2>1 DEF Rechecked, Rechecks, Turn
  <2>2. CASE JoinsRoom(h)
    <3>1. h.slot \in Slots
      BY DEF TokensTypeOK, Handshakes
    <3>2. p = h.by \/ (inRoom[h.slot] # NoConn /\ p \in Of(inRoom[h.slot]))
      BY <2>2 DEF JoinsRoom
    <3> QED BY <1>1, <1>2, <3>1, <3>2
  <2> QED BY <1>5, <2>1, <2>2
<1>6. CASE EndSession
  BY <1>1, <1>2, <1>6 DEF EndSession, TokensTypeOK
<1>7. CASE UNCHANGED source
  BY <1>7
<1>8. ~Restarts
  BY DEF Restarts, Turn, TokensTypeOK
<1>9. ASSUME NEW s \in Slots, RegenerateSlot(s) \/ GhostLeaves(s) PROVE UNCHANGED source
  BY <1>9 DEF RegenerateSlot, Regenerate, GhostLeaves
<1>10. ASSUME NEW q \in Sources PROVE ~(Dials(q) \/ Loses(q) \/ Stops(q))
  BY DEF Dials, Loses, Stops, TokensTypeOK
<1>11. ASSUME NEW h \in handshakes, GhostFails(h) PROVE UNCHANGED source
  BY <1>11 DEF GhostFails
<1>12. ASSUME EnsureSlotPool \/ RegenerateAllSlots PROVE UNCHANGED source
  BY <1>12 DEF EnsureSlotPool, RegenerateAllSlots, Regenerate
<1>13. CASE UNCHANGED tokenVars
  BY <1>7, <1>13 DEF tokenVars
<1> QED BY <1>3, <1>4, <1>5, <1>6, <1>7, <1>8, <1>9, <1>10, <1>11, <1>12, <1>13, TokensCases

\* What two connections or handshakes have in common when one is made from the other.
From(d, c) == d.token = c.token /\ d.by \in {c.by, Gone}

LEMMA FromKeeps ==
    ASSUME TokensTypeOK, [TokensNext]_tokenVars, NEW c, NEW d, CameWithUrl(c), From(d, c)
    PROVE  CameWithUrl(d)'
BY CameStays, SourceTokensAssumption DEF From, CameWithUrl

LEMMA HandshakesHaveUrls ==
    ASSUME TokensTypeOK, UrlsShown, [TokensNext]_tokenVars
    PROVE  (\A h \in handshakes : CameWithUrl(h))'
<1> SUFFICES ASSUME NEW h \in handshakes' PROVE CameWithUrl(h)'
  OBVIOUS
<1>1. ASSUME NEW g \in handshakes, From(h, g) PROVE CameWithUrl(h)'
  BY <1>1, FromKeeps DEF UrlsShown
<1>2. ASSUME handshakes' \subseteq handshakes PROVE CameWithUrl(h)'
  BY <1>1, <1>2 DEF From
<1>3. ASSUME NEW p \in Sources, handshakes' = Ghosts({p}) PROVE CameWithUrl(h)'
  BY <1>1, <1>3 DEF Ghosts, From, TokensTypeOK, Handshakes
<1>4. ASSUME NEW s \in Slots, TerminateSourceIfLive(s) PROVE CameWithUrl(h)'
  BY <1>1, <1>4 DEF TerminateSourceIfLive, From, TokensTypeOK, Handshakes
<1>5. ASSUME NEW g \in handshakes, Rechecked(g) PROVE CameWithUrl(h)'
  BY <1>1, <1>5 DEF Rechecked, Rechecks, From, TokensTypeOK, Handshakes
<1>6. ASSUME NEW p \in Sources, Dials(p) PROVE CameWithUrl(h)'
  <2>1. h \in handshakes \/ (h.token = url[p].token /\ h.by = p)
    BY <1>6 DEF Dials
  <2>2. Shown(p)
    BY <1>6 DEF Dials, UrlsShown
  <2> QED BY <1>2, <1>1, <1>6, <2>1, <2>2, ShownStays DEF CameWithUrl, Shown, From
<1>7. ASSUME NEW s \in Slots, RegenerateSlot(s) \/ GhostLeaves(s)
      PROVE  handshakes' \subseteq handshakes
  BY <1>7 DEF RegenerateSlot, Regenerate, GhostLeaves
<1>8. ASSUME NEW p \in Sources, Loses(p) \/ Stops(p)
      PROVE  handshakes' \subseteq handshakes \/ handshakes' = Ghosts({p})
  BY <1>8 DEF Loses, Stops
<1>9. ASSUME NEW p \in Sources, NEW s \in Slots, NEW g \in Tokens, Loads(p, s, g)
      PROVE  handshakes' = Ghosts({p})
  BY <1>9 DEF Loads
<1>10. ASSUME NEW g \in handshakes, JoinsRoom(g) \/ GhostFails(g)
       PROVE  handshakes' \subseteq handshakes
  BY <1>10 DEF JoinsRoom, GhostFails
<1>11. ASSUME \/ EnsureSlotPool \/ RegenerateAllSlots \/ EndSession \/ Restarts
              \/ UNCHANGED tokenVars
       PROVE  handshakes' \subseteq handshakes
  BY <1>11 DEF EnsureSlotPool, RegenerateAllSlots, Regenerate, EndSession, Restarts, tokenVars
<1> QED BY <1>2, <1>3, <1>4, <1>5, <1>6, <1>7, <1>8, <1>9, <1>10, <1>11, TokensCases

LEMMA ConnectionsHaveUrls ==
    ASSUME TokensTypeOK, UrlsShown, [TokensNext]_tokenVars
    PROVE  (\A s \in Slots : inRoom[s] # NoConn => CameWithUrl(inRoom[s]))'
<1> SUFFICES ASSUME NEW s \in Slots, inRoom'[s] # NoConn PROVE CameWithUrl(inRoom[s])'
  OBVIOUS
<1> USE SourceTokensAssumption
<1>0. ASSUME NEW c, CameWithUrl(c), From(inRoom'[s], c) PROVE CameWithUrl(inRoom[s])'
  <2>1. PICK d : d = inRoom'[s]
    OBVIOUS
  <2>2. CameWithUrl(d)'
    BY <1>0, <2>1, FromKeeps
  <2> QED BY <2>1, <2>2 DEF CameWithUrl, Shown
<1>1. ASSUME inRoom[s] # NoConn, From(inRoom'[s], inRoom[s]) PROVE CameWithUrl(inRoom[s])'
  BY <1>0, <1>1 DEF UrlsShown
<1>2. ASSUME inRoom'[s] = inRoom[s] PROVE CameWithUrl(inRoom[s])'
  BY <1>1, <1>2 DEF From
<1>3. ASSUME NEW p \in Sources, inRoom' = Left({p}) PROVE CameWithUrl(inRoom[s])'
  <2>1. inRoom[s] # NoConn
    BY <1>3 DEF Left, NoConn
  <2>2. From(inRoom'[s], inRoom[s])
    BY <1>3, <2>1 DEF Left, From, TokensTypeOK, Conns
  <2> QED BY <1>1, <2>1, <2>2
<1>4. ASSUME NEW h \in handshakes, JoinsRoom(h) PROVE CameWithUrl(inRoom[s])'
  <2>1. CASE s = h.slot
    <3>1. From(inRoom'[s], h)
      BY <1>4, <2>1 DEF JoinsRoom, From, TokensTypeOK
    <3> QED BY <1>0, <3>1 DEF UrlsShown
  <2>2. CASE s # h.slot
    BY <1>2, <1>4, <2>2 DEF JoinsRoom, TokensTypeOK
  <2> QED BY <2>1, <2>2
<1>5. ASSUME NEW t \in Slots, RegenerateSlot(t) \/ TerminateSourceIfLive(t) \/ GhostLeaves(t)
      PROVE  inRoom'[s] = inRoom[s]
  BY <1>5 DEF RegenerateSlot, Regenerate, TerminateSourceIfLive, RotateSource, GhostLeaves,
              TokensTypeOK
<1>6. ASSUME NEW p \in Sources, Dials(p) \/ Loses(p) \/ Stops(p)
      PROVE  inRoom' = inRoom \/ inRoom' = Left({p})
  BY <1>6 DEF Dials, Loses, Stops
<1>7. ASSUME NEW p \in Sources, NEW t \in Slots, NEW g \in Tokens, Loads(p, t, g)
      PROVE  inRoom' = Left({p})
  BY <1>7 DEF Loads
<1>8. ASSUME NEW h \in handshakes, Rechecked(h) \/ GhostFails(h) PROVE inRoom' = inRoom
  BY <1>8 DEF Rechecked, Rechecks, GhostFails
<1>9. ASSUME EnsureSlotPool \/ RegenerateAllSlots \/ UNCHANGED tokenVars
      PROVE  inRoom' = inRoom
  BY <1>9 DEF EnsureSlotPool, RegenerateAllSlots, Regenerate, tokenVars
<1>10. ~EndSession /\ ~Restarts
  BY DEF EndSession, Restarts
<1> QED BY <1>2, <1>3, <1>4, <1>5, <1>6, <1>7, <1>8, <1>9, <1>10, TokensCases

LEMMA UrlsKept == TokensTypeOK /\ UrlsShown /\ [TokensNext]_tokenVars => UrlsShown'
<1> SUFFICES ASSUME TokensTypeOK, UrlsShown, [TokensNext]_tokenVars PROVE UrlsShown'
  OBVIOUS
<1>1. (\A p \in Sources : source[p] # "off" => Shown(p))'
  BY StartsWithUrl
<1> QED BY <1>1, HandshakesHaveUrls, ConnectionsHaveUrls DEF UrlsShown

-----------------------------------------------------------------------------
(* Tokens that were replaced *)

\* A write makes a token old only together with the teardown that is to follow.
LEMMA WritesOweTeardowns ==
    ASSUME TokensTypeOK, NEW S \in SUBSET Slots, Regenerate(S), NEW s \in Slots
    PROVE  (token'[s] = token[s] /\ teardowns'[s] = teardowns[s]) \/ teardowns'[s] > 0
BY DEF Regenerate, Rotated, TokensTypeOK

\* EnsureSlotPool replaces no token that somebody came with.
LEMMA ProvisionsOnly ==
    ASSUME TokensTypeOK, EnsureSlotPool, NEW s \in Slots, token[s] # 0
    PROVE  token'[s] = token[s]
BY DEF EnsureSlotPool, Provisioned

LEMMA AdmittedWithCauseKept ==
    ASSUME TokensTypeOK, UrlsShown, AdmittedWithCause, [TokensNext]_tokenVars
    PROVE  AdmittedWithCause'
<1> SUFFICES ASSUME NEW h \in handshakes', h.step = "checked"
             PROVE  (h.token = token[h.slot] \/ teardowns[h.slot] > 0 \/ h.overtaken)'
  BY DEF AdmittedWithCause
<1> DEFINE Goal == (h.token = token[h.slot] \/ teardowns[h.slot] > 0 \/ h.overtaken)'
<1>0. h \in Handshakes
  BY TypesKept DEF TokensTypeOK
\* Nothing but the one at the other end has changed of a handshake that was checked.
<1>1. ASSUME UNCHANGED <<token, teardowns>>, NEW g \in handshakes, g.step = "checked",
             h.token = g.token, h.slot = g.slot, h.overtaken = g.overtaken
      PROVE  Goal
  BY <1>1 DEF AdmittedWithCause
<1>2. ASSUME UNCHANGED <<token, teardowns>>, handshakes' \subseteq handshakes PROVE Goal
  BY <1>1, <1>2
<1>3. ASSUME UNCHANGED <<token, teardowns>>, NEW p \in Sources, handshakes' = Ghosts({p})
      PROVE  Goal
  BY <1>1, <1>3 DEF Ghosts, TokensTypeOK, Handshakes
<1>4. ASSUME NEW S \in SUBSET Slots, Regenerate(S) PROVE Goal
  <2>1. h \in handshakes /\ h.slot \in Slots
    BY <1>0, <1>4 DEF Regenerate, Handshakes
  <2> QED BY <1>4, <2>1, WritesOweTeardowns DEF AdmittedWithCause
<1>5. CASE EnsureSlotPool
  <2>1. h \in handshakes /\ h.slot \in Slots
    BY <1>0, <1>5 DEF EnsureSlotPool, Handshakes
  <2>2. h.token # 0
    BY <2>1 DEF UrlsShown, CameWithUrl
  <2>3. UNCHANGED teardowns
    BY <1>5 DEF EnsureSlotPool
  <2> QED BY <1>5, <2>1, <2>2, <2>3, ProvisionsOnly DEF AdmittedWithCause
<1>6. ASSUME NEW s \in Slots, TerminateSourceIfLive(s) PROVE Goal
  <2>1. PICK g \in handshakes :
           h = IF g.slot = s /\ g.step = "checked" /\ g.token # token[s]
               THEN [g EXCEPT !.overtaken = TRUE] ELSE g
    BY <1>6 DEF TerminateSourceIfLive
  <2>2. g \in Handshakes
    BY DEF TokensTypeOK
  <2>3. g.step = "checked" /\ h.token = g.token /\ h.slot = g.slot
    BY <2>1, <2>2 DEF Handshakes
  <2>4. CASE g.slot = s
    BY <1>6, <2>1, <2>2, <2>3, <2>4 DEF TerminateSourceIfLive, Handshakes
  <2>5. CASE g.slot # s
    BY <1>6, <2>1, <2>2, <2>3, <2>5 DEF TerminateSourceIfLive, Handshakes, AdmittedWithCause,
                                        TokensTypeOK
  <2> QED BY <2>4, <2>5
<1>7. ASSUME NEW p \in Sources, Dials(p) PROVE Goal
  <2>1. h \in handshakes
    BY <1>7 DEF Dials
  <2> QED BY <1>1, <1>7, <2>1 DEF Dials
<1>8. ASSUME NEW g \in handshakes, Rechecked(g) PROVE Goal
  <2>1. CASE h \in handshakes
    BY <1>1, <1>8, <2>1 DEF Rechecked, Rechecks
  <2>2. CASE h \notin handshakes
    BY <1>8, <2>2 DEF Rechecked, Rechecks, StillValid, TokensTypeOK, Handshakes
  <2> QED BY <2>1, <2>2
<1>9. ASSUME NEW p \in Sources, Loses(p) \/ Stops(p)
      PROVE  /\ UNCHANGED <<token, teardowns>>
             /\ handshakes' \subseteq handshakes \/ handshakes' = Ghosts({p})
  BY <1>9 DEF Loses, Stops
<1>10. ASSUME NEW p \in Sources, NEW t \in Slots, NEW g \in Tokens, Loads(p, t, g)
       PROVE  UNCHANGED <<token, teardowns>> /\ handshakes' = Ghosts({p})
  BY <1>10 DEF Loads
<1>11. ASSUME NEW g \in handshakes, JoinsRoom(g) \/ GhostFails(g)
       PROVE  UNCHANGED <<token, teardowns>> /\ handshakes' \subseteq handshakes
  BY <1>11 DEF JoinsRoom, GhostFails
<1>12. ASSUME NEW s \in Slots, GhostLeaves(s)
       PROVE  UNCHANGED <<token, teardowns>> /\ handshakes' \subseteq handshakes
  BY <1>12 DEF GhostLeaves
<1>13. ASSUME EndSession \/ UNCHANGED tokenVars
       PROVE  UNCHANGED <<token, teardowns>> /\ handshakes' \subseteq handshakes
  BY <1>13 DEF EndSession, tokenVars
<1>14. ~Restarts
  BY DEF Restarts
<1>15. ASSUME NEW s \in Slots, RegenerateSlot(s) PROVE Goal
  BY <1>4, <1>15 DEF RegenerateSlot
<1>16. CASE RegenerateAllSlots
  BY <1>4, <1>16 DEF RegenerateAllSlots
<1> QED BY <1>2, <1>3, <1>5, <1>6, <1>7, <1>8, <1>9, <1>10, <1>11, <1>12, <1>13, <1>14, <1>15,
           <1>16, TokensCases

LEMMA OldTokenIsOutKept ==
    ASSUME TokensTypeOK, UrlsShown, AdmittedWithCause, OldTokenIsOut, [TokensNext]_tokenVars
    PROVE  OldTokenIsOut'
<1> SUFFICES ASSUME NEW s \in Slots, inRoom'[s] # NoConn
             PROVE  inRoom'[s].token # token'[s] => teardowns'[s] > 0 \/ inRoom'[s].overtaken
  BY DEF OldTokenIsOut
<1> DEFINE Goal == inRoom'[s].token # token'[s] => teardowns'[s] > 0 \/ inRoom'[s].overtaken
<1>1. ASSUME token'[s] = token[s], teardowns'[s] = teardowns[s], inRoom[s] # NoConn,
             inRoom'[s].token = inRoom[s].token, inRoom'[s].overtaken = inRoom[s].overtaken
      PROVE  Goal
  BY <1>1 DEF OldTokenIsOut
<1>2. ASSUME UNCHANGED <<token, teardowns, inRoom>> PROVE Goal
  BY <1>1, <1>2
<1>3. ASSUME UNCHANGED <<token, teardowns>>, NEW p \in Sources, inRoom' = Left({p}) PROVE Goal
  <2>1. inRoom[s] # NoConn
    BY <1>3, SourceTokensAssumption DEF Left, NoConn
  <2> QED BY <1>1, <1>3, <2>1 DEF Left, TokensTypeOK, Conns
<1>4. ASSUME NEW S \in SUBSET Slots, Regenerate(S) PROVE Goal
  BY <1>1, <1>4, WritesOweTeardowns DEF Regenerate
<1>5. CASE EnsureSlotPool
  <2>1. inRoom' = inRoom /\ teardowns' = teardowns
    BY <1>5 DEF EnsureSlotPool
  <2>2. inRoom[s].token # 0
    BY <2>1 DEF UrlsShown, CameWithUrl
  <2> QED BY <1>5, <2>1, <2>2, ProvisionsOnly DEF OldTokenIsOut
<1>6. ASSUME NEW t \in Slots, TerminateSourceIfLive(t) PROVE Goal
  <2>1. t # s
    BY <1>6 DEF TerminateSourceIfLive, RotateSource, TokensTypeOK
  <2> QED BY <1>1, <1>6, <2>1 DEF TerminateSourceIfLive, RotateSource, TokensTypeOK
<1>7. ASSUME NEW h \in handshakes, JoinsRoom(h) PROVE Goal
  <2>1. CASE s = h.slot
    BY <1>7, <2>1 DEF JoinsRoom, AdmittedWithCause, TokensTypeOK
  <2>2. CASE s # h.slot
    BY <1>1, <1>7, <2>2 DEF JoinsRoom, TokensTypeOK
  <2> QED BY <2>1, <2>2
<1>8. ASSUME NEW t \in Slots, GhostLeaves(t) PROVE Goal
  BY <1>1, <1>8 DEF GhostLeaves, TokensTypeOK
<1>9. ASSUME NEW p \in Sources, Dials(p) \/ Loses(p) \/ Stops(p)
      PROVE  /\ UNCHANGED <<token, teardowns>>
             /\ inRoom' = inRoom \/ inRoom' = Left({p})
  BY <1>9 DEF Dials, Loses, Stops
<1>10. ASSUME NEW p \in Sources, NEW t \in Slots, NEW g \in Tokens, Loads(p, t, g)
       PROVE  UNCHANGED <<token, teardowns>> /\ inRoom' = Left({p})
  BY <1>10 DEF Loads
<1>11. ASSUME NEW h \in handshakes, Rechecked(h) \/ GhostFails(h)
       PROVE  UNCHANGED <<token, teardowns, inRoom>>
  BY <1>11 DEF Rechecked, Rechecks, GhostFails
<1>12. ~EndSession /\ ~Restarts
  BY DEF EndSession, Restarts
<1>13. ASSUME UNCHANGED tokenVars PROVE UNCHANGED <<token, teardowns, inRoom>>
  BY <1>13 DEF tokenVars
<1>14. ASSUME NEW t \in Slots, RegenerateSlot(t) PROVE Goal
  BY <1>4, <1>14 DEF RegenerateSlot
<1>15. CASE RegenerateAllSlots
  BY <1>4, <1>15 DEF RegenerateAllSlots
<1> QED BY <1>2, <1>3, <1>5, <1>6, <1>7, <1>8, <1>9, <1>10, <1>11, <1>12, <1>13, <1>14, <1>15,
           TokensCases

-----------------------------------------------------------------------------
LEMMA TokensInvHolds == TokensSpec => []TokensInv
<1>1. TokensInit => TokensInv
  <2> SUFFICES ASSUME TokensInit PROVE TokensInv
    OBVIOUS
  <2>1. TokensTypeOK
    BY SourceTokensAssumption DEF TokensInit, TokensTypeOK, Tokens, Conns
  <2>2. UrlsShown /\ AdmittedWithCause /\ OldTokenIsOut
    BY DEF TokensInit, UrlsShown, AdmittedWithCause, OldTokenIsOut
  <2> QED BY <2>1, <2>2 DEF TokensInv
<1>2. TokensInv /\ [TokensNext]_tokenVars => TokensInv'
  BY TypesKept, UrlsKept, AdmittedWithCauseKept, OldTokenIsOutKept DEF TokensInv
<1> QED BY <1>1, <1>2, PTL DEF TokensSpec

\* Every state of the tokens, the handshakes and the pages is well-typed, and a page that
\* was never loaded has no connection (sources.go, ws.go, obs.js).
THEOREM TokensTypeCorrect == TokensSpec => []TokensTypeOK
BY TokensInvHolds, PTL DEF TokensInv

\* regenerateSlot, sourceStillValid: a connection of a source that came in with a token
\* that was replaced since is about to be torn down, or had been admitted before the
\* write and joined after its teardown.
THEOREM RotationExpelsOldToken == TokensSpec => []OldTokenIsOut
BY TokensInvHolds, PTL DEF TokensInv
==================================================================================
