----------------------------- MODULE RetentionProofs -----------------------------
(***************************************************************************)
(* What holds of the background jobs for every choice of the retention     *)
(* times and the intervals, the one of the purge within what the comment   *)
(* of sweep (jobs.go) asks for.                                            *)
(***************************************************************************)
EXTENDS Retention, TLAPS

\* How long ago the purge swept or started.
SinceSweep == PurgeInterval - purgeIn

\* What a purge that has not failed leaves was written since, or belongs to a stream that
\* was not old enough at the sweep.
GuestsAge ==
    up /\ "pii" \notin missed /\ pii =>
       /\ session = "ended" => ended <= Age + SinceSweep \/ kept <= SinceSweep
       /\ session = "none" /\ sched # None => sched <= Age + Grace + SinceSweep \/ kept <= SinceSweep

ReportsAge ==
    up /\ "report" \notin missed /\ report # None => report <= ReportRetention + SinceSweep

\* The reaper's clock counts no longer than nobody has been seen.
ClockIsHonest == idle # None => idle <= seen

\* The jobs are quiet only while they run and nobody is there.
QuietIsQuiet == ~up \/ people => quiet = 0

\* An abandoned session is found idle by the next poll and ended by the one after the
\* clock ran out.
ReapedSoon ==
    /\ session = "active" /\ idle = None => quiet <= ReapInterval - reapIn
    /\ session = "active" /\ idle # None /\ idle < IdleAfter => quiet <= ReapInterval + idle
    /\ session = "active" => quiet <= IdleAfter + 2 * ReapInterval - reapIn
    /\ session = "ended" /\ ended < EndCap => quiet <= IdleAfter + 2 * ReapInterval + ended

\* While it is quiet, an ended stream is purged before the retention is over.
PurgedSoon ==
    pii /\ session = "ended" =>
       \/ ended <= Age - 1 + SinceSweep
       \/ quiet <= SinceSweep

RetentionInv == RetentionTypeOK /\ GuestsAge /\ ReportsAge /\ ClockIsHonest

-----------------------------------------------------------------------------
LEMMA RetentionTypesKept == RetentionTypeOK /\ [Next]_vars => RetentionTypeOK'
<1> SUFFICES ASSUME RetentionTypeOK, [Next]_vars PROVE RetentionTypeOK'
  OBVIOUS
<1> USE RetentionAssumption
        DEF RetentionTypeOK, EndCap, SchedCap, KeptCap, ReportCap, Settled, rowVars, jobVars
<1>1. CASE Tick
  <2>1. ended' \in 0..EndCap \cup {None} /\ (ended # None => ended' # None)
        /\ (session = "none" => ended' = None)
    BY <1>1 DEF Tick, Aged
  <2>2. sched' \in -Ahead..SchedCap \cup {None}
    BY <1>1 DEF Tick, Aged
  <2>3. kept' \in 0..KeptCap /\ report' \in 0..ReportCap \cup {None}
    BY <1>1 DEF Tick, Aged
  <2>4. /\ purgeIn' \in 0..PurgeInterval /\ reapIn' \in 0..ReapInterval
        /\ idle' \in 0..IdleAfter \cup {None} /\ (~up => idle' = None)
    BY <1>1 DEF Tick, Aged
  <2>5. quiet' \in 0..Settled /\ seen' \in 0..IdleAfter
    BY <1>1 DEF Tick, Aged
  <2> QED BY <1>1, <2>1, <2>2, <2>3, <2>4, <2>5 DEF Tick
<1>2. ASSUME NEW fails \in SUBSET {"pii", "report"}, Sweep(fails) PROVE RetentionTypeOK'
  BY <1>2 DEF Sweep, Purged, Anonymized
<1>3. CASE PollInactive
  BY <1>3 DEF PollInactive, Poll, Listed
<1>4. CASE PollOccupied
  BY <1>4 DEF PollOccupied, Poll, Sighted, Listed, Occupied
<1>5. CASE PollIdle
  BY <1>5 DEF PollIdle, Poll, Clock, IdleLongEnough, Listed, Occupied
<1>6. CASE PollReaps
  BY <1>6 DEF PollReaps, Poll, EndedNow, IdleLongEnough, Listed, Occupied
<1>7. CASE PollFails
  BY <1>7 DEF PollFails, Poll, Listed, IdleLongEnough, Occupied
<1>8. CASE ListFails
  BY <1>8 DEF ListFails, Poll
<1>9. CASE WritePII
  BY <1>9 DEF WritePII
<1>10. CASE FileReport
  BY <1>10 DEF FileReport
<1>11. CASE Dismiss
  BY <1>11 DEF Dismiss
<1>12. CASE StartSession
  BY <1>12 DEF StartSession
<1>13. CASE EndSession
  <2>1. ended' \in 0..EndCap /\ ended' # None /\ session' = "ended"
    BY <1>13 DEF EndSession, EndedNow
  <2>2. people' = FALSE /\ up' = up /\ up
    BY <1>13 DEF EndSession
  <2>3. UNCHANGED <<sched, pii, kept, report, missed, quiet, seen, purgeIn, reapIn, idle>>
    BY <1>13 DEF EndSession
  <2> QED BY <2>1, <2>2, <2>3
<1>14. CASE Arrive
  BY <1>14 DEF Arrive
<1>15. CASE Depart
  BY <1>15 DEF Depart
<1>16. CASE Stop
  <2>1. /\ purgeIn' \in 0..PurgeInterval /\ reapIn' \in 0..ReapInterval
        /\ quiet' \in 0..Settled /\ seen' \in 0..IdleAfter
    BY <1>16 DEF Stop
  <2>2. up' = FALSE /\ people' = FALSE /\ idle' = None /\ missed' = {"pii", "report"}
    BY <1>16 DEF Stop
  <2> QED BY <1>16, <2>1, <2>2 DEF Stop
<1>17. CASE Start
  BY <1>17 DEF Start
<1>18. ASSUME NEW at \in {None, -Ahead}, Schedule(at) PROVE RetentionTypeOK'
  BY <1>18 DEF Schedule
<1>19. CASE UNCHANGED vars
  BY <1>19 DEF vars
<1> QED BY <1>1, <1>2, <1>3, <1>4, <1>5, <1>6, <1>7, <1>8, <1>9, <1>10, <1>11, <1>12, <1>13,
           <1>14, <1>15, <1>16, <1>17, <1>18, <1>19 DEF Next

\* An age grows by one at most.
LEMMA AgedByOne ==
    ASSUME NEW age, NEW cap \in Int, age \in Int \cup {None}
    PROVE  /\ age \in Int => Aged(age, cap) \in Int /\ Aged(age, cap) <= age + 1
           /\ age = None => Aged(age, cap) = None
BY RetentionAssumption DEF Aged

LEMMA GuestsAgeKept == RetentionTypeOK /\ GuestsAge /\ [Next]_vars => GuestsAge'
<1> SUFFICES ASSUME RetentionTypeOK, GuestsAge, [Next]_vars PROVE GuestsAge'
  OBVIOUS
<1> USE RetentionAssumption
        DEF RetentionTypeOK, EndCap, SchedCap, KeptCap, SinceSweep, Age, rowVars, jobVars
<1>1. CASE Tick
  BY <1>1 DEF Tick, Aged, GuestsAge
<1>2. ASSUME NEW fails \in SUBSET {"pii", "report"}, Sweep(fails) PROVE GuestsAge'
  BY <1>2 DEF Sweep, Purged, Eligible, GuestsAge
<1>3. CASE PollInactive
  BY <1>3 DEF PollInactive, Poll, Listed, GuestsAge
<1>4. CASE PollOccupied
  BY <1>4 DEF PollOccupied, Poll, Sighted, Listed, Occupied, GuestsAge
<1>5. CASE PollIdle
  BY <1>5 DEF PollIdle, Poll, Clock, IdleLongEnough, Listed, Occupied, GuestsAge
<1>6. CASE PollReaps
  BY <1>6 DEF PollReaps, Poll, EndedNow, IdleLongEnough, Listed, Occupied, GuestsAge
<1>7. CASE PollFails
  BY <1>7 DEF PollFails, Poll, Listed, IdleLongEnough, Occupied, GuestsAge
<1>8. CASE ListFails
  BY <1>8 DEF ListFails, Poll, GuestsAge
<1>9. CASE WritePII
  BY <1>9 DEF WritePII, GuestsAge
<1>10. CASE FileReport
  BY <1>10 DEF FileReport, GuestsAge
<1>11. CASE Dismiss
  BY <1>11 DEF Dismiss, GuestsAge
<1>12. CASE StartSession
  BY <1>12 DEF StartSession, GuestsAge
<1>13. CASE EndSession
  BY <1>13 DEF EndSession, EndedNow, GuestsAge
<1>14. CASE Arrive
  BY <1>14 DEF Arrive, GuestsAge
<1>15. CASE Depart
  BY <1>15 DEF Depart, GuestsAge
<1>16. CASE Stop
  BY <1>16 DEF Stop, GuestsAge
<1>17. CASE Start
  BY <1>17 DEF Start, GuestsAge
<1>18. ASSUME NEW at \in {None, -Ahead}, Schedule(at) PROVE GuestsAge'
  BY <1>18 DEF Schedule, GuestsAge
<1>19. CASE UNCHANGED vars
  BY <1>19 DEF vars, GuestsAge
<1> QED BY <1>1, <1>2, <1>3, <1>4, <1>5, <1>6, <1>7, <1>8, <1>9, <1>10, <1>11, <1>12, <1>13,
           <1>14, <1>15, <1>16, <1>17, <1>18, <1>19 DEF Next

LEMMA ReportsAgeKept == RetentionTypeOK /\ ReportsAge /\ [Next]_vars => ReportsAge'
<1> SUFFICES ASSUME RetentionTypeOK, ReportsAge, [Next]_vars PROVE ReportsAge'
  OBVIOUS
<1> USE RetentionAssumption DEF RetentionTypeOK, ReportCap, SinceSweep, rowVars, jobVars
<1>1. CASE Tick
  BY <1>1 DEF Tick, Aged, ReportsAge
<1>2. ASSUME NEW fails \in SUBSET {"pii", "report"}, Sweep(fails) PROVE ReportsAge'
  BY <1>2 DEF Sweep, Anonymized, ReportsAge
<1>3. CASE PollInactive
  BY <1>3 DEF PollInactive, Poll, Listed, ReportsAge
<1>4. CASE PollOccupied
  BY <1>4 DEF PollOccupied, Poll, Sighted, Listed, Occupied, ReportsAge
<1>5. CASE PollIdle
  BY <1>5 DEF PollIdle, Poll, Clock, IdleLongEnough, Listed, Occupied, ReportsAge
<1>6. CASE PollReaps
  BY <1>6 DEF PollReaps, Poll, EndedNow, IdleLongEnough, Listed, Occupied, ReportsAge
<1>7. CASE PollFails
  BY <1>7 DEF PollFails, Poll, Listed, IdleLongEnough, Occupied, ReportsAge
<1>8. CASE ListFails
  BY <1>8 DEF ListFails, Poll, ReportsAge
<1>9. CASE WritePII
  BY <1>9 DEF WritePII, ReportsAge
<1>10. CASE FileReport
  BY <1>10 DEF FileReport, ReportsAge
<1>11. CASE Dismiss
  BY <1>11 DEF Dismiss, ReportsAge
<1>12. CASE StartSession
  BY <1>12 DEF StartSession, ReportsAge
<1>13. CASE EndSession
  BY <1>13 DEF EndSession, EndedNow, ReportsAge
<1>14. CASE Arrive
  BY <1>14 DEF Arrive, ReportsAge
<1>15. CASE Depart
  BY <1>15 DEF Depart, ReportsAge
<1>16. CASE Stop
  BY <1>16 DEF Stop, ReportsAge
<1>17. CASE Start
  BY <1>17 DEF Start, ReportsAge
<1>18. ASSUME NEW at \in {None, -Ahead}, Schedule(at) PROVE ReportsAge'
  BY <1>18 DEF Schedule, ReportsAge
<1>19. CASE UNCHANGED vars
  BY <1>19 DEF vars, ReportsAge
<1> QED BY <1>1, <1>2, <1>3, <1>4, <1>5, <1>6, <1>7, <1>8, <1>9, <1>10, <1>11, <1>12, <1>13,
           <1>14, <1>15, <1>16, <1>17, <1>18, <1>19 DEF Next

LEMMA ClockIsHonestKept == RetentionTypeOK /\ ClockIsHonest /\ [Next]_vars => ClockIsHonest'
<1> SUFFICES ASSUME RetentionTypeOK, ClockIsHonest, [Next]_vars PROVE ClockIsHonest'
  OBVIOUS
<1> USE RetentionAssumption DEF RetentionTypeOK, rowVars, jobVars, ClockIsHonest
<1>1. CASE Tick
  BY <1>1 DEF Tick, Aged
<1>2. ASSUME NEW fails \in SUBSET {"pii", "report"}, Sweep(fails) PROVE ClockIsHonest'
  BY <1>2 DEF Sweep
<1>3. CASE PollInactive
  BY <1>3 DEF PollInactive, Poll, Listed
<1>4. CASE PollOccupied
  BY <1>4 DEF PollOccupied, Poll, Sighted, Listed, Occupied
<1>5. CASE PollIdle
  BY <1>5 DEF PollIdle, Poll, Clock, IdleLongEnough, Listed, Occupied
<1>6. CASE PollReaps
  BY <1>6 DEF PollReaps, Poll, EndedNow, IdleLongEnough, Listed, Occupied
<1>7. CASE PollFails
  BY <1>7 DEF PollFails, Poll, Listed, IdleLongEnough, Occupied
<1>8. CASE ListFails
  BY <1>8 DEF ListFails, Poll
<1>9. CASE WritePII
  BY <1>9 DEF WritePII
<1>10. CASE FileReport
  BY <1>10 DEF FileReport
<1>11. CASE Dismiss
  BY <1>11 DEF Dismiss
<1>12. CASE StartSession
  BY <1>12 DEF StartSession
<1>13. CASE EndSession
  BY <1>13 DEF EndSession, EndedNow
<1>14. CASE Arrive
  BY <1>14 DEF Arrive
<1>15. CASE Depart
  BY <1>15 DEF Depart
<1>16. CASE Stop
  BY <1>16 DEF Stop
<1>17. CASE Start
  BY <1>17 DEF Start
<1>18. ASSUME NEW at \in {None, -Ahead}, Schedule(at) PROVE ClockIsHonest'
  BY <1>18 DEF Schedule
<1>19. CASE UNCHANGED vars
  BY <1>19 DEF vars
<1> QED BY <1>1, <1>2, <1>3, <1>4, <1>5, <1>6, <1>7, <1>8, <1>9, <1>10, <1>11, <1>12, <1>13,
           <1>14, <1>15, <1>16, <1>17, <1>18, <1>19 DEF Next
LEMMA QuietIsQuietKept == RetentionTypeOK /\ QuietIsQuiet /\ [Next]_vars => QuietIsQuiet'
<1> SUFFICES ASSUME RetentionTypeOK, QuietIsQuiet, [Next]_vars PROVE QuietIsQuiet'
  OBVIOUS
<1> USE RetentionAssumption DEF RetentionTypeOK, QuietIsQuiet, rowVars, jobVars
<1>1. CASE Tick
  BY <1>1 DEF Tick, Aged
<1>2. ASSUME NEW fails \in SUBSET {"pii", "report"}, Sweep(fails) PROVE QuietIsQuiet'
  BY <1>2 DEF Sweep
<1>3. CASE PollInactive
  BY <1>3 DEF PollInactive, Poll, Listed
<1>4. CASE PollOccupied
  BY <1>4 DEF PollOccupied, Poll, Sighted, Listed, Occupied
<1>5. CASE PollIdle
  BY <1>5 DEF PollIdle, Poll, Clock, IdleLongEnough, Listed, Occupied
<1>6. CASE PollReaps
  BY <1>6 DEF PollReaps, Poll, EndedNow, IdleLongEnough, Listed, Occupied
<1>7. CASE PollFails
  BY <1>7 DEF PollFails, Poll, Listed, IdleLongEnough, Occupied
<1>8. CASE ListFails
  BY <1>8 DEF ListFails, Poll
<1>9. CASE WritePII
  BY <1>9 DEF WritePII
<1>10. CASE FileReport
  BY <1>10 DEF FileReport
<1>11. CASE Dismiss
  BY <1>11 DEF Dismiss
<1>12. CASE StartSession
  BY <1>12 DEF StartSession
<1>13. CASE EndSession
  BY <1>13 DEF EndSession, EndedNow
<1>14. CASE Arrive
  BY <1>14 DEF Arrive
<1>15. CASE Depart
  BY <1>15 DEF Depart
<1>16. CASE Stop
  BY <1>16 DEF Stop
<1>17. CASE Start
  BY <1>17 DEF Start
<1>18. ASSUME NEW at \in {None, -Ahead}, Schedule(at) PROVE QuietIsQuiet'
  BY <1>18 DEF Schedule
<1>19. CASE UNCHANGED vars
  BY <1>19 DEF vars
<1> QED BY <1>1, <1>2, <1>3, <1>4, <1>5, <1>6, <1>7, <1>8, <1>9, <1>10, <1>11, <1>12, <1>13,
           <1>14, <1>15, <1>16, <1>17, <1>18, <1>19 DEF Next

LEMMA ReapedSoonKept == RetentionTypeOK /\ QuietIsQuiet /\ ReapedSoon /\ [Next]_vars => ReapedSoon'
<1> SUFFICES ASSUME RetentionTypeOK, QuietIsQuiet, ReapedSoon, [Next]_vars PROVE ReapedSoon'
  OBVIOUS
<1> USE RetentionAssumption DEF RetentionTypeOK, QuietIsQuiet, EndCap, rowVars, jobVars
<1>1. CASE Tick
  <2>1. (up => reapIn > 0 /\ reapIn' = reapIn - 1) /\ session' = session
    BY <1>1 DEF Tick
  <2>2. quiet' <= quiet + 1 /\ (quiet' > 0 => up) /\ quiet' >= 0
    BY <1>1 DEF Tick, Aged, Settled
  <2>3. idle = None => idle' = None
    BY <1>1 DEF Tick, Aged
  <2>4. idle # None => idle' # None /\ (idle < IdleAfter => idle' = idle + 1)
                       /\ (idle >= IdleAfter => idle' >= IdleAfter)
    BY <1>1 DEF Tick, Aged
  <2>5. ended # None => ended' # None /\ (ended < EndCap => ended' = ended + 1)
                        /\ (ended >= EndCap => ended' >= EndCap)
    BY <1>1 DEF Tick, Aged, EndCap
  <2>6. reapIn' \in 0..ReapInterval
    BY <1>1, RetentionTypesKept
  <2>7. idle = None \/ idle \in 0..IdleAfter
    OBVIOUS
  <2>8. CASE ~up
    <3>1. quiet' = 0 /\ quiet = 0
      BY <2>2, <2>8
    <3> QED BY <2>3, <2>4, <2>5, <2>6, <2>7, <3>1, RetentionTypesKept DEF ReapedSoon
  <2>9. CASE up
    <3>1. /\ {IdleAfter, ReapInterval, quiet, quiet', reapIn, reapIn'} \subseteq Int
          /\ reapIn' = reapIn - 1 /\ session' = session /\ quiet' <= quiet + 1
          /\ reapIn' <= ReapInterval
      BY <2>1, <2>2, <2>6, <2>9, RetentionTypesKept
    <3>2. session' = "active" /\ idle' = None => quiet' <= ReapInterval - reapIn'
      BY <2>4, <3>1 DEF ReapedSoon
    <3>3. ASSUME session' = "active", idle' # None, idle' < IdleAfter
          PROVE  quiet' <= ReapInterval + idle'
      <4>1. idle # None /\ idle \in Int /\ idle < IdleAfter /\ idle' = idle + 1
        BY <2>3, <2>4, <2>7, <3>1, <3>3, RetentionTypesKept
      <4>2. quiet <= ReapInterval + idle
        BY <3>1, <3>3, <4>1 DEF ReapedSoon
      <4> HIDE DEF RetentionTypeOK, QuietIsQuiet
      <4> QED BY <3>1, <4>1, <4>2
    <3>4. ASSUME session' = "active" PROVE quiet' <= IdleAfter + 2 * ReapInterval - reapIn'
      <4>1. quiet <= IdleAfter + 2 * ReapInterval - reapIn
        BY <3>1, <3>4 DEF ReapedSoon
      <4> HIDE DEF RetentionTypeOK, QuietIsQuiet
      <4> QED BY <3>1, <4>1
    <3>5. ASSUME session' = "ended", ended' < EndCap
          PROVE  quiet' <= IdleAfter + 2 * ReapInterval + ended'
      <4>1. ended # None /\ ended \in Int
        BY <3>1, <3>5
      <4>2. ended < EndCap /\ ended' = ended + 1
        BY <2>5, <3>5, <4>1, RetentionTypesKept
      <4>3. quiet <= IdleAfter + 2 * ReapInterval + ended
        BY <3>1, <3>5, <4>2 DEF ReapedSoon
      <4> HIDE DEF RetentionTypeOK, QuietIsQuiet
      <4> QED BY <3>1, <4>1, <4>2, <4>3
    <3> QED BY <3>2, <3>3, <3>4, <3>5 DEF ReapedSoon
  <2> QED BY <2>8, <2>9
<1>2. ASSUME NEW fails \in SUBSET {"pii", "report"}, Sweep(fails) PROVE ReapedSoon'
  BY <1>2 DEF Sweep, ReapedSoon
<1>3. CASE PollInactive
  BY <1>3 DEF PollInactive, Poll, Listed, ReapedSoon
<1>4. CASE PollOccupied
  BY <1>4 DEF PollOccupied, Poll, Sighted, Listed, Occupied, ReapedSoon
<1>5. CASE PollIdle
  BY <1>5 DEF PollIdle, Poll, Clock, IdleLongEnough, Listed, Occupied, ReapedSoon
<1>6. CASE PollReaps
  BY <1>6 DEF PollReaps, Poll, EndedNow, IdleLongEnough, Listed, Occupied, ReapedSoon
<1>7. CASE PollFails
  BY <1>7 DEF PollFails, Poll, Listed, IdleLongEnough, Occupied, ReapedSoon
<1>8. CASE ListFails
  BY <1>8 DEF ListFails, Poll, ReapedSoon
<1>9. CASE WritePII
  BY <1>9 DEF WritePII, ReapedSoon
<1>10. CASE FileReport
  BY <1>10 DEF FileReport, ReapedSoon
<1>11. CASE Dismiss
  BY <1>11 DEF Dismiss, ReapedSoon
<1>12. CASE StartSession
  BY <1>12 DEF StartSession, ReapedSoon
<1>13. CASE EndSession
  BY <1>13 DEF EndSession, EndedNow, ReapedSoon
<1>14. CASE Arrive
  BY <1>14 DEF Arrive, ReapedSoon
<1>15. CASE Depart
  BY <1>15 DEF Depart, ReapedSoon
<1>16. CASE Stop
  BY <1>16 DEF Stop, ReapedSoon
<1>17. CASE Start
  BY <1>17 DEF Start, ReapedSoon
<1>18. ASSUME NEW at \in {None, -Ahead}, Schedule(at) PROVE ReapedSoon'
  BY <1>18 DEF Schedule, ReapedSoon
<1>19. CASE UNCHANGED vars
  BY <1>19 DEF vars, ReapedSoon
<1> QED BY <1>1, <1>2, <1>3, <1>4, <1>5, <1>6, <1>7, <1>8, <1>9, <1>10, <1>11, <1>12, <1>13,
           <1>14, <1>15, <1>16, <1>17, <1>18, <1>19 DEF Next

\* The purge runs more often than its retention is long.
LEMMA PurgedSoonKept == PurgeInterval < PurgeRetention /\ RetentionTypeOK /\ QuietIsQuiet /\ PurgedSoon /\ [Next]_vars => PurgedSoon'
<1> SUFFICES ASSUME RetentionTypeOK, QuietIsQuiet, PurgedSoon,
                    PurgeInterval < PurgeRetention, [Next]_vars PROVE PurgedSoon'
  OBVIOUS
<1> USE RetentionAssumption DEF RetentionTypeOK, QuietIsQuiet, EndCap, SinceSweep, Age, Settled, rowVars, jobVars
<1>1. CASE Tick
  BY <1>1 DEF Tick, Aged, PurgedSoon
<1>2. ASSUME NEW fails \in SUBSET {"pii", "report"}, Sweep(fails) PROVE PurgedSoon'
  BY <1>2 DEF Sweep, Purged, Eligible, PurgedSoon
<1>3. CASE PollInactive
  BY <1>3 DEF PollInactive, Poll, Listed, PurgedSoon
<1>4. CASE PollOccupied
  BY <1>4 DEF PollOccupied, Poll, Sighted, Listed, Occupied, PurgedSoon
<1>5. CASE PollIdle
  BY <1>5 DEF PollIdle, Poll, Clock, IdleLongEnough, Listed, Occupied, PurgedSoon
<1>6. CASE PollReaps
  BY <1>6 DEF PollReaps, Poll, EndedNow, IdleLongEnough, Listed, Occupied, PurgedSoon
<1>7. CASE PollFails
  BY <1>7 DEF PollFails, Poll, Listed, IdleLongEnough, Occupied, PurgedSoon
<1>8. CASE ListFails
  BY <1>8 DEF ListFails, Poll, PurgedSoon
<1>9. CASE WritePII
  BY <1>9 DEF WritePII, PurgedSoon
<1>10. CASE FileReport
  BY <1>10 DEF FileReport, PurgedSoon
<1>11. CASE Dismiss
  BY <1>11 DEF Dismiss, PurgedSoon
<1>12. CASE StartSession
  BY <1>12 DEF StartSession, PurgedSoon
<1>13. CASE EndSession
  BY <1>13 DEF EndSession, EndedNow, PurgedSoon
<1>14. CASE Arrive
  BY <1>14 DEF Arrive, PurgedSoon
<1>15. CASE Depart
  BY <1>15 DEF Depart, PurgedSoon
<1>16. CASE Stop
  BY <1>16 DEF Stop, PurgedSoon
<1>17. CASE Start
  BY <1>17 DEF Start, PurgedSoon
<1>18. ASSUME NEW at \in {None, -Ahead}, Schedule(at) PROVE PurgedSoon'
  BY <1>18 DEF Schedule, PurgedSoon
<1>19. CASE UNCHANGED vars
  BY <1>19 DEF vars, PurgedSoon
<1> QED BY <1>1, <1>2, <1>3, <1>4, <1>5, <1>6, <1>7, <1>8, <1>9, <1>10, <1>11, <1>12, <1>13,
           <1>14, <1>15, <1>16, <1>17, <1>18, <1>19 DEF Next

-----------------------------------------------------------------------------
LEMMA InitTypes == Init => RetentionTypeOK
<1> SUFFICES ASSUME Init PROVE RetentionTypeOK
  OBVIOUS
<1> USE RetentionAssumption DEF Init, EndCap, SchedCap, KeptCap, ReportCap, Settled
<1>1. ended \in 0..EndCap \cup {None} /\ sched \in -Ahead..SchedCap \cup {None}
      /\ report \in 0..ReportCap \cup {None} /\ idle \in 0..IdleAfter \cup {None}
  OBVIOUS
<1>2. kept \in 0..KeptCap /\ purgeIn \in 0..PurgeInterval /\ reapIn \in 0..ReapInterval
      /\ quiet \in 0..Settled /\ seen \in 0..IdleAfter
  OBVIOUS
<1> QED BY <1>1, <1>2 DEF RetentionTypeOK

LEMMA RetentionInvHolds == Spec => []RetentionInv
<1>1. Init => RetentionInv
  <2>1. Init => GuestsAge /\ ReportsAge /\ ClockIsHonest
    BY DEF Init, GuestsAge, ReportsAge, ClockIsHonest
  <2> QED BY <2>1, InitTypes DEF RetentionInv
<1>2. RetentionInv /\ [Next]_vars => RetentionInv'
  BY RetentionTypesKept, GuestsAgeKept, ReportsAgeKept, ClockIsHonestKept DEF RetentionInv
<1> QED BY <1>1, <1>2, PTL DEF Spec

\* Ages and countdowns stay within their bounds (jobs.go, reaper.go).
THEOREM RetentionTypeCorrect == Spec => []RetentionTypeOK
BY RetentionInvHolds, PTL DEF RetentionInv

\* PurgeGuestPII, AnonymizeExpiredReports, sweep: the promise of the terms of use holds
\* for every retention and every interval that is not longer, as the comment of sweep
\* asks for, however the end of a stream falls between two sweeps.
THEOREM PurgeIsInTime ==
    ASSUME PurgeInterval <= PurgeRetention
    PROVE  Spec => []PurgedInTime
<1>1. RetentionInv => PurgedInTime
  <2> SUFFICES ASSUME RetentionInv PROVE GuestsForgotten /\ ReportersForgotten
    BY DEF PurgedInTime
  <2> USE RetentionAssumption DEF RetentionInv, RetentionTypeOK
  <2>1. SinceSweep <= PurgeInterval /\ SinceSweep \in Int /\ Age + PurgeInterval = PurgeRetention
    BY DEF SinceSweep, Age
  <2>2. Age \in Int
    BY DEF Age
  <2>3. GuestsForgotten
    BY <2>1, <2>2 DEF GuestsAge, GuestsForgotten, EndCap, SchedCap, KeptCap
  <2>4. ReportersForgotten
    BY <2>1 DEF ReportsAge, ReportersForgotten, ReportCap
  <2> QED BY <2>3, <2>4
<1> QED BY <1>1, RetentionInvHolds, PTL

\* sweep of the reaper: it ends no session within REAP_IDLE_AFTER of a poll that saw
\* somebody, whatever the intervals.
THEOREM ReaperSparesTheSeen == Spec => SeenIsSpared
<1>1. RetentionInv /\ [Next]_vars => [PollReaps => seen >= IdleAfter]_vars
  <2> SUFFICES ASSUME RetentionInv, PollReaps PROVE seen >= IdleAfter
    OBVIOUS
  <2>1. idle # None /\ idle >= IdleAfter /\ idle <= seen /\ seen \in Int /\ idle \in Int
    BY DEF PollReaps, IdleLongEnough, RetentionInv, ClockIsHonest, RetentionTypeOK
  <2> QED BY <2>1, RetentionAssumption
<1> QED BY <1>1, RetentionInvHolds, PTL DEF Spec, SeenIsSpared

AbandonedInv == RetentionTypeOK /\ QuietIsQuiet /\ ReapedSoon /\ PurgedSoon

\* The reaper and the purge together: a live session that everybody has left is ended and
\* its PII purged in less than REAP_IDLE_AFTER, two polls and PURGE_RETENTION, however
\* their tickers interleave, if the purge sweeps more often than its retention is long.
THEOREM AbandonmentEnds ==
    ASSUME PurgeInterval < PurgeRetention
    PROVE  Spec => []AbandonedIsPurged
<1>1. Init => AbandonedInv
  <2>1. Init => QuietIsQuiet /\ ReapedSoon /\ PurgedSoon
    BY RetentionAssumption DEF Init, QuietIsQuiet, ReapedSoon, PurgedSoon
  <2> QED BY <2>1, InitTypes DEF AbandonedInv
<1>2. AbandonedInv /\ [Next]_vars => AbandonedInv'
  BY RetentionTypesKept, QuietIsQuietKept, ReapedSoonKept, PurgedSoonKept DEF AbandonedInv
<1>3. AbandonedInv => AbandonedIsPurged
  <2> SUFFICES ASSUME AbandonedInv, session # "none", quiet >= Settled, pii PROVE FALSE
    BY DEF AbandonedIsPurged, AbandonedInv, RetentionTypeOK
  <2> USE RetentionAssumption DEF AbandonedInv, RetentionTypeOK, Settled
  <2>1. session = "ended"
    BY DEF ReapedSoon
  <2>2. ended <= Age - 1 + SinceSweep
    BY <2>1 DEF PurgedSoon, SinceSweep
  <2>3. ended < PurgeRetention
    BY <2>1, <2>2 DEF Age, SinceSweep, EndCap
  <2> QED BY <2>1, <2>3 DEF ReapedSoon, EndCap
<1> QED BY <1>1, <1>2, <1>3, PTL DEF Spec
=================================================================================
