------------------------------- MODULE Retention -------------------------------
(***************************************************************************)
(* The two background jobs and the clock they run by: the purge of guest   *)
(* PII and of abuse reports (jobs/jobs.go, store/purge.go,                 *)
(* store/reports.go) and the idle-session reaper (jobs/reaper.go, all      *)
(* under internal), for one host with one stream, one pass, one report.    *)
(*                                                                         *)
(* Time is discrete and every clock is an age or a countdown, so the model *)
(* has no horizon: an age stops counting where nothing can tell it from a  *)
(* greater one.  A ticker that is due fires before time goes on.           *)
(***************************************************************************)
EXTENDS Integers

CONSTANTS
    PurgeRetention,  \* PURGE_RETENTION
    PurgeInterval,   \* PURGE_INTERVAL
    ReportRetention, \* REPORT_RETENTION
    Grace,           \* DefaultPurgeGrace
    IdleAfter,       \* REAP_IDLE_AFTER
    ReapInterval,    \* REAP_INTERVAL
    Ahead,           \* how far ahead a stream is scheduled
    None             \* no time

ASSUME RetentionAssumption ==
    /\ {PurgeRetention, PurgeInterval, ReportRetention, IdleAfter, ReapInterval} \subseteq Nat \ {0}
    /\ Grace \in Nat /\ Ahead \in Nat
    /\ None \notin Int

VARIABLES
    session,   \* the stream's last session: none, active or ended
    ended,     \* the age of its most recent ended_at, or None
    sched,     \* the age of its scheduled end, negative before it, or None
    pii,       \* the pass has a name or an e-mail address
    kept,      \* the age of what it has
    report,    \* the age of a report with its reporter and message, or None
    people,    \* somebody is connected to the greenroom
    up,        \* the process runs
    purgeIn,   \* ticks to the next sweep of the purge
    reapIn,    \* ticks to the next poll of the reaper
    idle,      \* idleSince: the age of the first poll that found nobody, or None
    missed,    \* the sweeps, of pii and report, that have not succeeded since a
               \* failure or a start
    quiet,     \* for how long nothing has happened but the ticks of both jobs
    seen       \* for how long no poll has seen anybody

rowVars == <<session, ended, sched, pii, kept, report>>
jobVars == <<purgeIn, reapIn, idle>>
vars == <<rowVars, people, up, jobVars, missed, quiet, seen>>

-----------------------------------------------------------------------------
\* sweep: one interval early, so that the last sweep in time is never too late.
\* Mutant: no interval early.
AgeInFull == PurgeRetention
Age == IF PurgeRetention > PurgeInterval THEN PurgeRetention - PurgeInterval ELSE 0

\* How long the abandonment of a live session may go on before its PII is gone.
Settled == IdleAfter + 2 * ReapInterval + PurgeRetention

EndCap == PurgeRetention + 1
SchedCap == PurgeRetention + Grace + 1
KeptCap == PurgeInterval + 1
ReportCap == ReportRetention + PurgeInterval + 1
Aged(age, cap) == IF age = None \/ age >= cap THEN age ELSE age + 1

\* PurgeGuestPII: no session in progress, and the last end or, for a stream that
\* never ran, the scheduled one is long enough ago.
Eligible ==
    /\ session # "active"
    /\ IF ended # None THEN ended >= Age
       ELSE session = "none" /\ sched # None /\ sched >= Age + Grace

Init ==
    /\ session = "none" /\ ended = None /\ sched = None
    /\ pii = FALSE /\ kept = 0 /\ report = None /\ people = FALSE
    /\ up = TRUE /\ purgeIn = 0 /\ reapIn = 0 /\ idle = None
    /\ missed = {"pii", "report"} /\ quiet = 0 /\ seen = 0

Tick ==
    /\ up => purgeIn > 0 /\ reapIn > 0
    /\ ended' = Aged(ended, EndCap) /\ sched' = Aged(sched, SchedCap)
    /\ kept' = IF pii THEN Aged(kept, KeptCap) ELSE 0
    /\ report' = Aged(report, ReportCap)
    /\ purgeIn' = IF up THEN purgeIn - 1 ELSE 0
    /\ reapIn' = IF up THEN reapIn - 1 ELSE 0
    /\ idle' = Aged(idle, IdleAfter)
    /\ quiet' = IF up /\ ~people THEN Aged(quiet, Settled) ELSE 0
    /\ seen' = IF up THEN Aged(seen, IdleAfter) ELSE 0
    /\ UNCHANGED <<session, pii, people, up, missed>>

-----------------------------------------------------------------------------
(* The jobs *)

\* AnonymizeExpiredReports.
Anonymized(fails) ==
    IF "report" \notin fails /\ report # None /\ report > ReportRetention THEN None ELSE report
Purged(fails) == "pii" \notin fails /\ Eligible

\* runOnce: the two are independent; an error is logged and the next sweep tries again.
Sweep(fails) ==
    /\ up /\ purgeIn = 0
    /\ purgeIn' = PurgeInterval
    /\ pii' = (pii /\ ~Purged(fails))
    /\ kept' = IF Purged(fails) THEN 0 ELSE kept
    /\ report' = Anonymized(fails)
    /\ missed' = fails
    /\ quiet' = IF "pii" \in fails THEN 0 ELSE quiet
    /\ UNCHANGED <<session, ended, sched, people, up, reapIn, idle, seen>>

Poll == up /\ reapIn = 0 /\ reapIn' = ReapInterval

\* ActiveSessionHostIDs; ParticipantCount counts no source pages.
Listed == session = "active"
Occupied == people

\* A host that is not live is not tracked; somebody connected resets the clock.
\* Mutant: the clock survives somebody who was seen.
SightedKeeps == UNCHANGED idle
Sighted == idle' = None

PollInactive ==
    /\ Poll /\ ~Listed
    /\ idle' = None
    /\ UNCHANGED <<rowVars, people, up, purgeIn, missed, quiet, seen>>

PollOccupied ==
    /\ Poll /\ Listed /\ Occupied
    /\ Sighted /\ seen' = 0
    /\ UNCHANGED <<rowVars, people, up, purgeIn, missed, quiet>>

IdleLongEnough == idle # None /\ idle >= IdleAfter

\* The first poll that finds nobody starts the clock, the next ones wait for it.
\* Mutant: each starts it again.
ClockRestarted == 0
Clock == IF idle = None THEN 0 ELSE idle

PollIdle ==
    /\ Poll /\ Listed /\ ~Occupied
    /\ ~IdleLongEnough
    /\ idle' = Clock
    /\ UNCHANGED <<rowVars, people, up, purgeIn, missed, quiet, seen>>

\* ReapIfIdle, EndActiveSession.
EndedNow == session' = "ended" /\ ended' = 0

PollReaps ==
    /\ Poll /\ Listed /\ ~Occupied /\ IdleLongEnough
    /\ EndedNow /\ idle' = None
    /\ UNCHANGED <<sched, pii, kept, report, people, up, purgeIn, missed, quiet, seen>>

\* The end of the session fails: the clock is kept for the next poll.
PollFails ==
    /\ Poll /\ Listed /\ ~Occupied /\ IdleLongEnough
    /\ quiet' = 0
    /\ UNCHANGED <<rowVars, people, up, purgeIn, idle, missed, seen>>

\* Listing the active sessions fails.
ListFails ==
    /\ Poll /\ quiet' = 0
    /\ UNCHANGED <<rowVars, people, up, purgeIn, idle, missed, seen>>

-----------------------------------------------------------------------------
(* The rest of the program *)

\* Invites, renames: at any time, also after the stream.
WritePII ==
    /\ up
    /\ pii' = TRUE /\ kept' = 0 /\ quiet' = 0
    /\ UNCHANGED <<session, ended, sched, report, people, up, jobVars, missed, seen>>

Schedule(at) ==
    /\ up
    /\ sched' = at /\ quiet' = 0
    /\ UNCHANGED <<session, ended, pii, kept, report, people, up, jobVars, missed, seen>>

FileReport ==
    /\ up /\ report = None /\ report' = 0
    /\ UNCHANGED <<session, ended, sched, pii, kept, people, up, jobVars, missed, quiet, seen>>

Dismiss ==
    /\ up /\ report # None /\ report' = None
    /\ UNCHANGED <<session, ended, sched, pii, kept, people, up, jobVars, missed, quiet, seen>>

StartSession ==
    /\ up /\ session # "active"
    /\ session' = "active" /\ quiet' = 0
    /\ UNCHANGED <<ended, sched, pii, kept, report, people, up, jobVars, missed, seen>>

\* The end takes the room down with everybody in it.
EndSession ==
    /\ up /\ session = "active"
    /\ EndedNow /\ people' = FALSE
    /\ UNCHANGED <<sched, pii, kept, report, up, jobVars, missed, quiet, seen>>

Arrive ==
    /\ up /\ ~people
    /\ people' = TRUE /\ quiet' = 0
    /\ UNCHANGED <<rowVars, up, jobVars, missed, seen>>

Depart ==
    /\ people /\ people' = FALSE
    /\ UNCHANGED <<rowVars, up, jobVars, missed, quiet, seen>>

\* Both jobs sweep once as soon as they start; the reaper starts with no clocks.
Stop ==
    /\ up
    /\ up' = FALSE /\ people' = FALSE
    /\ purgeIn' = 0 /\ reapIn' = 0 /\ idle' = None
    /\ missed' = {"pii", "report"} /\ quiet' = 0 /\ seen' = 0
    /\ UNCHANGED rowVars

Start ==
    /\ ~up /\ up' = TRUE
    /\ UNCHANGED <<rowVars, people, jobVars, missed, quiet, seen>>

Next ==
    \/ Tick \/ \E fails \in SUBSET {"pii", "report"} : Sweep(fails)
    \/ PollInactive \/ PollOccupied \/ PollIdle \/ PollReaps \/ PollFails \/ ListFails
    \/ WritePII \/ \E at \in {None, -Ahead} : Schedule(at)
    \/ FileReport \/ Dismiss
    \/ StartSession \/ EndSession \/ Arrive \/ Depart \/ Stop \/ Start

Spec == Init /\ [][Next]_vars

-----------------------------------------------------------------------------
(* Properties *)

\* Ages and countdowns stay within their bounds, and nothing runs while the
\* process is down.
RetentionTypeOK ==
    /\ session \in {"none", "active", "ended"}
    /\ ended \in 0..EndCap \cup {None}
    /\ session = "none" => ended = None
    /\ session = "ended" => ended # None
    /\ sched \in -Ahead..SchedCap \cup {None}
    /\ pii \in BOOLEAN /\ kept \in 0..KeptCap
    /\ report \in 0..ReportCap \cup {None}
    /\ people \in BOOLEAN /\ up \in BOOLEAN /\ missed \subseteq {"pii", "report"}
    /\ purgeIn \in 0..PurgeInterval /\ reapIn \in 0..ReapInterval
    /\ idle \in 0..IdleAfter \cup {None}
    /\ quiet \in 0..Settled /\ seen \in 0..IdleAfter
    /\ ~up => ~people /\ idle = None

GuestsForgotten ==
    up /\ "pii" \notin missed /\ pii =>
        /\ session = "ended" => ended <= PurgeRetention \/ kept <= PurgeInterval
        /\ session = "none" /\ sched # None =>
              sched <= PurgeRetention + Grace \/ kept <= PurgeInterval

\* AnonymizeExpiredReports has no early sweep.
ReportersForgotten ==
    up /\ "report" \notin missed /\ report # None => report <= ReportRetention + PurgeInterval

\* The promise of the terms of use: the PII of a stream that ended, or was never held,
\* is gone within PURGE_RETENTION of its last end, what is written later within an
\* interval, and a report is anonymous within an interval of REPORT_RETENTION,
\* however the end falls between two sweeps; a failed sweep of one kind does not hold
\* up the other, and it and a process that is down are made good by the next
\* successful sweep.
PurgedInTime == GuestsForgotten /\ ReportersForgotten

\* The two jobs together: a live session that everybody has left is reaped and its
\* PII purged in less than Settled, whatever the order of their ticks.
AbandonedIsPurged ==
    session # "none" /\ quiet >= Settled => ~pii

\* sweep of the reaper: no session is ended by it within REAP_IDLE_AFTER of a poll
\* that saw somebody, or of the start of the process.
SeenIsSpared ==
    [][PollReaps => seen >= IdleAfter]_vars
===============================================================================
