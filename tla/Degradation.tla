------------------------------ MODULE Degradation ------------------------------
(***************************************************************************)
(* The degradation ladder of one publishing page (web/src/rtc/degradation  *)
(* .js, with the targets of devicecheck.js and the consumers of            *)
(* publisher.js): a sampler that reads the senders' statistics, sheds      *)
(* thumbnails under cpu pressure, steps a link down under bandwidth        *)
(* pressure, recovers slowly, and keeps the program at the host's quality  *)
(* ceiling.  A sample is two steps apart (it awaits getStats), and each    *)
(* setParameters settles later, so consumers coming and going, the host's  *)
(* "bump quality now" and a new ceiling may all fall in between.           *)
(*                                                                         *)
(* Left out: the health bar and the round trip that a report carries.      *)
(***************************************************************************)
EXTENDS Integers, Sequences, SequencesExt, FiniteSets

CONSTANTS
    Programs,     \* keys of the protected senders: "pub:" and "scrn:" consumers
    Thumbs,       \* keys of the thumbnail senders: "mesh:" peers
    Priority,     \* thumbnail -> shed priority: 1 for a guest, 2 for a co-host
    Height,       \* the height of the captured video
    Ceilings,     \* the quality ceilings the host may set
    Narrow,       \* the senders whose link may be short of bandwidth
    Overrides,    \* the heights a source may ask for, 0 for none
    BandwidthSteps,\* BANDWIDTH_STEPS: the encodings a link is stepped down to
    RecoverStreak,\* clean samples before one step of recovery
    Renegotiating,\* the senders whose setParameters may fail
    MaxCalls      \* sender -> bound on its unsettled setParameters calls

Keys == Programs \cup Thumbs

ASSUME KeysAssumption ==
    /\ Programs \cap Thumbs = {} /\ Narrow \subseteq Keys
    /\ Priority \in [Thumbs -> {1, 2}]
ASSUME CeilingsAssumption ==
    /\ Height \in Nat \ {0} /\ Overrides \subseteq Nat
    /\ BandwidthSteps \in Seq([scale : Nat, fps : Nat, rate : Nat])
    /\ \A c \in Ceilings : c \in [res : Nat \ {0}, fps : Nat \ {0}, rate : Nat \ {0}]
    /\ Renegotiating \subseteq Keys /\ RecoverStreak \in Nat \ {0} /\ MaxCalls \in [Keys -> Nat]

VARIABLES
    programs,  \* the protected senders there are
    thumbs,    \* the thumbnail senders there are, in the order they joined
    enc,       \* sender -> the encoding the browser applies
    calls,     \* sender -> setParameters calls that have not settled, in order
    capped,    \* _capApplied: sender -> the signature last applied, or NoCap
    ceiling,   \* _ceiling, or NoCeiling
    override,  \* _overrides: protected sender -> height, 0 for none
    ladder,    \* the ladder's state: cpuLevel, bw, streak
    pass,      \* the sample in flight, or NoPass
    degraded,  \* the direction last reported to the host, "none" when healthy
    calm,      \* history: no limited reading since the host's last recover
    refused,   \* history: the senders of which, since then, a call failed and nobody
               \* calls again, until a program's ceiling is applied
    overtaken  \* history: the thumbnails behind which, since then, one opened that the
               \* ladder sheds before them

senderVars == <<programs, thumbs, enc, calls, capped>>
historyVars == <<calm, refused, overtaken>>
vars == <<senderVars, ceiling, override, ladder, pass, degraded, historyVars>>

Free == 0                       \* no maxFramerate, no maxBitrate
NoCeiling == [res |-> 0, fps |-> 0, rate |-> 0]
Baseline == [scale |-> 1, fps |-> Free, rate |-> Free]
NoCap == Baseline
Fresh == [active |-> TRUE, params |-> Baseline]
NoPass == [inFlight |-> FALSE]
StalePass == [inFlight |-> TRUE]   \* overtaken by a recover: it will be abandoned

AtRest == [cpuLevel |-> 0, bw |-> [k \in Keys |-> 0], streak |-> 0]
Present == programs \cup ToSet(thumbs)
Lesser(a, b) == IF a < b THEN a ELSE b

-----------------------------------------------------------------------------
(* The program's ceiling *)

\* The stream's ceiling, or the tighter height a source asked for.
CeilingParamsFor(k, c, ov) ==
    LET res == IF ov[k] = 0 THEN c.res ELSE Lesser(c.res, ov[k])
    IN  [scale |-> IF Height > res THEN Height \div res ELSE 1,
         fps |-> c.fps, rate |-> c.rate]

\* The encoding a sender ends up with when its calls are settled; getParameters is
\* served behind the calls made before it, so this is also what it returns.
Final(k) == IF calls[k] = <<>> THEN enc[k]
            ELSE [active |-> Last(calls[k]).active, params |-> Last(calls[k]).params]

\* A setParameters call replaces what the action names; memo is what a success
\* records.
Call(k, active, params, memo) ==
    [active |-> active, params |-> params, memo |-> memo]
CapCall(k, c, ov) ==
    LET cap == CeilingParamsFor(k, c, ov) IN Call(k, Final(k).active, cap, cap)

\* The senders that enforcing the ceiling addresses: protected, not shed below it,
\* and not known to be capped at it.
CapMissing(k, memo, bw, c, ov) ==
    bw[k] = 0 /\ memo[k] # CeilingParamsFor(k, c, ov)

\* _enforceCeiling, after the calls cs.
Enforced(cs, memo, bw, c, ov) ==
    [k \in Keys |->
        IF c # NoCeiling /\ k \in programs /\ CapMissing(k, memo, bw, c, ov)
        THEN Append(cs[k], CapCall(k, c, ov)) ELSE cs[k]]

SetCalls(new) == /\ \A k \in Keys : Len(new[k]) <= MaxCalls[k]
                 /\ calls' = new

-----------------------------------------------------------------------------
(* The ladder *)

\* The first to be shed is the first of the lowest priority. A protected sender is
\* never shed, so targets are the thumbnails only.
Before(t, k, targets) == \E i, j \in DOMAIN targets : i < j /\ targets[i] = t /\ targets[j] = k
ShedBefore(t, k, targets) ==
    Priority[t] < Priority[k] \/ (Priority[t] = Priority[k] /\ Before(t, k, targets))
Place(k, targets) == Cardinality({t \in ToSet(targets) : ShedBefore(t, k, targets)})
AtPlace(n, targets) == {k \in ToSet(targets) : Place(k, targets) = n}
Disabled(l, targets) == {k \in ToSet(targets) : Place(k, targets) < l.cpuLevel}

NoLimit == [reason |-> "none"]
CpuLimit == [reason |-> "cpu"]
LinkLimit(k) == [reason |-> "bandwidth", key |-> k]
\* What the readings of one sample come to: cpu first, else the first link that is
\* short of bandwidth.
Readings(keys) == {NoLimit, CpuLimit} \cup {LinkLimit(k) : k \in keys \cap Narrow}

NoAction == [key |-> {}]
Switch(k, on) == [key |-> {k}, active |-> on, params |-> Final(k).params]
Restep(k, step) ==
    [key |-> {k}, active |-> Final(k).active,
     params |-> IF step = 0 THEN Baseline ELSE BandwidthSteps[step]]
Plan(l, a, dir) == [ladder |-> l, action |-> a, dir |-> dir]

\* The level counts the senders that are still there.
Clamped(l, targets) ==
    [l EXCEPT !.cpuLevel = Lesser(@, Len(targets))]

ShedMore(l, targets) ==
    IF l.cpuLevel < Len(targets)
    THEN {Plan([l EXCEPT !.cpuLevel = @ + 1, !.streak = 0], Switch(k, FALSE), "lowering")
            : k \in AtPlace(l.cpuLevel, targets)}
    ELSE {Plan([l EXCEPT !.streak = 0], NoAction, "lowering")}

StepDown(l, k) ==
    IF l.bw[k] < Len(BandwidthSteps)
    THEN Plan([l EXCEPT !.bw[k] = @ + 1, !.streak = 0],
              Restep(k, l.bw[k] + 1), "lowering")
    ELSE Plan([l EXCEPT !.streak = 0], NoAction, "lowering")

Shedding(l) == l.cpuLevel > 0 \/ \E k \in Keys : l.bw[k] > 0

\* One step back, a link before an encoder, the encoder shed last first.
\* Mutant: the encoder shed first comes back first.
Recover(l, targets, n) ==
    LET reset == [l EXCEPT !.streak = 0]
        stepped == {k \in Keys : l.bw[k] > 0}
    IN  IF stepped # {}
        THEN {Plan([reset EXCEPT !.bw[k] = @ - 1], Restep(k, l.bw[k] - 1), "recovering")
                : k \in stepped}
        ELSE {Plan([reset EXCEPT !.cpuLevel = @ - 1], Switch(k, TRUE), "recovering")
                : k \in AtPlace(n, targets)}
RecoverFirst(l, targets) == Recover(l, targets, 0)
RecoverOne(l, targets) == Recover(l, targets, l.cpuLevel - 1)

Clean(l, targets) ==
    IF ~Shedding(l) THEN {Plan(l, NoAction, "none")}
    ELSE IF l.streak + 1 < RecoverStreak
    THEN {Plan([l EXCEPT !.streak = @ + 1], NoAction, "lowering")}
    ELSE RecoverOne(l, targets)

\* planLadder
PlanLadder(reading, targets) ==
    LET l == Clamped(ladder, targets)
    IN  CASE reading.reason = "cpu" -> ShedMore(l, targets)
          [] reading.reason = "bandwidth" -> {StepDown(l, reading.key)}
          [] OTHER -> Clean(l, targets)

-----------------------------------------------------------------------------
Init ==
    /\ programs = {} /\ thumbs = <<>>
    /\ enc = [k \in Keys |-> Fresh]
    /\ calls = [k \in Keys |-> <<>>]
    /\ capped = [k \in Keys |-> NoCap]
    /\ ceiling = NoCeiling /\ override = [k \in Programs |-> 0]
    /\ ladder = AtRest /\ pass = NoPass /\ degraded = "none"
    /\ calm = TRUE /\ refused = {} /\ overtaken = {}

\* A consumer or a peer connects: a new sender at full quality, without memo.  The
\* level still counts from the first to be shed, so it takes the place of another.
Overtakes(t) ==
    {k \in ToSet(thumbs) : /\ Priority[t] < Priority[k]
                           /\ ~Final(k).active \/ pass \notin {NoPass, StalePass}}
SenderOpens(k) ==
    /\ k \notin Present
    /\ IF k \in Programs
       THEN programs' = programs \cup {k} /\ UNCHANGED <<thumbs, overtaken>>
       ELSE /\ thumbs' = Append(thumbs, k) /\ UNCHANGED programs
            /\ overtaken' = overtaken \cup Overtakes(k)
    /\ enc' = [enc EXCEPT ![k] = Fresh]
    /\ calls' = [calls EXCEPT ![k] = <<>>]
    /\ capped' = [capped EXCEPT ![k] = NoCap]
    /\ UNCHANGED <<ceiling, override, ladder, pass, degraded, calm, refused>>

\* It disconnects; a pass in flight still knows the old sender by its key.
SenderCloses(k) ==
    /\ k \in Present
    /\ programs' = programs \ {k}
    /\ IF k \in Programs THEN UNCHANGED thumbs
       ELSE \E i \in DOMAIN thumbs : thumbs[i] = k /\ thumbs' = RemoveAt(thumbs, i)
    /\ calls' = [calls EXCEPT ![k] = <<>>]
    /\ enc' = [enc EXCEPT ![k] = Fresh]
    /\ capped' = [capped EXCEPT ![k] = NoCap]
    /\ pass' = IF pass \in {NoPass, StalePass} THEN pass ELSE [pass EXCEPT !.same = @ \ {k}]
    /\ refused' = refused \ {k} /\ overtaken' = overtaken \ {k}
    /\ UNCHANGED <<ceiling, override, ladder, degraded, calm>>

\* What is known of a sender's ceiling when a call settles: only a success is recorded.
\* Mutant: a refusal is recorded as well.
MemoWhatever(k, c, ok) == IF c.memo # NoCap THEN c.memo ELSE capped[k]
Memo(k, c, ok) == IF ok /\ c.memo # NoCap THEN c.memo ELSE capped[k]

\* A setParameters call settles, in the order of the calls on its sender.
Applied(k) ==
    LET c == Head(calls[k])
    IN  /\ calls[k] # <<>>
        /\ calls' = [calls EXCEPT ![k] = Tail(@)]
        /\ enc' = [enc EXCEPT ![k] = [active |-> c.active, params |-> c.params]]
        /\ capped' = [capped EXCEPT ![k] = Memo(k, c, TRUE)]
        /\ refused' = IF k \in Programs /\ c.memo # NoCap THEN refused \ {k} ELSE refused
        /\ UNCHANGED <<programs, thumbs, ceiling, override, ladder, pass, degraded, calm,
                       overtaken>>

\* A call that is refused is lost; only a sender that is not known to be capped is called
\* again, for its ceiling.
Repeated(k) ==
    k \in Programs /\ ceiling # NoCeiling /\ capped[k] # CeilingParamsFor(k, ceiling, override)
Refused(k) ==
    /\ k \in Renegotiating /\ calls[k] # <<>>
    /\ calls' = [calls EXCEPT ![k] = Tail(@)]
    /\ capped' = [capped EXCEPT ![k] = Memo(k, Head(calls[k]), FALSE)]
    /\ refused' = refused \cup IF Repeated(k) THEN {} ELSE {k}
    /\ UNCHANGED <<programs, thumbs, enc, ceiling, override, ladder, pass,
                   degraded, calm, overtaken>>

SetCeiling(c) ==
    /\ ceiling' = c
    /\ capped' = [k \in Keys |-> NoCap]
    /\ SetCalls(Enforced(calls, capped', ladder.bw, c, override))
    /\ refused' = refused \ Programs
    /\ UNCHANGED <<programs, thumbs, enc, override, ladder, pass, degraded, calm, overtaken>>

SetSourceOverride(k, res) ==
    /\ override' = [override EXCEPT ![k] = res]
    /\ SetCalls(Enforced(calls, capped, ladder.bw, ceiling, override'))
    /\ UNCHANGED <<programs, thumbs, enc, capped, ceiling, ladder, pass, degraded, historyVars>>

-----------------------------------------------------------------------------
(* Sampling *)

\* The interval ticks: not while a pass is in flight, nothing without senders. What
\* the statistics will say is chosen here, before anything else can happen.
SampleStarts(reading) ==
    /\ pass = NoPass /\ Present # {}
    /\ reading \in Readings(Present)
    /\ pass' = [targets |-> thumbs, same |-> Present, reading |-> reading]
    /\ calm' = (calm /\ reading = NoLimit)
    /\ UNCHANGED <<senderVars, ceiling, override, ladder, degraded, refused, overtaken>>

\* The pass acts on the senders it set out with, then enforces the ceiling on the
\* ones there are now.
ActsOn(a) == a.key \cap pass.same
Forgotten(a) ==
    [k \in Keys |-> IF k \in ActsOn(a) \cap Programs THEN NoCap ELSE capped[k]]
Acted(a) ==
    [k \in Keys |-> IF k \in ActsOn(a)
                    THEN Append(calls[k], Call(k, a.active, a.params, NoCap))
                    ELSE calls[k]]

SamplePlans ==
    /\ pass \notin {NoPass, StalePass} /\ pass' = NoPass
    /\ \E p \in PlanLadder(pass.reading, pass.targets) :
          /\ ladder' = p.ladder
          /\ capped' = Forgotten(p.action)
          /\ SetCalls(Enforced(Acted(p.action), capped', p.ladder.bw, ceiling, override))
          /\ degraded' = IF p.dir = "none" /\ Shedding(p.ladder) THEN "lowering" ELSE p.dir
    /\ UNCHANGED <<programs, thumbs, enc, ceiling, override, historyVars>>

SampleAbandoned ==
    /\ pass = StalePass
    /\ pass' = NoPass
    /\ UNCHANGED <<senderVars, ceiling, override, ladder, degraded, historyVars>>

\* The host's "bump quality now".
\* Mutant: a pass in flight goes on with what it has read.
RestoredOnly(p) == p
Outdated(p) == IF p = NoPass THEN p ELSE StalePass
Restored ==
    [k \in Keys |-> IF k \in Present
                    THEN Append(calls[k], Call(k, TRUE, Baseline, NoCap)) ELSE calls[k]]

RecoverNow ==
    /\ pass' = Outdated(pass) /\ ladder' = AtRest /\ degraded' = "none"
    /\ calm' = TRUE /\ refused' = {} /\ overtaken' = {}
    /\ capped' = [k \in Keys |-> NoCap]
    /\ SetCalls(Enforced(Restored, capped', AtRest.bw, ceiling, override))
    /\ UNCHANGED <<programs, thumbs, enc, ceiling, override>>

-----------------------------------------------------------------------------
Sampling ==
    \/ \E r \in Readings(Keys) : SampleStarts(r)
    \/ SamplePlans
    \/ SampleAbandoned

Settling == \E k \in Keys : Applied(k) \/ Refused(k)

Next ==
    \/ Sampling
    \/ Settling
    \/ \E k \in Keys : SenderOpens(k) \/ SenderCloses(k)
    \/ \E c \in Ceilings : SetCeiling(c)
    \/ \E k \in Programs, res \in Overrides : SetSourceOverride(k, res)
    \/ RecoverNow

\* The interval keeps ticking, getStats answers and setParameters settles. Strong
\* for the sampling because MaxCalls may disable SamplePlans for a while.
Fairness == SF_pass(Sampling) /\ \A k \in Keys : WF_calls(Applied(k))

Spec == Init /\ [][Next]_vars
FairSpec == Spec /\ Fairness

-----------------------------------------------------------------------------
(* Properties *)

Encodings == [active : BOOLEAN,
              params : [scale : Nat, fps : Nat, rate : Nat]]

DegradationTypeOK ==
    /\ programs \subseteq Programs
    /\ ToSet(thumbs) \subseteq Thumbs /\ IsInjective(thumbs)
    /\ enc \in [Keys -> Encodings]
    /\ ceiling \in Ceilings \cup {NoCeiling}
    /\ ladder.bw \in [Keys -> 0..Len(BandwidthSteps)]
    /\ ladder.cpuLevel \in 0..Cardinality(Thumbs)
    /\ ladder.streak \in 0..(RecoverStreak - 1)

\* D-34: after the host's "bump quality now" nothing is shed until a limitation is
\* read again; a sample that was under way must not undo it.  The exceptions are the
\* senders that have refused a call since: nothing repeats it.
CalmAfterRecover ==
    calm => /\ ladder = AtRest
            /\ \A k \in Present \ refused : Final(k).active

\* A sender that is switched off is one the ladder will switch on again, and the host
\* is told meanwhile.  The exceptions are the senders that have refused a call and those
\* whose place in the ladder another has taken.
ShedIsTracked ==
    \A k \in Present \ (refused \cup overtaken) :
       ~Final(k).active => k \in Disabled(ladder, thumbs) /\ degraded # "none"

\* The encoding that a sender is to come back to.
FullQuality(k) ==
    [active |-> TRUE,
     params |-> IF k \in Programs /\ ceiling # NoCeiling
                THEN CeilingParamsFor(k, ceiling, override) ELSE Baseline]

\* D-34: once the samples read no limitation any more, the ladder comes to rest, whoever
\* comes and goes; and once nothing but samples and calls goes on, every sender is back
\* at full quality under the ceiling.  The exceptions are the senders that have refused a
\* call that nobody repeats, and the overtaken thumbnails that nobody switches on.
LimitedRead == pass = NoPass /\ pass' # NoPass /\ pass'.reading # NoLimit
LeftAlone ==
    /\ UNCHANGED <<programs, thumbs, ceiling, override>>
    /\ ~LimitedRead /\ ~RecoverNow /\ \A k \in Renegotiating : ~Refused(k)
RecoveryEnds ==
    /\ <>[][~LimitedRead]_vars /\ <>[](Present # {}) => <>[]~Shedding(ladder)
    /\ <>[][LeftAlone]_vars =>
          <>[](\A k \in Present : enc[k] = FullQuality(k) \/ k \in refused \cup overtaken)

\* D-19: shedding lowers a program encoder that is within its ceiling, and recovery
\* stops at the ceiling: once its calls have settled it is still within.
Exceeds(p, cap) ==
    \/ p.scale < cap.scale
    \/ p.fps = Free \/ p.fps > cap.fps
    \/ p.rate = Free \/ p.rate > cap.rate
Within(k) ==
    ceiling # NoCeiling /\ ~Exceeds(enc[k].params, CeilingParamsFor(k, ceiling, override))
StaysWithinCeiling ==
    [][\A k \in programs \cap programs' :
          /\ Within(k) /\ calls'[k] = <<>>
          /\ ceiling' = ceiling /\ override' = override
          => Within(k)']_vars
================================================================================
