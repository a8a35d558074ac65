# guest-pass: a TLA+ verification of the greenroom

guest-pass lets a streamer bring guests into OBS: a guest opens a magic link, joins
the host's *greenroom* over a WebSocket, and the host puts it on one of a fixed pool
of *slots*, each of which is an OBS browser source. Media flows peer to peer; the
server (Go, SQLite) only keeps who is connected, who is bound to which slot, who is
locked, and which stream of the host is live. Almost everything that is hard about it
is concurrency: sockets drop and come back, the host moves people while they do,
timers fire late, pages report what they saw a moment ago, prompts are answered after
the page moved on, and HTTP handlers, the room goroutine, background jobs and the
database are only loosely in step.

## Inventory

| component | state it keeps | operations | made correct by |
|---|---|---|---|
| Room: bindings (`signaling/reducer.go`, `room.go`) | slot -> occupant, source, epoch, on-air, held flag and generation; grace timers | join, leave, rebind, resume, move, unbind, kick, evict, rotate, terminate, expire | one cam slot per guest; nothing bound to an absent peer beyond its grace window; epochs tell every binding apart |
| Room: on-air | three-state reflection per slot | reports of source pages | only a report about the current binding is believed |
| Room: moderation (`locks.go`, `hand.go`, `kick.go`) | role, lock floors, hands; table `pass_locks` | force, release, promote, demote, raise, kick | rank order, demotion safety, locks survive drops and restarts |
| Room: screenshare (`screenshare.go`) | eligibility, preview pool, screen slot | start, stop, select, grant, revoke | the live share is one the pool has |
| Room: projections | none of its own | roster, meters, stats, chat, signal relay | each role sees what it may |
| Hub (`hub.go`) | host -> room, closed flag | Room, EndSession, TerminateHostRoom, EvictIfLive, ReapIfIdle, Shutdown | one room per host; a draining room is never left registered |
| WebSocket handler (`web/ws.go`, `wsauth.go`) | one connection | handshake, admission, join, replay, dispatch, leave | what was checked at the handshake still holds at the join |
| Live session (`web/livesession.go`, `store/sessions.go`) | the active session row | goLive, rollback, endSession, forceEndLive | one stream live per host; only its guests in the room |
| Pass bindings (`web/binding.go`, `store/passes.go`) | `passes.slot_id`, `can_screen` | assign, clear, leave, replay | the live room agrees with the rows |
| Invites (`web/invites.go`, `web/api.go`) | `passes.status`, the link in force | mint, mail, re-issue, revoke, enter | what is turned off stays off |
| Accounts (`web/admin_actions.go`, `web/gdpr.go`, `auth/policy.go`) | host rows | sign in, approve, suspend, promote, demote, erase | an admin remains; nothing is erased under a live session; no ghosts of deleted streams |
| Source tokens (`web/sources.go`, `store/slots.go`) | `source_token_hash` per slot | provision, rotate one, rotate all, admit, tear down | an old URL shows nothing; a current one comes back |
| Idle reaper (`jobs/reaper.go`) | idle clock per host | sweep | abandoned sessions end, sessions in use do not |
| Retention purge (`jobs/jobs.go`, `store/purge.go`, `store/reports.go`) | guests' names and e-mails, reports | sweep | erased in time, whatever failed |
| Process (`cmd/guestpass`) | everything | start, drain, crash | the store closes last |
| OBS page (`web/src/obs`) | its view of one slot | bind, unbind, report, reconnect | it never shows or reports a stale occupant |
| Guest page (`islands/devicecheck.js`, `rtc/session.js`, `rtc/connectivity.js`) | devices, session, screenshare, watchdog | check, enter, reconnect, share, leave | devices are released; recovery ends; a dead network is told |
| Greenroom camera (`islands/greenroom.js`, `rtc/publisher.js`) | the host's camera and publisher, per tab | set up, publish, release, take over | the host slot shows what the connected tab publishes |
| Mesh (`rtc/mesh.js`, `rtc/peerlink.js`) | one link per pair of guests | offer, answer, ICE restart, reconnect, locks | two guests who stay see each other; a locked one is hidden |
| Degradation ladder (`rtc/degradation.js`) | shed level, steps per link, ceiling | sample, plan, apply, recover | recovery ends; stale samples are dropped |

How they interact: a socket's frames and the HTTP handlers both *post* commands to the
room, a single goroutine that runs them in order. The handlers that touch bindings or
sessions take turns under a mutex per host; kicks, invite deadlines, grace timers and
the reaper do not take it. The room calls back into the database only for `pass_locks`
and for the revocation of a kicked pass. The browser pages talk to the room over their
sockets and to each other through its relay; what a page learns of the others it learns
from the rosters and binding frames the room pushes.

PROJECT.json lists the components with what is modelled of each, and the hazards with
the line where each bites.

## Modules

**`Room`** is the room actor. A command posted to it is one action, because the
goroutine runs it to its end; which command comes next is free. The peer table is
`role` (absent is `"none"`), the slot table `slots`; `timers` are the `time.AfterFunc`
calls armed by `Leave`, each of which posts one `ExpireGrace`; `reports` are the
`sourceActive` frames between a page and the room. A report carries what has become of
its connection (`attached`, `displaced` by a newer one of the same page, `evicted`),
because a closed socket delivers nothing while one that is still being closed does.
`durable` is the table `pass_locks`; `Respawn` is the end of an actor, by session end
or crash, and the birth of the next one.

**`SlotBinding`** is the abstract specification of the room's camera slots: a book of
seats, who is there, and alarms. It knows no epochs, locks, pages, reports or generations.
`Room` implements it under the refinement mapping `Seating` (a seat is the occupant of its
slot, whether held or not; who is here are the peers with a role; the alarms are the grace
timers): the property `KeepsSeats`.

**`LiveSession`** is one host's database rows, registered room and handlers. The binding
lock is `binds`: what its holder has yet to do. A handler is therefore several steps,
its database call and each room command apart, and everything that does not take the
lock may come in between: `Kick`, `Expire`, `Leave`, `GraceExpires`, `HostJoins` and
the reaper. The room is reduced to its occupants; the epochs and pages are in `Room`.
A command takes effect where it is posted: it reads no row, so whatever overtakes it in
the queue could as well have come before the post. `Restart` keeps the rows only.
`Fails` names the database calls that may fail.

**`SourcePage`** extends `Room` with the other end of its slots: per slot the page of
`obs.js` (`page`: the occupant and epoch it was told, and whether its peer-to-peer link
reaches the connection the occupant has now), the frames on their way to it (`wire`) and
whether its send buffer dropped one since it connected (`missed`). `Deliver` is
`deliver` in room.go: every command of the room that bumps the epoch of a slot, and a
rename, puts a frame on the wire or, when `Overflow`, drops it. `PageDrops` and
`PageLeaves` are apart because the room notices a closed socket late, if at all before the
page is back. `RoomRestarts` starts the epochs from zero.

**`Accounts`** is the administrative side: `account` and `admins` are the host rows,
`stream`, `live` and `status` the rows of one followed host (`Streamer`), `req` the HTTP
requests in progress. A request is authorised in its first step (`AskAdmin`, `AskOwn`,
`AskErase`) and does its work in later ones (`step`), since the middleware reads the
account once and the handler acts on what it read; `lock` is the same binding lock as in
`LiveSession`, here taken by erasure, deletion, goLive, end, re-issue, revocation and the
admission of a guest. A mint is three steps, for the mail between the row and the
`SetPassStatus(sent)` may take long. `stale` records that the active admins have changed
since a request counted them. The two reads of a deletion (`DeleteReads`) may fail, and say
then that the stream is not live and that it has no guests; `missed` are the guests whom a
deletion without a list leaves in the room.

**`Retention`** is time: the purge and the reaper, one action per sweep or poll and one
`Tick`. Every clock is an age or a countdown and stops counting where nothing can tell
it from a greater one, so the state space is finite without a horizon. A ticker that is
due fires before time goes on.

**`GuestPage`** is the guest's page from the device check to a terminal screen: the
permission prompts, the entry request, the reconnecting session with its failed opens and
backoff, the screenshare picker, the deferred reconciliation of a share, the
connectivity watchdog; and at the other end of the socket what the server does with it
(`Join`, `Seed`, `ReadUp`, `GhostLeaves`), a displaced socket included. Prompts, timers and
sockets are actions that may come at any time they are pending. Viewers offer (`Watch`) what
`screenSignalAllowed` relays: to the live share, from the host to a backstage one, and from the
live sharer itself to a backstage one; the page answers every offer it reads while it
captures. `raced` are the viewers answered on an offer of the last kind since the last roster.

**`HostCapture`** is the host's own camera over several tabs: each tab's `page`, `conn`,
`ask` (its `getUserMedia`), `camera` and `publisher`; the room's `hostSlot`; the
`host-media` frames in flight on connections in force (`told`) and lost ones (`late`); and
the source page's `link`. **`SourceTokens`** is the rotation of source tokens against
handshakes (resolve, re-check, join), the teardown of the page and its reloads. The lookup of
a re-check may fail, which the server takes for a rotation; `struck` are the pages that were
told so, or torn down, without their link having been replaced.
**`MCHostSources`** checks the two in one run; they share no state.

**`Mesh`** is the link of two guests: the offers and answers through the room's relay, each
page's socket apart from what the room knows of it, frames of a displaced socket that are
read late, presence, locks and ICE failures. A description is *fresh* as long as both ends
still negotiate with what it describes; candidates travel with the descriptions.

**`Degradation`** is the ladder: `SampleStarts` and `SamplePlans` are the two halves of a
sample around `await getStats`, `Applied` and `Refused` the outcomes of a `setParameters`
call that is queued per sender, `RecoverNow`, `SetCeiling` and consumers coming and going
what may fall in between. `PlanLadder` is the pure planner; the order of shedding is a
relation (`ShedBefore`) and the code's index into the sorted list the number of senders
before one (`Place`). A call that is refused is lost; what the ladder repeats is only the
ceiling of a program that is not known to be capped (`Memo`, `Repeated`). `refused` and `overtaken`
are histories of what the ladder does not put right (Findings): the senders that have refused a
call nobody repeats, and the thumbnails behind which one opened that is shed before them. A
thumbnail keeps its priority; a guest made co-host under way is not modelled.

The proofs are in **`RoomProofs`** (the room, its refinement of `SlotBinding` and the source
pages), **`LiveSessionProofs`**, **`AccountsProofs`**, **`RetentionProofs`**,
**`HostSourcesProofs`** (`HostCapture` and `SourceTokens`), **`GuestPageProofs`**,
**`MeshProofs`** and **`DegradationProofs`**; the `MC...` modules hold the instances for TLC.
The properties of a run and the mutated forms of an operation ("Mutant:") stand in the component's module; no
specification uses the mutated forms.

## Runs

| run | instance | shows |
|---|---|---|
| `room_bindings` | 2 guests, 2 cam slots of which one has a page, epochs <= 2, 2 disconnections per slot, 1 report in flight | the room implements `SlotBinding` (`KeepsSeats`); a slot is bound to somebody present or held (`BoundToPresentOrHeld`); a report past the epoch gate is about the current occupant (`CurrentEpochNamesOccupant`, `OnAirHasOccupant`); `EpochsAdvance`; holds end (`HoldEnds`) |
| `room_moderation` | host, 2 co-hosts, mic and share, a store whose writes succeed | `LockedIsOff`, `DurableIsCurrent`, `FloorsOnlyRise`, `ShareFromPool`, with restarts |
| `live_bindings` | 2 guests, 2 streams, 2 slots, restarts, failing pass lists and revocations; every handler, no reaper | the live slots are the persisted ones whenever no handler is at work |
| `live_reap` | guests of two streams, reaper, failing calls | only the live stream's guests are in the room; drains end; abandoned sessions end |
| `source_page` | 2 guests, 2 slots of which one has a page, epochs <= 2, 2 frames in flight, a send buffer that may be full, restarts | a page that has read everything shows its slot's occupant (`PageFollowsSlot`); a report under the slot's epoch is about its occupant even if frames were lost (`PageReportsOccupant`); after a rejoin the page is linked to the new connection (`LinkedToLatest`) |
| `accounts` | an owner and a tenant who streams, 1 pass, 2 requests at a time, approval mode, failing reads of a deletion | `AdminRemains`, `NeverErasedLive`, `GoneStreamHasNoGuests`, `RevokedStays` |
| `retention` | retention 5, both intervals 2, idle time 3, grace 1 | `PurgedInTime`, `AbandonedIsPurged` (both jobs together), `SeenIsSpared` |
| `guest_page` | host and one more viewer, which may be the live sharer, 2 peer connections, 2 failed opens, 1 lost socket, 2 frames each way | `DevicesReleased`, `BackstageForHostOnly`, and that a stranded share, a reconnect and a dead network come to an end |
| `mesh` | 2 pages, 3 faults | a locked guest is hidden, links form, and an offer is stranded only in one way (`StrandedOnlyByReturn`) |
| `degradation` | 1 program, the thumbnails of a guest and of a co-host, 1 ladder step, a streak of 1, 2 unsettled calls of the program and 1 of a thumbnail, a ceiling; the program and the co-host's thumbnail may refuse | `CalmAfterRecover`, `ShedIsTracked`, `RecoveryEnds` (the ladder comes to rest, and every sender is back at full quality under the ceiling) |
| `host_sources` | 2 tabs, 3 camera requests, 2 faults; 2 pages, 2 slots, 2 rotations, failing lookups, 3 page loads, 1 loss | `CaptureReleased`, `HostSlotFollows`, `HostComesOn`; `OldTokenIsOut`, `SourceComesBack` |
| `host_slot_kept` | the same | a comment that the code does not keep (Findings, 1) |

The two runs of `Room` split its commands by question, because all of them together exceed
what TLC can visit; each still starts from `Init` and lets its commands interleave
freely. `RoomProofs` proves the safety properties for all commands together, for any
number of guests and slots. Two guests and two slots are enough for a guest to displace
another and to hold one slot while it moves to a second; a second rebind (`MaxEpoch`)
and a second disconnection (`MaxGrace`) make timers and reports of an earlier binding
meet a later one. Two requests are what a check-then-act race takes; the same properties
are proved for any number. In `Retention` the numbers are small, but the retention and the idle time
are no multiples of the intervals, so ends fall on every side of a sweep. Two faults make a tab lose its
connection and the other one the next; three in the mesh make a page come back twice
while the other one drops. In `Degradation` a restored program takes two calls at once (the baseline
and the ceiling) and a thumbnail one, and calls settle in order, so these bounds leave out only
calls that overlap with older ones of the same sender, which the proofs do not; a guest's and
a co-host's thumbnail are enough for one to overtake the other. `MaxEpoch`, `MaxGrace`, `MaxReports`, `MaxWire`, `MaxDrops`,
`MaxQueue`, `MaxPeers`, `MaxCalls`, `MaxAsks`, `MaxFaults`, `MaxTokens`, `MaxLoads`, `MaxLosses` and `Cap` (frames
waiting beyond which the host locks nobody) are the only bounds and occur only in guards.
`MaxFailedOpens` is a constant of the code, smaller here.

`live_bindings` leaves out the reaper because with it `LiveMatchesBindings` is false: once
the reaper's late write has ended a session that began meanwhile, the room
has occupants and no session, `putPassSlot` then moves rows without the room, and the
next goLive's replay is refused. Database failures are limited to the pass lists and the
revocation: when a replay or a rollback fails the handler gives up with the room behind the
rows, and only the next move or rejoin mends it.

`LinkedToLatest` excepts a guest whose replay was refused, because the row's slot was live
to somebody else: its old slot stays marked as dropped, its page on the dead link, and the
grace timer is a no-op for a guest who is back. The comment at `ws.go:153` calls this the
limbo and closes it only for a guest without a binding. The property speaks of cam slots:
the page of the host's own slot heals by an ICE restart.

Deadlock is checked in all runs but three, in which everything may come to rest for good:
in `accounts` everybody may have been erased, and in the two runs of `MCHostSources` the
requests, rotations and reloads are used up.

## Fairness

- `Room`: `time.AfterFunc` runs every timer, and the actor serves its queue, so the
  expiries of a slot are not put off for ever.
- `LiveSession`: a goroutine that has the mutex runs to its end (its database calls have
  timeouts), and the reaper's ticker keeps coming. `ReapEnd` is assumed to succeed
  eventually if it is retried without end (strong fairness), which is what an
  intermittently failing database gives.
- `GuestPage`: the browser's timers fire, a connection attempt is answered or fails, and
  frames that were sent on a socket that lasts are read. The watchdog's timer, the seeding
  of a joined guest and the reading of its frames are strong, because a reconnect
  takes them away and brings them back, and each takes far less time than a
  reconnect.
- `Degradation`: the sampler is an interval timer whose samples are planned again and
  again however often calls, consumers or the host come in between (strong fairness of
  `Sampling`), and a `setParameters` that is not refused settles.
- `Mesh`: the room reads and relays, pages read what they are sent and answer, and a path
  that does not work is noticed by ICE. `LinkForms` supposes that descriptions in flight
  arrive before a connection times out (`TimelySignals`), which the timeouts of ICE (tens of
  seconds) justify.
- `HostCapture`, `SourceTokens`: what a page or the server has begun goes on
  (`CaptureProgress`, `TokensProgress`): frames are read, an offer is answered, a page that
  lost its connection dials again, a handshake is finished.

Nothing is assumed of people: nobody has to join, leave, grant a permission or press a
button. `Accounts` and `Retention` need no fairness: their properties bound what has
happened, and time does not pass in `Retention` before a due ticker has fired.

## Proofs

TLAPS checks eight proof modules, for every value of the constants that satisfies the named
assumptions of the component's module.

**`RoomProofs`.** The base is `TypeCorrect`. Rather than treating every action anew in each proof,
`SlotStep` shows once that every step of the room does one of a few things to a slot:
leaves it alone, rebinds it, vacates it, lets its occupant depart, attaches a page, lets
a hold expire, reflects a report, or starts afresh. The properties of bindings are then
proved per kind of step:

- `OneCamCorrect` and `EpochsAdvanceCorrect` follow from these kinds directly; the bump
  in every change of hands is what later makes a stale report recognisable.
- `BoundCorrect` needs `ShareFromPoolCorrect` (whoever is shown on the screen slot is in the
  pool, hence connected); `HoldHasExpiryCorrect` needs that the generation in an armed timer is the one the slot got in the same step,
  and that only an expiry that is not due leaves `timers` without vacating.
- `CurrentEpochCorrect` needs the strengthening that no report is ahead of its slot
  (`r.epoch <= slots[r.slot].epoch`) and that an attached report belongs to an attached
  page; `OnAirCorrect` needs `CurrentEpochCorrect` and `BoundCorrect`: the epoch gate and
  the `disconnected` gate together are what make a believed report one about a
  connected occupant.
- `HostImmuneCorrect` needs that only the host has the role of a host; the floors then
  follow from strict rank. `LockedIsOffCorrect`, `ShareFromPoolCorrect`,
  `DurableIsCurrentCorrect`, `FloorsOnlyRiseCorrect` and `GrantKeepsModerationCorrect` rest on
  one lemma on what a step does to a lock (`LockStep`).

The refinement of `SlotBinding`: `KeepsSeatsCorrect` is `Spec => KeepsSeats`. The
initial states map to `Empty`; each command of the room maps to a step of the seat book or
a stutter. It
uses `TypeCorrect`, `HostAloneInvariant` (only the host has its role), `BoundCorrect` and
`HoldHasExpiryCorrect`, and one lemma per kind of command: keeping the occupants is no step,
vacating is a `Clear`, binding is a `Give`, removing for good an `Evict`, a drop arms the
expiries of the seats it leaves (`Drop`). An expiry that is due finds its guest away; one that
is not due and leaves the seat of somebody away alone is stale, and the hold's own expiry is
still armed (`Ring`). `SeatsAreFreed` draws the conclusion in the abstract module, once for
whoever keeps its rules: nobody has two seats, and the seat of somebody away always has an
alarm that is still to ring (`SeatsKept`, one case per action of `SeatNext`).

The source pages: `PagesLeaveTheRoom` is `PageSpec => Spec`, so a page, its wire and what it
loses take nothing from the room and every theorem of the room holds there too.

- `ReportsTheOccupant` needs `WireInv`: neither a page nor a frame on its way is ahead of its
  slot, and one of the slot's own epoch names the slot's occupant. Lost frames do not
  matter to it, since a page that missed one is behind.
- `FollowsTheSlot` needs the other half of `WireInv`: the last word to a page that missed
  nothing, read or still on the wire, is of the current epoch.
- `LinksToTheLatest` needs `LinkInv`: a page at the epoch of its slot is linked to the
  connection the occupant has now, unless the occupant is away, its replay is still to come or
  was refused. Whatever makes it wrong again (a rejoin) comes with a new epoch.

**`LiveSessionProofs`.** `TypeCorrect` needs that each task the lock holder can be in is one
of a few shapes (`TaskTypes`, `TaskFields`), since the fields of a task are what the next
step writes to the rows.

- `OnlyLiveStreamCorrect` is proved for `Spec`, the reaper and every failing call
  but a failing rollback included.
  `OnlyLiveStream` is silent while goLive is about to evict, so its strengthening
  `StreamInv` adds what the holder of the lock relies on: while a guest is being let in the
  session is still the one that admitted it, or none if the reaper came by (`JoinAdmitted`);
  while a stream goes live no other one does (`GoingLive`). Both are what the lock is
  for: nothing outside it starts a session.
- `LiveMatchesBindingsCorrect` is proved for `HandlersSpec`, everything but the reaper. Its
  invariant `BindingInv` relates the rows, the room and the task at hand: no slot has two
  rows (`OneRowPerSlot`), a handler between its write and its room command knows exactly
  the difference it still has to make (`TaskMatchesRows`), an occupant of a live slot is the
  one its row names up to that difference (`OccupantsBound`), a bound guest who is in the
  room occupies its slot (`BoundOccupy`), and before goLive the slots are empty
  (`EmptyUntilLive`).

**`AccountsProofs`**, for any number of hosts, passes and concurrent requests.

- `GoneStreamIsEmptied` and `ErasureWaitsForTheEnd` need `LockKept`: a request that is past
  the first look of an erasure of the streamer, or of a deletion, is the holder of the lock; an
  erasure that holds it found no live session and there is none yet, and a guest that holds it
  has an invite that is still there. `GoneIsEmpty` then says that a stream that is gone has no
  invites, and guests in the room only while a deletion is about to evict them, or those whom
  one without a list has left there (`missed`); nobody can join them.
- `LastAdminIsKept` needs `ViewKept`: a removal that has looked and is not marked stale saw its
  target as it is, and got past the count only if another admin is left.
- `RevocationLasts` is a property of single steps, and holds because every other write of a
  status looks at the status first.

**`RetentionProofs`**, for any retention times and intervals.

- `PurgeIsInTime` assumes `PurgeInterval <= PurgeRetention`: the comment of `sweep`
  (jobs.go:79-86) calls anything else misconfigured, and the configuration accepts it. Its
  invariant `GuestsAge` says that what is left was written since the last sweep, or belongs
  to a stream that at that sweep was younger than the retention less one interval; the
  interval that may have passed since adds up to the retention.
- `AbandonmentEnds` joins the two jobs. `ReapedSoon` bounds the quiet time before the
  reaper's clock starts (one poll), while it runs, and until the poll after it ran out;
  `PurgedSoon` says the same of the purge that follows.
- `ReaperSparesTheSeen` rests on the clock never being older than the last sighting.

**`HostSourcesProofs`.** `HostSlotIsCurrent` needs `LastWord`: the last frame a connection in
force has sent, or what the room has read if there is none, is what its tab publishes.
`CaptureIsReleased` needs `OpenPages`: a tab that shows a terminal screen or is gone
has no camera on and no request for it that would still be honoured.
`RotationExpelsOldToken` needs `AdmittedWithCause`: a handshake
that is past its re-check has the token in force, or one whose teardown is still to come, or
was overtaken by a rotation.

**`GuestPageProofs`.** `DevicesAreReleased` needs `DevicesInv`: a session and its socket come
and go together (`SocketOfSession`), and whoever is asked for a device is still at the device
check and not over, while a page that left or was terminated has no session
(`Surroundings`): an answer finds a page that can use it or lets the device go.
`BackstageIsForTheHost` needs `BackstageInv`: the rosters in the socket and the one last read add up to what the room has (`ToldOfShare`), and the offer of a viewer
other than the host is always read after the roster that makes the share live
(`OffersOfLive`), unless its sender was the live sharer when it made it, who counts as `raced`
once it is answered and is pruned with the next roster.

**`MeshProofs`**, for any number of faults.

- `LockedAreHidden` needs `AllTold`: what a page has read of the other one, together with
  what is waiting in its inbox, says who is there and what is locked. A roster that was
  sent before a lock is therefore never the last word.
- `StrandedOnlyBySilentReturn` needs `AwaitedPending`: an offer that awaits an answer from a
  page that is there is on its way, about to be heard, being answered, or its answer is on
  the way back, unless the offering page is still to be told that the other one went, or it
  returned unnoticed (`overtook`).

**`DegradationProofs`**, for any senders, steps, ceilings, streak and number of unsettled calls.
Its base invariant gives the types and says that no call that would switch off a
program is ever made (`ProgramsOn`, theorem `ProgramsStayOn`); one lemma per action
says what the action does to who is on.

- `CalmIsKept` rests on `CalmInv`: while `calm`, a pass in flight has read no limitation, what it
  plans for a ladder at rest is nothing, and every thumbnail that has not refused a call since is
  on, or will be when its calls have settled.
- `ShedIsKeptTrack` rests on `ShedInv`: a thumbnail that is off, and neither refused nor
  overtaken (`Lost`), was there when the pass in flight
  set out, and its place in the pass's list is below the level; those that have come since
  are behind it, or it is overtaken, and those that have gone only move it forward, so its place
  among the present ones is no later. `ShedOrder` is what makes places comparable: the order of shedding is
  total, whatever the priorities. That no other one is brought back in its stead is
  `PlacesDiffer`.

Neither assumes anything of the priorities, nor of which senders refuse a call, or when.

Only model-checked: the liveness properties (`HoldEnds`, `DrainEnds`, `AbandonedEnds`,
`StrandedShareEnds`, `ReconnectEnds`, `DeadNetworkIsTold`, `LinkForms`, `RecoveryEnds`, `HostComesOn`,
`SourceComesBack`), which need fairness and ENABLED. Every invariant and every action
property of a passing run is proved.

## Findings

Checked by a run:

1. `host_slot_kept`: a second tab of the host, or its reconnect over a socket the room had
   not seen close, is no leave, so the host slot stays bound to a connection that
   publishes nothing, against the comment at `reducer.go:444`. `HostSlotFollows` and
   `HostComesOn` state what holds apart from such a binding (`carried`).

Stated as definitions, with the properties that do hold beside them:

- `SourcePage!NothingMissed`: `ARCHITECTURE.md:690` says a connection that overflows is
  closed; `deliver` (room.go:183) drops the frame and keeps it, and the page shows the old
  binding until the next one.
- `MCRoom!OnAirHasSource`: a report read after its page was rotated asserts on-air on a slot
  without a page (reducer.go:785 against :357).
- `LiveSession!KickedStaysOut`: a rejoin admitted just before a kick joins just after it
  (ws.go:143; room.go:315 calls the refusal race-free).
- `LiveSession!ReapedIsIdle`: the reaper's write can end the session that began after it
  looked (hub.go:197 against :180).
- `Degradation!StaysWithinCeiling`: a sender at its ceiling is stepped to a rung of the ladder
  that exceeds a lower ceiling for one sample (degradation.js:114, :342-350;
  ARCHITECTURE.md:285-286).
- `GuestPage!BlockedIsUnproven`: the blocked-network screen may be up while a connection that
  was slow has just come through (connectivity.js:30-31).

Met while modelling, and part of the models or of an exemption in a property:

- `admin_actions.go:124-134` accepts two removals at once as out of scope; the window is
  wider, since the target is loaded with the request and the count is read later.
- goLive authorised before a suspension starts a session for the suspended host.
- A mint's late `SetPassStatus(sent)` undoes a revocation or an opening (invites.go:289).
- A host whose handshake was resolved before its suspension or erasure re-inhabits a fresh
  room; the guests of it are refused.
- A teardown meant for an old token can hit a connection that came in with the new one
  (`struck`), and a connection checked before the write may join after the teardown
  (`overtaken`, which ws.go:104-108 records as open).
- When the offering page of a mesh pair has an unanswered offer and the other page comes back
  before the room noticed that it was gone, nobody is told and the offer is never repeated
  (`Stranded`); the comment of Join in room.go that a genuine reconnect never takes that path
  is not strictly so for half-open sockets.
- A deletion whose read of the pass list fails evicts nobody, and the rows go all the same: the
  guests stay in the room, and the host's next stream finds them there. "the sockets drop on
  their own" (livesession.go:153) is not what happens: nothing closes them. A failed read of
  the session (livesession.go:221-225) likewise leaves the room of a stream that was live, with
  the host and, if the list failed too, its guests (app.go:509-510). `GoneStreamHasNoGuests`
  exempts them (`missed`).
- `sourceStillValid` (wsauth.go:258-261) is true only without an error, so any failure of the
  lookup sends `token-rotated` (ws.go:109-112), and a page whose URL is in force stops for
  good; the comment at ws.go:108 says that "a genuine rotation tells the source it was replaced so
  it stops". `SourceComesBack` exempts it (`struck`).
- The relay lets an offer of the live sharer through to a backstage sharer
  (screenshare.go:48), and the page answers it from its publisher, closing the link it may
  hold to that peer (devicecheck.js:699-710). screenshare.go:39-43 admits the residual only until
  the backstage page opens that link, "after which the client routes the signal to that link, not its
  publisher"; an offer never is. It ends with the next roster the page reads
  (`BackstageForHostOnly`, `raced`).
- A refused `setParameters` of the ladder is not repeated: the level and the steps have moved on
  with the plan, although the comment at degradation.js:412 says that "the next sample
  retries". A thumbnail whose switching on is refused stays off, and a program whose step back is
  refused stays degraded when no ceiling is in force. What is repeated is a program's ceiling
  (`Repeated`); the rest is exempt (`refused`).
- A ceiling's success is recorded for the sender whatever was done to it since
  (degradation.js:249). When the ladder brings a program back to the baseline while an older ceiling
  call is unsettled, that call's late success is recorded after the memo was cleared
  (degradation.js:345); if the ceiling call that follows the baseline is then refused, the sender
  stays above the ceiling and is taken to be capped, against "leave it unmemoized so the next
  sample retries". It takes three unsettled calls of one sender, one more than the run has;
  `Repeated` exempts it for any number.
- Once a co-host's thumbnail has been shed, a guest's that joins is sorted before it
  (degradation.js:82): recovery then brings back the guest's, which is on, and the
  co-host's stays off until the host bumps the quality (`overtaken`).
- The ladder forgets a consumer that returns under its old key (degradation.js:145); the
  purge clears the invites of a stream that ran once although its next run is to come;
  a session that starts between two polls inherits the idle clock of the last one
  (reaper.go:113).

## Not modelled, and why

- Rate limits and quotas, TURN credentials, mail transport, live checks, configuration,
  rendering, statistics, assets: sequential code, calls to services or pure formatting,
  without state other parts race with. The quota is a check-then-act on a count whose excess
  is harmless.
- Signatures and expiry of tokens, cookies, OAuth: functions of one request.
- Names, meters, health, chat, the streaming flag: values no transition of the rest reads.
  Names on nameplates are display.
- The greenroom's pickers and tiles: views of the roster with overrides of their own.
- The double failure of goLive (its pass lists and then its rollback) is in the model but
  outside `OnlyLiveStream`: the code has no answer to it.
- The quality ceiling's push carries no version: with two concurrent changes nothing but "the
  next one puts it right" can be said.
- The graceful drain of HTTP requests; two browsers with the same source URL beyond
  displacement; candidates, bitrates, transceivers and relay statistics of WebRTC; a full
  send buffer towards a guest.
- Room commands of the greenroom's own rebind frames are in `Room`, not in `LiveSession`:
  they change the live slot and not the row, on purpose.

## Plan

1. An abstract session (which stream is live, who may be in the room) that `LiveSession`
   and `Accounts` both implement.
2. More of the greenroom's and the host console's views, as far as a property speaks of them.
