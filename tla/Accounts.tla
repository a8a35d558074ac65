------------------------------- MODULE Accounts -------------------------------
(***************************************************************************)
(* The accounts of the instance and the invites of one of its hosts:       *)
(* sign-in, approval, suspension, promotion and erasure (internal/auth,    *)
(* web/admin_actions.go, web/gdpr.go), and the life of a pass from its     *)
(* mint to the deletion of its stream (web/invites.go, web/api.go,         *)
(* web/app.go) against the guests that dial in with it (web/ws.go).        *)
(*                                                                         *)
(* A request is authorised once, from the rows as they are then, and does  *)
(* its work later in steps; the requests of a host take turns under its    *)
(* binding lock where the code takes it, and not where it does not.  The   *)
(* teardown of the room and the bindings of its slots are one step here:   *)
(* module LiveSession takes them apart.                                    *)
(***************************************************************************)
EXTENDS Naturals, FiniteSets

CONSTANTS
    Hosts,       \* Google identities; an account erased does not come back under its id
    Owner,       \* the identity of ADMIN_EMAIL
    Signup,      \* SIGNUP_MODE
    Allowed,     \* the allowlist
    Streamer,    \* the host whose stream, passes and room are followed
    Passes,      \* the passes the streamer mints
    HostPeer,    \* the streamer's greenroom connection
    Requests,    \* requests in progress at once
    Nobody       \* holder of the free lock

ASSUME AccountsAssumption ==
    /\ Owner \in Hosts /\ Streamer \in Hosts /\ Allowed \subseteq Hosts
    /\ Signup \in {"open", "allowlist", "approval"}
    /\ HostPeer \notin Passes
    /\ Requests \cap Passes = {} /\ Nobody \notin Requests \cup Passes

VARIABLES
    account,   \* hosts.status: absent, pending, active, suspended, erased
    admins,    \* hosts.is_admin
    stream,    \* the streamer's stream: none, open or gone
    live,      \* it has an active session
    status,    \* passes.status: none before the mint, gone after the cascade
    linked,    \* the passes whose link in force has reached its guest
    entering,  \* the guests past the checks of passEnter
    resolved,  \* the peers whose handshake was accepted
    present,   \* the peers in the streamer's room
    missed,    \* history: the guests whom the deletion of their stream left in the room
    req,       \* the requests in progress
    lock       \* the holder of the streamer's binding lock: a request or a joining guest

hostVars == <<account, admins>>
rowVars == <<stream, live, status>>
peerVars == <<linked, entering, resolved, present, missed>>
vars == <<hostVars, rowVars, peerVars, req, lock>>

Peers == Passes \cup {HostPeer}
PassStatuses == {"none", "created", "sent", "opened", "revoked", "gone"}
Removals == {"suspend", "demote", "erase"}
AdminOps == {"approve", "promote", "suspend", "demote"}
StreamOps == {"golive", "end", "delete", "create"}
PassOps == {"mint", "revoke", "reissue"}
Ops == AdminOps \cup StreamOps \cup PassOps \cup {"erase", "none"}
Steps == {"idle", "asked", "loaded", "cleared", "ending", "read", "rows", "mailing", "stamping"}

\* A request: its operation, what it is about, how far it is, what it saw of its
\* target, whether the active admins have changed since it looked, and whether it has
\* the list of the stream's guests.
Request(op, on, step, seen) ==
    [op |-> op, on |-> on, step |-> step, seen |-> seen, stale |-> FALSE, listed |-> FALSE]
Idle == Request("none", Nobody, "idle", FALSE)

ActiveAdmins == {h \in admins : account[h] = "active"}
Active(h) == account[h] = "active"
Minted(p) == status[p] \notin {"none", "gone"}

\* passJoinable, passRetired: revoked passes are turned off (deadlines: LiveSession).
Joinable(p) == Minted(p) /\ status[p] # "revoked"

At(r, ops, step) == req[r].op \in ops /\ req[r].step = step
Moved(r, step) == [req EXCEPT ![r].step = step]
Ended(r) == [req EXCEPT ![r] = Idle]
Finish(r) == req' = Ended(r)
Unchecked == UNCHANGED <<rowVars, peerVars, lock>>

\* A removal that has looked at the admins, and not acted yet, has a stale view
\* once they change.
Outdated(rq) == [q \in Requests |->
    IF rq[q].op \in Removals /\ rq[q].step \in {"loaded", "cleared"}
    THEN [rq[q] EXCEPT !.stale = TRUE] ELSE rq[q]]
Written(rq) == req' = IF ActiveAdmins' = ActiveAdmins THEN rq ELSE Outdated(rq)

-----------------------------------------------------------------------------
(* Sign-in and authorisation *)

\* decideNewHost: the owner is an active admin; the others as the mode says.
NewStatus(h) ==
    CASE h = Owner \/ Signup = "open" \/ (Signup = "allowlist" /\ h \in Allowed) -> "active"
      [] h # Owner /\ Signup = "allowlist" /\ h \notin Allowed -> "absent"
      [] OTHER -> "pending"

\* resolveHost: an identity that is known keeps its row whatever the policy says.
SignIn(h) ==
    /\ account[h] = "absent"
    /\ account' = [account EXCEPT ![h] = NewStatus(h)]
    /\ admins' = IF h = Owner THEN admins \cup {h} ELSE admins
    /\ Written(req) /\ Unchecked

\* resolveSession reads the account with every request.
SignedIn(h) == Active(h)
\* adminTarget: the target is loaded with the request.
Loaded(t) == account[t] \notin {"absent", "erased"}

\* RequireAdmin; nobody suspends or demotes themselves.
AskAdmin(r, h, t, op) ==
    /\ req[r] = Idle /\ SignedIn(h) /\ h \in admins /\ Loaded(t)
    /\ op \in Removals => h # t
    /\ req' = [req EXCEPT ![r] =
                  Request(op, t, "loaded", op \in Removals /\ t \in ActiveAdmins)]
    /\ UNCHANGED hostVars /\ Unchecked

\* RequireHost, and ownedStream, ownedStreamAndPass where there is a stream.
AskOwn(r, op, on) ==
    /\ req[r] = Idle /\ SignedIn(Streamer)
    /\ op # "create" => stream = "open"
    /\ op \in {"revoke", "reissue"} => Minted(on)
    /\ req' = [req EXCEPT ![r] = Request(op, on, "asked", FALSE)]
    /\ UNCHANGED hostVars /\ Unchecked

AskErase(r, h) ==
    /\ req[r] = Idle /\ SignedIn(h)
    /\ req' = [req EXCEPT ![r] = Request("erase", h, "asked", FALSE)]
    /\ UNCHANGED hostVars /\ Unchecked

-----------------------------------------------------------------------------
(* The admin console *)

\* wouldStrandLastAdmin: what the request saw of its target, the count as it is now.
\* Mutant: no guard.
NeverStrands(r) == FALSE
WouldStrand(r) == req[r].seen /\ Cardinality(ActiveAdmins) <= 1

\* suspendHost, demoteHost: not the last active admin.
Check(r) ==
    /\ At(r, {"suspend", "demote"}, "loaded")
    /\ IF WouldStrand(r) THEN Finish(r) ELSE req' = Moved(r, "cleared")
    /\ UNCHANGED hostVars /\ Unchecked

\* SetHostStatus and SetHostAdmin of a row that is gone fail: the request ends.
TargetGone(r) ==
    /\ At(r, AdminOps, "cleared") \/ At(r, {"approve", "promote"}, "loaded")
    /\ account[req[r].on] = "erased"
    /\ Finish(r) /\ UNCHANGED hostVars /\ Unchecked

Approve(r) ==
    /\ At(r, {"approve"}, "loaded") /\ account[req[r].on] # "erased"
    /\ account' = [account EXCEPT ![req[r].on] = "active"]
    /\ UNCHANGED admins /\ Written(Ended(r)) /\ Unchecked

Promote(r) ==
    /\ At(r, {"promote"}, "loaded") /\ account[req[r].on] # "erased"
    /\ admins' = admins \cup {req[r].on}
    /\ UNCHANGED account /\ Written(Ended(r)) /\ Unchecked

\* With end_live the running session is force-ended next.
Suspend(r, endLive) ==
    /\ At(r, {"suspend"}, "cleared") /\ account[req[r].on] # "erased"
    /\ account' = [account EXCEPT ![req[r].on] = "suspended"]
    /\ UNCHANGED admins
    /\ Written(IF endLive /\ req[r].on = Streamer
               THEN Moved(r, "ending") ELSE Ended(r))
    /\ Unchecked

Demote(r) ==
    /\ At(r, {"demote"}, "cleared") /\ account[req[r].on] # "erased"
    /\ admins' = admins \ {req[r].on}
    /\ UNCHANGED account /\ Written(Ended(r)) /\ Unchecked

\* forceEndLive under the lock: the session row, then everybody in the room.
ForceEnd(r) ==
    /\ At(r, {"suspend"}, "ending") /\ lock = Nobody
    /\ live' = FALSE /\ present' = {}
    /\ Finish(r)
    /\ UNCHANGED <<hostVars, stream, status, linked, entering, resolved, lock, missed>>

-----------------------------------------------------------------------------
(* Erasure: deleteHostAccount *)

\* Under the lock: refused while live, and the account is loaded.
\* Mutant: the lock is not taken.
EraseUnlocked(r) == lock
EraseHolds(r) == IF req[r].on = Streamer THEN r ELSE lock

EraseLoads(r) ==
    /\ At(r, {"erase"}, "asked")
    /\ req[r].on = Streamer => lock = Nobody
    /\ IF (req[r].on = Streamer /\ live) \/ account[req[r].on] = "erased"
       THEN Finish(r) /\ UNCHANGED lock
       ELSE /\ req' = [req EXCEPT ![r].step = "loaded", ![r].seen = req[r].on \in ActiveAdmins]
            /\ lock' = EraseHolds(r)
    /\ UNCHANGED <<hostVars, rowVars, peerVars>>

Released(r) == IF lock = r THEN Nobody ELSE lock

EraseCounts(r) ==
    /\ At(r, {"erase"}, "loaded")
    /\ IF WouldStrand(r) THEN Finish(r) /\ lock' = Released(r)
       ELSE req' = Moved(r, "cleared") /\ UNCHANGED lock
    /\ UNCHANGED <<hostVars, rowVars, peerVars>>

\* DeleteHost and its cascade, between two sweeps of the room.
Cascade ==
    /\ stream' = IF stream = "open" THEN "gone" ELSE stream
    /\ live' = FALSE
    /\ status' = [p \in Passes |-> IF Minted(p) THEN "gone" ELSE status[p]]
    /\ linked' = {}

Erase(r) ==
    /\ At(r, {"erase"}, "cleared")
    /\ account' = [account EXCEPT ![req[r].on] = "erased"]
    /\ admins' = admins \ {req[r].on}
    /\ IF req[r].on = Streamer THEN Cascade /\ present' = {}
       ELSE UNCHANGED <<rowVars, linked, present>>
    /\ Written(Ended(r)) /\ lock' = Released(r)
    /\ UNCHANGED <<entering, resolved, missed>>

-----------------------------------------------------------------------------
(* The stream and its session *)

CreateStream(r) ==
    /\ At(r, {"create"}, "asked")
    /\ stream' = IF stream = "none" /\ account[Streamer] # "erased" THEN "open" ELSE stream
    /\ Finish(r)
    /\ UNCHANGED <<hostVars, live, status, peerVars, lock>>

\* goLive under the lock: the status of the host is not read again.  Guests whose
\* invite was turned off while they were connected are evicted.
GoLive(r) ==
    /\ At(r, {"golive"}, "asked") /\ lock = Nobody
    /\ IF stream = "open" /\ ~live
       THEN live' = TRUE /\ present' = present \ {p \in Passes : status[p] = "revoked"}
       ELSE UNCHANGED <<live, present>>
    /\ Finish(r)
    /\ UNCHANGED <<hostVars, stream, status, linked, entering, resolved, lock, missed>>

EndSession(r) ==
    /\ At(r, {"end"}, "asked") /\ lock = Nobody
    /\ live' = FALSE /\ present' = IF live THEN {} ELSE present
    /\ Finish(r)
    /\ UNCHANGED <<hostVars, stream, status, linked, entering, resolved, lock, missed>>

\* The idle-session reaper.
Reap ==
    /\ live /\ present = {}
    /\ live' = FALSE
    /\ UNCHANGED <<hostVars, stream, status, peerVars, req, lock>>

\* deleteStream, under the lock from the reading of the peers to their eviction;
\* "seen" is whether the stream was live.  Both reads are best effort: one that fails
\* says that the stream is not live (sessionState), or lists nobody (streamPeerIDs).
DeleteReads(r, seen, listed) ==
    /\ At(r, {"delete"}, "asked") /\ lock = Nobody
    /\ seen => live
    /\ lock' = r
    /\ req' = [req EXCEPT ![r].step = "read", ![r].seen = seen, ![r].listed = listed]
    /\ UNCHANGED <<hostVars, rowVars, peerVars>>

\* DeleteStream fails when the row is gone already.
DeleteRows(r) ==
    /\ At(r, {"delete"}, "read")
    /\ IF stream = "open"
       THEN Cascade /\ req' = Moved(r, "rows") /\ UNCHANGED lock
       ELSE UNCHANGED <<rowVars, linked>> /\ Finish(r) /\ lock' = Nobody
    /\ UNCHANGED <<hostVars, entering, resolved, present, missed>>

\* teardownDeletedStream: the room of a live stream, the guests of another.
\* Mutant: only the room of a live stream.
TornDownIfLive(wasLive, listed) == IF wasLive THEN {} ELSE present
TornDown(wasLive, listed) ==
    IF wasLive THEN {} ELSE IF listed THEN present \ Passes ELSE present

DeleteEvicts(r) ==
    /\ At(r, {"delete"}, "rows")
    /\ present' = TornDown(req[r].seen, req[r].listed)
    /\ missed' = IF req[r].listed THEN missed ELSE present' \cap Passes
    /\ Finish(r) /\ lock' = Nobody
    /\ UNCHANGED <<hostVars, rowVars, linked, entering, resolved>>

-----------------------------------------------------------------------------
(* Passes *)

\* mintInvite, createPass: the row, then the mail, then the stamp.
MintRow(r) ==
    /\ At(r, {"mint"}, "asked")
    /\ IF stream = "open" /\ status[req[r].on] = "none"
       THEN /\ status' = [status EXCEPT ![req[r].on] = "created"]
            /\ req' = Moved(r, "mailing")
       ELSE Finish(r) /\ UNCHANGED status
    /\ UNCHANGED <<hostVars, stream, live, peerVars, lock>>

\* The mail arrives, or the host is shown the link to pass on.
Mailed(r, delivered) ==
    /\ At(r, {"mint", "reissue"}, "mailing")
    /\ linked' = IF Minted(req[r].on) THEN linked \cup {req[r].on} ELSE linked
    /\ IF delivered /\ req[r].op = "mint" THEN req' = Moved(r, "stamping") ELSE Finish(r)
    /\ UNCHANGED <<hostVars, rowVars, entering, resolved, present, lock, missed>>

\* SetPassStatus(sent), whatever the status has become while the mail was sent.
MintStamp(r) ==
    /\ At(r, {"mint"}, "stamping")
    /\ status' = IF Minted(req[r].on) THEN [status EXCEPT ![req[r].on] = "sent"] ELSE status
    /\ Finish(r)
    /\ UNCHANGED <<hostVars, stream, live, peerVars, lock>>

\* reissueInvite: a new link and a clean status under the lock, then the mail.
Reissue(r) ==
    /\ At(r, {"reissue"}, "asked") /\ lock = Nobody
    /\ IF Minted(req[r].on)
       THEN /\ status' = [status EXCEPT ![req[r].on] = "sent"]
            /\ linked' = linked \ {req[r].on}
            /\ req' = Moved(r, "mailing")
       ELSE Finish(r) /\ UNCHANGED <<status, linked>>
    /\ UNCHANGED <<hostVars, stream, live, entering, resolved, present, lock, missed>>

\* revokeInvite: the slot is vacated, the connection stays.
Revoke(r) ==
    /\ At(r, {"revoke"}, "asked") /\ lock = Nobody
    /\ status' = IF Minted(req[r].on) THEN [status EXCEPT ![req[r].on] = "revoked"] ELSE status
    /\ Finish(r)
    /\ UNCHANGED <<hostVars, stream, live, peerVars, lock>>

\* A kick of the connected host: revoked and evicted by the room, without the lock.
Kick(p) ==
    /\ HostPeer \in present /\ p \in present
    /\ status' = IF Minted(p) THEN [status EXCEPT ![p] = "revoked"] ELSE status
    /\ present' = present \ {p}
    /\ UNCHANGED <<hostVars, stream, live, linked, entering, resolved, req, lock, missed>>

\* passEnter: the checks, and then the transition, which has a guard of its own.
Enter(p) ==
    /\ p \in linked /\ p \notin entering
    /\ Joinable(p) /\ Active(Streamer)
    /\ entering' = entering \cup {p}
    /\ UNCHANGED <<hostVars, rowVars, linked, resolved, present, req, lock, missed>>

\* Mutant: any pass the checks let through is opened.
OpenableUnlessGone(p) == Minted(p)
Openable(p) == status[p] \in {"created", "sent"}

MarkPassOpened(p) ==
    /\ p \in entering
    /\ status' = IF Openable(p) THEN [status EXCEPT ![p] = "opened"] ELSE status
    /\ entering' = entering \ {p}
    /\ UNCHANGED <<hostVars, stream, live, linked, resolved, present, req, lock, missed>>

-----------------------------------------------------------------------------
(* Connections *)

\* resolvePass, resolveCookie: the handshake.
Resolve(p) ==
    /\ p \notin resolved \cup present /\ Active(Streamer)
    /\ p \in Passes => p \in linked /\ Joinable(p)
    /\ resolved' = resolved \cup {p}
    /\ UNCHANGED <<hostVars, rowVars, linked, entering, present, req, lock, missed>>

\* The room it found is torn down before it joins, or the socket is gone.
JoinFails(p) ==
    /\ p \in resolved /\ lock # p
    /\ resolved' = resolved \ {p}
    /\ UNCHANGED <<hostVars, rowVars, linked, entering, present, req, lock, missed>>

\* The host joins without a further check, guests under the lock after one.
HostJoins ==
    /\ HostPeer \in resolved
    /\ resolved' = resolved \ {HostPeer} /\ present' = present \cup {HostPeer}
    /\ UNCHANGED <<hostVars, rowVars, linked, entering, req, lock, missed>>

\* guestAdmissible: the check of the handshake, again.
Admissible(p) == Joinable(p)

GuestLocks(p) ==
    /\ p \in resolved \cap Passes /\ lock = Nobody
    /\ IF Admissible(p) THEN lock' = p /\ UNCHANGED resolved
       ELSE resolved' = resolved \ {p} /\ UNCHANGED lock
    /\ UNCHANGED <<hostVars, rowVars, linked, entering, present, req, missed>>

GuestJoins(p) ==
    /\ lock = p
    /\ present' = present \cup {p} /\ resolved' = resolved \ {p} /\ lock' = Nobody
    /\ UNCHANGED <<hostVars, rowVars, linked, entering, req, missed>>

Leave(p) ==
    /\ p \in present
    /\ present' = present \ {p}
    /\ UNCHANGED <<hostVars, rowVars, linked, entering, resolved, req, lock, missed>>

\* A crash or restart: requests and connections are lost, the rows stay.
Restart ==
    /\ present \cup resolved \cup entering # {} \/ \E r \in Requests : req[r] # Idle
    /\ entering' = {} /\ resolved' = {} /\ present' = {}
    /\ req' = [r \in Requests |-> Idle] /\ lock' = Nobody
    /\ UNCHANGED <<hostVars, rowVars, linked, missed>>

-----------------------------------------------------------------------------
Init ==
    /\ account = [h \in Hosts |-> "absent"] /\ admins = {}
    /\ stream = "none" /\ live = FALSE
    /\ status = [p \in Passes |-> "none"]
    /\ linked = {} /\ entering = {} /\ resolved = {} /\ present = {} /\ missed = {}
    /\ req = [r \in Requests |-> Idle] /\ lock = Nobody

Asking ==
    \E r \in Requests :
       \/ \E h, t \in Hosts, op \in AdminOps : AskAdmin(r, h, t, op)
       \/ \E op \in StreamOps : AskOwn(r, op, Streamer)
       \/ \E op \in PassOps, p \in Passes : AskOwn(r, op, p)
       \/ \E h \in Hosts : AskErase(r, h)

Administration ==
    \E r \in Requests :
       \/ Check(r) \/ TargetGone(r)
       \/ Approve(r) \/ Promote(r) \/ Demote(r) \/ ForceEnd(r)
       \/ \E endLive \in BOOLEAN : Suspend(r, endLive)
       \/ EraseLoads(r) \/ EraseCounts(r) \/ Erase(r)

Streaming ==
    \/ Reap
    \/ \E r \in Requests :
          \/ CreateStream(r) \/ GoLive(r) \/ EndSession(r)
          \/ \E seen, listed \in BOOLEAN : DeleteReads(r, seen, listed)
          \/ DeleteRows(r) \/ DeleteEvicts(r)

Inviting ==
    \/ \E r \in Requests :
          \/ MintRow(r) \/ MintStamp(r) \/ Reissue(r) \/ Revoke(r)
          \/ \E delivered \in BOOLEAN : Mailed(r, delivered)
    \/ \E p \in Passes : Kick(p) \/ Enter(p) \/ MarkPassOpened(p)

Connecting ==
    \/ HostJoins
    \/ \E p \in Peers : Resolve(p) \/ JoinFails(p) \/ Leave(p)
    \/ \E p \in Passes : GuestLocks(p) \/ GuestJoins(p)

Next ==
    \/ \E h \in Hosts : SignIn(h)
    \/ Asking \/ Administration \/ Streaming \/ Inviting \/ Connecting \/ Restart

Spec == Init /\ [][Next]_vars

-----------------------------------------------------------------------------
(* Properties *)

\* Accounts, rows and requests are well formed; only joining guests and the
\* requests that delete hold the lock.
AccountsTypeOK ==
    /\ account \in [Hosts -> {"absent", "pending", "active", "suspended", "erased"}]
    /\ admins \subseteq {h \in Hosts : account[h] \notin {"absent", "erased"}}
    /\ stream \in {"none", "open", "gone"} /\ live \in BOOLEAN
    /\ status \in [Passes -> PassStatuses]
    /\ linked \subseteq Passes /\ entering \subseteq Passes
    /\ resolved \subseteq Peers /\ present \subseteq Peers /\ missed \subseteq Passes
    /\ req \in [Requests -> [op : Ops, on : Hosts \cup Passes \cup {Nobody}, step : Steps,
                            seen : BOOLEAN, stale : BOOLEAN, listed : BOOLEAN]]
    /\ \/ lock = Nobody
       \/ lock \in Passes \cap resolved
       \/ lock \in Requests /\ req[lock].op \in {"erase", "delete"}

\* wouldStrandLastAdmin and the guard of the erasure: no suspension, demotion or
\* erasure takes the last active admin away, unless the admins changed between its
\* look and its write (the race the guard declares out of scope).
AdminRemains ==
    [][ActiveAdmins # {} /\ ActiveAdmins' = {} =>
         \E r \in Requests : req[r].stale /\ req'[r].step # req[r].step]_vars

\* deleteStream and the erasure: once the rows of a stream are gone and the lock is
\* free, none of its guests is in the room, whichever handshake was under way.  The
\* exception are those who were in it when the deletion could not list the passes and
\* did not take the stream to be live: nobody evicts them, but nobody joins them either.
GoneStreamHasNoGuests ==
    stream = "gone" /\ lock = Nobody => present \cap Passes \subseteq missed

\* deleteHostAccount: an account is never erased under a live session, although the
\* host may go live from another tab after the erasure looked.
NeverErasedLive ==
    [][account[Streamer] # "erased" /\ account'[Streamer] = "erased" => ~live]_vars

\* A pass that was turned off is turned on by nothing but a re-issue, however late a
\* guest enters with it.  The stamp of a mint whose mail took longer than the
\* revocation is the exception: it undoes the revocation.
RevokedStays ==
    [][\A p \in Passes :
         status[p] = "revoked" /\ status'[p] \notin {"revoked", "gone"} =>
            \E r \in Requests :
               /\ req[r].on = p
               /\ At(r, {"reissue"}, "asked") \/ At(r, {"mint"}, "stamping")]_vars
===============================================================================
