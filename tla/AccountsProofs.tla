----------------------------- MODULE AccountsProofs -----------------------------
(***************************************************************************)
(* What holds of the accounts and the invites for any number of hosts,     *)
(* passes and requests in progress.                                        *)
(***************************************************************************)
EXTENDS Accounts, FiniteSetTheorems, TLAPS

\* A request of the console or an erasure is about an account there has been, one about
\* an invite about a pass.
AboutSomeone ==
    \A r \in Requests :
       /\ req[r].op \in AdminOps \cup {"erase"} =>
             req[r].on \in Hosts /\ account[req[r].on] # "absent"
       /\ req[r].op \in PassOps => req[r].on \in Passes

\* The requests that have taken the binding lock of the streamer.
HasLock(rq) ==
    \/ rq.op = "delete" /\ rq.step \in {"read", "rows"}
    \/ rq.op = "erase" /\ rq.on = Streamer /\ rq.step \in {"loaded", "cleared"}
Holds(r) == HasLock(req[r])

\* The lock is taken by those who act under it; an erasure that has it found no live
\* session, and a guest that has it an invite that is still there.
LockKept ==
    /\ \A r \in Requests : lock = r <=> Holds(r)
    /\ \A r \in Requests : Holds(r) /\ req[r].op = "erase" => ~live
    /\ \A p \in Passes : lock = p => Minted(p)

\* A stream that is gone has no invites, and guests only while its deletion has not
\* evicted them yet, or where it missed them.
GoneIsEmpty ==
    stream = "gone" =>
       /\ \A p \in Passes : ~Minted(p)
       /\ \/ present \cap Passes \subseteq missed
          \/ \E r \in Requests : At(r, {"delete"}, "rows")

\* A removal that looked at the admins as they are now knows whether its target is one,
\* and goes on only if there is another.
ViewKept ==
    \A r \in Requests :
       req[r].op \in Removals /\ req[r].step \in {"loaded", "cleared"} /\ ~req[r].stale =>
          /\ req[r].seen <=> req[r].on \in ActiveAdmins
          /\ req[r].step = "cleared" => ~WouldStrand(r)

AccountsTyped == AccountsTypeOK /\ AboutSomeone
AccountsInv == AccountsTyped /\ LockKept /\ GoneIsEmpty /\ ViewKept

-----------------------------------------------------------------------------
(* Steps *)

\* The reading step of a deletion, whatever its two reads brought.
DeleteReading(r) == \E seen, listed \in BOOLEAN : DeleteReads(r, seen, listed)

\* What Next comes to, action by action.
LEMMA AccountsCases ==
    ASSUME [Next]_vars
    PROVE  \/ UNCHANGED vars \/ Reap \/ HostJoins \/ Restart
           \/ \E h \in Hosts : SignIn(h)
           \/ \E r \in Requests, h, t \in Hosts, op \in AdminOps : AskAdmin(r, h, t, op)
           \/ \E r \in Requests, op \in StreamOps : AskOwn(r, op, Streamer)
           \/ \E r \in Requests, op \in PassOps, p \in Passes : AskOwn(r, op, p)
           \/ \E r \in Requests, h \in Hosts : AskErase(r, h)
           \/ \E r \in Requests :
                 \/ Check(r) \/ TargetGone(r) \/ Approve(r) \/ Promote(r) \/ Demote(r)
                 \/ ForceEnd(r) \/ EraseLoads(r) \/ EraseCounts(r) \/ Erase(r)
                 \/ CreateStream(r) \/ GoLive(r) \/ EndSession(r)
                 \/ DeleteReading(r) \/ DeleteRows(r) \/ DeleteEvicts(r)
                 \/ MintRow(r) \/ MintStamp(r) \/ Reissue(r) \/ Revoke(r)
           \/ \E r \in Requests, b \in BOOLEAN : Suspend(r, b) \/ Mailed(r, b)
           \/ \E p \in Passes : \/ Kick(p) \/ Enter(p) \/ MarkPassOpened(p)
                                \/ GuestLocks(p) \/ GuestJoins(p)
           \/ \E p \in Peers : Resolve(p) \/ JoinFails(p) \/ Leave(p)
BY DEF Next, Asking, Administration, Streaming, Inviting, Connecting, DeleteReading

RequestRecords ==
    [op : Ops, on : Hosts \cup Passes \cup {Nobody}, step : Steps, seen : BOOLEAN,
     stale : BOOLEAN, listed : BOOLEAN]

LEMMA RequestTypes ==
    ASSUME AccountsTypeOK, NEW r \in Requests
    PROVE  /\ req \in [Requests -> RequestRecords]
           /\ Ended(r) \in [Requests -> RequestRecords]
           /\ \A step \in Steps : Moved(r, step) \in [Requests -> RequestRecords]
<1>1. Idle \in RequestRecords
  BY DEF Idle, Request, RequestRecords, Ops, Steps
<1>2. \A q \in RequestRecords, step \in Steps : [q EXCEPT !.step = step] \in RequestRecords
  BY DEF RequestRecords
<1>3. req \in [Requests -> RequestRecords]
  BY DEF AccountsTypeOK, RequestRecords
<1> QED BY <1>1, <1>2, <1>3 DEF Ended, Moved

\* The steps of the requests of f are those of g, whatever their views.
Alike(f, g) == \A q \in Requests :
    f[q].op = g[q].op /\ f[q].on = g[q].on /\ f[q].step = g[q].step /\ f[q].seen = g[q].seen

LEMMA WrittenAlike ==
    ASSUME NEW f \in [Requests -> RequestRecords], Written(f)
    PROVE  req' \in [Requests -> RequestRecords] /\ Alike(req', f)
<1>1. \A q \in RequestRecords : [q EXCEPT !.stale = TRUE] \in RequestRecords
  BY DEF RequestRecords
<1>2. Outdated(f) \in [Requests -> RequestRecords]
  BY <1>1 DEF Outdated
<1>3. Alike(Outdated(f), f)
  BY DEF Outdated, Alike, RequestRecords
<1>4. Alike(f, f)
  BY DEF Alike
<1> QED BY <1>2, <1>3, <1>4 DEF Written

-----------------------------------------------------------------------------
(* Types *)

Accounted ==
    /\ account \in [Hosts -> {"absent", "pending", "active", "suspended", "erased"}]
    /\ admins \subseteq {h \in Hosts : account[h] \notin {"absent", "erased"}}

\* What becomes of an account by itself.
LEMMA AccountedKept ==
    ASSUME AccountsTyped, [Next]_vars
    PROVE  Accounted' /\ \A h \in Hosts : account[h] # "absent" => account'[h] # "absent"
<1> DEFINE Goal == Accounted' /\ \A h \in Hosts : account[h] # "absent" => account'[h] # "absent"
<1> USE AccountsAssumption DEF AccountsTyped, AccountsTypeOK, Accounted
<1>1. ASSUME UNCHANGED hostVars PROVE Goal
  BY <1>1 DEF hostVars
<1>2. ASSUME NEW h \in Hosts, SignIn(h) PROVE Goal
  BY <1>2 DEF SignIn, NewStatus
<1>3. ASSUME NEW r \in Requests, Approve(r) PROVE Goal
  BY <1>3 DEF Approve, AboutSomeone, At, AdminOps
<1>4. ASSUME NEW r \in Requests, Promote(r) PROVE Goal
  BY <1>4 DEF Promote, AboutSomeone, At, AdminOps
<1>5. ASSUME NEW r \in Requests, Demote(r) PROVE Goal
  BY <1>5 DEF Demote
<1>6. ASSUME NEW r \in Requests, NEW b \in BOOLEAN, Suspend(r, b) PROVE Goal
  BY <1>6 DEF Suspend, AboutSomeone, At, AdminOps
<1>7. ASSUME NEW r \in Requests, Erase(r) PROVE Goal
  BY <1>7 DEF Erase, AboutSomeone, At, AdminOps
<1>8. ASSUME Reap \/ HostJoins \/ Restart \/ UNCHANGED vars PROVE Goal
  BY <1>1, <1>8 DEF Reap, HostJoins, Restart, vars
<1>9. ASSUME NEW r \in Requests, NEW h, NEW t, NEW op,
             AskAdmin(r, h, t, op) \/ AskOwn(r, op, t) \/ AskErase(r, h)
      PROVE  Goal
  BY <1>1, <1>9 DEF AskAdmin, AskOwn, AskErase
<1>10. ASSUME NEW r \in Requests,
              \/ Check(r) \/ TargetGone(r) \/ ForceEnd(r) \/ EraseLoads(r) \/ EraseCounts(r)
              \/ CreateStream(r) \/ GoLive(r) \/ EndSession(r)
              \/ DeleteReading(r) \/ DeleteRows(r) \/ DeleteEvicts(r)
              \/ MintRow(r) \/ MintStamp(r) \/ Reissue(r) \/ Revoke(r)
       PROVE  Goal
  BY <1>1, <1>10 DEF Check, TargetGone, ForceEnd, EraseLoads, EraseCounts, CreateStream, GoLive,
     EndSession, DeleteReading, DeleteReads, DeleteRows, DeleteEvicts, MintRow, MintStamp,
     Reissue, Revoke
<1>11. ASSUME NEW r \in Requests, NEW b, Mailed(r, b) PROVE Goal
  BY <1>1, <1>11 DEF Mailed
<1>12. ASSUME NEW p, \/ Kick(p) \/ Enter(p) \/ MarkPassOpened(p) \/ GuestLocks(p)
                     \/ GuestJoins(p) \/ Resolve(p) \/ JoinFails(p) \/ Leave(p)
       PROVE  Goal
  BY <1>1, <1>12 DEF Kick, Enter, MarkPassOpened, GuestLocks, GuestJoins, Resolve, JoinFails,
     Leave
<1> HIDE DEF Goal, AccountsTyped, AccountsTypeOK, Accounted
<1>13. Goal
  BY <1>2, <1>3, <1>4, <1>5, <1>6, <1>7, <1>8, <1>9, <1>10, <1>11, <1>12, AccountsCases
<1> QED BY <1>13 DEF Goal

\* A request is about what it was about, or has ended, or was just made.
About(rq) ==
    /\ rq.op \in AdminOps \cup {"erase"} => rq.on \in Hosts /\ account[rq.on] # "absent"
    /\ rq.op \in PassOps => rq.on \in Passes

\* A request does not turn into another one.
Continues(q) == req[q].op = "none" \/ req'[q].op \in {req[q].op, "none"}

LEMMA RequestsKept ==
    ASSUME AccountsTyped, [Next]_vars
    PROVE  /\ req' \in [Requests -> RequestRecords] /\ AboutSomeone'
           /\ \A q \in Requests : Continues(q)
<1> DEFINE Goal == req' \in [Requests -> RequestRecords]
                   /\ \A q \in Requests : About(req'[q]) /\ Continues(q)
<1> USE AccountsAssumption
<1>0. AccountsTypeOK /\ \A q \in Requests : About(req[q])
  BY DEF AccountsTyped, AboutSomeone, About
<1>1. ASSUME UNCHANGED req PROVE Goal
  BY <1>0, <1>1, RequestTypes DEF AccountsTypeOK, RequestRecords, Continues
<1>2. ASSUME NEW r \in Requests, Alike(req', Ended(r)), req' \in [Requests -> RequestRecords]
      PROVE  Goal
  <2>1. \A q \in Requests : Ended(r)[q] \in {Idle, req[q]}
    BY <1>0 DEF Ended, AccountsTypeOK
  <2> QED BY <1>0, <1>2, <2>1 DEF Alike, About, Continues, Idle, Request, AdminOps, PassOps
<1>3. ASSUME NEW r \in Requests, NEW step \in Steps, Alike(req', Moved(r, step)),
             req' \in [Requests -> RequestRecords]
      PROVE  Goal
  <2>1. \A q \in Requests : Moved(r, step)[q].op = req[q].op /\ Moved(r, step)[q].on = req[q].on
    BY <1>0 DEF Moved, AccountsTypeOK
  <2> QED BY <1>0, <1>3, <2>1 DEF Alike, About, Continues
<1>4. ASSUME NEW r \in Requests, NEW step \in Steps, req' \in {Ended(r), Moved(r, step), req}
      PROVE  Goal
  <2>1. CASE req' = req
    BY <1>1, <2>1
  <2>2. CASE req' = Ended(r)
    BY <1>0, <1>2, <2>2, RequestTypes DEF Alike
  <2>3. CASE req' = Moved(r, step)
    BY <1>0, <1>3, <2>3, RequestTypes DEF Alike
  <2> QED BY <1>4, <2>1, <2>2, <2>3
<1>21. ASSUME Written(req) PROVE Goal
  <2>1. req \in [Requests -> RequestRecords]
    BY <1>0 DEF AccountsTypeOK, RequestRecords
  <2>2. req' \in [Requests -> RequestRecords] /\ Alike(req', req)
    BY <1>21, <2>1, WrittenAlike
  <2> QED BY <1>0, <2>2 DEF Alike, About, Continues
<1>5. ASSUME NEW r \in Requests, NEW step \in Steps,
             Written(req) \/ Written(Ended(r)) \/ Written(Moved(r, step))
      PROVE  Goal
  <2>1. CASE Written(req)
    BY <1>21, <2>1
  <2>2. CASE Written(Ended(r))
    BY <1>0, <1>2, <2>2, RequestTypes, WrittenAlike
  <2>3. CASE Written(Moved(r, step))
    BY <1>0, <1>3, <2>3, RequestTypes, WrittenAlike
  <2> QED BY <1>5, <2>1, <2>2, <2>3
<1>6. ASSUME NEW r \in Requests, NEW rq \in RequestRecords, req' = [req EXCEPT ![r] = rq],
             About(rq), req[r].op \in {"none", rq.op}
      PROVE  Goal
  BY <1>0, <1>6, RequestTypes DEF AccountsTypeOK, Continues
<1>23. Idle.op = "none"
  BY DEF Idle, Request
<1>7. ASSUME NEW h \in Hosts, SignIn(h) PROVE Goal
  BY <1>7, <1>21 DEF SignIn
<1>8. ASSUME NEW r \in Requests, NEW h \in Hosts, NEW t \in Hosts, NEW op \in AdminOps,
             AskAdmin(r, h, t, op)
      PROVE  Goal
  <2> DEFINE rq == Request(op, t, "loaded", op \in Removals /\ t \in ActiveAdmins)
  <2>1. rq \in RequestRecords
    BY DEF Request, RequestRecords, Ops, Steps
  <2>2. About(rq)
    BY <1>8 DEF AskAdmin, Loaded, About, Request, AdminOps, PassOps
  <2> QED BY <1>6, <1>8, <1>23, <2>1, <2>2 DEF AskAdmin
<1>9. ASSUME NEW r \in Requests, NEW op \in StreamOps, AskOwn(r, op, Streamer) PROVE Goal
  <2>1. Request(op, Streamer, "asked", FALSE) \in RequestRecords
    BY DEF Request, RequestRecords, Ops, Steps
  <2>2. About(Request(op, Streamer, "asked", FALSE))
    BY DEF About, Request, AdminOps, PassOps, StreamOps
  <2> QED BY <1>6, <1>9, <1>23, <2>1, <2>2 DEF AskOwn
<1>10. ASSUME NEW r \in Requests, NEW op \in PassOps, NEW p \in Passes, AskOwn(r, op, p)
       PROVE  Goal
  <2>1. Request(op, p, "asked", FALSE) \in RequestRecords
    BY DEF Request, RequestRecords, Ops, Steps
  <2>2. About(Request(op, p, "asked", FALSE))
    BY DEF About, Request, AdminOps, PassOps
  <2> QED BY <1>6, <1>10, <1>23, <2>1, <2>2 DEF AskOwn
<1>11. ASSUME NEW r \in Requests, NEW h \in Hosts, AskErase(r, h) PROVE Goal
  <2>1. Request("erase", h, "asked", FALSE) \in RequestRecords
    BY DEF Request, RequestRecords, Ops, Steps
  <2>2. About(Request("erase", h, "asked", FALSE))
    BY <1>11 DEF AskErase, SignedIn, Active, About, Request, PassOps
  <2> QED BY <1>6, <1>11, <1>23, <2>1, <2>2 DEF AskErase
<1>12. ASSUME NEW r \in Requests, EraseLoads(r) PROVE Goal
  <2>1. CASE req' = Ended(r)
    BY <1>4, <2>1 DEF Steps
  <2>2. CASE req' = [req EXCEPT ![r].step = "loaded", ![r].seen = req[r].on \in ActiveAdmins]
    <3>1. req[r] \in RequestRecords
      BY <1>0, RequestTypes
    <3>7. req'[r] = [req[r] EXCEPT !.step = "loaded", !.seen = (req[r].on \in ActiveAdmins)]
      BY <1>0, <2>2 DEF AccountsTypeOK
    <3>4. PICK b \in BOOLEAN : req'[r] = [req[r] EXCEPT !.step = "loaded", !.seen = b]
      <4>1. CASE req[r].on \in ActiveAdmins
        <5>1. (req[r].on \in ActiveAdmins) = TRUE
          BY <4>1
        <5> QED BY <3>7, <5>1
      <4>2. CASE ~(req[r].on \in ActiveAdmins)
        <5>1. (req[r].on \in ActiveAdmins) = FALSE
          BY <4>2
        <5> QED BY <3>7, <5>1
      <4> QED BY <4>1, <4>2
    <3>5. \A q \in RequestRecords, c \in BOOLEAN :
             [q EXCEPT !.step = "loaded", !.seen = c] \in RequestRecords
      BY DEF RequestRecords, Steps
    <3>6. req'[r].op = req[r].op /\ req'[r].on = req[r].on
      BY <3>1, <3>4 DEF RequestRecords
    <3>8. req'[r] \in RequestRecords
      BY ZenonT(60), <3>1, <3>4, <3>5
    <3>9. About(req'[r])
      BY <1>0, <3>6 DEF About
    <3>2. req'[r] \in RequestRecords /\ About(req'[r])
      BY <3>8, <3>9
    <3>3. req' = [req EXCEPT ![r] = req'[r]]
      BY <1>0, <2>2, RequestTypes
    <3> QED BY <1>6, <3>2, <3>3, <3>6
  <2> QED BY <1>12, <2>1, <2>2 DEF EraseLoads, Finish
<1>13. ASSUME NEW r \in Requests, DeleteReading(r) PROVE Goal
  <2>1. req[r] \in RequestRecords
    BY <1>0, RequestTypes
  <2>2. req'[r] \in RequestRecords /\ About(req'[r])
    <3>1. PICK seen, listed \in BOOLEAN : DeleteReads(r, seen, listed)
      BY <1>13 DEF DeleteReading
    <3>2. req'[r] = [req[r] EXCEPT !.step = "read", !.seen = seen, !.listed = listed]
      BY <1>0, <3>1, RequestTypes DEF DeleteReads
    <3>3. req'[r] \in RequestRecords
      BY <2>1, <3>2 DEF RequestRecords, Steps
    <3>4. UNCHANGED hostVars
      BY <3>1 DEF DeleteReads
    <3> QED BY <1>0, <2>1, <3>2, <3>3, <3>4 DEF About, RequestRecords, AboutSomeone, hostVars
  <2>3. req' = [req EXCEPT ![r] = req'[r]]
    BY <1>0, <1>13, RequestTypes DEF DeleteReading, DeleteReads
  <2>4. req'[r].op = req[r].op
    BY <1>0, <1>13, <2>1, RequestTypes DEF DeleteReading, DeleteReads, RequestRecords
  <2> QED BY <1>6, <2>2, <2>3, <2>4
<1>14. ASSUME NEW r \in Requests, Approve(r) \/ Promote(r) \/ Demote(r) \/ Erase(r) PROVE Goal
  BY <1>5, <1>14 DEF Approve, Promote, Demote, Erase, Steps
<1>15. ASSUME NEW r \in Requests, NEW b \in BOOLEAN, Suspend(r, b) PROVE Goal
  BY <1>5, <1>15 DEF Suspend, Steps
<1>16. ASSUME NEW r \in Requests,
              \/ Check(r) \/ TargetGone(r) \/ ForceEnd(r) \/ EraseCounts(r)
              \/ CreateStream(r) \/ GoLive(r) \/ EndSession(r)
              \/ DeleteRows(r) \/ DeleteEvicts(r)
              \/ MintRow(r) \/ MintStamp(r) \/ Reissue(r) \/ Revoke(r)
       PROVE  \E step \in Steps : req' \in {Ended(r), Moved(r, step), req}
  BY <1>16 DEF Check, TargetGone, ForceEnd, EraseCounts, CreateStream, GoLive, EndSession,
     DeleteRows, DeleteEvicts, MintRow, MintStamp, Reissue, Revoke, Finish, Steps
<1>17. ASSUME NEW r \in Requests, NEW b \in BOOLEAN, Mailed(r, b)
       PROVE  \E step \in Steps : req' \in {Ended(r), Moved(r, step), req}
  BY <1>17 DEF Mailed, Finish, Steps
<1>18. ASSUME Restart PROVE Goal
  <2>1. Idle \in RequestRecords /\ About(Idle)
    BY DEF Idle, Request, RequestRecords, Ops, Steps, About, AdminOps, PassOps
  <2> QED BY <1>18, <2>1 DEF Restart, Continues, Idle, Request
<1>19. ASSUME Reap \/ HostJoins \/ UNCHANGED vars PROVE Goal
  BY <1>1, <1>19 DEF Reap, HostJoins, vars
<1>20. ASSUME NEW p, \/ Kick(p) \/ Enter(p) \/ MarkPassOpened(p) \/ GuestLocks(p)
                     \/ GuestJoins(p) \/ Resolve(p) \/ JoinFails(p) \/ Leave(p)
       PROVE  Goal
  BY <1>1, <1>20 DEF Kick, Enter, MarkPassOpened, GuestLocks, GuestJoins, Resolve, JoinFails,
     Leave
<1> HIDE DEF Goal
<1>24. Goal
  BY <1>4, <1>7, <1>8, <1>9, <1>10, <1>11, <1>12, <1>13, <1>14, <1>15, <1>16, <1>17, <1>18,
     <1>19,
     <1>20, AccountsCases
<1>25. Goal => (\A q \in Requests : About(req'[q])) /\ \A q \in Requests : Continues(q)
  BY DEF Goal
<1>26. (\A q \in Requests : About(req'[q])) => AboutSomeone'
  <2>1. AccountsTyped /\ \A h \in Hosts : account[h] # "absent" => account'[h] # "absent"
    BY AccountedKept
  <2> QED BY <2>1 DEF About, AboutSomeone
<1> QED BY <1>24, <1>25, <1>26 DEF Goal

-----------------------------------------------------------------------------
(* The binding lock *)

LEMMA AlikeHasLock ==
    ASSUME NEW f, NEW g, Alike(f, g), NEW q \in Requests
    PROVE  HasLock(f[q]) <=> HasLock(g[q])
BY DEF Alike, HasLock

\* One request takes the lock, gives it back or keeps it; the others do as before.
LEMMA OneRequestMoves ==
    ASSUME AccountsTypeOK, \A q \in Requests : lock = q <=> Holds(q),
           NEW r \in Requests,
           \A q \in Requests \ {r} : HasLock(req'[q]) <=> HasLock(req[q]),
           lock' = r <=> HasLock(req'[r]),
           \A q \in Requests \ {r} : lock' = q <=> lock = q
    PROVE  (\A q \in Requests : lock = q <=> Holds(q))'
BY DEF Holds

LEMMA LockIsHeld ==
    ASSUME AccountsTyped, \A q \in Requests : lock = q <=> Holds(q), [Next]_vars
    PROVE  (\A q \in Requests : lock = q <=> Holds(q))'
<1> DEFINE Goal == (\A q \in Requests : lock = q <=> Holds(q))'
<1>0. AccountsTypeOK /\ req \in [Requests -> RequestRecords]
  BY DEF AccountsTyped, AccountsTypeOK, RequestRecords
<1>1. ASSUME UNCHANGED req, \A q \in Requests : lock' = q <=> lock = q PROVE Goal
  BY <1>1 DEF Holds
\* A request that has the lock neither before nor after.
<1>2. ASSUME NEW r \in Requests, NEW f, lock' = lock, Alike(req', f),
             ~HasLock(req[r]), ~HasLock(f[r]), \A q \in Requests \ {r} : f[q] = req[q]
      PROVE  Goal
  BY <1>2, AlikeHasLock DEF Holds
<1>3. ASSUME NEW r \in Requests, lock' = lock, ~HasLock(req[r]), ~HasLock(req'[r]),
             \A q \in Requests \ {r} : req'[q] = req[q]
      PROVE  Goal
  BY <1>3 DEF Holds
<1>4. ~HasLock(Idle)
  BY DEF HasLock, Idle, Request
<1>5. \A r \in Requests : /\ Ended(r)[r] = Idle
                          /\ \A q \in Requests \ {r} : Ended(r)[q] = req[q]
  BY <1>0 DEF Ended
<1>6. \A r \in Requests, step \in Steps :
         /\ Moved(r, step)[r] = [req[r] EXCEPT !.step = step]
         /\ \A q \in Requests \ {r} : Moved(r, step)[q] = req[q]
  BY <1>0 DEF Moved
<1>7. \A rq \in RequestRecords, step \in Steps :
         rq.op \notin {"delete", "erase"} => ~HasLock(rq) /\ ~HasLock([rq EXCEPT !.step = step])
  BY DEF HasLock, RequestRecords
<1>29. \A r \in Requests, step \in Steps :
          req[r].op \notin {"delete", "erase"} => ~HasLock(req[r]) /\ ~HasLock(Moved(r, step)[r])
  <2> SUFFICES ASSUME NEW r \in Requests, NEW step \in Steps,
                      req[r].op \notin {"delete", "erase"}
               PROVE  ~HasLock(req[r]) /\ ~HasLock(Moved(r, step)[r])
    OBVIOUS
  <2>1. Moved(r, step)[r] = [req[r] EXCEPT !.step = step] /\ req[r] \in RequestRecords
    BY <1>0, <1>6
  <2> QED BY <1>7, <2>1
<1>8. ASSUME NEW r \in Requests, NEW step \in Steps, lock' = lock,
             req[r].op \notin {"delete", "erase"},
             req' \in {Ended(r), Moved(r, step), req}
      PROVE  Goal
  <2>1. CASE req' = req
    BY <1>1, <1>8, <2>1
  <2>2. CASE req' = Ended(r)
    BY <1>0, <1>3, <1>4, <1>5, <1>7, <1>8, <2>2
  <2>3. CASE req' = Moved(r, step)
    BY <1>3, <1>6, <1>29, <1>8, <2>3
  <2> QED BY <1>8, <2>1, <2>2, <2>3
<1>9. ASSUME NEW r \in Requests, NEW step \in Steps, lock' = lock,
             req[r].op \notin {"delete", "erase"},
             Written(Ended(r)) \/ Written(Moved(r, step))
      PROVE  Goal
  <2>1. CASE Written(Ended(r))
    <3>1. Alike(req', Ended(r))
      BY <1>0, <2>1, RequestTypes, WrittenAlike
    <3> QED BY <1>0, <1>2, <1>4, <1>5, <1>7, <1>9, <3>1
  <2>2. CASE Written(Moved(r, step))
    <3>1. Alike(req', Moved(r, step))
      BY <1>0, <2>2, RequestTypes, WrittenAlike
    <3> QED BY <1>2, <1>6, <1>29, <1>9, <3>1
  <2> QED BY <1>9, <2>1, <2>2
<1>10. ASSUME NEW h \in Hosts, SignIn(h) PROVE Goal
  <2>1. Alike(req', req) /\ lock' = lock
    BY <1>0, <1>10, WrittenAlike DEF SignIn, Unchecked
  <2> QED BY <2>1, AlikeHasLock DEF Holds
\* A request that is made does not have the lock yet.
<1>11. ASSUME NEW r \in Requests, NEW rq, req[r] = Idle, lock' = lock, ~HasLock(rq),
              req' = [req EXCEPT ![r] = rq]
       PROVE  Goal
  BY <1>0, <1>3, <1>4, <1>11
<1>12. ASSUME NEW r \in Requests, NEW h \in Hosts, NEW t \in Hosts, NEW op \in AdminOps,
              AskAdmin(r, h, t, op)
       PROVE  Goal
  <2>1. ~HasLock(Request(op, t, "loaded", op \in Removals /\ t \in ActiveAdmins))
    BY DEF HasLock, Request, AdminOps
  <2> QED BY <1>11, <1>12, <2>1 DEF AskAdmin, Unchecked
<1>13. ASSUME NEW r \in Requests, NEW op, NEW on, AskOwn(r, op, on) PROVE Goal
  <2>1. ~HasLock(Request(op, on, "asked", FALSE))
    BY DEF HasLock, Request
  <2> QED BY <1>11, <1>13, <2>1 DEF AskOwn, Unchecked
<1>14. ASSUME NEW r \in Requests, NEW h, AskErase(r, h) PROVE Goal
  <2>1. ~HasLock(Request("erase", h, "asked", FALSE))
    BY DEF HasLock, Request
  <2> QED BY <1>11, <1>14, <2>1 DEF AskErase, Unchecked
<1>15. ASSUME NEW r \in Requests, Approve(r) \/ Promote(r) \/ Demote(r) PROVE Goal
  BY <1>9, <1>15 DEF Approve, Promote, Demote, At, Unchecked, Steps
<1>16. ASSUME NEW r \in Requests, NEW b \in BOOLEAN, Suspend(r, b) PROVE Goal
  BY <1>9, <1>16 DEF Suspend, At, Unchecked, Steps
<1>17. ASSUME NEW r \in Requests,
              \/ Check(r) \/ TargetGone(r) \/ ForceEnd(r)
              \/ CreateStream(r) \/ GoLive(r) \/ EndSession(r)
              \/ MintRow(r) \/ MintStamp(r) \/ Reissue(r) \/ Revoke(r)
       PROVE  Goal
  <2>1. lock' = lock
    BY <1>17 DEF Check, TargetGone, ForceEnd, CreateStream, GoLive, EndSession, MintRow,
                 MintStamp, Reissue, Revoke, Unchecked
  <2>2. req[r].op \notin {"delete", "erase"}
    BY <1>17 DEF Check, TargetGone, ForceEnd, CreateStream, GoLive, EndSession, MintRow,
                 MintStamp, Reissue, Revoke, At, AdminOps
  <2>3. \E step \in Steps : req' \in {Ended(r), Moved(r, step), req}
    BY <1>17 DEF Check, TargetGone, ForceEnd, CreateStream, GoLive, EndSession, MintRow,
                 MintStamp, Reissue, Revoke, Finish, Steps
  <2> QED BY <1>8, <2>1, <2>2, <2>3
<1>18. ASSUME NEW r \in Requests, NEW b \in BOOLEAN, Mailed(r, b) PROVE Goal
  <2>1. lock' = lock /\ req[r].op \notin {"delete", "erase"}
    BY <1>18 DEF Mailed, At
  <2>2. \E step \in Steps : req' \in {Ended(r), Moved(r, step), req}
    BY <1>18 DEF Mailed, Finish, Steps
  <2> QED BY <1>8, <2>1, <2>2
<1>19. ASSUME NEW r \in Requests, EraseLoads(r) PROVE Goal
  <2>1. ~HasLock(req[r])
    BY <1>19 DEF EraseLoads, At, HasLock
  <2>2. CASE Finish(r) /\ UNCHANGED lock
    BY <1>0, <1>3, <1>4, <1>5, <2>1, <2>2 DEF Finish
  <2>3. CASE /\ req' = [req EXCEPT ![r].step = "loaded", ![r].seen = req[r].on \in ActiveAdmins]
             /\ lock' = EraseHolds(r)
    <3>1. \A q \in Requests \ {r} : req'[q] = req[q]
      BY <1>0, <2>3
    <3>2. req'[r].op = req[r].op /\ req'[r].on = req[r].on /\ req'[r].step = "loaded"
      BY <1>0, <2>3 DEF RequestRecords
    <3>3. HasLock(req'[r]) <=> req[r].on = Streamer
      BY <1>19, <3>2 DEF HasLock, EraseLoads, At
    <3>4. CASE req[r].on = Streamer
      <4>1. lock = Nobody /\ lock' = r
        BY <1>19, <2>3, <3>4 DEF EraseLoads, EraseHolds
      <4> QED BY <1>0, <3>1, <3>3, <3>4, <4>1, AccountsAssumption, OneRequestMoves
    <3>5. CASE req[r].on # Streamer
      <4>1. lock' = lock
        BY <2>3, <3>5 DEF EraseHolds
      <4> QED BY <1>3, <2>1, <3>1, <3>3, <3>5, <4>1
    <3> QED BY <3>4, <3>5
  <2> QED BY <1>19, <2>2, <2>3 DEF EraseLoads
<1>20. ASSUME NEW r \in Requests, EraseCounts(r) PROVE Goal
  <2>1. CASE Finish(r) /\ lock' = Released(r)
    <3>1. /\ \A q \in Requests \ {r} : req'[q] = req[q]
          /\ ~HasLock(req'[r])
      BY <1>4, <1>5, <2>1 DEF Finish
    <3>2. lock' # r /\ (lock' = lock \/ (lock = r /\ lock' = Nobody))
      BY <2>1, AccountsAssumption DEF Released
    <3> QED BY <1>0, <3>1, <3>2, AccountsAssumption, OneRequestMoves
  <2>2. CASE req' = Moved(r, "cleared") /\ UNCHANGED lock
    <3>1. \A q \in Requests \ {r} : req'[q] = req[q]
      BY <1>6, <2>2 DEF Steps
    <3>2. req'[r] = [req[r] EXCEPT !.step = "cleared"]
      BY <1>6, <2>2 DEF Steps
    <3>3. HasLock(req'[r]) <=> HasLock(req[r])
      BY <1>0, <1>20, <3>2 DEF EraseCounts, At, HasLock, RequestRecords
    <3> QED BY <1>0, <2>2, <3>1, <3>3 DEF Holds
  <2> QED BY <1>20, <2>1, <2>2 DEF EraseCounts
<1>21. ASSUME NEW r \in Requests, Erase(r) PROVE Goal
  <2>1. Alike(req', Ended(r))
    BY <1>0, <1>21, RequestTypes, WrittenAlike DEF Erase
  <2>2. \A q \in Requests \ {r} : HasLock(req'[q]) <=> HasLock(req[q])
    BY <1>5, <2>1, AlikeHasLock
  <2>3. ~HasLock(req'[r])
    BY <1>4, <1>5, <2>1, AlikeHasLock
  <2>4. lock' # r /\ (lock' = lock \/ (lock = r /\ lock' = Nobody))
    BY <1>21, AccountsAssumption DEF Erase, Released
  <2> QED BY <1>0, <2>2, <2>3, <2>4, AccountsAssumption, OneRequestMoves
<1>22. ASSUME NEW r \in Requests, DeleteReading(r) PROVE Goal
  <2>1. lock = Nobody /\ lock' = r
    BY <1>22 DEF DeleteReading, DeleteReads
  <2>2. \A q \in Requests \ {r} : req'[q] = req[q]
    BY <1>0, <1>22 DEF DeleteReading, DeleteReads
  <2>3. req'[r].op = req[r].op /\ req'[r].step = "read"
    BY <1>0, <1>22 DEF DeleteReading, DeleteReads, RequestRecords
  <2>4. HasLock(req'[r])
    BY <1>22, <2>3 DEF DeleteReading, DeleteReads, At, HasLock
  <2> QED BY <1>0, <2>1, <2>2, <2>4, AccountsAssumption, OneRequestMoves
<1>23. ASSUME NEW r \in Requests, DeleteRows(r) \/ DeleteEvicts(r) PROVE Goal
  <2>1. HasLock(req[r]) /\ lock = r
    BY <1>23 DEF DeleteRows, DeleteEvicts, At, HasLock, Holds
  <2>2. CASE req' = Moved(r, "rows") /\ UNCHANGED lock
    <3>1. \A q \in Requests \ {r} : req'[q] = req[q]
      BY <1>6, <2>2 DEF Steps
    <3>2. req'[r] = [req[r] EXCEPT !.step = "rows"]
      BY <1>6, <2>2 DEF Steps
    <3>3. HasLock(req'[r])
      BY <1>0, <1>23, <3>2 DEF DeleteRows, DeleteEvicts, At, HasLock, RequestRecords
    <3> QED BY <1>0, <2>1, <2>2, <3>1, <3>3, OneRequestMoves
  <2>3. CASE req' = Ended(r) /\ lock' = Nobody
    <3>1. (\A q \in Requests \ {r} : req'[q] = req[q]) /\ ~HasLock(req'[r])
      BY <1>4, <1>5, <2>3
    <3> QED BY <1>0, <2>1, <2>3, <3>1, AccountsAssumption, OneRequestMoves
  <2> QED BY <1>23, <2>2, <2>3 DEF DeleteRows, DeleteEvicts, Finish
<1>24. ASSUME Restart PROVE Goal
  BY <1>4, <1>24, AccountsAssumption DEF Restart, Holds
<1>25. ASSUME NEW p \in Passes, GuestLocks(p) \/ GuestJoins(p) PROVE Goal
  <2>1. req' = req /\ \A q \in Requests : lock' = q <=> lock = q
    BY <1>25, AccountsAssumption DEF GuestLocks, GuestJoins
  <2> QED BY <1>1, <2>1
<1>26. ASSUME NEW p, \/ Kick(p) \/ Enter(p) \/ MarkPassOpened(p)
                     \/ Resolve(p) \/ JoinFails(p) \/ Leave(p)
       PROVE  Goal
  <2>1. req' = req /\ lock' = lock
    BY <1>26 DEF Kick, Enter, MarkPassOpened, Resolve, JoinFails, Leave
  <2> QED BY <1>1, <2>1
<1>27. ASSUME Reap \/ HostJoins \/ UNCHANGED vars PROVE Goal
  <2>1. req' = req /\ lock' = lock
    BY <1>27 DEF Reap, HostJoins, vars
  <2> QED BY <1>1, <2>1
<1> HIDE DEF Goal
<1>28. Goal
  BY <1>10, <1>12, <1>13, <1>14, <1>15, <1>16, <1>17, <1>18, <1>19, <1>20, <1>21, <1>22, <1>23,
     <1>24, <1>25, <1>26, <1>27, AccountsCases
<1> QED BY <1>28 DEF Goal

-----------------------------------------------------------------------------
(* The session, the rows and the invites under the lock *)

\* The rows of the stream are deleted by those who have the lock, and a session goes live
\* when nobody has it.
LEMMA RowsGoUnderLock ==
    ASSUME AccountsTyped, LockKept, [Next]_vars
    PROVE  /\ live' => live \/ lock = Nobody
           /\ \A p \in Passes : Minted(p) => Minted(p)' \/ \E r \in Requests : lock = r
<1> DEFINE Goal == /\ live' => live \/ lock = Nobody
                   /\ \A p \in Passes : Minted(p) => Minted(p)' \/ \E r \in Requests : lock = r
<1>1. ASSUME UNCHANGED <<live, status>> PROVE Goal
  BY <1>1 DEF Minted
<1>2. ASSUME NEW r \in Requests, GoLive(r) \/ EndSession(r) \/ ForceEnd(r) PROVE Goal
  BY <1>2 DEF GoLive, EndSession, ForceEnd, Minted
<1>3. ASSUME NEW r \in Requests, Erase(r) PROVE Goal
  <2>1. CASE req[r].on = Streamer
    BY <1>3, <2>1 DEF Erase, At, LockKept, Holds, HasLock, Cascade
  <2>2. CASE req[r].on # Streamer
    BY <1>1, <1>3, <2>2 DEF Erase, rowVars
  <2> QED BY <2>1, <2>2
<1>4. ASSUME NEW r \in Requests, DeleteRows(r) PROVE Goal
  BY <1>4 DEF DeleteRows, At, LockKept, Holds, HasLock, Cascade, rowVars
<1>5. ASSUME NEW r \in Requests, MintRow(r) \/ MintStamp(r) \/ Reissue(r) \/ Revoke(r) PROVE Goal
  <2>1. status \in [Passes -> PassStatuses]
    BY DEF AccountsTyped, AccountsTypeOK
  <2> QED BY <1>5, <2>1 DEF MintRow, MintStamp, Reissue, Revoke, Minted
<1>6. ASSUME NEW p, Kick(p) \/ MarkPassOpened(p) PROVE Goal
  <2>1. status \in [Passes -> PassStatuses]
    BY DEF AccountsTyped, AccountsTypeOK
  <2> QED BY <1>6, <2>1 DEF Kick, MarkPassOpened, Openable, Minted
<1>7. ASSUME Reap PROVE Goal
  BY <1>7 DEF Reap, Minted
<1>8. ASSUME HostJoins \/ Restart \/ UNCHANGED vars PROVE Goal
  BY <1>1, <1>8 DEF HostJoins, Restart, vars, rowVars
<1>9. ASSUME NEW h, SignIn(h) PROVE Goal
  BY <1>1, <1>9 DEF SignIn, Unchecked, rowVars
<1>10. ASSUME NEW r, NEW h, NEW t, NEW op,
             AskAdmin(r, h, t, op) \/ AskOwn(r, op, t) \/ AskErase(r, h)
      PROVE  Goal
  BY <1>1, <1>10 DEF AskAdmin, AskOwn, AskErase, Unchecked, rowVars
<1>11. ASSUME NEW r \in Requests,
              \/ Check(r) \/ TargetGone(r) \/ Approve(r) \/ Promote(r) \/ Demote(r)
              \/ EraseLoads(r) \/ EraseCounts(r) \/ CreateStream(r)
              \/ DeleteReading(r) \/ DeleteEvicts(r)
       PROVE  Goal
  BY <1>1, <1>11 DEF Check, TargetGone, Approve, Promote, Demote, EraseLoads, EraseCounts,
     CreateStream, DeleteReading, DeleteReads, DeleteEvicts, Unchecked, rowVars
<1>12. ASSUME NEW r, NEW b, Suspend(r, b) \/ Mailed(r, b) PROVE Goal
  BY <1>1, <1>12 DEF Suspend, Mailed, Unchecked, rowVars
<1>13. ASSUME NEW p, Enter(p) \/ GuestLocks(p) \/ GuestJoins(p)
                     \/ Resolve(p) \/ JoinFails(p) \/ Leave(p)
       PROVE  Goal
  BY <1>1, <1>13 DEF Enter, GuestLocks, GuestJoins, Resolve, JoinFails, Leave, rowVars
<1> HIDE DEF Goal
<1>14. Goal
  BY <1>2, <1>3, <1>4, <1>5, <1>6, <1>7, <1>8, <1>9, <1>10, <1>11, <1>12, <1>13, AccountsCases
<1> QED BY <1>14 DEF Goal
\* Who has the lock next: whoever had it, nobody, a request, or a guest that has an
\* invite and is about to join.
LEMMA LockTurns ==
    ASSUME AccountsTyped, LockKept, [Next]_vars
    PROVE  \/ lock' \in Requests \cup {Nobody}
           \/ lock' = lock /\ (lock \in Passes => lock \in resolved')
           \/ \E p \in Passes : lock' = p /\ p \in resolved' /\ Minted(p)'
<1> DEFINE Goal == \/ lock' \in Requests \cup {Nobody}
                   \/ lock' = lock /\ (lock \in Passes => lock \in resolved')
                   \/ \E p \in Passes : lock' = p /\ p \in resolved' /\ Minted(p)'
<1>0. lock \in Passes => lock \in resolved
  BY AccountsAssumption DEF AccountsTyped, AccountsTypeOK
<1>1. ASSUME UNCHANGED <<lock, resolved>> PROVE Goal
  BY <1>0, <1>1
<1>2. ASSUME NEW p \in Passes, GuestLocks(p) PROVE Goal
  BY <1>0, <1>2 DEF GuestLocks, Admissible, Joinable, Minted, rowVars
<1>3. ASSUME NEW p \in Passes, GuestJoins(p) PROVE Goal
  BY <1>3 DEF GuestJoins
<1>4. ASSUME NEW p \in Peers, Resolve(p) \/ JoinFails(p) PROVE Goal
  BY <1>0, <1>4 DEF Resolve, JoinFails
<1>5. ASSUME HostJoins PROVE Goal
  BY <1>0, <1>5, AccountsAssumption DEF HostJoins
<1>6. ASSUME Restart PROVE Goal
  BY <1>6 DEF Restart
<1>7. ASSUME NEW r \in Requests,
             \/ EraseLoads(r) \/ EraseCounts(r) \/ Erase(r)
             \/ DeleteReading(r) \/ DeleteRows(r) \/ DeleteEvicts(r)
      PROVE  Goal
  BY <1>1, <1>7 DEF EraseLoads, EraseCounts, Erase, DeleteReading, DeleteReads, DeleteRows,
     DeleteEvicts,
     EraseHolds, Released, peerVars
<1>8. ASSUME Reap \/ UNCHANGED vars PROVE Goal
  BY <1>1, <1>8 DEF Reap, vars, peerVars
<1>9. ASSUME NEW h, SignIn(h) PROVE Goal
  BY <1>1, <1>9 DEF SignIn, Unchecked, peerVars
<1>10. ASSUME NEW r, NEW h, NEW t, NEW op,
             AskAdmin(r, h, t, op) \/ AskOwn(r, op, t) \/ AskErase(r, h)
      PROVE  Goal
  BY <1>1, <1>10 DEF AskAdmin, AskOwn, AskErase, Unchecked, peerVars
<1>11. ASSUME NEW r \in Requests,
              \/ Check(r) \/ TargetGone(r) \/ Approve(r) \/ Promote(r) \/ Demote(r)
              \/ ForceEnd(r) \/ CreateStream(r) \/ GoLive(r) \/ EndSession(r)
              \/ MintRow(r) \/ MintStamp(r) \/ Reissue(r) \/ Revoke(r)
       PROVE  Goal
  BY <1>1, <1>11 DEF Check, TargetGone, Approve, Promote, Demote, ForceEnd, CreateStream, GoLive,
     EndSession, MintRow, MintStamp, Reissue, Revoke, Unchecked, peerVars
<1>12. ASSUME NEW r, NEW b, Suspend(r, b) \/ Mailed(r, b) PROVE Goal
  BY <1>1, <1>12 DEF Suspend, Mailed, Unchecked, peerVars
<1>13. ASSUME NEW p, Kick(p) \/ Enter(p) \/ MarkPassOpened(p) \/ Leave(p) PROVE Goal
  BY <1>1, <1>13 DEF Kick, Enter, MarkPassOpened, Leave
<1> HIDE DEF Goal
<1>14. Goal
  BY <1>2, <1>3, <1>4, <1>5, <1>6, <1>7, <1>8, <1>9, <1>10, <1>11, <1>12, <1>13, AccountsCases
<1> QED BY <1>14 DEF Goal

\* An erasure takes the lock when there is no live session.
LEMMA LockTaken ==
    ASSUME AccountsTyped, [Next]_vars, NEW r \in Requests, lock # r, lock' = r,
           req'[r].op = "erase"
    PROVE  ~live'
<1>1. lock' # lock
  OBVIOUS
<1>2. ASSUME NEW q \in Requests, EraseLoads(q) PROVE ~live'
  BY <1>2, AccountsAssumption DEF EraseLoads, EraseHolds, rowVars
<1>3. ASSUME NEW q \in Requests, DeleteReading(q) PROVE FALSE
  <2>1. q = r /\ req'[r].op = req[r].op
    BY <1>3 DEF DeleteReading, DeleteReads, AccountsTyped, AccountsTypeOK
  <2> QED BY <1>3, <2>1 DEF DeleteReading, DeleteReads, At
<1>4. ASSUME NEW q \in Requests,
             EraseCounts(q) \/ Erase(q) \/ DeleteRows(q) \/ DeleteEvicts(q)
      PROVE  FALSE
  BY <1>1, <1>4, AccountsAssumption DEF EraseCounts, Erase, DeleteRows, DeleteEvicts, Released
<1>5. ASSUME NEW p \in Passes, GuestLocks(p) \/ GuestJoins(p) PROVE FALSE
  BY <1>1, <1>5, AccountsAssumption DEF GuestLocks, GuestJoins
<1>6. ASSUME Restart PROVE FALSE
  BY <1>6, AccountsAssumption DEF Restart
<1>7. ASSUME \/ Reap \/ HostJoins \/ UNCHANGED vars
             \/ \E h : SignIn(h)
             \/ \E q, h, t, op : AskAdmin(q, h, t, op) \/ AskOwn(q, op, t) \/ AskErase(q, h)
      PROVE  FALSE
  BY <1>1, <1>7 DEF Reap, HostJoins, vars, SignIn, AskAdmin, AskOwn, AskErase, Unchecked
<1>8. ASSUME NEW q,
             \/ Check(q) \/ TargetGone(q) \/ Approve(q) \/ Promote(q) \/ Demote(q)
             \/ ForceEnd(q) \/ CreateStream(q) \/ GoLive(q) \/ EndSession(q)
             \/ MintRow(q) \/ MintStamp(q) \/ Reissue(q) \/ Revoke(q)
      PROVE  FALSE
  BY <1>1, <1>8 DEF Check, TargetGone, Approve, Promote, Demote, ForceEnd, CreateStream, GoLive,
     EndSession, MintRow, MintStamp, Reissue, Revoke, Unchecked
<1>9. ASSUME NEW q, NEW b, Suspend(q, b) \/ Mailed(q, b) PROVE FALSE
  BY <1>1, <1>9 DEF Suspend, Mailed, Unchecked
<1>10. ASSUME NEW p, \/ Kick(p) \/ Enter(p) \/ MarkPassOpened(p) \/ Leave(p)
                     \/ Resolve(p) \/ JoinFails(p)
       PROVE  FALSE
  BY <1>1, <1>10 DEF Kick, Enter, MarkPassOpened, Leave, Resolve, JoinFails
<1> QED BY <1>2, <1>3, <1>4, <1>5, <1>6, <1>7, <1>8, <1>9, <1>10, AccountsCases

LEMMA LockKeptByAll ==
    ASSUME AccountsTyped, LockKept, [Next]_vars
    PROVE  LockKept'
<1>1. (\A r \in Requests : lock = r <=> Holds(r))'
  BY LockIsHeld DEF LockKept
\* A session that went live found the lock free, and so no erasure at work.
<1>2. (\A r \in Requests : Holds(r) /\ req[r].op = "erase" => ~live)'
  <2> SUFFICES ASSUME NEW r \in Requests, Holds(r)', req'[r].op = "erase", live' PROVE FALSE
    OBVIOUS
  <2>1. lock' = r
    BY <1>1
  <2>2. CASE lock = r
    <3>1. req[r].op = "erase"
      BY <2>2, RequestsKept DEF Continues, LockKept, Holds, HasLock
    <3>2. ~live
      BY <2>2, <3>1 DEF LockKept
    <3> QED BY <2>2, <3>2, RowsGoUnderLock, AccountsAssumption
  <2>3. CASE lock # r
    BY <2>1, <2>3, LockTaken
  <2> QED BY <2>2, <2>3
<1>3. (\A p \in Passes : lock = p => Minted(p))'
  <2> SUFFICES ASSUME NEW p \in Passes, lock' = p PROVE Minted(p)'
    OBVIOUS
  <2>1. CASE lock = p
    <3>1. \A r \in Requests : lock # r
      BY <2>1, AccountsAssumption
    <3> QED BY <2>1, <3>1, RowsGoUnderLock DEF LockKept
  <2>2. CASE lock # p
    BY <2>2, LockTurns, AccountsAssumption
  <2> QED BY <2>1, <2>2
<1> QED BY <1>1, <1>2, <1>3 DEF LockKept
-----------------------------------------------------------------------------
(* A stream that is gone *)

\* Nothing but its eviction, and a restart, ends a deletion that has deleted its rows.
Evicting(r) == At(r, {"delete"}, "rows")

LEMMA EvictionIsDue ==
    ASSUME AccountsTyped, [Next]_vars, NEW r \in Requests, Evicting(r)
    PROVE  Evicting(r)' \/ DeleteEvicts(r) \/ Restart
<1> DEFINE Goal == Evicting(r)' \/ DeleteEvicts(r) \/ Restart
<1>0. AccountsTypeOK /\ req \in [Requests -> RequestRecords]
  BY DEF AccountsTyped, AccountsTypeOK, RequestRecords
<1>1. ASSUME req'[r].op = req[r].op, req'[r].step = req[r].step PROVE Goal
  BY <1>1 DEF Evicting, At
<1>2. ASSUME NEW q \in Requests, q # r, NEW step \in Steps,
             \/ req' \in {Ended(q), Moved(q, step), req}
             \/ Written(Ended(q)) \/ Written(Moved(q, step)) \/ Written(req)
      PROVE  Goal
  <2>1. \A f \in {Ended(q), Moved(q, step), req} :
           f \in [Requests -> RequestRecords] /\ f[r] = req[r]
    BY <1>0, <1>2, RequestTypes DEF Ended, Moved
  <2>2. ASSUME NEW f \in {Ended(q), Moved(q, step), req}, Written(f)
        PROVE  req'[r].op = req[r].op /\ req'[r].step = req[r].step
    BY <2>1, <2>2, WrittenAlike DEF Alike
  <2> QED BY <1>1, <1>2, <2>1, <2>2
<1>3. ASSUME NEW q \in Requests, q # r, NEW rq, req' = [req EXCEPT ![q] = rq] PROVE Goal
  BY <1>0, <1>1, <1>3
<1>4. ASSUME UNCHANGED req PROVE Goal
  BY <1>1, <1>4
<1>5. req[r] # Idle
  BY DEF Evicting, At, Idle, Request
<1>6. ASSUME NEW h \in Hosts, SignIn(h) PROVE Goal
  <2>1. Alike(req', req)
    BY <1>0, <1>6, WrittenAlike DEF SignIn
  <2> QED BY <1>1, <2>1 DEF Alike
<1>7. ASSUME NEW q \in Requests, NEW h, NEW t, NEW op,
             AskAdmin(q, h, t, op) \/ AskOwn(q, op, t) \/ AskErase(q, h)
      PROVE  Goal
  <2>1. q # r
    BY <1>5, <1>7 DEF AskAdmin, AskOwn, AskErase
  <2> QED BY <1>3, <1>7, <2>1 DEF AskAdmin, AskOwn, AskErase
<1>8. ASSUME NEW q \in Requests,
             \/ Check(q) \/ TargetGone(q) \/ Approve(q) \/ Promote(q) \/ Demote(q)
             \/ ForceEnd(q) \/ CreateStream(q) \/ GoLive(q) \/ EndSession(q)
             \/ MintRow(q) \/ MintStamp(q) \/ Reissue(q) \/ Revoke(q)
             \/ EraseCounts(q) \/ Erase(q) \/ DeleteRows(q) \/ DeleteEvicts(q)
      PROVE  Goal
  <2>1. CASE q = r
    BY <1>8, <2>1 DEF Check, TargetGone, Approve, Promote, Demote, ForceEnd, CreateStream,
       GoLive,
       EndSession, MintRow, MintStamp, Reissue, Revoke, EraseCounts, Erase, DeleteRows,
       Evicting, At, AdminOps
  <2>2. CASE q # r
    <3>1. \E step \in Steps :
             \/ req' \in {Ended(q), Moved(q, step), req}
             \/ Written(Ended(q)) \/ Written(Moved(q, step)) \/ Written(req)
      BY <1>8 DEF Check, TargetGone, Approve, Promote, Demote, ForceEnd, CreateStream, GoLive,
         EndSession, MintRow, MintStamp, Reissue, Revoke, EraseCounts, Erase, DeleteRows,
         DeleteEvicts, Finish, Steps
    <3> QED BY <1>2, <2>2, <3>1
  <2> QED BY <2>1, <2>2
<1>9. ASSUME NEW q \in Requests, NEW b \in BOOLEAN, Suspend(q, b) \/ Mailed(q, b) PROVE Goal
  <2>1. q # r
    BY <1>9 DEF Suspend, Mailed, Evicting, At
  <2>2. \E step \in Steps :
             \/ req' \in {Ended(q), Moved(q, step), req}
             \/ Written(Ended(q)) \/ Written(Moved(q, step)) \/ Written(req)
    BY <1>9 DEF Suspend, Mailed, Finish, Steps
  <2> QED BY <1>2, <2>1, <2>2
<1>10. ASSUME NEW q \in Requests, EraseLoads(q) \/ DeleteReading(q) PROVE Goal
  <2>1. q # r
    BY <1>10 DEF EraseLoads, DeleteReading, DeleteReads, Evicting, At
  <2>2. req'[r] = req[r]
    BY <1>0, <1>10, <2>1 DEF EraseLoads, DeleteReading, DeleteReads, Finish, Ended
  <2> QED BY <1>1, <2>2
<1>11. ASSUME NEW p, \/ Kick(p) \/ Enter(p) \/ MarkPassOpened(p) \/ GuestLocks(p)
                     \/ GuestJoins(p) \/ Resolve(p) \/ JoinFails(p) \/ Leave(p)
       PROVE  Goal
  BY <1>4, <1>11 DEF Kick, Enter, MarkPassOpened, GuestLocks, GuestJoins, Resolve, JoinFails,
     Leave
<1>12. ASSUME Reap \/ HostJoins \/ UNCHANGED vars PROVE Goal
  BY <1>4, <1>12 DEF Reap, HostJoins, vars
<1>13. ASSUME Restart PROVE Goal
  BY <1>13
<1> HIDE DEF Goal
<1>14. Goal
  BY <1>6, <1>7, <1>8, <1>9, <1>10, <1>11, <1>12, <1>13, AccountsCases
<1> QED BY <1>14 DEF Goal

\* An invite is minted for a stream that is there, and never for one that went.
LEMMA GoneStays ==
    ASSUME AccountsTyped, LockKept, GoneIsEmpty, [Next]_vars, stream' = "gone", NEW p \in Passes
    PROVE  ~Minted(p)'
<1> DEFINE Goal == stream' = "gone" => ~Minted(p)'
<1> USE DEF AccountsTyped, AccountsTypeOK
<1>1. ASSUME UNCHANGED <<stream, status>> PROVE Goal
  BY <1>1 DEF GoneIsEmpty, Minted
<1>2. ASSUME NEW r \in Requests, CreateStream(r) PROVE Goal
  BY <1>2 DEF CreateStream, GoneIsEmpty, Minted
<1>3. ASSUME Cascade PROVE Goal
  BY <1>3 DEF Cascade, GoneIsEmpty, Minted
<1>4. ASSUME NEW r \in Requests, Erase(r) PROVE Goal
  BY <1>1, <1>3, <1>4 DEF Erase, rowVars
<1>5. ASSUME NEW r \in Requests, DeleteRows(r) PROVE Goal
  BY <1>1, <1>3, <1>5 DEF DeleteRows, rowVars
<1>6. ASSUME NEW r \in Requests, MintRow(r) \/ MintStamp(r) \/ Reissue(r) \/ Revoke(r) PROVE Goal
  BY <1>6 DEF MintRow, MintStamp, Reissue, Revoke, GoneIsEmpty, Minted
<1>7. ASSUME NEW q, Kick(q) \/ MarkPassOpened(q) PROVE Goal
  BY <1>7 DEF Kick, MarkPassOpened, Openable, GoneIsEmpty, Minted
<1>8. ASSUME NEW r \in Requests,
             \/ Check(r) \/ TargetGone(r) \/ Approve(r) \/ Promote(r) \/ Demote(r)
             \/ ForceEnd(r) \/ EraseLoads(r) \/ EraseCounts(r) \/ GoLive(r) \/ EndSession(r)
             \/ DeleteReading(r) \/ DeleteEvicts(r)
      PROVE  UNCHANGED <<stream, status>>
  BY <1>8 DEF Check, TargetGone, Approve, Promote, Demote, ForceEnd, EraseLoads, EraseCounts,
     GoLive, EndSession, DeleteReading, DeleteReads, DeleteEvicts, Unchecked, rowVars
<1>9. ASSUME NEW r, NEW b, Suspend(r, b) \/ Mailed(r, b) PROVE UNCHANGED <<stream, status>>
  BY <1>9 DEF Suspend, Mailed, Unchecked, rowVars
<1>10. ASSUME NEW q, \/ Enter(q) \/ GuestLocks(q) \/ GuestJoins(q)
                     \/ Resolve(q) \/ JoinFails(q) \/ Leave(q)
       PROVE  UNCHANGED <<stream, status>>
  BY <1>10 DEF Enter, GuestLocks, GuestJoins, Resolve, JoinFails, Leave, rowVars
<1>11. ASSUME \/ Reap \/ HostJoins \/ Restart \/ UNCHANGED vars
              \/ \E h : SignIn(h)
              \/ \E q, h, t, op : AskAdmin(q, h, t, op) \/ AskOwn(q, op, t) \/ AskErase(q, h)
       PROVE  UNCHANGED <<stream, status>>
  BY <1>11 DEF Reap, HostJoins, Restart, vars, SignIn, AskAdmin, AskOwn, AskErase, Unchecked,
     rowVars
<1> HIDE DEF Goal, AccountsTyped, AccountsTypeOK
<1>12. Goal
  BY <1>1, <1>2, <1>4, <1>5, <1>6, <1>7, <1>8, <1>9, <1>10, <1>11, AccountsCases
<1> QED BY <1>12 DEF Goal

\* Guests come in while they have an invite, and a stream goes under the lock.
LEMMA GuestsGo ==
    ASSUME AccountsTyped, LockKept, GoneIsEmpty, [Next]_vars, stream' = "gone"
    PROVE  present' \cap Passes \subseteq missed' \/ \E r \in Requests : Evicting(r)'
<1> DEFINE Goal == stream' = "gone" =>
                      \/ present' \cap Passes \subseteq missed'
                      \/ \E r \in Requests : Evicting(r)'
<1> USE AccountsAssumption DEF AccountsTyped, AccountsTypeOK
<1>1. stream = "gone" => \/ present \cap Passes \subseteq missed
                          \/ \E r \in Requests : Evicting(r)
  BY DEF GoneIsEmpty, Evicting
\* The room fills with nobody but the host.
<1>2. ASSUME stream' = "gone" => stream = "gone", present' \subseteq present \cup {HostPeer},
             missed' = missed, \A r \in Requests : ~DeleteEvicts(r), ~Restart
      PROVE  Goal
  BY <1>1, <1>2, EvictionIsDue
<1>3. ASSUME NEW r \in Requests, DeleteEvicts(r) PROVE Goal
  BY <1>3 DEF DeleteEvicts, TornDown
<1>4. ASSUME Restart PROVE Goal
  BY <1>4 DEF Restart
<1>5. ASSUME NEW r \in Requests, Erase(r), req[r].on = Streamer PROVE Goal
  BY <1>5 DEF Erase
<1>6. ASSUME NEW r \in Requests, DeleteRows(r), stream = "open" PROVE Goal
  <2>1. Evicting(r)'
    BY <1>6 DEF DeleteRows, At, Moved, Evicting
  <2> QED BY <2>1
<1>7. ASSUME NEW p \in Passes, GuestJoins(p) PROVE Goal
  <2>1. Minted(p)
    BY <1>7 DEF GuestJoins, LockKept
  <2>2. stream # "gone"
    BY <2>1 DEF GoneIsEmpty
  <2> QED BY <1>7, <2>2 DEF GuestJoins, rowVars
<1>8. ASSUME NEW r \in Requests,
             \/ Check(r) \/ TargetGone(r) \/ Approve(r) \/ Promote(r) \/ Demote(r)
             \/ ForceEnd(r) \/ EraseLoads(r) \/ EraseCounts(r)
             \/ CreateStream(r) \/ GoLive(r) \/ EndSession(r) \/ DeleteReading(r)
             \/ MintRow(r) \/ MintStamp(r) \/ Reissue(r) \/ Revoke(r)
             \/ (Erase(r) /\ req[r].on # Streamer) \/ (DeleteRows(r) /\ stream # "open")

      PROVE  (stream' = "gone" => stream = "gone") /\ present' \subseteq present /\ missed' = missed
  BY <1>8 DEF Check, TargetGone, Approve, Promote, Demote, ForceEnd, EraseLoads, EraseCounts,
     CreateStream, GoLive, EndSession, DeleteReading, DeleteReads, MintRow, MintStamp, Reissue,
     Revoke, Erase,
     DeleteRows, Unchecked, rowVars, peerVars
<1>9. ASSUME NEW r, NEW b, Suspend(r, b) \/ Mailed(r, b)
      PROVE  stream' = stream /\ present' = present /\ missed' = missed
  BY <1>9 DEF Suspend, Mailed, Unchecked, rowVars, peerVars
<1>10. ASSUME NEW q, \/ Kick(q) \/ Enter(q) \/ MarkPassOpened(q) \/ GuestLocks(q)
                     \/ Resolve(q) \/ JoinFails(q) \/ Leave(q)
       PROVE  stream' = stream /\ present' \subseteq present /\ missed' = missed
  BY <1>10 DEF Kick, Enter, MarkPassOpened, GuestLocks, Resolve, JoinFails, Leave, rowVars
<1>11. ASSUME \/ Reap \/ HostJoins \/ UNCHANGED vars
              \/ \E h : SignIn(h)
              \/ \E q, h, t, op : AskAdmin(q, h, t, op) \/ AskOwn(q, op, t) \/ AskErase(q, h)
       PROVE  /\ stream' = stream /\ missed' = missed
              /\ present' \subseteq present \cup {HostPeer}
  BY ZenonT(60), <1>11 DEF Reap, HostJoins, vars, SignIn, AskAdmin, AskOwn, AskErase, Unchecked, rowVars,
     peerVars
<1> HIDE DEF Goal, AccountsTyped, AccountsTypeOK
<1>12. Goal
  BY <1>2, <1>3, <1>4, <1>5, <1>6, <1>7, <1>8, <1>9, <1>10, <1>11, AccountsCases
<1> QED BY <1>12 DEF Goal

LEMMA GoneIsEmptyKept ==
    ASSUME AccountsTyped, LockKept, GoneIsEmpty, [Next]_vars
    PROVE  GoneIsEmpty'
BY GoneStays, GuestsGo DEF GoneIsEmpty, Evicting
-----------------------------------------------------------------------------
(* What a removal knows of the admins *)

View(rq) ==
    rq.op \in Removals /\ rq.step \in {"loaded", "cleared"} /\ ~rq.stale =>
       /\ rq.seen <=> rq.on \in ActiveAdmins
       /\ rq.step = "cleared" => ~(rq.seen /\ Cardinality(ActiveAdmins) <= 1)

LEMMA SameAdmins ==
    ASSUME ActiveAdmins' = ActiveAdmins, \A q \in Requests : View(req'[q])
    PROVE  ViewKept'
BY DEF ViewKept, View, WouldStrand

\* Who writes the admins leaves every other removal with a stale view.
LEMMA ChangedAdmins ==
    ASSUME NEW f \in [Requests -> RequestRecords], Written(f), \A q \in Requests : View(f[q])
    PROVE  ViewKept'
<1>1. CASE ActiveAdmins' = ActiveAdmins
  BY <1>1, SameAdmins DEF Written
<1>2. CASE ActiveAdmins' # ActiveAdmins
  <2>1. req' = Outdated(f)
    BY <1>2 DEF Written
  <2>2. \A q \in Requests : req'[q].op \in Removals /\ req'[q].step \in {"loaded", "cleared"}
                               => req'[q].stale
    BY <2>1 DEF Outdated, RequestRecords
  <2> QED BY <2>2 DEF ViewKept
<1> QED BY <1>1, <1>2

LEMMA ViewKeptByAll ==
    ASSUME AccountsTyped, ViewKept, [Next]_vars
    PROVE  ViewKept'
<1> DEFINE Goal == ViewKept'
<1>0. req \in [Requests -> RequestRecords] /\ \A q \in Requests : View(req[q])
  BY DEF AccountsTyped, AccountsTypeOK, RequestRecords, ViewKept, View, WouldStrand
<1>1. ASSUME UNCHANGED hostVars, \A q \in Requests : View(req'[q]) PROVE Goal
  BY <1>1, SameAdmins DEF hostVars, ActiveAdmins
<1>2. \A r \in Requests, q \in Requests : View(Ended(r)[q])
  <2>1. View(Idle)
    BY DEF View, Idle, Request, Removals
  <2> QED BY <1>0, <2>1 DEF Ended
<1>3. \A r \in Requests, step \in Steps \ {"loaded", "cleared"}, q \in Requests :
         View(Moved(r, step)[q])
  <2>1. \A rq \in RequestRecords, step \in Steps \ {"loaded", "cleared"} :
           View([rq EXCEPT !.step = step])
    BY DEF View, RequestRecords
  <2> QED BY <1>0, <2>1 DEF Moved
<1>4. ASSUME NEW r \in Requests, NEW step \in Steps \ {"loaded", "cleared"}, UNCHANGED hostVars,
             req' \in {Ended(r), Moved(r, step), req}
      PROVE  Goal
  BY <1>0, <1>1, <1>2, <1>3, <1>4
<1>5. ASSUME NEW r \in Requests, NEW step \in Steps \ {"loaded", "cleared"},
             Written(Ended(r)) \/ Written(Moved(r, step))
      PROVE  Goal
  <2>1. /\ Ended(r) \in [Requests -> RequestRecords]
        /\ Moved(r, step) \in [Requests -> RequestRecords]
    BY RequestTypes DEF AccountsTyped
  <2>2. CASE Written(Ended(r))
    BY <1>2, <2>1, <2>2, ChangedAdmins
  <2>3. CASE Written(Moved(r, step))
    BY <1>3, <2>1, <2>3, ChangedAdmins
  <2> QED BY <1>5, <2>2, <2>3
<1>6. ASSUME NEW h \in Hosts, SignIn(h) PROVE Goal
  BY <1>0, <1>6, ChangedAdmins DEF SignIn
<1>7. ASSUME NEW r \in Requests, NEW rq, UNCHANGED hostVars, View(rq),
             req' = [req EXCEPT ![r] = rq]
      PROVE  Goal
  BY <1>0, <1>1, <1>7
<1>8. ASSUME NEW r \in Requests, NEW h \in Hosts, NEW t \in Hosts, NEW op \in AdminOps,
             AskAdmin(r, h, t, op)
      PROVE  Goal
  <2>1. View(Request(op, t, "loaded", op \in Removals /\ t \in ActiveAdmins))
    BY DEF View, Request
  <2> QED BY <1>7, <1>8, <2>1 DEF AskAdmin
<1>9. ASSUME NEW r \in Requests, NEW op, NEW on, AskOwn(r, op, on) PROVE Goal
  <2>1. View(Request(op, on, "asked", FALSE))
    BY DEF View, Request
  <2> QED BY <1>7, <1>9, <2>1 DEF AskOwn
<1>10. ASSUME NEW r \in Requests, NEW h, AskErase(r, h) PROVE Goal
  <2>1. View(Request("erase", h, "asked", FALSE))
    BY DEF View, Request
  <2> QED BY <1>7, <1>10, <2>1 DEF AskErase
<1>11. ASSUME NEW r \in Requests, ~WouldStrand(r), View(req[r]), req[r].step = "loaded",
              req' = Moved(r, "cleared"), UNCHANGED hostVars
       PROVE  Goal
  <2>1. req'[r] = [req[r] EXCEPT !.step = "cleared"] /\ req[r] \in RequestRecords
    BY <1>0, <1>11 DEF Moved
  <2>2. View(req'[r])
    BY <1>11, <2>1 DEF View, WouldStrand, RequestRecords
  <2> QED BY <1>0, <1>1, <1>11, <2>2 DEF Moved
<1>12. ASSUME NEW r \in Requests, Check(r) PROVE Goal
  <2>1. CASE WouldStrand(r)
    BY <1>4, <1>12, <2>1 DEF Check, Finish, Steps
  <2>2. CASE ~WouldStrand(r)
    BY <1>0, <1>11, <1>12, <2>2 DEF Check, At
  <2> QED BY <2>1, <2>2
<1>13. ASSUME NEW r \in Requests, EraseCounts(r) PROVE Goal
  <2>1. UNCHANGED hostVars
    BY <1>13 DEF EraseCounts
  <2>2. CASE WouldStrand(r)
    BY <1>4, <1>13, <2>1, <2>2 DEF EraseCounts, Finish, Steps
  <2>3. CASE ~WouldStrand(r)
    BY <1>0, <1>11, <1>13, <2>1, <2>3 DEF EraseCounts, At
  <2> QED BY <2>2, <2>3
<1>14. ASSUME NEW r \in Requests, EraseLoads(r) PROVE Goal
  <2>1. UNCHANGED hostVars
    BY <1>14 DEF EraseLoads
  <2>2. CASE Finish(r)
    BY <1>4, <2>1, <2>2 DEF Finish, Steps
  <2>3. CASE req' = [req EXCEPT ![r].step = "loaded", ![r].seen = req[r].on \in ActiveAdmins]
    <3>1. \A q \in Requests \ {r} : req'[q] = req[q]
      BY <1>0, <2>3
    <3>2. /\ req'[r].on = req[r].on /\ req'[r].step = "loaded"
          /\ req'[r].seen = (req[r].on \in ActiveAdmins)
      BY <1>0, <2>3 DEF RequestRecords
    <3>3. View(req'[r])
      BY <3>2 DEF View
    <3> QED BY <1>0, <1>1, <2>1, <3>1, <3>3
  <2> QED BY <1>14, <2>2, <2>3 DEF EraseLoads
<1>15. ASSUME NEW r \in Requests, Approve(r) \/ Promote(r) \/ Demote(r) \/ Erase(r) PROVE Goal
  BY <1>5, <1>15 DEF Approve, Promote, Demote, Erase, Steps
<1>16. ASSUME NEW r \in Requests, NEW b \in BOOLEAN, Suspend(r, b) PROVE Goal
  BY <1>5, <1>16 DEF Suspend, Steps
<1>17. ASSUME NEW r \in Requests,
              \/ TargetGone(r) \/ ForceEnd(r) \/ CreateStream(r) \/ GoLive(r) \/ EndSession(r)
              \/ MintRow(r) \/ MintStamp(r) \/ Reissue(r) \/ Revoke(r)
              \/ DeleteRows(r) \/ DeleteEvicts(r)
       PROVE  Goal
  <2>1. UNCHANGED hostVars
    BY <1>17 DEF TargetGone, ForceEnd, CreateStream, GoLive, EndSession, MintRow, MintStamp,
       Reissue, Revoke, DeleteRows, DeleteEvicts
  <2>2. \E step \in Steps \ {"loaded", "cleared"} : req' \in {Ended(r), Moved(r, step), req}
    BY <1>17 DEF TargetGone, ForceEnd, CreateStream, GoLive, EndSession, MintRow, MintStamp,
       Reissue, Revoke, DeleteRows, DeleteEvicts, Finish, Steps
  <2> QED BY <1>4, <2>1, <2>2
<1>18. ASSUME NEW r \in Requests, NEW b \in BOOLEAN, Mailed(r, b) PROVE Goal
  BY <1>4, <1>18 DEF Mailed, Finish, Steps
<1>19. ASSUME NEW r \in Requests, DeleteReading(r) PROVE Goal
  <2>1. \A q \in Requests \ {r} : req'[q] = req[q]
    BY <1>0, <1>19 DEF DeleteReading, DeleteReads
  <2>2. req'[r].step = "read"
    BY <1>0, <1>19 DEF DeleteReading, DeleteReads, RequestRecords
  <2>3. View(req'[r])
    BY <2>2 DEF View
  <2> QED BY <1>0, <1>1, <1>19, <2>1, <2>3 DEF DeleteReading, DeleteReads
<1>20. ASSUME Restart PROVE Goal
  <2>1. View(Idle)
    BY DEF View, Idle, Request, Removals
  <2> QED BY <1>1, <1>20, <2>1 DEF Restart
<1>21. ASSUME \/ Reap \/ HostJoins \/ UNCHANGED vars
              \/ \E p : \/ Kick(p) \/ Enter(p) \/ MarkPassOpened(p) \/ GuestLocks(p)
                        \/ GuestJoins(p) \/ Resolve(p) \/ JoinFails(p) \/ Leave(p)
       PROVE  Goal
  <2>1. UNCHANGED hostVars /\ req' = req
    BY <1>21 DEF Reap, HostJoins, vars, Kick, Enter, MarkPassOpened, GuestLocks, GuestJoins,
       Resolve, JoinFails, Leave
  <2> QED BY <1>0, <1>1, <2>1
<1> HIDE DEF Goal
<1>22. Goal
  BY <1>6, <1>8, <1>9, <1>10, <1>12, <1>13, <1>14, <1>15, <1>16, <1>17, <1>18, <1>19, <1>20,
     <1>21,
     AccountsCases
<1> QED BY <1>22 DEF Goal

-----------------------------------------------------------------------------
(* The invariant *)

RowTypes ==
    /\ stream \in {"none", "open", "gone"} /\ live \in BOOLEAN
    /\ status \in [Passes -> PassStatuses]
    /\ linked \subseteq Passes /\ entering \subseteq Passes
    /\ resolved \subseteq Peers /\ present \subseteq Peers /\ missed \subseteq Passes

LEMMA RowTypesKept ==
    ASSUME AccountsTyped, [Next]_vars
    PROVE  RowTypes'
<1> DEFINE Goal == RowTypes'
<1>0. RowTypes /\ \A r \in Requests : req[r].op \in PassOps => req[r].on \in Passes
  BY DEF AccountsTyped, AccountsTypeOK, AboutSomeone, RowTypes
<1> USE DEF RowTypes, Peers
<1>1. ASSUME UNCHANGED <<rowVars, peerVars>> PROVE Goal
  BY <1>0, <1>1 DEF rowVars, peerVars
<1>2. ASSUME NEW h, SignIn(h) PROVE Goal
  BY <1>1, <1>2 DEF SignIn, Unchecked
<1>3. ASSUME NEW r, NEW h, NEW t, NEW op,
             AskAdmin(r, h, t, op) \/ AskOwn(r, op, t) \/ AskErase(r, h)
      PROVE  Goal
  BY <1>1, <1>3 DEF AskAdmin, AskOwn, AskErase, Unchecked
<1>4. ASSUME NEW r \in Requests,
             \/ Check(r) \/ TargetGone(r) \/ Approve(r) \/ Promote(r) \/ Demote(r)
             \/ EraseLoads(r) \/ EraseCounts(r) \/ DeleteReading(r)
      PROVE  Goal
  BY <1>1, <1>4 DEF Check, TargetGone, Approve, Promote, Demote, EraseLoads, EraseCounts,
     DeleteReading, DeleteReads, Unchecked
<1>5. ASSUME Cascade
      PROVE  /\ stream' \in {"none", "open", "gone"} /\ live' \in BOOLEAN
             /\ status' \in [Passes -> PassStatuses] /\ linked' \subseteq Passes
  BY <1>0, <1>5 DEF Cascade, PassStatuses
<1>6. ASSUME NEW r \in Requests, Erase(r) PROVE Goal
  BY <1>0, <1>5, <1>6 DEF Erase, rowVars
<1>7. ASSUME NEW r \in Requests, DeleteRows(r) PROVE Goal
  BY <1>0, <1>5, <1>7 DEF DeleteRows, rowVars
<1>8. ASSUME NEW r \in Requests, DeleteEvicts(r) PROVE Goal
  BY <1>0, <1>8 DEF DeleteEvicts, TornDown, rowVars
<1>9. ASSUME NEW r \in Requests, CreateStream(r) \/ GoLive(r) \/ EndSession(r) \/ ForceEnd(r)
      PROVE  Goal
  BY <1>0, <1>9 DEF CreateStream, GoLive, EndSession, ForceEnd, peerVars
<1>10. ASSUME NEW r \in Requests, MintRow(r) \/ MintStamp(r) \/ Reissue(r) \/ Revoke(r)
       PROVE  Goal
  BY <1>0, <1>10 DEF MintRow, MintStamp, Reissue, Revoke, PassStatuses, peerVars
<1>11. ASSUME NEW r \in Requests, NEW b, Mailed(r, b) PROVE Goal
  BY <1>0, <1>11 DEF Mailed, At, PassOps, rowVars
<1>12. ASSUME NEW r, NEW b, Suspend(r, b) PROVE Goal
  BY <1>1, <1>12 DEF Suspend, Unchecked
<1>13. ASSUME NEW p \in Passes, Kick(p) \/ Enter(p) \/ MarkPassOpened(p) PROVE Goal
  BY <1>0, <1>13 DEF Kick, Enter, MarkPassOpened, PassStatuses, rowVars
<1>14. ASSUME NEW p \in Passes, GuestLocks(p) \/ GuestJoins(p) PROVE Goal
  BY <1>0, <1>14 DEF GuestLocks, GuestJoins, rowVars
<1>15. ASSUME NEW p \in Peers, Resolve(p) \/ JoinFails(p) \/ Leave(p) PROVE Goal
  BY <1>0, <1>15 DEF Resolve, JoinFails, Leave, rowVars
<1>16. ASSUME Reap \/ HostJoins \/ Restart \/ UNCHANGED vars PROVE Goal
  BY <1>0, <1>1, <1>16 DEF Reap, HostJoins, Restart, vars, rowVars, peerVars
<1> HIDE DEF Goal
<1>17. Goal
  BY <1>2, <1>3, <1>4, <1>6, <1>7, <1>8, <1>9, <1>10, <1>11, <1>12, <1>13, <1>14, <1>15, <1>16,
     AccountsCases
<1> QED BY <1>17 DEF Goal

LEMMA AccountsTypedKept ==
    ASSUME AccountsTyped, LockKept, [Next]_vars
    PROVE  AccountsTyped'
<1>1. Accounted' /\ RowTypes' /\ req' \in [Requests -> RequestRecords] /\ AboutSomeone'
  BY AccountedKept, RowTypesKept, RequestsKept
<1>2. \/ lock' = Nobody
      \/ lock' \in Passes \cap resolved'
      \/ lock' \in Requests /\ req'[lock'].op \in {"erase", "delete"}
  <2>1. CASE lock' \in Requests
    <3>1. Holds(lock)'
      BY <2>1, LockIsHeld DEF LockKept
    <3> QED BY <2>1, <3>1 DEF Holds, HasLock
  <2>2. CASE lock' \notin Requests
    <3>1. lock \in Passes \/ lock = Nobody \/ lock \in Requests
      BY DEF AccountsTyped, AccountsTypeOK
    <3> QED BY <2>2, <3>1, LockTurns
  <2> QED BY <2>1, <2>2
<1> QED BY <1>1, <1>2 DEF AccountsTyped, AccountsTypeOK, Accounted, RowTypes, RequestRecords

LEMMA AccountsInvHolds == Spec => []AccountsInv
<1>1. Init => AccountsInv
  <2> SUFFICES ASSUME Init PROVE AccountsInv
    OBVIOUS
  <2>1. Idle \in RequestRecords /\ ~HasLock(Idle) /\ Idle.op = "none"
    BY DEF Idle, Request, RequestRecords, Ops, Steps, HasLock
  <2>2. AccountsTypeOK
    BY <2>1 DEF Init, AccountsTypeOK, PassStatuses, RequestRecords
  <2>3. AboutSomeone /\ ViewKept
    BY <2>1 DEF Init, AboutSomeone, ViewKept, AdminOps, PassOps, Removals
  <2>4. LockKept
    BY <2>1, AccountsAssumption DEF Init, LockKept, Holds
  <2>5. GoneIsEmpty
    BY DEF Init, GoneIsEmpty
  <2> QED BY <2>2, <2>3, <2>4, <2>5 DEF AccountsInv, AccountsTyped
<1>2. AccountsInv /\ [Next]_vars => AccountsInv'
  BY AccountsTypedKept, LockKeptByAll, GoneIsEmptyKept, ViewKeptByAll DEF AccountsInv
<1> QED BY <1>1, <1>2, PTL DEF Spec

-----------------------------------------------------------------------------
(* The theorems *)

\* Accounts, rows, requests and the lock are well formed (auth, store, locks.go).
THEOREM AccountsTypeCorrect == Spec => []AccountsTypeOK
BY AccountsInvHolds, PTL DEF AccountsInv, AccountsTyped

\* deleteStream, deleteHostAccount, joinLocked: once a stream is gone and nobody works
\* under the lock, no guest is left in the room, whatever was under way, but those
\* whom its deletion could not list (streamPeerIDs).
THEOREM GoneStreamIsEmptied == Spec => []GoneStreamHasNoGuests
<1>1. AccountsInv => GoneStreamHasNoGuests
  <2> SUFFICES ASSUME AccountsInv, stream = "gone", lock = Nobody
               PROVE  present \cap Passes \subseteq missed
    BY DEF GoneStreamHasNoGuests
  <2>1. \A r \in Requests : ~Holds(r)
    BY AccountsAssumption DEF AccountsInv, LockKept
  <2>2. \A r \in Requests : ~At(r, {"delete"}, "rows")
    BY <2>1 DEF Holds, HasLock, At
  <2> QED BY <2>2 DEF AccountsInv, GoneIsEmpty
<1> QED BY <1>1, AccountsInvHolds, PTL
\* NeverErasedLive, of one step.
ErasesNoLive == account[Streamer] # "erased" /\ account'[Streamer] = "erased" => ~live

LEMMA ErasesNoLiveStep ==
    ASSUME AccountsInv, [Next]_vars
    PROVE  ErasesNoLive
<1> DEFINE Goal == ErasesNoLive
<1>0. /\ account \in [Hosts -> {"absent", "pending", "active", "suspended", "erased"}]
      /\ Streamer \in Hosts /\ Owner \in Hosts
  BY AccountsAssumption DEF AccountsInv, AccountsTyped, AccountsTypeOK
<1>1. ASSUME UNCHANGED account PROVE Goal
  BY <1>1 DEF ErasesNoLive
<1>2. ASSUME NEW r \in Requests, Erase(r) PROVE Goal
  <2>1. CASE req[r].on = Streamer
    BY <1>2, <2>1 DEF Erase, At, AccountsInv, LockKept, Holds, HasLock, ErasesNoLive
  <2>2. CASE req[r].on # Streamer
    BY <1>0, <1>2, <2>2 DEF Erase, ErasesNoLive
  <2> QED BY <2>1, <2>2
<1>3. ASSUME NEW h \in Hosts, SignIn(h) PROVE Goal
  BY <1>0, <1>3 DEF SignIn, NewStatus, ErasesNoLive
<1>4. ASSUME NEW r \in Requests, Approve(r) PROVE Goal
  BY <1>0, <1>4 DEF Approve, ErasesNoLive
<1>5. ASSUME NEW r \in Requests, NEW b \in BOOLEAN, Suspend(r, b) PROVE Goal
  BY <1>0, <1>5 DEF Suspend, ErasesNoLive
<1>6. ASSUME NEW r, NEW h, NEW t, NEW op,
             AskAdmin(r, h, t, op) \/ AskOwn(r, op, t) \/ AskErase(r, h)
      PROVE  Goal
  BY <1>1, <1>6 DEF AskAdmin, AskOwn, AskErase, hostVars
<1>7. ASSUME NEW r,
             \/ Check(r) \/ TargetGone(r) \/ Promote(r) \/ Demote(r)
             \/ ForceEnd(r) \/ EraseLoads(r) \/ EraseCounts(r)
             \/ CreateStream(r) \/ GoLive(r) \/ EndSession(r)
             \/ DeleteReading(r) \/ DeleteRows(r) \/ DeleteEvicts(r)
             \/ MintRow(r) \/ MintStamp(r) \/ Reissue(r) \/ Revoke(r)
      PROVE  Goal
  BY <1>1, <1>7 DEF Check, TargetGone, Promote, Demote, ForceEnd, EraseLoads, EraseCounts,
     CreateStream, GoLive, EndSession, DeleteReading, DeleteReads, DeleteRows, DeleteEvicts,
     MintRow, MintStamp,
     Reissue, Revoke, hostVars
<1>8. ASSUME \/ Reap \/ HostJoins \/ Restart \/ UNCHANGED vars
             \/ \E r, b : Mailed(r, b)
             \/ \E p : \/ Kick(p) \/ Enter(p) \/ MarkPassOpened(p) \/ GuestLocks(p)
                       \/ GuestJoins(p) \/ Resolve(p) \/ JoinFails(p) \/ Leave(p)
      PROVE  Goal
  BY <1>1, <1>8 DEF Reap, HostJoins, Restart, vars, Mailed, Kick, Enter, MarkPassOpened,
     GuestLocks, GuestJoins, Resolve, JoinFails, Leave, hostVars
<1> HIDE DEF Goal
<1>9. Goal
  BY <1>2, <1>3, <1>4, <1>5, <1>6, <1>7, <1>8, AccountsCases
<1> QED BY <1>9 DEF Goal

\* deleteHostAccount, goLive: an account is never erased under a live session, although
\* the host may go live from another tab after the erasure looked.
THEOREM ErasureWaitsForTheEnd == Spec => NeverErasedLive
<1>1. AccountsInv /\ [Next]_vars
         => [account[Streamer] # "erased" /\ account'[Streamer] = "erased" => ~live]_vars
  BY ErasesNoLiveStep DEF ErasesNoLive
<1> QED BY <1>1, AccountsInvHolds, PTL DEF Spec, NeverErasedLive

\* RevokedStays, of one step and one pass.
TurnedOn(p) == status[p] = "revoked" /\ status'[p] \notin {"revoked", "gone"}
TurnsOn(p) == \E r \in Requests :
    req[r].on = p /\ (At(r, {"reissue"}, "asked") \/ At(r, {"mint"}, "stamping"))

LEMMA TurnsOnStep ==
    ASSUME AccountsInv, [Next]_vars, NEW p \in Passes, TurnedOn(p)
    PROVE  TurnsOn(p)
<1> DEFINE Goal == TurnedOn(p) => TurnsOn(p)
<1>0. status \in [Passes -> PassStatuses]
  BY DEF AccountsInv, AccountsTyped, AccountsTypeOK
<1>1. ASSUME UNCHANGED status PROVE Goal
  BY <1>1 DEF TurnedOn
<1>2. ASSUME Cascade PROVE Goal
  BY <1>0, <1>2 DEF Cascade, Minted, TurnedOn
<1>3. ASSUME NEW r \in Requests, Erase(r) \/ DeleteRows(r) PROVE Goal
  BY <1>1, <1>2, <1>3 DEF Erase, DeleteRows, rowVars
<1>4. ASSUME NEW r \in Requests, MintRow(r) \/ Revoke(r) PROVE Goal
  BY <1>0, <1>4 DEF MintRow, Revoke, TurnedOn
<1>5. ASSUME NEW r \in Requests, MintStamp(r) \/ Reissue(r) PROVE Goal
  BY <1>0, <1>5 DEF MintStamp, Reissue, TurnedOn, TurnsOn
<1>6. ASSUME NEW q \in Passes, Kick(q) \/ MarkPassOpened(q) PROVE Goal
  BY <1>0, <1>6 DEF Kick, MarkPassOpened, Openable, TurnedOn
<1>7. ASSUME NEW r, NEW h, NEW t, NEW op,
             AskAdmin(r, h, t, op) \/ AskOwn(r, op, t) \/ AskErase(r, h)
      PROVE  Goal
  BY <1>1, <1>7 DEF AskAdmin, AskOwn, AskErase, Unchecked, rowVars
<1>8. ASSUME NEW r,
             \/ Check(r) \/ TargetGone(r) \/ Approve(r) \/ Promote(r) \/ Demote(r)
             \/ ForceEnd(r) \/ EraseLoads(r) \/ EraseCounts(r)

             \/ CreateStream(r) \/ GoLive(r) \/ EndSession(r) \/ DeleteReading(r) \/ DeleteEvicts(r)
      PROVE  Goal
  BY <1>1, <1>8 DEF Check, TargetGone, Approve, Promote, Demote, ForceEnd, EraseLoads,
     EraseCounts,
     CreateStream, GoLive, EndSession, DeleteReading, DeleteReads, DeleteEvicts, Unchecked,
     rowVars
<1>9. ASSUME \/ Reap \/ HostJoins \/ Restart \/ UNCHANGED vars
             \/ \E h : SignIn(h)
             \/ \E r, b : Suspend(r, b) \/ Mailed(r, b)
             \/ \E q : \/ Enter(q) \/ GuestLocks(q) \/ GuestJoins(q)
                       \/ Resolve(q) \/ JoinFails(q) \/ Leave(q)
      PROVE  Goal
  BY <1>1, <1>9 DEF Reap, HostJoins, Restart, vars, SignIn, Suspend, Mailed, Enter, GuestLocks,
     GuestJoins, Resolve, JoinFails, Leave, Unchecked, rowVars
<1> HIDE DEF Goal
<1>10. Goal
  BY <1>3, <1>4, <1>5, <1>6, <1>7, <1>8, <1>9, AccountsCases
<1> QED BY <1>10 DEF Goal

\* MarkPassOpened, SetPassStatus, reissueInvite: a pass that was turned off is turned on
\* by nothing but a re-issue, or the stamp of a mint whose mail took longer.
THEOREM RevocationLasts == Spec => RevokedStays
<1>1. AccountsInv /\ [Next]_vars
         => [\A p \in Passes : TurnedOn(p) => TurnsOn(p)]_vars
  BY TurnsOnStep
<1>2. ASSUME NEW p
      PROVE  (TurnedOn(p) => TurnsOn(p)) <=>
                (status[p] = "revoked" /\ status'[p] \notin {"revoked", "gone"} =>
                   \E r \in Requests :
                      /\ req[r].on = p
                      /\ At(r, {"reissue"}, "asked") \/ At(r, {"mint"}, "stamping"))
  BY DEF TurnedOn, TurnsOn
<1>3. AccountsInv /\ [Next]_vars
         => [\A p \in Passes :
                status[p] = "revoked" /\ status'[p] \notin {"revoked", "gone"} =>
                   \E r \in Requests :
                      /\ req[r].on = p
                      /\ At(r, {"reissue"}, "asked") \/ At(r, {"mint"}, "stamping")]_vars
  BY <1>1, <1>2
<1> QED BY <1>3, AccountsInvHolds, PTL DEF Spec, RevokedStays

\* AdminRemains, of one step.
Stranded == ActiveAdmins # {} /\ ActiveAdmins' = {}
ActsOnStaleView == \E r \in Requests : req[r].stale /\ req'[r].step # req[r].step

\* A removal that goes on with a view that is not stale leaves another admin.
LEMMA RemovalLeavesOne ==
    ASSUME AccountsInv, NEW r \in Requests, ~req[r].stale,
           req[r].op \in Removals, req[r].step = "cleared",
           ActiveAdmins \ {req[r].on} \subseteq ActiveAdmins', ActiveAdmins # {}
    PROVE  ActiveAdmins' # {}
<1>1. (req[r].seen <=> req[r].on \in ActiveAdmins) /\ ~WouldStrand(r)
  BY DEF AccountsInv, ViewKept
<1>2. CASE req[r].on \notin ActiveAdmins
  BY <1>2
<1>3. CASE req[r].on \in ActiveAdmins
  <2>1. ~(Cardinality(ActiveAdmins) <= 1)
    BY <1>1, <1>3 DEF WouldStrand
  <2>2. ActiveAdmins # {req[r].on}
    <3>1. Cardinality({req[r].on}) = 1
      BY FS_Singleton
    <3> QED BY <2>1, <3>1
  <2> QED BY <1>3, <2>2
<1> QED BY <1>2, <1>3

LEMMA StrandedStep ==
    ASSUME AccountsInv, [Next]_vars, Stranded
    PROVE  ActsOnStaleView
<1> DEFINE Goal == Stranded => ActsOnStaleView
<1>0. /\ account \in [Hosts -> {"absent", "pending", "active", "suspended", "erased"}]
      /\ admins \subseteq {h \in Hosts : account[h] \notin {"absent", "erased"}}
      /\ req \in [Requests -> RequestRecords]
      /\ AboutSomeone /\ AccountsTypeOK
  BY DEF AccountsInv, AccountsTyped, AccountsTypeOK, RequestRecords
<1>1. ASSUME ActiveAdmins \subseteq ActiveAdmins' PROVE Goal
  BY <1>1 DEF Stranded
<1>2. ASSUME UNCHANGED hostVars PROVE Goal
  BY <1>1, <1>2 DEF hostVars, ActiveAdmins
<1>3. ASSUME NEW h \in Hosts, SignIn(h) PROVE Goal
  <2>1. ActiveAdmins \subseteq ActiveAdmins'
    BY <1>0, <1>3 DEF SignIn, ActiveAdmins
  <2> QED BY <1>1, <2>1
<1>4. ASSUME NEW r \in Requests, Approve(r) PROVE Goal
  <2>1. ActiveAdmins \subseteq ActiveAdmins'
    BY <1>0, <1>4 DEF Approve, ActiveAdmins
  <2> QED BY <1>1, <2>1
<1>5. ASSUME NEW r \in Requests, Promote(r) PROVE Goal
  <2>1. ActiveAdmins \subseteq ActiveAdmins'
    BY <1>0, <1>5 DEF Promote, ActiveAdmins
  <2> QED BY <1>1, <2>1
\* The step of a removal: it goes on, and takes nobody but its target away.
<1>6. ASSUME NEW r \in Requests, req[r].op \in Removals, req[r].step = "cleared",
             req'[r].step # "cleared",
             ActiveAdmins \ {req[r].on} \subseteq ActiveAdmins'
      PROVE  Goal
  BY <1>6, RemovalLeavesOne DEF Stranded, ActsOnStaleView
<1>7. ASSUME NEW r \in Requests, Written(Ended(r)) \/ Written(Moved(r, "ending"))
      PROVE  req'[r].step # "cleared"
  <2>1. /\ Ended(r) \in [Requests -> RequestRecords]
        /\ Moved(r, "ending") \in [Requests -> RequestRecords]
    BY <1>0, RequestTypes DEF Steps
  <2>2. Alike(req', Ended(r)) \/ Alike(req', Moved(r, "ending"))
    BY <1>7, <2>1, WrittenAlike
  <2>3. Ended(r)[r].step = "idle" /\ Moved(r, "ending")[r].step = "ending"
    BY <1>0 DEF Ended, Moved, Idle, Request, RequestRecords
  <2> QED BY <2>2, <2>3 DEF Alike
<1>8. ASSUME NEW r \in Requests, Demote(r) PROVE Goal
  <2>1. ActiveAdmins \ {req[r].on} \subseteq ActiveAdmins'
    BY <1>0, <1>8 DEF Demote, ActiveAdmins
  <2> QED BY <1>6, <1>7, <1>8, <2>1 DEF Demote, At, Removals
<1>9. ASSUME NEW r \in Requests, NEW b \in BOOLEAN, Suspend(r, b) PROVE Goal
  <2>1. ActiveAdmins \ {req[r].on} \subseteq ActiveAdmins'
    BY <1>0, <1>9 DEF Suspend, ActiveAdmins
  <2> QED BY <1>6, <1>7, <1>9, <2>1 DEF Suspend, At, Removals
<1>10. ASSUME NEW r \in Requests, Erase(r) PROVE Goal
  <2>1. ActiveAdmins \ {req[r].on} \subseteq ActiveAdmins'
    BY <1>0, <1>10 DEF Erase, ActiveAdmins
  <2> QED BY <1>6, <1>7, <1>10, <2>1 DEF Erase, At, Removals
<1>11. ASSUME NEW r, NEW h, NEW t, NEW op,
              AskAdmin(r, h, t, op) \/ AskOwn(r, op, t) \/ AskErase(r, h)
       PROVE  Goal
  BY <1>2, <1>11 DEF AskAdmin, AskOwn, AskErase
<1>12. ASSUME NEW r,
              \/ Check(r) \/ TargetGone(r) \/ ForceEnd(r) \/ EraseLoads(r) \/ EraseCounts(r)
              \/ CreateStream(r) \/ GoLive(r) \/ EndSession(r)
              \/ DeleteReading(r) \/ DeleteRows(r) \/ DeleteEvicts(r)
              \/ MintRow(r) \/ MintStamp(r) \/ Reissue(r) \/ Revoke(r)
       PROVE  Goal
  BY <1>2, <1>12 DEF Check, TargetGone, ForceEnd, EraseLoads, EraseCounts, CreateStream, GoLive,
     EndSession, DeleteReading, DeleteReads, DeleteRows, DeleteEvicts, MintRow, MintStamp,
     Reissue, Revoke
<1>13. ASSUME \/ Reap \/ HostJoins \/ Restart \/ UNCHANGED vars
              \/ \E r, b : Mailed(r, b)
              \/ \E p : \/ Kick(p) \/ Enter(p) \/ MarkPassOpened(p) \/ GuestLocks(p)
                        \/ GuestJoins(p) \/ Resolve(p) \/ JoinFails(p) \/ Leave(p)
       PROVE  Goal
  BY <1>2, <1>13 DEF Reap, HostJoins, Restart, vars, Mailed, Kick, Enter, MarkPassOpened,
     GuestLocks, GuestJoins, Resolve, JoinFails, Leave
<1> HIDE DEF Goal
<1>14. Goal
  BY <1>3, <1>4, <1>5, <1>8, <1>9, <1>10, <1>11, <1>12, <1>13, AccountsCases
<1> QED BY <1>14 DEF Goal

\* wouldStrandLastAdmin, deleteHostAccount: a suspension, demotion or erasure never takes
\* the last active admin away, however many requests are in progress, unless the admins
\* changed between its look and its write.
THEOREM LastAdminIsKept == Spec => AdminRemains
<1>1. AccountsInv /\ [Next]_vars => [Stranded => ActsOnStaleView]_vars
  BY StrandedStep
<1>2. AccountsInv /\ [Next]_vars
         => [ActiveAdmins # {} /\ ActiveAdmins' = {} =>
               \E r \in Requests : req[r].stale /\ req'[r].step # req[r].step]_vars
  BY <1>1 DEF Stranded, ActsOnStaleView
<1> QED BY <1>2, AccountsInvHolds, PTL DEF Spec, AdminRemains
=================================================================================
