------------------------------ MODULE SourceTokens ------------------------------
(***************************************************************************)
(* The tokens of the OBS source URLs: they are provisioned and rotated     *)
(* (internal/web/sources.go, internal/store/slots.go), a source page       *)
(* connects with the one of its URL (internal/web/ws.go, wsauth.go) and    *)
(* comes back or stops (web/src/obs/obs.js).                               *)
(*                                                                         *)
(* A rotation writes the new token and then tears down the connection of   *)
(* the slot; a handshake reads the token, reads it again and then joins.   *)
(* A token is its generation, 0 before the slot exists.                    *)
(***************************************************************************)
EXTENDS Naturals, FiniteSets

CONSTANTS
    Sources,    \* OBS source pages
    Slots,
    Gone,       \* the other end of a connection whose page is no longer there
    MaxTokens,  \* tokens of a slot
    MaxLoads,   \* how often a page is loaded
    MaxLosses   \* lost connections, ends of sessions, restarts

ASSUME SourceTokensAssumption ==
    /\ Gone \notin Sources /\ "none" \notin Sources \cup {Gone}
    /\ MaxTokens \in Nat \ {0} /\ MaxLoads \in Nat /\ MaxLosses \in Nat

VARIABLES
    token,      \* source_token_hash of each slot
    teardowns,  \* rotations that have written and not torn down, per slot
    url,        \* the URL each page was loaded with: slot and token
    source,     \* off, waiting, dialing, on; told to stop: displacing, rotating, and
                \* stopped: displaced, rotated, over
    handshakes, \* connections the server is admitting
    inRoom,     \* the connection of each slot in the room of the host
    struck,     \* history: pages told that their link was replaced when it was not: torn
                \* down after joining between a write and its teardown, or not looked up
    loads,
    losses

tokenVars == <<token, teardowns, url, source, handshakes, inRoom, struck, loads, losses>>

Tokens == 0..MaxTokens
Ends == Sources \cup {Gone}
NoUrl == [slot |-> "none", token |-> 0]
Handshakes == [by : Ends, slot : Slots, token : Tokens, step : {"resolved", "checked"},
               overtaken : BOOLEAN]
\* early: joined while a teardown was to come; overtaken: admitted, then overtaken by one.
NoConn == [by |-> "none", token |-> 0, early |-> FALSE, overtaken |-> FALSE]
Conns == [by : Ends, token : Tokens, early : BOOLEAN, overtaken : BOOLEAN] \cup {NoConn}

Of(h) == IF h.by = Gone THEN {} ELSE {h.by}
Turn(pages, to) == [p \in Sources |-> IF p \in pages THEN to ELSE source[p]]

-----------------------------------------------------------------------------
(* The tokens *)

\* EnsureSlotPool inserts the slots that are missing, in one transaction.
Provisioned == [s \in Slots |-> IF token[s] = 0 THEN 1 ELSE token[s]]

\* ensureSlotPool, whenever the Sources tab is opened.
EnsureSlotPool ==
    /\ \E s \in Slots : token[s] = 0
    /\ token' = Provisioned
    /\ UNCHANGED <<teardowns, url, source, handshakes, inRoom, struck, loads, losses>>

\* RotateSlotTokens, RotateSlotToken: all in one transaction.
Rotated(S) == [s \in Slots |-> IF s \in S THEN token[s] + 1 ELSE token[s]]

\* A rotation up to the commit; the teardowns follow.
Regenerate(S) ==
    /\ \A s \in S : token[s] \in 1..MaxTokens - 1
    /\ token' = Rotated(S)
    /\ teardowns' = [s \in Slots |-> IF s \in S THEN teardowns[s] + 1 ELSE teardowns[s]]
    /\ UNCHANGED <<url, source, handshakes, inRoom, struck, loads, losses>>

RegenerateSlot(s) == Regenerate({s})
RegenerateAllSlots == Regenerate(Slots)

\* RotateSource: whoever is connected to the slot is told that its link was replaced.
RotateSource(s) ==
    LET c == inRoom[s]
        held == IF c = NoConn THEN {} ELSE Of(c)
    IN /\ source' = Turn(held, "rotating")
       /\ struck' = struck \cup (IF c.early THEN held ELSE {})
       /\ inRoom' = [inRoom EXCEPT ![s] = NoConn]

TerminateSourceIfLive(s) ==
    /\ teardowns[s] > 0
    /\ teardowns' = [teardowns EXCEPT ![s] = @ - 1]
    /\ RotateSource(s)
    /\ handshakes' = {IF h.slot = s /\ h.step = "checked" /\ h.token # token[s]
                      THEN [h EXCEPT !.overtaken = TRUE] ELSE h : h \in handshakes}
    /\ UNCHANGED <<token, url, loads, losses>>

-----------------------------------------------------------------------------
(* The handshake of a source *)

\* resolveSource: a token that is no longer in the table is refused; the page tries again.
Dials(p) ==
    /\ source[p] = "waiting" /\ url[p].token = token[url[p].slot]
    /\ source' = [source EXCEPT ![p] = "dialing"]
    /\ handshakes' = handshakes \cup {[by |-> p, slot |-> url[p].slot, token |-> url[p].token,
                                       step |-> "resolved", overtaken |-> FALSE]}
    /\ UNCHANGED <<token, teardowns, url, inRoom, struck, loads, losses>>

\* sourceStillValid: a lookup that fails says no, as one that finds no slot.
\* Mutant: the token is not read again.
NotRead(h, looked) == TRUE
StillValid(h, looked) == looked /\ h.token = token[h.slot]

\* serve: whoever is not valid any more is told that its link was replaced.
Rechecks(h, looked) ==
    LET valid == StillValid(h, looked)
    IN /\ h.step = "resolved"
       /\ handshakes' = (handshakes \ {h})
                        \cup IF valid THEN {[h EXCEPT !.step = "checked"]} ELSE {}
       /\ source' = IF valid THEN source ELSE Turn(Of(h), "rotating")
       /\ struck' = struck \cup IF looked THEN {} ELSE Of(h)
       /\ UNCHANGED <<token, teardowns, url, inRoom, loads, losses>>

\* Join: a connection the slot has is displaced.
JoinsRoom(h) ==
    /\ h.step = "checked" /\ handshakes' = handshakes \ {h}
    /\ inRoom' = [inRoom EXCEPT ![h.slot] =
                     [by |-> h.by, token |-> h.token, early |-> teardowns[h.slot] > 0,
                      overtaken |-> h.overtaken]]
    /\ LET old == inRoom[h.slot]
       IN source' = [p \in Sources |->
                        CASE p = h.by -> "on"
                          [] old # NoConn /\ p \in Of(old) -> "displacing"
                          [] OTHER -> source[p]]
    /\ UNCHANGED <<token, teardowns, url, struck, loads, losses>>

-----------------------------------------------------------------------------
(* The page *)

\* The connection and the handshake of a page that is no longer behind them.
Ghosts(P) == {IF h.by \in P THEN [h EXCEPT !.by = Gone] ELSE h : h \in handshakes}
Left(P) == [s \in Slots |-> IF inRoom[s].by \in P THEN [inRoom[s] EXCEPT !.by = Gone]
                            ELSE inRoom[s]]

\* The host loads a source with a URL it has been shown, or loads it again.
Loads(p, s, g) ==
    /\ g \in 1..token[s]
    /\ loads < MaxLoads /\ loads' = loads + 1
    /\ url' = [url EXCEPT ![p] = [slot |-> s, token |-> g]]
    /\ source' = [source EXCEPT ![p] = "waiting"]
    /\ handshakes' = Ghosts({p}) /\ inRoom' = Left({p}) /\ struck' = struck \ {p}
    /\ UNCHANGED <<token, teardowns, losses>>

\* onClose without a terminal reason: the connection is lost, or what it said last.
Loses(p) ==
    /\ source[p] \in {"dialing", "on", "displacing", "rotating"}
    /\ losses < MaxLosses /\ losses' = losses + 1
    /\ source' = [source EXCEPT ![p] = "waiting"]
    /\ handshakes' = Ghosts({p}) /\ inRoom' = Left({p}) /\ struck' = struck \ {p}
    /\ UNCHANGED <<token, teardowns, url, loads>>

\* onClose after a terminal reason: showTerminal.
Stops(p) ==
    /\ source[p] \in {"displacing", "rotating"}
    /\ source' = [source EXCEPT ![p] = IF @ = "rotating" THEN "rotated" ELSE "displaced"]
    /\ UNCHANGED <<token, teardowns, url, handshakes, inRoom, struck, loads, losses>>

\* The server finds that there is nobody: before the connection joins, or after.
GhostFails(h) ==
    /\ h.by = Gone /\ handshakes' = handshakes \ {h}
    /\ UNCHANGED <<token, teardowns, url, source, inRoom, struck, loads, losses>>

GhostLeaves(s) ==
    /\ inRoom[s].by = Gone /\ inRoom' = [inRoom EXCEPT ![s] = NoConn]
    /\ UNCHANGED <<token, teardowns, url, source, handshakes, struck, loads, losses>>

-----------------------------------------------------------------------------
(* The room *)

\* TerminateSession tells a source to reconnect.
\* Mutant: it tells every connection that the session has ended.
AfterSessionOver == "over"
AfterSession == "waiting"

\* EndSession: the room goes with its connections and the handshakes that hold it, those
\* that are checked and any of the others.
EndSession ==
    /\ losses < MaxLosses /\ losses' = losses + 1
    /\ \E R \in SUBSET {h \in handshakes : h.step = "resolved"} :
          LET refused == R \cup {h \in handshakes : h.step = "checked"}
              held == {s \in Slots : inRoom[s] # NoConn}
          IN /\ handshakes' = handshakes \ refused
             /\ source' = [p \in Sources |->
                              CASE p \in UNION {Of(inRoom[s]) : s \in held} -> AfterSession
                                [] p \in UNION {Of(h) : h \in refused} -> "waiting"
                                [] OTHER -> source[p]]
    /\ inRoom' = [s \in Slots |-> NoConn]
    /\ UNCHANGED <<token, teardowns, url, struck, loads>>

\* Shutdown, or the process dies: nothing but the table is left.
Restarts ==
    /\ losses < MaxLosses /\ losses' = losses + 1
    /\ teardowns' = [s \in Slots |-> 0]
    /\ handshakes' = {} /\ inRoom' = [s \in Slots |-> NoConn]
    /\ source' = Turn({p \in Sources : source[p] \in {"dialing", "on", "displacing", "rotating"}},
                      "waiting")
    /\ struck' = {p \in struck : source[p] = "rotated"}
    /\ UNCHANGED <<token, url, loads>>

-----------------------------------------------------------------------------
TokensInit ==
    /\ token = [s \in Slots |-> 0] /\ teardowns = [s \in Slots |-> 0]
    /\ url = [p \in Sources |-> NoUrl] /\ source = [p \in Sources |-> "off"]
    /\ handshakes = {} /\ inRoom = [s \in Slots |-> NoConn]
    /\ struck = {} /\ loads = 0 /\ losses = 0

Admits == \E h \in handshakes :
              JoinsRoom(h) \/ \E looked \in BOOLEAN : Rechecks(h, looked)
Finds == (\E h \in handshakes : GhostFails(h)) \/ (\E s \in Slots : GhostLeaves(s))

TokensNext ==
    \/ EnsureSlotPool
    \/ \E s \in Slots : RegenerateSlot(s) \/ TerminateSourceIfLive(s)
    \/ RegenerateAllSlots
    \/ \E p \in Sources : Dials(p) \/ Loses(p) \/ Stops(p)
    \/ \E p \in Sources, s \in Slots, g \in Tokens : Loads(p, s, g)
    \/ Admits \/ Finds \/ EndSession \/ Restarts

\* A handler goes on, a page tries again and reads what it is told.
TokensProgress ==
    \/ Admits
    \/ \E s \in Slots : TerminateSourceIfLive(s)
    \/ \E p \in Sources : Dials(p) \/ Stops(p)

TokensSpec == TokensInit /\ [][TokensNext]_tokenVars /\ WF_tokenVars(TokensProgress)

TokensTypeOK ==
    /\ token \in [Slots -> Tokens] /\ teardowns \in [Slots -> Nat]
    /\ url \in [Sources -> [slot : Slots, token : Tokens] \cup {NoUrl}]
    /\ source \in [Sources -> {"off", "waiting", "dialing", "on", "displacing", "rotating",
                               "displaced", "rotated"}]
    /\ handshakes \subseteq Handshakes /\ inRoom \in [Slots -> Conns]
    /\ struck \subseteq Sources /\ loads \in Nat /\ losses \in Nat

-----------------------------------------------------------------------------
(* Properties *)

\* regenerateSlot, sourceStillValid: once the rotation is through, no connection of the
\* slot came in with a token it has replaced, except one that had been admitted before
\* the write and joined after the teardown.
OldTokenIsOut ==
    \A s \in Slots :
       inRoom[s] # NoConn /\ inRoom[s].token # token[s] =>
          teardowns[s] > 0 \/ inRoom[s].overtaken

InForce(p) == url[p] # NoUrl /\ url[p].token = token[url[p].slot]

\* connect, TerminateSession: a page whose URL is in force ends up as the connection of
\* its slot, whatever dropped, ended or restarted.  The exceptions: another connection
\* took its place; a teardown struck it that was not meant for it; or the lookup of its
\* re-check failed, which the server takes for a rotation, so that the page stops.
SourceComesBack ==
    \A p \in Sources :
       <>[](InForce(p) /\ source[p] # "displaced" /\ p \notin struck)
          => <>[](source[p] = "on" /\ inRoom[url[p].slot].by = p)
=================================================================================
