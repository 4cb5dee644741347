------------------------------ MODULE Keepalive ------------------------------
(***************************************************************************)
(* client.keepalive with time: the ticker, lastKeepaliveId, lastPongAt and *)
(* what a reconnect does to them.  Module Client has the goroutines and    *)
(* leaves time out; here the reconnect is one step and time is discrete.   *)
(*                                                                         *)
(* Ages count from the event to now and stop one past the timeout, where   *)
(* nothing can tell them apart any more.                                   *)
(***************************************************************************)
EXTENDS Integers

CONSTANTS
    Interval,    \* dialOptions.Keepalive
    Timeout,     \* dialOptions.KeepaliveTimeout
    Rtt          \* a server that is up answers a ping within this time

\* Answers come before the next tick, and the timeout is not below the interval.
\* The options guarantee only that both are positive (Exchange!OptionsTaken).
ASSUME KeepaliveAssumption ==
    /\ Interval \in Nat /\ Timeout \in Nat /\ Rtt \in Nat \ {0}
    /\ Rtt < Interval /\ Interval =< Timeout

VARIABLES
    timer, tick,       \* the ticker: time since it last fired; the ticks in its channel
    pongAge,           \* age of lastPongAt
    lastKeepaliveId,   \* 0, or 1 for any other id
    pc,                \* the keepalive goroutine: in its loop or waiting in reconnecting
    conn,              \* "reconnecting" while doReconnectting is set; "fresh" while the server
                       \* was up ever since c.conn was dialed, or resumed with no tick waiting
    ping,              \* age of the ping that is under way on c.conn, -1 for none
    session,           \* authInfo: none, valid or expired
    server,            \* up or down
    silent             \* how long the server has been down unnoticed (history)

vars == <<timer, tick, pongAge, lastKeepaliveId, pc, conn, ping, session, server, silent>>

doReconnectting == conn = "reconnecting"
SilenceBound == Timeout + Interval

\* Every variable has its type, and the ages stop where they should.
TypeOK ==
    /\ tick \in 0..1 /\ lastKeepaliveId \in 0..1
    /\ timer \in 0..(Interval - 1) /\ ping \in -1..Rtt
    /\ pongAge \in 0..(Timeout + 1) /\ silent \in 0..(SilenceBound + 1)
    /\ pc \in {"loop", "waiting"} /\ conn \in {"fresh", "used", "reconnecting"}
    /\ session \in {"none", "valid", "expired"} /\ server \in {"up", "down"}

\* Variant: ages grow without end.
OlderAlways(age, max) == age + 1
\* An age one step later, up to max.
Older(age, max) == IF age < max THEN age + 1 ELSE max

\* The keepalive goroutine has started, with lastPongAt = now.
Init ==
    /\ timer = 0 /\ tick = 0 /\ pongAge = 0 /\ lastKeepaliveId = 0
    /\ pc = "loop" /\ conn = "fresh" /\ ping = -1
    /\ session \in {"none", "valid"} /\ server = "up" /\ silent = 0
-----------------------------------------------------------------------------
\* Time passes when nobody has anything to do now: ticks are handled, pings
\* answered and reconnects made at once.  A tick that finds the channel full is lost.
Time ==
    /\ ~(tick = 1 /\ pc = "loop")
    /\ server = "up" => ping < Rtt /\ ~doReconnectting
    /\ timer' = IF timer + 1 = Interval THEN 0 ELSE timer + 1
    /\ tick' = IF timer' = 0 THEN 1 ELSE tick
    /\ pongAge' = Older(pongAge, Timeout + 1)
    /\ ping' = IF ping >= 0 THEN Older(ping, Rtt) ELSE -1
    /\ silent' = IF server = "down" /\ ~doReconnectting THEN Older(silent, SilenceBound + 1) ELSE 0
    /\ UNCHANGED <<lastKeepaliveId, pc, conn, session, server>>

Expired == lastKeepaliveId # 0 /\ pongAge > Timeout

\* check() fails: reconnecting, which returns at once if somebody is at it.
CheckFails ==
    /\ pc = "loop" /\ tick = 1 /\ Expired
    /\ tick' = 0
    /\ pc' = IF doReconnectting THEN "loop" ELSE "waiting"
    /\ conn' = "reconnecting"
    /\ UNCHANGED <<timer, pongAge, lastKeepaliveId, ping, session, server, silent>>

\* Variant: a ping counts as a sign of life.
PingRenews ==
    /\ pc = "loop" /\ tick = 1 /\ ~Expired
    /\ tick' = 0 /\ pongAge' = 0
    /\ ping' = IF doReconnectting THEN ping ELSE 0
    /\ lastKeepaliveId' = IF doReconnectting THEN lastKeepaliveId ELSE 1
    /\ UNCHANGED <<timer, pc, conn, session, server, silent>>

\* check() passes: a ping is sent unless a reconnect is going on.
Ping ==
    /\ pc = "loop" /\ tick = 1 /\ ~Expired
    /\ tick' = 0
    /\ ping' = IF doReconnectting THEN ping ELSE 0
    /\ lastKeepaliveId' = IF doReconnectting THEN lastKeepaliveId ELSE 1
    /\ UNCHANGED <<timer, pongAge, pc, conn, session, server, silent>>

\* ping() fails: the write queue is full or the connection closed already.
PingFails ==
    /\ pc = "loop" /\ tick = 1 /\ ~Expired /\ server = "down" /\ ~doReconnectting
    /\ tick' = 0 /\ pc' = "waiting" /\ conn' = "reconnecting"
    /\ UNCHANGED <<timer, pongAge, lastKeepaliveId, ping, session, server, silent>>

\* handlePong
Pong ==
    /\ ping >= 0 /\ server = "up" /\ ~doReconnectting
    /\ ping' = -1 /\ pongAge' = 0
    /\ UNCHANGED <<timer, tick, lastKeepaliveId, pc, conn, session, server, silent>>

\* reconnect succeeds with the keepalive state id: without a session, with one
\* that was renewed by auth, or with one that was resumed.
Reconnected(id) ==
    /\ doReconnectting /\ server = "up"
    /\ conn' = IF session = "valid" /\ tick = 0 THEN "fresh" ELSE "used"
    /\ pc' = "loop" /\ ping' = -1
    /\ lastKeepaliveId' = id
    /\ session' = IF session = "none" THEN "none" ELSE "valid"
    /\ UNCHANGED <<timer, tick, pongAge, server, silent>>

\* Variants: the id outlives every reconnect; no reconnect keeps it.
ReconnectKeeps  == Reconnected(lastKeepaliveId)
ReconnectResets == Reconnected(0)

\* Only reconnectDial resets lastKeepaliveId, and nothing resets lastPongAt.
Reconnect == Reconnected(IF session = "valid" THEN 0 ELSE lastKeepaliveId)

\* A reset of the connection starts a reconnect.
MayReset(c) == conn' \in {c, "reconnecting"}

\* The server goes away.  The connection may be reset or fall silent, and a ping
\* may be lost, now or when the server is back.
ServerDown ==
    /\ server = "up" /\ server' = "down"
    /\ ping' \in {ping, -1}
    /\ MayReset(IF conn = "fresh" THEN "used" ELSE conn)
    /\ UNCHANGED <<timer, tick, pongAge, lastKeepaliveId, pc, session, silent>>

ServerUp ==
    /\ server = "down" /\ server' = "up" /\ silent' = 0
    /\ ping' \in {ping, -1}
    /\ MayReset(conn)
    /\ UNCHANGED <<timer, tick, pongAge, lastKeepaliveId, pc, session>>

SessionExpires ==
    /\ session = "valid" /\ session' = "expired"
    /\ UNCHANGED <<timer, tick, pongAge, lastKeepaliveId, pc, conn, ping, server, silent>>

Step == CheckFails \/ Ping \/ PingFails \/ Pong \/ Reconnect
Next == Time \/ Step \/ ServerDown \/ ServerUp \/ SessionExpires

\* Time goes on and the goroutines run; nothing is assumed of the server.
Spec == Init /\ [][Next]_vars /\ WF_vars(Time) /\ WF_vars(Step)
-----------------------------------------------------------------------------
\* A server that falls silent is noticed within one timeout and one interval,
\* whenever in the period it happens and whatever happened before.
SilenceNoticed == silent =< SilenceBound

\* As long as the server of a connection that was dialed, or whose session was
\* resumed, is up, keepalive does not give the connection up.  (A tick left over
\* from before the reconnect does away with that: the next one may come before
\* the pong, and lastPongAt is from before the outage.)
NoFalseAlarm == [][CheckFails => conn # "fresh"]_vars

\* With a session, outages end: once the server stays up and the session valid
\* the client stops reconnecting.
SessionSettles ==
    <>[](server = "up" /\ session = "valid") => <>[]~doReconnectting

\* Without a session an outage longer than the timeout never ends: lastKeepaliveId
\* and lastPongAt outlive the reconnect, check() fails before every ping, no pong
\* can come, and each tick reconnects again, however long the server is up.
Stuck == session = "none" /\ Expired /\ ping = -1
OutageOutlivesReconnect == [][Stuck => Stuck']_vars
=============================================================================
