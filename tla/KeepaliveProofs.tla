-------------------------- MODULE KeepaliveProofs --------------------------
(***************************************************************************)
(* What keepalive's timing promises, for every interval, timeout and       *)
(* response time that KeepaliveAssumption admits.                          *)
(***************************************************************************)
EXTENDS Keepalive, TLAPS

\* Who waits has set the flag; silence is counted while the server is down; a
\* fresh connection has a server.
Shape ==
    /\ pc = "waiting" => doReconnectting
    /\ server = "up" => silent = 0
    /\ conn = "fresh" => server = "up"

\* The pong is at least as old as the silence.  Before the first ping no tick has
\* been handled since the silence began; after it the timeout has not passed at
\* the last one.
SilenceInv ==
    server = "down" /\ ~doReconnectting =>
        /\ silent =< pongAge \/ (silent > Timeout /\ pongAge = Timeout + 1)
        /\ tick = 1 => silent =< Timeout + Interval
        /\ tick = 0 => silent =< Timeout + timer
        /\ lastKeepaliveId = 0 /\ tick = 0 => silent =< timer
        /\ lastKeepaliveId = 0 /\ tick = 1 => silent =< Interval

\* On a fresh connection ticks are handled at once, a ping is as old as the last
\* tick, and without one the last pong is not older than the last tick.
FreshInv ==
    conn = "fresh" =>
        /\ tick = 1 => timer = 0
        /\ ping >= 0 => lastKeepaliveId = 1 /\ tick = 0 /\ ping = timer
        /\ lastKeepaliveId = 1 /\ ping = -1 /\ tick = 0 => pongAge =< timer
        /\ lastKeepaliveId = 1 /\ ping = -1 /\ tick = 1 => pongAge =< Interval

KeepaliveInv == TypeOK /\ Shape /\ silent =< SilenceBound /\ SilenceInv /\ FreshInv

LEMMA InitInv == Init => KeepaliveInv
BY KeepaliveAssumption
DEF Init, KeepaliveInv, TypeOK, Shape, SilenceInv, FreshInv, SilenceBound, doReconnectting

LEMMA NextInv == KeepaliveInv /\ [Next]_vars => KeepaliveInv'
<1> SUFFICES ASSUME KeepaliveInv, [Next]_vars PROVE KeepaliveInv'
  OBVIOUS
<1> USE KeepaliveAssumption
    DEF KeepaliveInv, TypeOK, Shape, SilenceInv, FreshInv, SilenceBound, doReconnectting
<1>1. CASE Time
  <2> USE <1>1 DEF Time, Older
  <2>1. TypeOK'
    OBVIOUS
  <2>2. Shape'
    OBVIOUS
  <2>3. (silent =< SilenceBound)'
    OBVIOUS
  <2>4. SilenceInv'
    OBVIOUS
  <2>5. FreshInv'
    OBVIOUS
  <2> HIDE <1>1 DEF TypeOK, Shape, SilenceInv, FreshInv, SilenceBound
  <2> QED
    BY <2>1, <2>2, <2>3, <2>4, <2>5
<1>2. CASE CheckFails
  BY <1>2 DEF CheckFails, Expired
<1>3. CASE Ping
  <2> USE <1>3 DEF Ping, Expired
  <2>1. TypeOK'
    OBVIOUS
  <2>2. Shape'
    OBVIOUS
  <2>3. (silent =< SilenceBound)'
    OBVIOUS
  <2>4. SilenceInv'
    OBVIOUS
  <2>5. FreshInv'
    OBVIOUS
  <2> HIDE <1>3 DEF TypeOK, Shape, SilenceInv, FreshInv, SilenceBound
  <2> QED
    BY <2>1, <2>2, <2>3, <2>4, <2>5
<1>4. CASE PingFails
  BY <1>4 DEF PingFails
<1>5. CASE Pong
  BY <1>5 DEF Pong
<1>6. CASE Reconnect
  BY <1>6 DEF Reconnect, Reconnected
<1>7. CASE ServerDown
  BY <1>7 DEF ServerDown, MayReset
<1>8. CASE ServerUp
  BY <1>8 DEF ServerUp, MayReset
<1>9. CASE SessionExpires
  BY <1>9 DEF SessionExpires
<1>10. CASE UNCHANGED vars
  BY <1>10 DEF vars
<1> QED
  BY <1>1, <1>2, <1>3, <1>4, <1>5, <1>6, <1>7, <1>8, <1>9, <1>10 DEF Next, Step

\* The invariant the theorems rest on.
THEOREM Invariant == Spec => []KeepaliveInv
BY InitInv, NextInv, PTL DEF Spec

\* Every variable has its type, the bounds of the ages included.
THEOREM TypeCorrect == Spec => []TypeOK
<1>1. KeepaliveInv => TypeOK
  BY DEF KeepaliveInv
<1> QED
  BY <1>1, Invariant, PTL

\* A silent server is noticed within one timeout and one interval.
THEOREM SilenceIsNoticed == Spec => []SilenceNoticed
<1>1. KeepaliveInv => SilenceNoticed
  BY DEF KeepaliveInv, SilenceNoticed
<1> QED
  BY <1>1, Invariant, PTL

\* A connection that was dialed or resumed is kept as long as its server is up.
THEOREM NoFalseAlarms == Spec => NoFalseAlarm
<1>1. KeepaliveInv /\ CheckFails => conn # "fresh"
  BY KeepaliveAssumption DEF KeepaliveInv, TypeOK, FreshInv, CheckFails, Expired
<1> QED
  BY <1>1, Invariant, PTL DEF NoFalseAlarm, Spec

\* Without a session an outage longer than the timeout goes on for good.
THEOREM OutageStays == Spec => OutageOutlivesReconnect
<1>1. KeepaliveInv /\ [Next]_vars /\ Stuck => Stuck'
  <2> SUFFICES ASSUME KeepaliveInv, [Next]_vars, Stuck PROVE Stuck'
    OBVIOUS
  <2> USE KeepaliveAssumption DEF KeepaliveInv, TypeOK, Stuck, Expired, doReconnectting
  <2>1. CASE Time
    BY <2>1 DEF Time, Older
  <2>2. CASE Step
    BY <2>2 DEF Step, CheckFails, Ping, PingFails, Pong, Reconnect, Reconnected
  <2>3. CASE ServerDown \/ ServerUp \/ SessionExpires
    BY <2>3 DEF ServerDown, ServerUp, MayReset, SessionExpires
  <2>4. CASE UNCHANGED vars
    BY <2>4 DEF vars
  <2> QED
    BY <2>1, <2>2, <2>3, <2>4 DEF Next
<1> QED
  BY <1>1, Invariant, PTL DEF OutageOutlivesReconnect, Spec
=============================================================================
