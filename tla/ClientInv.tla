----------------------------- MODULE ClientInv -----------------------------
(***************************************************************************)
(* The inductive invariant behind the safety properties of Client.         *)
(***************************************************************************)
EXTENDS Client

DialL  == {"dial", "dial_onpacket", "dial_onclose"}
DoL    == {"do_rlock", "do_register", "do_wait"}
ClL    == {"cl_begin", "cl_rlock", "cl_end"}
CloseL == {"close_check", "close_once", "close_dispatch", "close_end"}
RecL   == {"rec_lock", "rec_wait", "rec_relock"}

\* Each kind of goroutine stays in its own code, and its calls return there.
PcOK ==
    /\ pc[Main] \in {"m_start", "m_dialed", "m_authed", "m_ok", "m_err"} \cup DialL \cup DoL
    /\ pc[Keepalive] \in {"off", "ka_idle"} \cup RecL
    /\ rret[Keepalive] \in {"off", "ka_idle"}
    /\ pc[Reconnector] \in {"off", "rc_try", "rc_clear", "rc_dial", "rc_dialed", "rc_authed",
                            "rc_resumed", "rc_after", "rc_done", "rec_lock"}
                              \cup DialL \cup DoL \cup ClL \cup CloseL
    /\ cret[Reconnector] \in {"off", "rc_clear", "cl_end"}
    /\ rret[Reconnector] \in {"off", "close_end"}
    /\ \A p \in UserProcs :
          /\ pc[p] \in {"idle", "off"} \cup DoL \cup ClL \cup CloseL \cup RecL
          /\ cret[p] \in {"off", "cl_end"} /\ rret[p] \in {"off", "close_end"}
    /\ \A c \in Conns :
          /\ pc[Reader(c)] \in {"off", "read"} \cup CloseL \cup RecL
          /\ cret[Reader(c)] = "off" /\ rret[Reader(c)] \in {"off", "close_end"}
          /\ pc[Consumer(c)] \in {"off", "cs_top", "cs_recv", "cs_drain", "cs_fin",
                                  "srv_rlock", "srv_end"} \cup CloseL \cup RecL
          /\ cret[Consumer(c)] \in {"off", "srv_end"}
          /\ rret[Consumer(c)] \in {"off", "close_end", "cs_top", "cs_drain", "cs_fin"}

\* Before the first connection nothing else runs, and keepalive is started last.
Early ==
    /\ pc[Main] \in {"m_start", "dial"} =>
          /\ conn = NoConn
          /\ \A p \in Goroutines \ {Main} : pc[p] \in {"idle", "off"}
          /\ \A c \in Conns : connState[c] = "unused"
    /\ pc[Main] \in DialL \cup {"m_start", "m_dialed"} => pc[Keepalive] = "off"

\* A connection's goroutines are started once, by the dial that makes it.
Born ==
    /\ \A c \in Conns : connState[c] = "unused" =>
          pc[Reader(c)] = "off" /\ packetCh[c] = "nil" /\ c # conn
    /\ \A c \in Conns : packetCh[c] = "nil" => pc[Consumer(c)] = "off"
    /\ \A p \in Goroutines : pc[p] = "dial_onpacket" =>
          conn \in Conns /\ packetCh[conn] = "nil"

\* dial holds the client's lock.
DialLocks == \A p \in Goroutines : pc[p] \in DialL => writer = p /\ readers = {}

\* Requests in flight have different ids, none above the counter.
IdsDistinct ==
    /\ \A p \in Callers : InDo(p) => rid[p] \in 1..lastId
    /\ \A p, q \in Callers : InDo(p) /\ InDo(q) /\ rid[p] = rid[q] => p = q

\* Only a request that waits can find its channel closed.
ClosedWaiting == \A p \in Goroutines : chClosed[p] => p \in Callers /\ At(p, "do_wait")

\* Only a request that waits has a response, and only callers of Do can have one.
BufferedWaiting == \A p \in Goroutines : chBuf[p] # {} => p \in Callers /\ At(p, "do_wait")

\* From its close of the old connection to its dial the reconnector knows the
\* client's connection to be closed.
OldClosed ==
    /\ pc[Reconnector] \in {"rc_clear", "rc_dial", "dial"} => conn = NoConn \/ Closed(conn)
    /\ pc[Reconnector] \in CloseL \cup {"rec_lock"} =>
          /\ closing[Reconnector] \in Conns
          /\ cret[Reconnector] = "rc_clear" => closing[Reconnector] = conn
    /\ pc[Reconnector] \in {"close_dispatch", "close_end", "rec_lock"} =>
          Closed(closing[Reconnector])

RequestInvariant ==
    /\ TypeOK /\ PcOK /\ Early /\ Born /\ DialLocks
    /\ SingleReconnect /\ InFlightOnCurrent /\ IdsDistinct
    /\ ClosedWaiting /\ RecvsExact /\ BufferedWaiting /\ ResponseFits
    /\ OldClosed /\ OneOpenConn
-----------------------------------------------------------------------------
(* The life of a connection.                                                 *)

\* p is inside closeOnce.Do, where its callback may be reconnecting.
InBody(p) ==
    \/ pc[p] \in {"close_dispatch", "close_end"}
    \/ pc[p] \in RecL /\ rret[p] = "close_end"

\* closing names the connection a goroutine is closing, and nothing otherwise;
\* one goroutine at a time runs the body of a connection's closeOnce.
CloseBody ==
    /\ \A p \in Goroutines :
          closing[p] \in Conns <=> pc[p] \in {"close_check", "close_once"} \/ InBody(p)
    /\ \A p \in Goroutines : InBody(p) => connState[closing[p]] = "closing"
    /\ \A p, q \in Goroutines :
          InBody(p) /\ InBody(q) /\ closing[p] = closing[q] => p = q

\* The consumer of c is at l, or will be when its call of reconnecting returns.
Loops(c, l) ==
    \/ pc[Consumer(c)] = l
    \/ pc[Consumer(c)] \in RecL /\ rret[Consumer(c)] = l

\* packetCh is open while the consumer runs.  The consumer counts what is left
\* only once it has found the connection closed, and its calls return to it.
LifeOf(c) ==
    /\ packetCh[c] = "open" <=> pc[Consumer(c)] # "off"
    /\ packetCh[c] = "nil" => queue[c] = <<>>
    /\ packetCh[c] # "open" => left[c] = -1
    /\ packetCh[c] = "closed" \/ left[c] >= 0 => Closed(c)
    /\ Loops(c, "cs_top") \/ Loops(c, "cs_recv") => left[c] = -1
    /\ Loops(c, "cs_drain") => left[c] >= 0
    /\ Loops(c, "cs_fin") => left[c] = 0
    /\ pc[Consumer(c)] \in CloseL \/ Loops(c, "close_end") => cret[Consumer(c)] = "srv_end"
    /\ pc[Consumer(c)] \in RecL => rret[Consumer(c)] # "off"

ConsumerLife == \A c \in Conns : LifeOf(c)

\* What the client's goroutines see of connection c.
View(c) == INSTANCE ConnView WITH
    Size <- ReadQueueSize,
    state <- IF connState[c] = "unused" THEN "open" ELSE connState[c],
    ch <- packetCh[c],
    queue <- queue[c],
    left <- IF packetCh[c] = "closed" THEN 0 ELSE left[c]

\* Every connection is one that ConnView describes, whatever the client's
\* goroutines do to it: module Conn shows the same of the two transports.
ImplementsConnView ==
    /\ \A c \in Conns : View(c)!Init
    /\ [][\A c \in Conns : View(c)!Next \/ UNCHANGED View(c)!vars]_vars
-----------------------------------------------------------------------------
(* Why the process ends only in a recovery, and why readers do not wait.     *)

\* Dial has not got a connection: only its caller runs, or calls Close.
NotStarted ==
    /\ pc[Main] \in {"m_start", "dial", "m_err"}
    /\ \A p \in Goroutines \ {Main} :
          pc[p] \in {"idle", "off"} \/ (p \in UserProcs /\ pc[p] = "cl_begin")

\* Until a Close, only a client that never had a connection or whose reconnector
\* is at work is without one.
WithoutConn ==
    conn = NoConn /\ ~closeCh =>
        \/ NotStarted
        \/ pc[Reconnector] \in {"rc_try", "rc_clear", "rc_dial", "dial", "cl_begin"}

\* A pending request finds its channel closed only while the reconnector waits
\* for the lock the request holds.
CutOff == \A p \in Goroutines : chClosed[p] => pc[Reconnector] = "rc_dial"

ConsumerProcs == {Consumer(c) : c \in Conns}

\* What p may be doing with the client's lock held for reading: a request, a
\* Close, closeByServer, or the request whose panic ended the process.
MayRead(p) ==
    \/ p \in Callers /\ (InDo(p) \/ (pc[p] = "do_rlock" /\ panic # "none"))
    \/ /\ p \in UserProcs \cup {Reconnector} /\ closeCh
       /\ pc[p] = "cl_end" \/ (pc[p] \in CloseL /\ cret[p] = "cl_end")
    \/ p \in ConsumerProcs /\ (pc[p] = "srv_end" \/ cret[p] = "srv_end")

ReadersKnown ==
    /\ \A p \in readers : MayRead(p)
    /\ \A p \in Goroutines : pc[p] = "cl_rlock" => closeCh

\* A Close that waits for another goroutine's close of the connection does not
\* wait for a reconnect.
ClosersFree ==
    \A p \in readers \ ConsumerProcs : pc[p] = "close_once" =>
        \A q \in Goroutines : closing[q] = closing[p] => pc[q] \notin RecL

\* A server that sends no close packet never gets closeByServer called.
ServerKeeps(c) ==
    /\ pc[Consumer(c)] \notin {"srv_rlock", "srv_end"} \cup CloseL
    /\ cret[Consumer(c)] = "off" /\ rret[Consumer(c)] # "close_end"
    /\ \A i \in 1..Len(queue[c]) : queue[c][i].type # "close"

NoServerClose == "close" \notin ServerKinds => \A c \in Conns : ServerKeeps(c)

ClientInvariant ==
    /\ RequestInvariant
    /\ CloseBody /\ ConsumerLife
    /\ WithoutConn /\ CutOff /\ PanicsOnlyInRecovery
    /\ ReadersKnown /\ ClosersFree /\ NoServerClose
=============================================================================
