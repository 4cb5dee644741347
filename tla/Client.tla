------------------------------- MODULE Client -------------------------------
(***************************************************************************)
(* The goroutines of the socket client (go/client/client.go) and what they *)
(* share: the client's RWMutex, c.conn, the recvs table of pending         *)
(* requests, the doReconnectting flag, and the life of each connection.    *)
(*                                                                         *)
(* A goroutine is a pair <<kind, id>>:                                     *)
(*   main         the caller of Dial                                       *)
(*   user         an application goroutine calling Do and Close            *)
(*   keepalive    client.keepalive                                         *)
(*   reconnector  the goroutine reconnecting() starts                      *)
(*   reader       reading() of one connection                              *)
(*   consumer     the goroutine OnPacket starts for one connection         *)
(*                                                                         *)
(* pc holds where a goroutine is.  Three procedures are entered from many  *)
(* places and keep their return label in a register: ClientConn.Close in   *)
(* cret (its connection in closing), reconnecting in rret, and Do, whose   *)
(* return label follows from the goroutine and its op (see DoRet).         *)
(*                                                                         *)
(* A Go panic in any goroutine ends the process: panic names it and no     *)
(* action is enabled afterwards.                                           *)
(***************************************************************************)
EXTENDS Integers, Sequences, FiniteSets

CONSTANTS
    Users,           \* application goroutines
    Closers,         \* those of them that may call Close (each at most once)
    Conns,           \* connections the network can grant: bounds DialOk
    NoConn,          \* the nil ClientConn
    NoProc,          \* "nobody" in writer
    ServerKinds,     \* unsolicited packets the server sends: push, ping, pong, close
    NeedAuth,        \* dialOptions.AuthTokenGetter # nil
    Resubscribe,     \* the afterReconnected callback is set and calls Do once
    Ticks,           \* the keepalive ticker fires (FALSE: nothing here lasts that long)
    MaxReconnect,    \* dialOptions.MaxReconnect, 0 is unlimited
    CountBound,      \* reconnectCount saturates here (never below MaxReconnect)
    ReadQueueSize,   \* capacity of a connection's packetCh
    MaxReq           \* users start no request on a connection past this id

ASSUME ClientAssumption ==
    /\ NoConn \notin Conns
    /\ Closers \subseteq Users
    /\ ServerKinds \subseteq {"push", "ping", "pong", "close"}
    /\ NeedAuth \in BOOLEAN /\ Resubscribe \in BOOLEAN /\ Ticks \in BOOLEAN
    /\ MaxReconnect \in Nat /\ CountBound \in Nat /\ MaxReconnect =< CountBound
    /\ ReadQueueSize \in Nat \ {0} /\ MaxReq \in Nat
    /\ NoProc \notin {"main", "keepalive", "reconnector", "user", "reader", "consumer"}
                      \X (Users \cup Conns \cup {"client"})

Main        == <<"main", "client">>
Keepalive   == <<"keepalive", "client">>
Reconnector == <<"reconnector", "client">>
User(u)     == <<"user", u>>
Reader(c)   == <<"reader", c>>
Consumer(c) == <<"consumer", c>>

UserProcs  == {User(u) : u \in Users}
Goroutines == {Main, Keepalive, Reconnector} \cup UserProcs
                \cup {Reader(c) : c \in Conns} \cup {Consumer(c) : c \in Conns}

VARIABLES
    pc,               \* where each goroutine is
    cret, closing,    \* ClientConn.Close: return label and connection
    rret,             \* reconnecting: return label
    readers, writer,  \* client.RWMutex: read holders; the writer waiting or holding
    conn,             \* client.conn
    doReconnectting, reconnectCount, authInfo, lastKeepaliveId,
    closeCh,          \* client.closeCh is closed
    closeReturned,    \* some Close call has returned (history)
    recvs,            \* client.recvs, as a set of (request id, owner) entries
    chBuf, chClosed,  \* each goroutine's response channel: buffer, closed or not
    rid, op, res,     \* each goroutine's request id, kind of request and response
    reqConn,          \* c.conn when the goroutine's request was made (history)
    connState,        \* unused, open, closing (in closeOnce.Do), closed
    hasCallback,      \* onConnClose is registered with the connection
    packetCh, queue,  \* the connection's packetCh: nil, open or closed; content
    left,             \* packets the consumer still drains, -1 before the close
    lastId,           \* the request id counter of c.conn's Context
    wire,             \* requests handed to the connection (history)
    panic

lockVars == <<readers, writer>>
sessVars == <<doReconnectting, reconnectCount, authInfo, lastKeepaliveId>>
shutVars == <<closeCh, closeReturned>>
retVars  == <<cret, closing, rret>>
reqVars  == <<recvs, chBuf, chClosed, rid, op, res, reqConn>>
connVars == <<connState, hasCallback, packetCh, queue, left, lastId, wire>>
vars == <<pc, retVars, lockVars, conn, sessVars, shutVars, reqVars, connVars, panic>>

\* "error" is a response Do turns into an error or whose body does not unmarshal.
Statuses  == {"ok", "error"}
Responses == [conn : Conns, rid : Nat, status : Statuses]
Packets   == [type : {"response", "push", "ping", "pong", "close"}, rid : Nat,
              status : Statuses]
Ops       == {"none", "auth", "reconnect", "request"}
Labels    == {"off", "m_start", "dial", "dial_onpacket", "dial_onclose", "m_dialed",
              "m_authed", "m_ok", "m_err", "idle", "do_rlock", "do_register",
              "do_wait", "cl_begin", "cl_rlock", "cl_end", "close_check",
              "close_once", "close_dispatch", "close_end", "rec_lock", "rec_wait",
              "rec_relock", "rc_try", "rc_clear", "rc_dial", "rc_dialed",
              "rc_authed", "rc_resumed", "rc_after", "rc_done", "ka_idle", "read",
              "cs_top", "cs_recv", "cs_drain", "cs_fin", "srv_rlock", "srv_end"}

GoroutineTypes ==
    /\ pc \in [Goroutines -> Labels]
    /\ cret \in [Goroutines -> Labels]
    /\ rret \in [Goroutines -> Labels]
    /\ closing \in [Goroutines -> Conns \cup {NoConn}]
    /\ readers \in SUBSET Goroutines
    /\ writer \in Goroutines \cup {NoProc}
    /\ conn \in Conns \cup {NoConn}

SessionTypes ==
    /\ doReconnectting \in BOOLEAN
    /\ reconnectCount \in 0..CountBound
    /\ authInfo \in {"none", "valid", "expired"}
    /\ lastKeepaliveId \in BOOLEAN
    /\ closeCh \in BOOLEAN /\ closeReturned \in BOOLEAN
    /\ panic \in {"none", "nil_conn", "close_of_closed_channel",
                  "send_on_closed_channel"}

RequestTypes ==
    /\ recvs \in SUBSET [rid : Nat, owner : Goroutines]
    /\ chBuf \in [Goroutines -> SUBSET Responses]
    /\ chClosed \in [Goroutines -> BOOLEAN]
    /\ rid \in [Goroutines -> Nat]
    /\ op \in [Goroutines -> Ops]
    /\ res \in [Goroutines -> SUBSET Responses]
    /\ reqConn \in [Goroutines -> Conns \cup {NoConn}]

ConnTypes ==
    /\ connState \in [Conns -> {"unused", "open", "closing", "closed"}]
    /\ hasCallback \in [Conns -> BOOLEAN]
    /\ packetCh \in [Conns -> {"nil", "open", "closed"}]
    /\ queue \in [Conns -> Seq(Packets)]
    /\ left \in [Conns -> Nat \cup {-1}]
    /\ lastId \in Nat
    /\ wire \in SUBSET [conn : Conns, rid : Nat, op : Ops]

\* Every variable has its type.
TypeOK == GoroutineTypes /\ SessionTypes /\ RequestTypes /\ ConnTypes

Init ==
    /\ pc = [p \in Goroutines |-> CASE p = Main -> "m_start"
                                    [] p \in UserProcs -> "idle"
                                    [] OTHER -> "off"]
    /\ cret = [p \in Goroutines |-> "off"]
    /\ rret = [p \in Goroutines |-> "off"]
    /\ closing = [p \in Goroutines |-> NoConn]
    /\ readers = {} /\ writer = NoProc
    /\ conn = NoConn
    /\ doReconnectting = FALSE /\ reconnectCount = 0
    /\ authInfo = "none" /\ lastKeepaliveId = FALSE
    /\ closeCh = FALSE /\ closeReturned = FALSE
    /\ recvs = {}
    /\ chBuf = [p \in Goroutines |-> {}]
    /\ chClosed = [p \in Goroutines |-> FALSE]
    /\ rid = [p \in Goroutines |-> 0]
    /\ op = [p \in Goroutines |-> "none"]
    /\ res = [p \in Goroutines |-> {}]
    /\ reqConn = [p \in Goroutines |-> NoConn]
    /\ connState = [c \in Conns |-> "unused"]
    /\ hasCallback = [c \in Conns |-> FALSE]
    /\ packetCh = [c \in Conns |-> "nil"]
    /\ queue = [c \in Conns |-> <<>>]
    /\ left = [c \in Conns |-> -1]
    /\ lastId = 0
    /\ wire = {}
    /\ panic = "none"
-----------------------------------------------------------------------------
At(p, l)   == pc[p] = l
Goto(p, l) == pc' = [pc EXCEPT ![p] = l]

\* sync.RWMutex.  A writer that finds readers announces itself, which keeps new
\* readers out, and has the lock once the readers that were in have left.
RLock(p)    == writer = NoProc /\ readers' = readers \cup {p} /\ UNCHANGED writer
RUnlock(p)  == readers' = readers \ {p} /\ UNCHANGED writer
\* Variant: the writer does not wait for the readers.
CanLockBarging(p) == writer \in {NoProc, p}
CanLock(p)  == readers = {} /\ writer \in {NoProc, p}
Unlock      == writer' = NoProc /\ UNCHANGED readers

LockLabels == {"m_start", "rc_dial", "rec_lock", "rec_relock"}

Announce(p) ==
    /\ pc[p] \in LockLabels
    /\ writer = NoProc /\ readers # {}
    /\ writer' = p
    /\ UNCHANGED <<pc, retVars, readers, conn, sessVars, shutVars, reqVars, connVars, panic>>

\* conn.closed()
Closed(c)  == connState[c] \in {"closing", "closed"}
Panic(why) == panic' = why

\* A call of client.reconnecting that returns to ret.
CallReconnecting(p, ret) ==
    /\ Goto(p, "rec_lock")
    /\ rret' = [rret EXCEPT ![p] = ret]
-----------------------------------------------------------------------------
(* ClientConn.Close(err), for the connection closing[p].                     *)

CallClose(p, c, ret) ==
    /\ closing' = [closing EXCEPT ![p] = c]
    /\ cret' = [cret EXCEPT ![p] = ret]
    /\ Goto(p, "close_check")

CloseReturn(p) ==
    /\ Goto(p, cret[p])
    /\ cret' = [cret EXCEPT ![p] = "off"]
    /\ closing' = [closing EXCEPT ![p] = NoConn]

\* The early return, taken without waiting for closeOnce.
CloseCheck(p) ==
    /\ At(p, "close_check")
    /\ \/ Closed(closing[p]) /\ CloseReturn(p)
       \/ ~Closed(closing[p]) /\ Goto(p, "close_once") /\ UNCHANGED <<cret, closing>>
    /\ UNCHANGED <<rret, lockVars, conn, sessVars, shutVars, reqVars, connVars, panic>>

\* closeOnce.Do: the winner closes closeCh and goes on to DispatchClose, the
\* others wait until it has returned.
CloseOnce(p) ==
    /\ At(p, "close_once")
    /\ \/ /\ connState[closing[p]] = "open"
          /\ connState' = [connState EXCEPT ![closing[p]] = "closing"]
          /\ Goto(p, "close_dispatch")
          /\ UNCHANGED <<cret, closing>>
       \/ /\ connState[closing[p]] = "closed"
          /\ CloseReturn(p)
          /\ UNCHANGED connState
    /\ UNCHANGED <<rret, lockVars, conn, sessVars, shutVars, reqVars, hasCallback,
                   packetCh, queue, left, lastId, wire, panic>>

\* DispatchClose runs onConnClose, which returns at once when the client is
\* closed and otherwise reconnects, still inside closeOnce.Do.
CloseDispatch(p) ==
    /\ At(p, "close_dispatch")
    /\ IF hasCallback[closing[p]] /\ ~closeCh
       THEN CallReconnecting(p, "close_end")
       ELSE Goto(p, "close_end") /\ UNCHANGED rret
    /\ UNCHANGED <<cret, closing, lockVars, conn, sessVars, shutVars, reqVars, connVars,
                   panic>>

CloseEnd(p) ==
    /\ At(p, "close_end")
    /\ connState' = [connState EXCEPT ![closing[p]] = "closed"]
    /\ CloseReturn(p)
    /\ UNCHANGED <<rret, lockVars, conn, sessVars, shutVars, reqVars, hasCallback,
                   packetCh, queue, left, lastId, wire, panic>>
-----------------------------------------------------------------------------
(* client.reconnecting                                                       *)

RecReturn(p) ==
    /\ Goto(p, rret[p])
    /\ rret' = [rret EXCEPT ![p] = "off"]

\* Variant: the flag is not tested.
RecEnterAlways(p) ==
    /\ At(p, "rec_lock") /\ CanLock(p)
    /\ doReconnectting' = TRUE
    /\ pc' = [pc EXCEPT ![p] = "rec_wait", ![Reconnector] = "rc_try"]
    /\ Unlock
    /\ UNCHANGED <<retVars, conn, reconnectCount, authInfo, lastKeepaliveId, shutVars,
                   reqVars, connVars, panic>>

\* The first critical section: one reconnect at a time.
RecEnter(p) ==
    /\ At(p, "rec_lock") /\ CanLock(p)
    /\ IF doReconnectting
       THEN RecReturn(p) /\ UNCHANGED doReconnectting
       ELSE /\ doReconnectting' = TRUE
            /\ pc' = [pc EXCEPT ![p] = "rec_wait", ![Reconnector] = "rc_try"]
            /\ UNCHANGED rret
    /\ Unlock
    /\ UNCHANGED <<cret, closing, conn, reconnectCount, authInfo, lastKeepaliveId, shutVars,
                   reqVars, connVars, panic>>

\* Variant: the reconnector is not waited for.
RecWaitNot(p) ==
    /\ At(p, "rec_wait")
    /\ Goto(p, "rec_relock")
    /\ UNCHANGED <<retVars, lockVars, conn, sessVars, shutVars, reqVars, connVars, panic>>

\* <-waitCh meets the reconnector's deferred send.
RecWait(p) ==
    /\ At(p, "rec_wait") /\ At(Reconnector, "rc_done")
    /\ pc' = [pc EXCEPT ![p] = "rec_relock", ![Reconnector] = "off"]
    /\ UNCHANGED <<retVars, lockVars, conn, sessVars, shutVars, reqVars, connVars, panic>>

RecLeave(p) ==
    /\ At(p, "rec_relock") /\ CanLock(p)
    /\ doReconnectting' = FALSE
    /\ RecReturn(p)
    /\ Unlock
    /\ UNCHANGED <<cret, closing, conn, reconnectCount, authInfo, lastKeepaliveId, shutVars,
                   reqVars, connVars, panic>>
-----------------------------------------------------------------------------
(* client.dial, run by Main (from Dial) and by the reconnector (from         *)
(* reconnect); the client's lock is held from the first step to the last.    *)

DialLock(p) ==
    /\ \/ p = Main /\ At(p, "m_start")
       \/ p = Reconnector /\ At(p, "rc_dial")
    /\ CanLock(p)
    /\ writer' = p
    /\ Goto(p, "dial")
    /\ UNCHANGED <<retVars, readers, conn, sessVars, shutVars, reqVars, connVars, panic>>

\* The dialer reports an error: c.conn becomes nil.
DialFail(p) ==
    /\ At(p, "dial")
    /\ conn' = NoConn
    /\ lastId' = 0
    /\ Goto(p, IF p = Main THEN "m_err" ELSE "rc_try")
    /\ Unlock
    /\ UNCHANGED <<retVars, sessVars, shutVars, reqVars, connState, hasCallback, packetCh,
                   queue, left, wire, panic>>

\* The dialer returns a connection that is already being read.
DialOk(p, c) ==
    /\ At(p, "dial")
    /\ connState[c] = "unused"
    /\ connState' = [connState EXCEPT ![c] = "open"]
    /\ conn' = c /\ lastId' = 0
    /\ pc' = [pc EXCEPT ![p] = "dial_onpacket", ![Reader(c)] = "read"]
    /\ UNCHANGED <<retVars, lockVars, sessVars, shutVars, reqVars, hasCallback, packetCh,
                   queue, left, wire, panic>>

DialOnPacket(p) ==
    /\ At(p, "dial_onpacket")
    /\ packetCh' = [packetCh EXCEPT ![conn] = "open"]
    /\ pc' = [pc EXCEPT ![p] = "dial_onclose", ![Consumer(conn)] = "cs_top"]
    /\ UNCHANGED <<retVars, lockVars, conn, sessVars, shutVars, reqVars, connState,
                   hasCallback, queue, left, lastId, wire, panic>>

DialOnClose(p) ==
    /\ At(p, "dial_onclose")
    /\ hasCallback' = [hasCallback EXCEPT ![conn] = TRUE]
    /\ Goto(p, IF p = Main THEN "m_dialed" ELSE "rc_dialed")
    /\ Unlock
    /\ UNCHANGED <<retVars, conn, sessVars, shutVars, reqVars, connState, packetCh, queue,
                   left, lastId, wire, panic>>

\* A call of Do for a request of kind o.
CallDo(p, o) == Goto(p, "do_rlock") /\ op' = [op EXCEPT ![p] = o]

\* The rest of Dial: the keepalive goroutine is started, then auth.
MainDialed ==
    /\ At(Main, "m_dialed")
    /\ \/ /\ NeedAuth
          /\ pc' = [pc EXCEPT ![Main] = "do_rlock", ![Keepalive] = "ka_idle"]
          /\ op' = [op EXCEPT ![Main] = "auth"]
       \/ \* AuthTokenGetter fails
          /\ NeedAuth
          /\ pc' = [pc EXCEPT ![Main] = "m_err", ![Keepalive] = "ka_idle"]
          /\ UNCHANGED op
       \/ /\ ~NeedAuth
          /\ pc' = [pc EXCEPT ![Main] = "m_ok", ![Keepalive] = "ka_idle"]
          /\ UNCHANGED op
    /\ UNCHANGED <<retVars, lockVars, conn, sessVars, shutVars, recvs, chBuf, chClosed, rid,
                   res, reqConn, connVars, panic>>

\* Do returned a response that carries a session.
Granted(p) == \E r \in res[p] : r.status = "ok"

MainAuthed ==
    /\ At(Main, "m_authed")
    /\ IF Granted(Main)
       THEN authInfo' = "valid" /\ Goto(Main, "m_ok")
       ELSE Goto(Main, "m_err") /\ UNCHANGED authInfo
    /\ res' = [res EXCEPT ![Main] = {}]
    /\ UNCHANGED <<retVars, lockVars, conn, doReconnectting, reconnectCount,
                   lastKeepaliveId, shutVars, recvs, chBuf, chClosed, rid, op, reqConn,
                   connVars, panic>>
-----------------------------------------------------------------------------
(* client.Do, under the read lock from DoStart to its return.                *)

\* Where Do returns to.
DoRet(p) == IF p \in UserProcs THEN "idle"
            ELSE IF p = Main THEN "m_authed"
            ELSE IF op[p] = "auth" THEN "rc_authed"
            ELSE IF op[p] = "reconnect" THEN "rc_resumed"
            ELSE "rc_done"

\* Do returns with res = r: the lock is released; what a user gets ends with
\* the call.
DoEnd(p, r) ==
    /\ Goto(p, DoRet(p))
    /\ res' = [res EXCEPT ![p] = IF op[p] = "request" THEN {} ELSE r]
    /\ op' = [op EXCEPT ![p] = "none"]
    /\ rid' = [rid EXCEPT ![p] = 0]
    /\ reqConn' = [reqConn EXCEPT ![p] = NoConn]

\* c.conn.Context() without a connection.
DoNil(p) ==
    /\ At(p, "do_rlock")
    /\ RLock(p)
    /\ conn = NoConn
    /\ Panic("nil_conn")
    /\ UNCHANGED <<pc, retVars, conn, sessVars, shutVars, reqVars, connVars>>

\* Variant: the id is read but not advanced.
DoWriteSameId(p) ==
    /\ At(p, "do_rlock")
    /\ RLock(p)
    /\ conn # NoConn /\ ~Closed(conn)
    /\ rid' = [rid EXCEPT ![p] = lastId + 1]
    /\ reqConn' = [reqConn EXCEPT ![p] = conn]
    /\ wire' = wire \cup {[conn |-> conn, rid |-> lastId + 1, op |-> op[p]]}
    /\ Goto(p, "do_register")
    /\ UNCHANGED <<retVars, conn, sessVars, shutVars, recvs, chBuf, chClosed, op, res,
                   connState, hasCallback, packetCh, queue, left, lastId, panic>>

\* The request takes the connection's next id and is written; only then does
\* recv register for its response.
DoWrite(p) ==
    /\ At(p, "do_rlock")
    /\ RLock(p)
    /\ conn # NoConn /\ ~Closed(conn)
    /\ rid' = [rid EXCEPT ![p] = lastId + 1]
    /\ lastId' = lastId + 1
    /\ reqConn' = [reqConn EXCEPT ![p] = conn]
    /\ wire' = wire \cup {[conn |-> conn, rid |-> lastId + 1, op |-> op[p]]}
    /\ Goto(p, "do_register")
    /\ UNCHANGED <<retVars, conn, sessVars, shutVars, recvs, chBuf, chClosed, op, res,
                   connState, hasCallback, packetCh, queue, left, panic>>

\* The packet does not pack, the write queue is full or the connection closed.
DoWriteErr(p) ==
    /\ At(p, "do_rlock")
    /\ writer = NoProc
    /\ conn # NoConn
    /\ lastId' = lastId + 1
    /\ DoEnd(p, {})
    /\ UNCHANGED <<retVars, lockVars, conn, sessVars, shutVars, recvs, chBuf, chClosed,
                   connState, hasCallback, packetCh, queue, left, wire, panic>>

DoRegister(p) ==
    /\ At(p, "do_register")
    /\ recvs' = {e \in recvs : e.rid # rid[p]} \cup {[rid |-> rid[p], owner |-> p]}
    /\ Goto(p, "do_wait")
    /\ UNCHANGED <<retVars, lockVars, conn, sessVars, shutVars, chBuf, chClosed, rid, op,
                   res, reqConn, connVars, panic>>

\* recv ends with r: its deferred delete and close(ch), then Do returns.
RecvEnd(p, r) ==
    /\ recvs' = {e \in recvs : e.rid # rid[p]}
    /\ IF chClosed[p]
       THEN /\ Panic("close_of_closed_channel")
            /\ UNCHANGED <<pc, lockVars, chBuf, rid, op, res, reqConn>>
       ELSE /\ RUnlock(p)
            /\ DoEnd(p, r)
            /\ chBuf' = [chBuf EXCEPT ![p] = {}]
            /\ UNCHANGED panic
    /\ UNCHANGED <<retVars, conn, sessVars, shutVars, chClosed, connVars>>

\* recv's select: a response (or the nil of a closed channel), or the timeout.
DoReceive(p) ==
    /\ At(p, "do_wait")
    /\ chBuf[p] # {} \/ chClosed[p]
    /\ RecvEnd(p, chBuf[p])

\* Variant: recv waits for the response only.
DoNoTimeout(p) == At(p, "do_wait") /\ chBuf[p] # {} /\ RecvEnd(p, chBuf[p])

DoTimeout(p) ==
    /\ At(p, "do_wait")
    /\ RecvEnd(p, {})
-----------------------------------------------------------------------------
(* client.Close, called by users and by the reconnector that hits the max.   *)

\* Variant: the connection is closed before closeCh.
ClBeginLate(p) ==
    /\ At(p, "cl_begin")
    /\ Goto(p, "cl_rlock")
    /\ UNCHANGED <<retVars, lockVars, conn, sessVars, shutVars, reqVars, connVars, panic>>

\* close(c.closeCh): the second call panics.
ClBegin(p) ==
    /\ At(p, "cl_begin")
    /\ IF closeCh
       THEN Panic("close_of_closed_channel") /\ UNCHANGED <<pc, closeCh>>
       ELSE closeCh' = TRUE /\ Goto(p, "cl_rlock") /\ UNCHANGED panic
    /\ UNCHANGED <<retVars, lockVars, conn, sessVars, closeReturned, reqVars, connVars>>

ClRLock(p) ==
    /\ At(p, "cl_rlock")
    /\ RLock(p)
    /\ IF conn # NoConn
       THEN CallClose(p, conn, "cl_end")
       ELSE Goto(p, "cl_end") /\ UNCHANGED <<cret, closing>>
    /\ UNCHANGED <<rret, conn, sessVars, shutVars, reqVars, connVars, panic>>

ClEnd(p) ==
    /\ At(p, "cl_end")
    /\ RUnlock(p)
    /\ closeReturned' = TRUE
    /\ Goto(p, IF p = Reconnector THEN "rc_done" ELSE "off")
    /\ UNCHANGED <<retVars, conn, sessVars, closeCh, reqVars, connVars, panic>>

\* The application.  It uses a client once Dial has returned.
UserDo(p) ==
    /\ At(p, "idle") /\ At(Main, "m_ok")
    /\ lastId < MaxReq
    /\ CallDo(p, "request")
    /\ UNCHANGED <<retVars, lockVars, conn, sessVars, shutVars, recvs, chBuf, chClosed, rid,
                   res, reqConn, connVars, panic>>

UserClose(p) ==
    /\ At(p, "idle") /\ pc[Main] \in {"m_ok", "m_err"}
    /\ p[2] \in Closers
    /\ Goto(p, "cl_begin")
    /\ UNCHANGED <<retVars, lockVars, conn, sessVars, shutVars, reqVars, connVars, panic>>
-----------------------------------------------------------------------------
(* The goroutine of reconnecting: reconnect until it succeeds or hits the    *)
(* max, with a sleep in between.                                             *)

\* Variants: the old connection is left open; attempts are not counted; one
\* attempt too many.
RcTryNoClose ==
    /\ At(Reconnector, "rc_try")
    /\ Goto(Reconnector, "rc_clear")
    /\ UNCHANGED <<retVars, lockVars, conn, sessVars, shutVars, reqVars, connVars, panic>>

RcTryCounting(count, max) ==
    /\ At(Reconnector, "rc_try")
    /\ IF MaxReconnect > 0 /\ reconnectCount >= max
       THEN Goto(Reconnector, "cl_begin") /\ UNCHANGED <<cret, closing, reconnectCount>>
       ELSE /\ reconnectCount' = count
            /\ IF conn # NoConn
               THEN CallClose(Reconnector, conn, "rc_clear")
               ELSE Goto(Reconnector, "rc_clear") /\ UNCHANGED <<cret, closing>>
    /\ UNCHANGED <<rret, lockVars, conn, doReconnectting, authInfo, lastKeepaliveId,
                   shutVars, reqVars, connVars, panic>>
RcTryUncounted == RcTryCounting(reconnectCount, MaxReconnect)
RcTryOneMore   == RcTryCounting(reconnectCount + 1, MaxReconnect + 1)

\* The attempt is counted, the old connection closed.
RcTry ==
    /\ At(Reconnector, "rc_try")
    /\ IF MaxReconnect > 0 /\ reconnectCount >= MaxReconnect
       THEN Goto(Reconnector, "cl_begin") /\ UNCHANGED <<cret, closing, reconnectCount>>
       ELSE /\ reconnectCount' = IF reconnectCount < CountBound THEN reconnectCount + 1
                                                                ELSE CountBound
            /\ IF conn # NoConn
               THEN CallClose(Reconnector, conn, "rc_clear")
               ELSE Goto(Reconnector, "rc_clear") /\ UNCHANGED <<cret, closing>>
    /\ UNCHANGED <<rret, lockVars, conn, doReconnectting, authInfo, lastKeepaliveId,
                   shutVars, reqVars, connVars, panic>>

\* Every pending request's channel is closed and the table emptied.
RcClear ==
    /\ At(Reconnector, "rc_clear")
    /\ chClosed' = [p \in Goroutines |-> chClosed[p] \/ \E e \in recvs : e.owner = p]
    /\ recvs' = {}
    /\ Goto(Reconnector, "rc_dial")
    /\ UNCHANGED <<retVars, lockVars, conn, sessVars, shutVars, chBuf, rid, op, res,
                   reqConn, connVars, panic>>

\* Dialed: there may be no session to restore, one to renew or one to resume.
RcDialed ==
    /\ At(Reconnector, "rc_dialed")
    /\ \/ authInfo = "none" /\ Goto(Reconnector, "rc_after") /\ UNCHANGED op
       \/ authInfo = "expired" /\ CallDo(Reconnector, "auth")
       \/ \* AuthTokenGetter fails
          authInfo = "expired" /\ Goto(Reconnector, "rc_try") /\ UNCHANGED op
       \/ authInfo = "valid" /\ CallDo(Reconnector, "reconnect")
    /\ UNCHANGED <<retVars, lockVars, conn, sessVars, shutVars, recvs, chBuf, chClosed, rid,
                   res, reqConn, connVars, panic>>

\* auth and reconnectDial after their Do.  Only reconnectDial resets the
\* counter and lastKeepaliveId.
RcAuthed ==
    /\ At(Reconnector, "rc_authed")
    /\ IF Granted(Reconnector)
       THEN authInfo' = "valid" /\ Goto(Reconnector, "rc_after")
       ELSE Goto(Reconnector, "rc_try") /\ UNCHANGED authInfo
    /\ res' = [res EXCEPT ![Reconnector] = {}]
    /\ UNCHANGED <<retVars, lockVars, conn, doReconnectting, reconnectCount,
                   lastKeepaliveId, shutVars, recvs, chBuf, chClosed, rid, op, reqConn,
                   connVars, panic>>

RcResumed ==
    /\ At(Reconnector, "rc_resumed")
    /\ IF Granted(Reconnector)
       THEN /\ authInfo' = "valid" /\ reconnectCount' = 0 /\ lastKeepaliveId' = FALSE
            /\ Goto(Reconnector, "rc_after")
       ELSE /\ Goto(Reconnector, "rc_try")
            /\ UNCHANGED <<authInfo, reconnectCount, lastKeepaliveId>>
    /\ res' = [res EXCEPT ![Reconnector] = {}]
    /\ UNCHANGED <<retVars, lockVars, conn, doReconnectting, shutVars, recvs, chBuf,
                   chClosed, rid, op, reqConn, connVars, panic>>

\* afterReconnected, which may use the client.
RcAfter ==
    /\ At(Reconnector, "rc_after")
    /\ IF Resubscribe
       THEN CallDo(Reconnector, "request")
       ELSE Goto(Reconnector, "rc_done") /\ UNCHANGED op
    /\ UNCHANGED <<retVars, lockVars, conn, sessVars, shutVars, recvs, chBuf, chClosed, rid,
                   res, reqConn, connVars, panic>>

\* The session expires: isAuthExpired turns true.
AuthExpire ==
    /\ authInfo = "valid"
    /\ authInfo' = "expired"
    /\ UNCHANGED <<pc, retVars, lockVars, conn, doReconnectting, reconnectCount,
                   lastKeepaliveId, shutVars, reqVars, connVars, panic>>
-----------------------------------------------------------------------------
(* client.keepalive                                                          *)

\* Variant: the loop does not watch closeCh.
KaNoExit == FALSE /\ UNCHANGED vars

KaExit ==
    /\ At(Keepalive, "ka_idle") /\ closeCh
    /\ Goto(Keepalive, "off")
    /\ UNCHANGED <<retVars, lockVars, conn, sessVars, shutVars, reqVars, connVars, panic>>

\* check(): pinged once and no pong for longer than the timeout.
KaTimeout ==
    /\ At(Keepalive, "ka_idle") /\ Ticks /\ lastKeepaliveId
    /\ CallReconnecting(Keepalive, "ka_idle")
    /\ UNCHANGED <<cret, closing, lockVars, conn, sessVars, shutVars, reqVars, connVars,
                   panic>>

\* Variant: a failed ping is only logged.
KaPingSilent ==
    /\ At(Keepalive, "ka_idle") /\ Ticks /\ writer = NoProc
    /\ ~doReconnectting /\ conn # NoConn /\ ~Closed(conn)
    /\ lastKeepaliveId' = TRUE
    /\ UNCHANGED <<pc, retVars, lockVars, conn, doReconnectting, reconnectCount, authInfo,
                   shutVars, reqVars, connVars, panic>>

\* ping(), within one read lock.  A ping takes a request id (counted up to
\* MaxReq); its answer is a pong, which no request waits for.
KaPing ==
    /\ At(Keepalive, "ka_idle") /\ Ticks /\ writer = NoProc
    /\ ~doReconnectting /\ conn # NoConn
    /\ lastId' = IF lastId < MaxReq THEN lastId + 1 ELSE lastId
    /\ \/ /\ ~Closed(conn)
          /\ lastKeepaliveId' = TRUE
          /\ UNCHANGED <<pc, rret>>
       \/ \* closed or write queue full
          /\ CallReconnecting(Keepalive, "ka_idle")
          /\ UNCHANGED lastKeepaliveId
    /\ UNCHANGED <<cret, closing, lockVars, conn, doReconnectting, reconnectCount, authInfo,
                   shutVars, reqVars, connState, hasCallback, packetCh, queue, left, wire,
                   panic>>
-----------------------------------------------------------------------------
(* A connection's reader.  The writer goroutine's only effect here, closing  *)
(* the connection when a write fails, is one of the reasons of ReaderFail.   *)

\* A packet of the server is unpacked and put into packetCh if there is room
\* and somebody to take it.  The bytes may have been read before the close.
ReaderPacket(c, k) ==
    /\ At(Reader(c), "read")
    /\ IF packetCh[c] = "closed"
       THEN Panic("send_on_closed_channel") /\ UNCHANGED queue
       ELSE /\ queue' = IF packetCh[c] = "open" /\ Len(queue[c]) < ReadQueueSize
                        THEN [queue EXCEPT ![c] = Append(@, k)]
                        ELSE queue
            /\ UNCHANGED panic
    /\ UNCHANGED <<pc, retVars, lockVars, conn, sessVars, shutVars, reqVars, connState,
                   hasCallback, packetCh, left, lastId>>

\* The answer to a request, at most one for each.
ReaderResponse(c) ==
    \E w \in wire, s \in Statuses :
        /\ w.conn = c
        /\ w.op = "request" => s = "ok"
        /\ ReaderPacket(c, [type |-> "response", rid |-> w.rid, status |-> s])
        /\ wire' = wire \ {w}

ReaderServer(c) ==
    \E k \in ServerKinds :
        /\ ReaderPacket(c, [type |-> k, rid |-> 0, status |-> "ok"])
        /\ UNCHANGED wire

\* Read fails, a packet does not unpack, a write fails, or the connection was
\* closed meanwhile.
ReaderFail(c) ==
    /\ At(Reader(c), "read")
    /\ CallClose(Reader(c), c, "off")
    /\ UNCHANGED <<rret, lockVars, conn, sessVars, shutVars, reqVars, connVars, panic>>
-----------------------------------------------------------------------------
(* A connection's consumer: the goroutine of ClientConn.OnPacket, and        *)
(* client.onPacket, which it runs for each packet.                           *)

\* Variant: one packet too many is counted.
CsTopMore(c) ==
    /\ At(Consumer(c), "cs_top")
    /\ IF Closed(c)
       THEN Goto(Consumer(c), "cs_drain") /\ left' = [left EXCEPT ![c] = Len(queue[c]) + 1]
       ELSE Goto(Consumer(c), "cs_recv") /\ UNCHANGED left
    /\ UNCHANGED <<retVars, lockVars, conn, sessVars, shutVars, reqVars, connState,
                   hasCallback, packetCh, queue, lastId, wire, panic>>

\* The top of the loop: after a close only what is queued now is consumed.
CsTop(c) ==
    /\ At(Consumer(c), "cs_top")
    /\ IF Closed(c)
       THEN Goto(Consumer(c), "cs_drain") /\ left' = [left EXCEPT ![c] = Len(queue[c])]
       ELSE Goto(Consumer(c), "cs_recv") /\ UNCHANGED left
    /\ UNCHANGED <<retVars, lockVars, conn, sessVars, shutVars, reqVars, connState,
                   hasCallback, packetCh, queue, lastId, wire, panic>>

\* Where the loop goes on after a packet.
CsBack(c) == IF left[c] >= 0 THEN "cs_drain" ELSE "cs_top"

\* Variant: the response goes to any pending request.
HandleResponseAny(c, k) ==
    /\ chBuf' = [p \in Goroutines |->
                    IF (\E e \in recvs : e.owner = p) /\ chBuf[p] = {}
                    THEN {[conn |-> c, rid |-> k.rid, status |-> k.status]}
                    ELSE chBuf[p]]
    /\ Goto(Consumer(c), CsBack(c))
    /\ UNCHANGED panic

\* handleResponse: to whoever waits for this id, unless it already has a response.
HandleResponse(c, k) ==
    /\ chBuf' = [p \in Goroutines |->
                    IF [rid |-> k.rid, owner |-> p] \in recvs /\ chBuf[p] = {}
                    THEN {[conn |-> c, rid |-> k.rid, status |-> k.status]}
                    ELSE chBuf[p]]
    /\ Goto(Consumer(c), CsBack(c))
    /\ UNCHANGED panic

\* handlePing uses c.conn without the lock and unchecked; the answer, a push's
\* subscribers and a pong's time stamp leave this state alone.
HandleOther(c, k) ==
    /\ IF k.type = "ping" /\ conn = NoConn
       THEN Panic("nil_conn") /\ UNCHANGED pc
       ELSE /\ Goto(Consumer(c), IF k.type = "close" THEN "srv_rlock" ELSE CsBack(c))
            /\ UNCHANGED panic
    /\ UNCHANGED chBuf

CsTake(c) ==
    /\ \/ At(Consumer(c), "cs_recv") /\ UNCHANGED left
       \/ At(Consumer(c), "cs_drain") /\ left[c] > 0 /\ left' = [left EXCEPT ![c] = @ - 1]
    /\ queue[c] # <<>>
    /\ queue' = [queue EXCEPT ![c] = Tail(@)]
    /\ LET k == Head(queue[c]) IN
         IF k.type = "response" THEN HandleResponse(c, k) ELSE HandleOther(c, k)
    /\ UNCHANGED <<retVars, lockVars, conn, sessVars, shutVars, recvs, chClosed, rid, op,
                   res, reqConn, connState, hasCallback, packetCh, lastId, wire>>

\* closeByServer.  The connection it closes is the client's current one, under
\* the read lock.
SrvRLock(c) ==
    /\ At(Consumer(c), "srv_rlock")
    /\ RLock(Consumer(c))
    /\ IF conn # NoConn
       THEN CallClose(Consumer(c), conn, "srv_end")
       ELSE Goto(Consumer(c), "srv_end") /\ UNCHANGED <<cret, closing>>
    /\ UNCHANGED <<rret, conn, sessVars, shutVars, reqVars, connVars, panic>>

SrvEnd(c) ==
    /\ At(Consumer(c), "srv_end")
    /\ RUnlock(Consumer(c))
    /\ CallReconnecting(Consumer(c), CsBack(c))
    /\ UNCHANGED <<cret, closing, conn, sessVars, shutVars, reqVars, connVars, panic>>

\* fn(nil, errConnClosed): onPacket reconnects, whether the client is closed
\* or not, and whether c is its connection or not.
CsDrained(c) ==
    /\ At(Consumer(c), "cs_drain") /\ left[c] = 0
    /\ CallReconnecting(Consumer(c), "cs_fin")
    /\ UNCHANGED <<cret, closing, lockVars, conn, sessVars, shutVars, reqVars, connVars,
                   panic>>

\* The deferred close(packetCh).
CsFin(c) ==
    /\ At(Consumer(c), "cs_fin")
    /\ packetCh' = [packetCh EXCEPT ![c] = "closed"]
    /\ left' = [left EXCEPT ![c] = -1]
    /\ Goto(Consumer(c), "off")
    /\ UNCHANGED <<retVars, lockVars, conn, sessVars, shutVars, reqVars, connState,
                   hasCallback, queue, lastId, wire, panic>>
-----------------------------------------------------------------------------
Callers == {Main, Reconnector} \cup UserProcs   \* the goroutines that call Do

CloseStep(p) == CloseCheck(p) \/ CloseOnce(p) \/ CloseDispatch(p) \/ CloseEnd(p)
RecStep(p)   == RecEnter(p) \/ RecWait(p) \/ RecLeave(p)
DialStep(p)  == \/ DialLock(p) \/ DialFail(p) \/ DialOnPacket(p) \/ DialOnClose(p)
                \/ \E c \in Conns : DialOk(p, c)
DoStep(p)    == DoNil(p) \/ DoWrite(p) \/ DoWriteErr(p) \/ DoRegister(p)
                \/ DoReceive(p) \/ DoTimeout(p)
ClStep(p)    == ClBegin(p) \/ ClRLock(p) \/ ClEnd(p)
MainStep     == MainDialed \/ MainAuthed
RcStep       == RcTry \/ RcClear \/ RcDialed \/ RcAuthed \/ RcResumed \/ RcAfter
KaStep       == KaExit \/ KaTimeout \/ KaPing
CsStep(c)    == CsTop(c) \/ CsTake(c) \/ SrvRLock(c) \/ SrvEnd(c) \/ CsDrained(c) \/ CsFin(c)

\* What a goroutine does by itself, as opposed to what the application, the
\* network, the server and the clock make it do.
Step(p) ==
    \/ Announce(p)
    \/ CloseStep(p)
    \/ RecStep(p)
    \/ p \in {Main, Reconnector} /\ DialStep(p)
    \/ p \in Callers /\ DoStep(p)
    \/ p \in UserProcs \cup {Reconnector} /\ ClStep(p)
    \/ p = Main /\ MainStep
    \/ p = Reconnector /\ RcStep
    \/ p = Keepalive /\ KaStep
    \/ \E c \in Conns : p = Consumer(c) /\ CsStep(c)

Environment ==
    \/ \E p \in UserProcs : UserDo(p) \/ UserClose(p)
    \/ \E c \in Conns : ReaderResponse(c) \/ ReaderServer(c) \/ ReaderFail(c)
    \/ AuthExpire

\* A panic ends the process.
Next ==
    /\ panic = "none"
    /\ Environment \/ \E p \in Goroutines : Step(p)

Spec == Init /\ [][Next]_vars

\* The Go scheduler runs every runnable goroutine, timers and tickers fire, a
\* caller waiting for a lock that is free again and again eventually gets it,
\* and select takes a ready case in the end.
Running(A)  == panic = "none" /\ A
Fairness ==
    /\ \A p \in Goroutines : WF_vars(Running(Step(p)))
    /\ \A p \in UserProcs : SF_vars(Running(Step(p)))
    /\ SF_vars(Running(KaExit))

FairSpec == Spec /\ Fairness

\* Less than that: a lock a goroutine keeps missing it may miss for good, and
\* the application's goroutines may stop.
WeakSpec ==
    Spec /\ \A p \in Goroutines \ ({Main} \cup UserProcs) : WF_vars(Running(Step(p)))
-----------------------------------------------------------------------------
(* Safety                                                                    *)

InDo(p) == pc[p] \in {"do_register", "do_wait"}
Rec     == {"rec_wait", "rec_relock"}
RcOff   == At(Reconnector, "off")

\* A request in flight holds the read lock, and the connection it was made on
\* is still the client's connection: dial cannot replace it under the request.
InFlightOnCurrent ==
    \A p \in Callers : InDo(p) => p \in readers /\ reqConn[p] = conn /\ conn # NoConn

\* reconnecting admits one reconnect at a time: the flag is set exactly while
\* one goroutine is between its two critical sections, and the reconnect
\* goroutine lives only while that goroutine waits for it.
SingleReconnect ==
    /\ \A p, q \in Goroutines : pc[p] \in Rec /\ pc[q] \in Rec => p = q
    /\ doReconnectting <=> \E p \in Goroutines : pc[p] \in Rec
    /\ ~RcOff => \E p \in Goroutines : At(p, "rec_wait")

\* The recvs table holds exactly the requests that wait and whose channel is
\* open: handleResponse never sends on a closed channel, and no request loses
\* its registration to another one's id or clean-up.
RecvsExact ==
    recvs = {[rid |-> rid[p], owner |-> p] :
                p \in {q \in Callers : At(q, "do_wait") /\ ~chClosed[q]}}

\* The response a request is handed answers its id; if it came over another
\* connection, that connection is already closed.
ResponseFits ==
    \A p \in Callers : \A r \in chBuf[p] :
        InDo(p) /\ r.rid = rid[p] /\ (r.conn # reqConn[p] => Closed(r.conn))

\* However often the client reconnects it has at most one live connection, the
\* one it uses.
OneOpenConn == \A c \in Conns : connState[c] = "open" => c = conn

\* A goroutine that holds the client's lock for reading never waits for it to
\* be free: not by asking for it itself, and not by waiting for a close whose
\* callback asks for it.
NoReaderWaits ==
    \A p \in readers :
        /\ pc[p] \notin LockLabels
        /\ At(p, "close_once") =>
              \A q \in Goroutines : closing[q] = closing[p] => ~At(q, "rec_lock")

\* Once a call of Close has returned and none is going on, no connection is open.
ClosedMeansDisconnected ==
    closeReturned /\ (\A p \in Goroutines : pc[p] \notin {"cl_begin", "cl_rlock", "cl_end"})
        => \A c \in Conns : connState[c] # "open"

\* A request never ends the process: it does not find the client without a
\* connection, and unless the client is closed it does not close its channel
\* after a reconnect has.
RequestsDontPanic ==
    panic # "nil_conn" /\ (panic = "close_of_closed_channel" => closeCh)

\* Short of a Close the process ends only while the client recovers from a lost
\* connection, or because a packet comes in over a connection that was given up:
\* a client whose connection was never lost does not panic.
PanicsOnlyInRecovery ==
    /\ panic \in {"nil_conn", "close_of_closed_channel"} => doReconnectting \/ closeCh
    /\ panic = "send_on_closed_channel" => \E c \in Conns : Closed(c) /\ packetCh[c] = "closed"
-----------------------------------------------------------------------------
(* Liveness, under FairSpec.                                                 *)

\* A call of Do returns, through reconnects, closes and lost responses.
DoReturns ==
    \A p \in UserProcs : At(p, "do_rlock") ~> (At(p, "idle") \/ panic # "none")

\* Close returns.
CloseReturns ==
    \A p \in UserProcs : At(p, "cl_begin") ~> (At(p, "off") \/ panic # "none")

\* With MaxReconnect set, a reconnect succeeds or gives up.
ReconnectEnds == doReconnectting ~> (~doReconnectting \/ panic # "none")

\* A connection lost, even before its close callback was registered or while a
\* reconnect was going on, is replaced, or the client ends up closed.
LostConnRecovers ==
    (At(Main, "m_ok") /\ (conn = NoConn \/ Closed(conn)))
        ~> (closeCh \/ panic # "none" \/ (conn # NoConn /\ connState[conn] = "open"))

\* After a Close the keepalive goroutine ends.
KeepaliveEnds == closeCh ~> (At(Keepalive, "off") \/ panic # "none")
=============================================================================
