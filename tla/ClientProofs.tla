----------------------------- MODULE ClientProofs ----------------------------
(***************************************************************************)
(* Types and safety of Client, for all values of its constants.            *)
(*                                                                         *)
(* RequestInvariant (module ClientInv) is inductive.  Each of its parts    *)
(* has a lemma XNext here: a step from a state with the parts it needs     *)
(* leads to a state with X.  In these proofs actions that leave alone      *)
(* everything the part is about are taken together and every other action  *)
(* has a step of its own.                                                  *)
(***************************************************************************)
EXTENDS ClientInv, TLAPS

-----------------------------------------------------------------------------
(* The type invariant.                                                       *)

\* Every goroutine of the client is one of Goroutines, and NoProc is none of
\* them.
LEMMA Procs ==
    /\ Main \in Goroutines /\ Keepalive \in Goroutines /\ Reconnector \in Goroutines
    /\ UserProcs \subseteq Goroutines
    /\ \A c \in Conns : Reader(c) \in Goroutines /\ Consumer(c) \in Goroutines
    /\ Callers \subseteq Goroutines
    /\ NoProc \notin Goroutines
BY ClientAssumption DEF Goroutines, Main, Keepalive, Reconnector, UserProcs, User, Reader,
    Consumer, Callers

\* The labels of the goroutines, one by one.
LEMMA LabelFacts ==
    /\ "off" \in Labels /\ "m_start" \in Labels /\ "dial" \in Labels /\ "dial_onpacket" \in Labels
    /\ "dial_onclose" \in Labels /\ "m_dialed" \in Labels /\ "m_authed" \in Labels /\ "m_ok" \in Labels
    /\ "m_err" \in Labels /\ "idle" \in Labels /\ "do_rlock" \in Labels /\ "do_register" \in Labels
    /\ "do_wait" \in Labels /\ "cl_begin" \in Labels /\ "cl_rlock" \in Labels /\ "cl_end" \in Labels
    /\ "close_check" \in Labels /\ "close_once" \in Labels /\ "close_dispatch" \in Labels /\ "close_end" \in Labels
    /\ "rec_lock" \in Labels /\ "rec_wait" \in Labels /\ "rec_relock" \in Labels /\ "rc_try" \in Labels
    /\ "rc_clear" \in Labels /\ "rc_dial" \in Labels /\ "rc_dialed" \in Labels /\ "rc_authed" \in Labels
    /\ "rc_resumed" \in Labels /\ "rc_after" \in Labels /\ "rc_done" \in Labels /\ "ka_idle" \in Labels
    /\ "read" \in Labels /\ "cs_top" \in Labels /\ "cs_recv" \in Labels /\ "cs_drain" \in Labels
    /\ "cs_fin" \in Labels /\ "srv_rlock" \in Labels /\ "srv_end" \in Labels
BY DEF Labels

\* The saturating count of reconnect attempts stays within its bound.
LEMMA CountBoundFacts ==
    /\ 0 \in 0..CountBound
    /\ \A n \in 0..CountBound : (IF n < CountBound THEN n + 1 ELSE CountBound) \in 0..CountBound
<1>1. CountBound \in Nat
    BY ClientAssumption
<1> QED
    BY <1>1

-----------------------------------------------------------------------------
\* Every step keeps the types of the program counters, the lock and c.conn.
LEMMA GoroutineTypesNext == TypeOK /\ Next => GoroutineTypes'
<1> SUFFICES ASSUME TypeOK, Next PROVE GoroutineTypes'
    OBVIOUS
<1> USE ClientAssumption, Procs, LabelFacts DEF TypeOK, GoroutineTypes, At, Goto, lockVars,
    sessVars, shutVars, retVars, reqVars, connVars
<1>0. UNCHANGED <<pc, cret, rret, closing, readers, writer, conn>> => GoroutineTypes'
    OBVIOUS
<1>1. ASSUME NEW p \in Goroutines, Announce(p) PROVE GoroutineTypes'
    BY <1>1 DEF Announce, LockLabels
<1>2. ASSUME NEW p \in Goroutines, CloseCheck(p) PROVE GoroutineTypes'
    BY <1>2 DEF CloseCheck, CloseReturn, Closed
<1>3. ASSUME NEW p \in Goroutines, CloseOnce(p) PROVE GoroutineTypes'
    BY <1>3 DEF CloseOnce, CloseReturn
<1>4. ASSUME NEW p \in Goroutines, CloseDispatch(p) PROVE GoroutineTypes'
    BY <1>4 DEF CloseDispatch, CallReconnecting
<1>5. ASSUME NEW p \in Goroutines, CloseEnd(p) PROVE GoroutineTypes'
    BY <1>5 DEF CloseEnd, CloseReturn
<1>6. ASSUME NEW p \in Goroutines, RecEnter(p) PROVE GoroutineTypes'
    BY <1>6 DEF RecEnter, CanLock, RecReturn, Unlock
<1>7. ASSUME NEW p \in Goroutines, RecWait(p) PROVE GoroutineTypes'
    BY <1>7 DEF RecWait
<1>8. ASSUME NEW p \in Goroutines, RecLeave(p) PROVE GoroutineTypes'
    BY <1>8 DEF RecLeave, CanLock, RecReturn, Unlock
<1>9. ASSUME NEW p \in {Main, Reconnector}, DialLock(p) PROVE GoroutineTypes'
    BY <1>9 DEF DialLock, CanLock
<1>10. ASSUME NEW p \in {Main, Reconnector}, DialFail(p) PROVE GoroutineTypes'
    BY <1>10 DEF DialFail, Unlock
<1>11. ASSUME NEW p \in {Main, Reconnector}, DialOnPacket(p) PROVE GoroutineTypes'
    BY <1>11 DEF DialOnPacket
<1>12. ASSUME NEW p \in {Main, Reconnector}, DialOnClose(p) PROVE GoroutineTypes'
    BY <1>12 DEF DialOnClose, Unlock
<1>13. ASSUME NEW p \in {Main, Reconnector}, NEW c \in Conns, DialOk(p, c) PROVE
    GoroutineTypes'
    BY <1>13 DEF DialOk
<1>14. ASSUME NEW p \in Callers, DoNil(p) PROVE GoroutineTypes'
    BY <1>14 DEF DoNil, RLock, Panic
<1>15. ASSUME NEW p \in Callers, DoWrite(p) PROVE GoroutineTypes'
    BY <1>15 DEF DoWrite, RLock
<1>16. ASSUME NEW p \in Callers, DoWriteErr(p) PROVE GoroutineTypes'
    BY <1>16 DEF DoWriteErr, DoEnd, DoRet
<1>17. ASSUME NEW p \in Callers, DoRegister(p) PROVE GoroutineTypes'
    BY <1>17 DEF DoRegister
<1>18. ASSUME NEW p \in Callers, DoReceive(p) PROVE GoroutineTypes'
<2>1. CASE chClosed[p]
    BY <1>18, <2>1 DEF DoReceive, RecvEnd, RUnlock
<2>2. CASE ~(chClosed[p])
    BY <1>18, <2>2 DEF DoReceive, RecvEnd, DoEnd, DoRet, RUnlock
<2> QED
    BY <2>1, <2>2
<1>19. ASSUME NEW p \in Callers, DoTimeout(p) PROVE GoroutineTypes'
<2>1. CASE chClosed[p]
    BY <1>19, <2>1 DEF DoTimeout, RecvEnd, RUnlock
<2>2. CASE ~(chClosed[p])
    BY <1>19, <2>2 DEF DoTimeout, RecvEnd, DoEnd, DoRet, RUnlock
<2> QED
    BY <2>1, <2>2
<1>20. ASSUME NEW p \in UserProcs \cup {Reconnector}, ClBegin(p) PROVE GoroutineTypes'
<2>1. CASE closeCh
    BY <1>20, <2>1 DEF ClBegin
<2>2. CASE ~(closeCh)
    BY <1>20, <2>2 DEF ClBegin
<2> QED
    BY <2>1, <2>2
<1>21. ASSUME NEW p \in UserProcs \cup {Reconnector}, ClRLock(p) PROVE GoroutineTypes'
    BY <1>21 DEF ClRLock, RLock, CallClose
<1>22. ASSUME NEW p \in UserProcs \cup {Reconnector}, ClEnd(p) PROVE GoroutineTypes'
    BY <1>22 DEF ClEnd, RUnlock
<1>23. ASSUME AuthExpire PROVE UNCHANGED <<pc, cret, rret, closing, readers, writer, conn>>
    BY <1>23 DEF AuthExpire
<1>24. ASSUME MainDialed PROVE GoroutineTypes'
    BY <1>24 DEF MainDialed
<1>25. ASSUME MainAuthed PROVE GoroutineTypes'
    BY <1>25 DEF MainAuthed, Granted
<1>26. ASSUME RcTry PROVE GoroutineTypes'
    BY <1>26 DEF RcTry, CallClose
<1>27. ASSUME RcClear PROVE GoroutineTypes'
    BY <1>27 DEF RcClear
<1>28. ASSUME RcDialed PROVE GoroutineTypes'
    BY <1>28 DEF RcDialed, CallDo
<1>29. ASSUME RcAuthed PROVE GoroutineTypes'
    BY <1>29 DEF RcAuthed, Granted
<1>30. ASSUME RcResumed PROVE GoroutineTypes'
    BY <1>30 DEF RcResumed, Granted
<1>31. ASSUME RcAfter PROVE GoroutineTypes'
    BY <1>31 DEF RcAfter, CallDo
<1>32. ASSUME KaExit PROVE GoroutineTypes'
    BY <1>32 DEF KaExit
<1>33. ASSUME KaTimeout PROVE GoroutineTypes'
    BY <1>33 DEF KaTimeout, CallReconnecting
<1>34. ASSUME KaPing PROVE GoroutineTypes'
    BY <1>34 DEF KaPing, CallReconnecting
<1>35. ASSUME NEW p \in UserProcs, UserDo(p) PROVE GoroutineTypes'
    BY <1>35 DEF UserDo, CallDo
<1>36. ASSUME NEW p \in UserProcs, UserClose(p) PROVE GoroutineTypes'
    BY <1>36 DEF UserClose
<1>37. ASSUME NEW c \in Conns, ReaderResponse(c) \/ ReaderServer(c) PROVE UNCHANGED <<pc,
    cret, rret, closing, readers, writer, conn>>
    BY <1>37 DEF ReaderResponse, ReaderPacket, ReaderServer
<1>38. ASSUME NEW c \in Conns, ReaderFail(c) PROVE GoroutineTypes'
    BY <1>38 DEF ReaderFail, CallClose
<1>39. ASSUME NEW c \in Conns, CsTop(c) PROVE GoroutineTypes'
    BY <1>39 DEF CsTop
<1>40. ASSUME NEW c \in Conns, CsTake(c) PROVE GoroutineTypes'
<2>1. UNCHANGED <<cret, rret, closing, readers, writer, conn>>
    BY <1>40 DEF CsTake
<2>2. pc' = pc \/ \E l \in {"cs_drain", "cs_top", "srv_rlock"} : pc' = [pc EXCEPT ![Consumer(c)] = l]
    BY <1>40 DEF CsTake, HandleResponse, HandleOther, CsBack
<2> QED
    BY <2>1, <2>2
<1>41. ASSUME NEW c \in Conns, SrvRLock(c) PROVE GoroutineTypes'
    BY <1>41 DEF SrvRLock, RLock, CallClose
<1>42. ASSUME NEW c \in Conns, SrvEnd(c) PROVE GoroutineTypes'
    BY <1>42 DEF SrvEnd, RUnlock, CallReconnecting, CsBack
<1>43. ASSUME NEW c \in Conns, CsDrained(c) PROVE GoroutineTypes'
    BY <1>43 DEF CsDrained, CallReconnecting
<1>44. ASSUME NEW c \in Conns, CsFin(c) PROVE GoroutineTypes'
    BY <1>44 DEF CsFin
<1> QED
    BY SMTT(30), <1>0, <1>1, <1>2, <1>3, <1>4, <1>5, <1>6, <1>7, <1>8, <1>9, <1>10, <1>11, <1>12,
        <1>13, <1>14, <1>15, <1>16, <1>17, <1>18, <1>19, <1>20, <1>21, <1>22, <1>23, <1>24,
        <1>25, <1>26, <1>27, <1>28, <1>29, <1>30, <1>31, <1>32, <1>33, <1>34, <1>35, <1>36,
        <1>37, <1>38, <1>39, <1>40, <1>41, <1>42, <1>43, <1>44 DEF Next, Environment, Step,
        CloseStep, RecStep, DialStep, DoStep, ClStep, MainStep, RcStep, KaStep, CsStep

\* Every step keeps the types of the reconnect, session and shutdown state;
\* the attempt counter stays within its bound.
LEMMA SessionTypesNext == TypeOK /\ Next => SessionTypes'
<1> SUFFICES ASSUME TypeOK, Next PROVE SessionTypes'
    OBVIOUS
<1> USE DEF TypeOK, SessionTypes, At, Goto, lockVars, sessVars, shutVars, retVars, reqVars,
    connVars
<1>0. UNCHANGED <<doReconnectting, reconnectCount, authInfo, lastKeepaliveId, closeCh,
    closeReturned, panic>> => SessionTypes'
    OBVIOUS
<1>1. ASSUME NEW p \in Goroutines, Announce(p) \/ CloseCheck(p) \/ CloseOnce(p) \/
    CloseDispatch(p) \/ CloseEnd(p) \/ RecWait(p) PROVE UNCHANGED <<doReconnectting,
    reconnectCount, authInfo, lastKeepaliveId, closeCh, closeReturned, panic>>
    BY <1>1 DEF Announce, CloseCheck, CloseReturn, CloseOnce, CloseDispatch,
        CallReconnecting, CloseEnd, RecWait
<1>2. ASSUME NEW p \in Goroutines, RecEnter(p) PROVE SessionTypes'
    BY <1>2 DEF RecEnter, CanLock, RecReturn, Unlock, Panic
<1>3. ASSUME NEW p \in Goroutines, RecLeave(p) PROVE SessionTypes'
    BY <1>3 DEF RecLeave, CanLock, RecReturn, Unlock, Panic
<1>4. ASSUME NEW p \in {Main, Reconnector}, DialLock(p) \/ DialFail(p) \/ DialOnPacket(p) \/
    DialOnClose(p) PROVE UNCHANGED <<doReconnectting, reconnectCount, authInfo,
    lastKeepaliveId, closeCh, closeReturned, panic>>
    BY <1>4 DEF DialLock, CanLock, DialFail, Unlock, DialOnPacket, DialOnClose
<1>5. ASSUME NEW p \in {Main, Reconnector}, NEW c \in Conns, DialOk(p, c) PROVE UNCHANGED
    <<doReconnectting, reconnectCount, authInfo, lastKeepaliveId, closeCh, closeReturned,
    panic>>
    BY <1>5 DEF DialOk
<1>6. ASSUME NEW p \in Callers, DoWrite(p) \/ DoWriteErr(p) \/ DoRegister(p) PROVE UNCHANGED
    <<doReconnectting, reconnectCount, authInfo, lastKeepaliveId, closeCh, closeReturned,
    panic>>
    BY <1>6 DEF DoWrite, RLock, DoWriteErr, DoEnd, DoRegister
<1>7. ASSUME NEW p \in Callers, DoNil(p) PROVE SessionTypes'
    BY <1>7 DEF DoNil, RLock, Panic
<1>8. ASSUME NEW p \in Callers, DoReceive(p) PROVE SessionTypes'
    BY <1>8 DEF DoReceive, RecvEnd, DoEnd, DoRet, RUnlock, Panic
<1>9. ASSUME NEW p \in Callers, DoTimeout(p) PROVE SessionTypes'
    BY <1>9 DEF DoTimeout, RecvEnd, DoEnd, DoRet, RUnlock, Panic
<1>10. ASSUME NEW p \in UserProcs \cup {Reconnector}, ClRLock(p) PROVE UNCHANGED
    <<doReconnectting, reconnectCount, authInfo, lastKeepaliveId, closeCh, closeReturned,
    panic>>
    BY <1>10 DEF ClRLock, RLock, CallClose
<1>11. ASSUME NEW p \in UserProcs \cup {Reconnector}, ClBegin(p) PROVE SessionTypes'
    BY <1>11 DEF ClBegin, Panic
<1>12. ASSUME NEW p \in UserProcs \cup {Reconnector}, ClEnd(p) PROVE SessionTypes'
    BY <1>12 DEF ClEnd, RUnlock, Panic
<1>13. ASSUME MainDialed \/ RcClear \/ RcDialed \/ RcAfter \/ KaExit \/ KaTimeout PROVE
    UNCHANGED <<doReconnectting, reconnectCount, authInfo, lastKeepaliveId, closeCh,
    closeReturned, panic>>
    BY <1>13 DEF MainDialed, RcClear, RcDialed, CallDo, RcAfter, KaExit, KaTimeout,
        CallReconnecting
<1>14. ASSUME MainAuthed PROVE SessionTypes'
    BY <1>14 DEF MainAuthed, Granted, Panic
<1>15. ASSUME RcTry PROVE SessionTypes'
<2>1. UNCHANGED <<doReconnectting, authInfo, lastKeepaliveId, closeCh, closeReturned, panic>>
    BY <1>15 DEF RcTry
<2>2. reconnectCount' \in 0..CountBound
    BY <1>15, CountBoundFacts DEF RcTry
<2> QED
    BY <2>1, <2>2
<1>16. ASSUME RcAuthed PROVE SessionTypes'
    BY <1>16 DEF RcAuthed, Granted, Panic
<1>17. ASSUME RcResumed PROVE SessionTypes'
<2>1. UNCHANGED <<doReconnectting, closeCh, closeReturned, panic>>
    BY <1>17 DEF RcResumed
<2>2. reconnectCount' \in 0..CountBound
    BY <1>17, CountBoundFacts DEF RcResumed
<2>3. authInfo' \in {"none", "valid", "expired"} /\ lastKeepaliveId' \in BOOLEAN
    BY <1>17 DEF RcResumed
<2> QED
    BY <2>1, <2>2, <2>3
<1>18. ASSUME AuthExpire PROVE SessionTypes'
    BY <1>18 DEF AuthExpire, Panic
<1>19. ASSUME KaPing PROVE SessionTypes'
    BY <1>19 DEF KaPing, CallReconnecting, Panic
<1>20. ASSUME NEW p \in UserProcs, UserDo(p) \/ UserClose(p) PROVE UNCHANGED
    <<doReconnectting, reconnectCount, authInfo, lastKeepaliveId, closeCh, closeReturned,
    panic>>
    BY <1>20 DEF UserDo, CallDo, UserClose
<1>21. ASSUME NEW c \in Conns, ReaderFail(c) \/ CsTop(c) \/ SrvRLock(c) \/ SrvEnd(c) \/
    CsDrained(c) \/ CsFin(c) PROVE UNCHANGED <<doReconnectting, reconnectCount, authInfo,
    lastKeepaliveId, closeCh, closeReturned, panic>>
    BY <1>21 DEF ReaderFail, CallClose, CsTop, SrvRLock, RLock, SrvEnd, RUnlock,
        CallReconnecting, CsDrained, CsFin
<1>22. ASSUME NEW c \in Conns, ReaderResponse(c) PROVE SessionTypes'
    <2>1. UNCHANGED <<doReconnectting, reconnectCount, authInfo, lastKeepaliveId, closeCh,
                      closeReturned>>
        BY <1>22 DEF ReaderResponse, ReaderPacket
    <2>2. panic' \in {panic, "send_on_closed_channel"}
        BY <1>22 DEF ReaderResponse, ReaderPacket, Panic
    <2> QED
        BY <2>1, <2>2
<1>23. ASSUME NEW c \in Conns, ReaderServer(c) PROVE SessionTypes'
    <2>1. UNCHANGED <<doReconnectting, reconnectCount, authInfo, lastKeepaliveId, closeCh,
                      closeReturned>>
        BY <1>23 DEF ReaderServer, ReaderPacket
    <2>2. panic' \in {panic, "send_on_closed_channel"}
        BY <1>23 DEF ReaderServer, ReaderPacket, Panic
    <2> QED
        BY <2>1, <2>2
<1>24. ASSUME NEW c \in Conns, CsTake(c) PROVE SessionTypes'
    BY <1>24 DEF CsTake, HandleResponse, HandleOther, CsBack, Panic
<1> QED
    BY SMTT(30), <1>0, <1>1, <1>2, <1>3, <1>4, <1>5, <1>6, <1>7, <1>8, <1>9, <1>10, <1>11, <1>12,
        <1>13, <1>14, <1>15, <1>16, <1>17, <1>18, <1>19, <1>20, <1>21, <1>22, <1>23, <1>24
        DEF Next, Environment, Step, CloseStep, RecStep, DialStep, DoStep, ClStep, MainStep,
        RcStep, KaStep, CsStep

\* Every step keeps the types of the recvs table and of the requests.
LEMMA RequestTypesNext == TypeOK /\ Next => RequestTypes'
<1> SUFFICES ASSUME TypeOK, Next PROVE RequestTypes'
    OBVIOUS
<1> USE ClientAssumption, Procs DEF TypeOK, RequestTypes, At, Goto, lockVars, sessVars,
    shutVars, retVars, reqVars, connVars
<1>0. UNCHANGED <<recvs, chBuf, chClosed, rid, op, res, reqConn>> => RequestTypes'
    OBVIOUS
<1>1. ASSUME NEW p \in Goroutines, Announce(p) \/ CloseCheck(p) \/ CloseOnce(p) \/
    CloseDispatch(p) \/ CloseEnd(p) \/ RecEnter(p) \/ RecWait(p) \/ RecLeave(p) PROVE
    UNCHANGED <<recvs, chBuf, chClosed, rid, op, res, reqConn>>
    BY <1>1 DEF Announce, CloseCheck, CloseReturn, CloseOnce, CloseDispatch,
        CallReconnecting, CloseEnd, RecEnter, CanLock, RecReturn, Unlock, RecWait, RecLeave
<1>2. ASSUME NEW p \in {Main, Reconnector}, DialLock(p) \/ DialFail(p) \/ DialOnPacket(p) \/
    DialOnClose(p) PROVE UNCHANGED <<recvs, chBuf, chClosed, rid, op, res, reqConn>>
    BY <1>2 DEF DialLock, CanLock, DialFail, Unlock, DialOnPacket, DialOnClose
<1>3. ASSUME NEW p \in {Main, Reconnector}, NEW c \in Conns, DialOk(p, c) PROVE UNCHANGED
    <<recvs, chBuf, chClosed, rid, op, res, reqConn>>
    BY <1>3 DEF DialOk
<1>4. ASSUME NEW p \in Callers, DoNil(p) PROVE UNCHANGED <<recvs, chBuf, chClosed, rid, op,
    res, reqConn>>
    BY <1>4 DEF DoNil, RLock
<1>5. ASSUME NEW p \in Callers, DoWrite(p) PROVE RequestTypes'
<2>1. UNCHANGED <<recvs, chBuf, chClosed, op, res>>
    BY <1>5 DEF DoWrite
<2>2. rid' \in [Goroutines -> Nat]
    BY <1>5 DEF DoWrite, ConnTypes
<2>3. reqConn' \in [Goroutines -> Conns \cup {NoConn}]
    BY <1>5 DEF DoWrite, GoroutineTypes
<2> QED
    BY <2>1, <2>2, <2>3
<1>6. ASSUME NEW p \in Callers, DoWriteErr(p) PROVE RequestTypes'
    BY <1>6 DEF DoWriteErr, DoEnd, DoRet, Ops
<1>7. ASSUME NEW p \in Callers, DoRegister(p) PROVE RequestTypes'
    BY <1>7 DEF DoRegister
<1>8. ASSUME NEW p \in Callers, DoReceive(p) PROVE RequestTypes'
<2>1. recvs' \subseteq recvs /\ UNCHANGED chClosed
    BY <1>8 DEF DoReceive, RecvEnd
<2>2. CASE chClosed[p]
    BY <1>8, <2>1, <2>2 DEF DoReceive, RecvEnd
<2>3. CASE ~chClosed[p]
    <3>1. chBuf' = [chBuf EXCEPT ![p] = {}]
        BY <1>8, <2>3 DEF DoReceive, RecvEnd
    <3>2. res' \in [Goroutines -> SUBSET Responses]
        BY <1>8, <2>3 DEF DoReceive, RecvEnd, DoEnd
    <3>3. rid' \in [Goroutines -> Nat] /\ op' \in [Goroutines -> Ops]
        BY <1>8, <2>3 DEF DoReceive, RecvEnd, DoEnd, Ops
    <3>4. reqConn' \in [Goroutines -> Conns \cup {NoConn}]
        BY <1>8, <2>3 DEF DoReceive, RecvEnd, DoEnd
    <3> QED
        BY <2>1, <3>1, <3>2, <3>3, <3>4
<2> QED
    BY <2>2, <2>3
<1>9. ASSUME NEW p \in Callers, DoTimeout(p) PROVE RequestTypes'
<2>1. recvs' \subseteq recvs /\ UNCHANGED chClosed
    BY <1>9 DEF DoTimeout, RecvEnd
<2>2. CASE chClosed[p]
    BY <1>9, <2>1, <2>2 DEF DoTimeout, RecvEnd
<2>3. CASE ~chClosed[p]
    <3>1. chBuf' = [chBuf EXCEPT ![p] = {}]
        BY <1>9, <2>3 DEF DoTimeout, RecvEnd
    <3>2. res' \in [Goroutines -> SUBSET Responses]
        BY <1>9, <2>3 DEF DoTimeout, RecvEnd, DoEnd
    <3>3. rid' \in [Goroutines -> Nat] /\ op' \in [Goroutines -> Ops]
        BY <1>9, <2>3 DEF DoTimeout, RecvEnd, DoEnd, Ops
    <3>4. reqConn' \in [Goroutines -> Conns \cup {NoConn}]
        BY <1>9, <2>3 DEF DoTimeout, RecvEnd, DoEnd
    <3> QED
        BY <2>1, <3>1, <3>2, <3>3, <3>4
<2> QED
    BY <2>2, <2>3
<1>10. ASSUME NEW p \in UserProcs \cup {Reconnector}, ClBegin(p) \/ ClRLock(p) \/ ClEnd(p)
    PROVE UNCHANGED <<recvs, chBuf, chClosed, rid, op, res, reqConn>>
    BY <1>10 DEF ClBegin, ClRLock, RLock, CallClose, ClEnd, RUnlock
<1>11. ASSUME RcTry \/ AuthExpire \/ KaExit \/ KaTimeout \/ KaPing PROVE UNCHANGED <<recvs,
    chBuf, chClosed, rid, op, res, reqConn>>
    BY <1>11 DEF RcTry, CallClose, AuthExpire, KaExit, KaTimeout, CallReconnecting, KaPing
<1>12. ASSUME MainDialed PROVE RequestTypes'
    BY <1>12 DEF MainDialed, Ops
<1>13. ASSUME MainAuthed PROVE RequestTypes'
    BY <1>13 DEF MainAuthed, Granted
<1>14. ASSUME RcClear PROVE RequestTypes'
    BY <1>14 DEF RcClear
<1>15. ASSUME RcDialed PROVE RequestTypes'
    BY <1>15 DEF RcDialed, CallDo, Ops
<1>16. ASSUME RcAuthed PROVE RequestTypes'
    BY <1>16 DEF RcAuthed, Granted
<1>17. ASSUME RcResumed PROVE RequestTypes'
    BY <1>17 DEF RcResumed, Granted
<1>18. ASSUME RcAfter PROVE RequestTypes'
    BY <1>18 DEF RcAfter, CallDo, Ops
<1>19. ASSUME NEW p \in UserProcs, UserClose(p) PROVE UNCHANGED <<recvs, chBuf, chClosed,
    rid, op, res, reqConn>>
    BY <1>19 DEF UserClose
<1>20. ASSUME NEW p \in UserProcs, UserDo(p) PROVE RequestTypes'
    BY <1>20 DEF UserDo, CallDo, Ops
<1>21. ASSUME NEW c \in Conns, ReaderResponse(c) \/ ReaderServer(c) \/ ReaderFail(c) \/
    CsTop(c) \/ SrvRLock(c) \/ SrvEnd(c) \/ CsDrained(c) \/ CsFin(c) PROVE UNCHANGED
    <<recvs, chBuf, chClosed, rid, op, res, reqConn>>
    BY <1>21 DEF ReaderResponse, ReaderPacket, ReaderServer, ReaderFail, CallClose, CsTop,
        SrvRLock, RLock, SrvEnd, RUnlock, CallReconnecting, CsDrained, CsFin
<1>22. ASSUME NEW c \in Conns, CsTake(c) PROVE RequestTypes'
<2>1. UNCHANGED <<recvs, chClosed, rid, op, res, reqConn>>
    BY <1>22 DEF CsTake
<2>2. Head(queue[c]) \in Packets
    BY <1>22 DEF CsTake, ConnTypes
<2>3. chBuf' \in [Goroutines -> SUBSET Responses]
    <3> DEFINE k == Head(queue[c])
               r == [conn |-> c, rid |-> k.rid, status |-> k.status]
    <3>1. r \in Responses
        BY <2>2 DEF Packets, Responses
    <3>2. CASE k.type # "response"
        BY <1>22, <3>2 DEF CsTake, HandleOther
    <3>3. CASE k.type = "response"
        <4>1. chBuf' = [p \in Goroutines |->
                          IF [rid |-> k.rid, owner |-> p] \in recvs /\ chBuf[p] = {}
                          THEN {r} ELSE chBuf[p]]
            BY <1>22, <3>3 DEF CsTake, HandleResponse
        <4> HIDE DEF k, r
        <4> QED
            BY <3>1, <4>1
    <3> QED
        BY <3>2, <3>3
<2> QED
    BY <2>1, <2>3
<1> QED
    BY SMTT(30), <1>0, <1>1, <1>2, <1>3, <1>4, <1>5, <1>6, <1>7, <1>8, <1>9, <1>10, <1>11, <1>12,
        <1>13, <1>14, <1>15, <1>16, <1>17, <1>18, <1>19, <1>20, <1>21, <1>22 DEF Next,
        Environment, Step, CloseStep, RecStep, DialStep, DoStep, ClStep, MainStep, RcStep,
        KaStep, CsStep

\* Every step keeps the types of the connections' state.
LEMMA ConnTypesNext == TypeOK /\ Next => ConnTypes'
<1> SUFFICES ASSUME TypeOK, Next PROVE ConnTypes'
    OBVIOUS
<1> USE ClientAssumption DEF TypeOK, ConnTypes, At, Goto, lockVars, sessVars, shutVars,
    retVars, reqVars, connVars
<1>0. UNCHANGED <<connState, hasCallback, packetCh, queue, left, lastId, wire>> =>
    ConnTypes'
    OBVIOUS
<1>1. ASSUME NEW p \in Goroutines, Announce(p) \/ CloseCheck(p) \/ CloseDispatch(p) \/
    RecEnter(p) \/ RecWait(p) \/ RecLeave(p) PROVE UNCHANGED <<connState, hasCallback,
    packetCh, queue, left, lastId, wire>>
    BY <1>1 DEF Announce, CloseCheck, CloseReturn, CloseDispatch, CallReconnecting,
        RecEnter, CanLock, RecReturn, Unlock, RecWait, RecLeave
<1>2. ASSUME NEW p \in Goroutines, CloseOnce(p) PROVE ConnTypes'
    BY <1>2 DEF CloseOnce, CloseReturn
<1>3. ASSUME NEW p \in Goroutines, CloseEnd(p) PROVE ConnTypes'
    BY <1>3 DEF CloseEnd, CloseReturn
<1>4. ASSUME NEW p \in {Main, Reconnector}, DialLock(p) PROVE UNCHANGED <<connState,
    hasCallback, packetCh, queue, left, lastId, wire>>
    BY <1>4 DEF DialLock, CanLock
<1>5. ASSUME NEW p \in {Main, Reconnector}, DialFail(p) PROVE ConnTypes'
    BY <1>5 DEF DialFail, Unlock
<1>6. ASSUME NEW p \in {Main, Reconnector}, DialOnPacket(p) PROVE ConnTypes'
    BY <1>6 DEF DialOnPacket
<1>7. ASSUME NEW p \in {Main, Reconnector}, DialOnClose(p) PROVE ConnTypes'
    BY <1>7 DEF DialOnClose, Unlock
<1>8. ASSUME NEW p \in {Main, Reconnector}, NEW c \in Conns, DialOk(p, c) PROVE ConnTypes'
    BY <1>8 DEF DialOk
<1>9. ASSUME NEW p \in Callers, DoNil(p) \/ DoRegister(p) \/ DoReceive(p) \/ DoTimeout(p)
    PROVE UNCHANGED <<connState, hasCallback, packetCh, queue, left, lastId, wire>>
    BY <1>9 DEF DoNil, RLock, DoRegister, DoReceive, RecvEnd, DoEnd, RUnlock, DoTimeout
<1>10. ASSUME NEW p \in Callers, DoWrite(p) PROVE ConnTypes'
    BY <1>10, Procs DEF DoWrite, RLock, RequestTypes, GoroutineTypes
<1>11. ASSUME NEW p \in Callers, DoWriteErr(p) PROVE ConnTypes'
    BY <1>11 DEF DoWriteErr, DoEnd, DoRet
<1>12. ASSUME NEW p \in UserProcs \cup {Reconnector}, ClBegin(p) \/ ClRLock(p) \/ ClEnd(p)
    PROVE UNCHANGED <<connState, hasCallback, packetCh, queue, left, lastId, wire>>
    BY <1>12 DEF ClBegin, ClRLock, RLock, CallClose, ClEnd, RUnlock
<1>13. ASSUME MainDialed \/ MainAuthed \/ RcTry \/ RcClear \/ RcDialed \/ RcAuthed \/
    RcResumed \/ RcAfter \/ AuthExpire \/ KaExit \/ KaTimeout PROVE UNCHANGED <<connState,
    hasCallback, packetCh, queue, left, lastId, wire>>
    BY <1>13 DEF MainDialed, MainAuthed, RcTry, CallClose, RcClear, RcDialed, CallDo,
        RcAuthed, RcResumed, RcAfter, AuthExpire, KaExit, KaTimeout, CallReconnecting
<1>14. ASSUME KaPing PROVE ConnTypes'
    BY <1>14 DEF KaPing, CallReconnecting
<1>15. ASSUME NEW p \in UserProcs, UserDo(p) \/ UserClose(p) PROVE UNCHANGED <<connState,
    hasCallback, packetCh, queue, left, lastId, wire>>
    BY <1>15 DEF UserDo, CallDo, UserClose
<1>16. ASSUME NEW c \in Conns, ReaderFail(c) \/ SrvRLock(c) \/ SrvEnd(c) \/ CsDrained(c)
    PROVE UNCHANGED <<connState, hasCallback, packetCh, queue, left, lastId, wire>>
    BY <1>16 DEF ReaderFail, CallClose, SrvRLock, RLock, SrvEnd, RUnlock, CallReconnecting,
        CsDrained
<1>17. ASSUME NEW c \in Conns, ReaderResponse(c) PROVE ConnTypes'
<2>1. UNCHANGED <<connState, hasCallback, packetCh, left, lastId>> /\ wire' \subseteq wire
    BY <1>17 DEF ReaderResponse, ReaderPacket
<2>2. PICK k \in Packets : ReaderPacket(c, k)
    BY <1>17 DEF ReaderResponse, Packets, Statuses
<2>3. queue' \in [Conns -> Seq(Packets)]
    <3>1. Append(queue[c], k) \in Seq(Packets)
        BY <2>2
    <3> QED
        BY <2>2, <3>1 DEF ReaderPacket
<2> QED
    BY <2>1, <2>3
<1>18. ASSUME NEW c \in Conns, ReaderServer(c) PROVE ConnTypes'
<2>1. UNCHANGED <<connState, hasCallback, packetCh, left, lastId>> /\ wire' \subseteq wire
    BY <1>18 DEF ReaderServer, ReaderPacket
<2>2. PICK k \in Packets : ReaderPacket(c, k)
    BY <1>18 DEF ReaderServer, Packets, Statuses
<2>3. queue' \in [Conns -> Seq(Packets)]
    <3>1. Append(queue[c], k) \in Seq(Packets)
        BY <2>2
    <3> QED
        BY <2>2, <3>1 DEF ReaderPacket
<2> QED
    BY <2>1, <2>3
<1>19. ASSUME NEW c \in Conns, CsTop(c) PROVE ConnTypes'
<2>1. UNCHANGED <<connState, hasCallback, packetCh, queue, lastId, wire>>
    BY <1>19 DEF CsTop
<2>2. left' \in [Conns -> Nat \cup {-1}]
    <3>1. Len(queue[c]) \in Nat
        OBVIOUS
    <3> QED
        BY <1>19, <3>1 DEF CsTop
<2> QED
    BY <2>1, <2>2
<1>20. ASSUME NEW c \in Conns, CsTake(c) PROVE ConnTypes'
<2>1. UNCHANGED <<connState, hasCallback, packetCh, lastId, wire>>
    BY <1>20 DEF CsTake
<2>2. left' \in [Conns -> Nat \cup {-1}]
    BY <1>20 DEF CsTake
<2>3. queue' \in [Conns -> Seq(Packets)]
    BY <1>20 DEF CsTake
<2> QED
    BY <2>1, <2>2, <2>3
<1>21. ASSUME NEW c \in Conns, CsFin(c) PROVE ConnTypes'
    BY <1>21 DEF CsFin
<1> QED
    BY SMTT(30), <1>0, <1>1, <1>2, <1>3, <1>4, <1>5, <1>6, <1>7, <1>8, <1>9, <1>10, <1>11, <1>12,
        <1>13, <1>14, <1>15, <1>16, <1>17, <1>18, <1>19, <1>20, <1>21 DEF Next, Environment,
        Step, CloseStep, RecStep, DialStep, DoStep, ClStep, MainStep, RcStep, KaStep, CsStep

-----------------------------------------------------------------------------
\* A new client has the types.
LEMMA TypeOKInit == Init => TypeOK
<1> SUFFICES ASSUME Init PROVE TypeOK
    OBVIOUS
<1>1. GoroutineTypes
    BY LabelFacts, Procs DEF Init, GoroutineTypes
<1>2. SessionTypes
    BY CountBoundFacts DEF Init, SessionTypes
<1>3. RequestTypes
    BY DEF Init, RequestTypes, Ops
<1>4. ConnTypes
    BY DEF Init, ConnTypes
<1> QED
    BY <1>1, <1>2, <1>3, <1>4 DEF TypeOK

\* The types are inductive by themselves.
LEMMA TypeOKNext == TypeOK /\ [Next]_vars => TypeOK'
<1>1. TypeOK /\ Next => TypeOK'
    BY GoroutineTypesNext, SessionTypesNext, RequestTypesNext, ConnTypesNext DEF TypeOK
<1>2. TypeOK /\ UNCHANGED vars => TypeOK'
    BY ZenonT(40)
    DEF TypeOK, GoroutineTypes, SessionTypes, RequestTypes, ConnTypes, vars, retVars,
        lockVars, sessVars, shutVars, reqVars, connVars
<1> QED
    BY <1>1, <1>2

\* Type correctness: whatever the goroutines, the network and the server do,
\* every variable keeps its type; in particular the attempt counter of
\* reconnect never exceeds its maximum.
THEOREM TypeCorrect == Spec => []TypeOK
BY TypeOKInit, TypeOKNext, PTL DEF Spec

-----------------------------------------------------------------------------
(* Requests, reconnects and the write lock.                                  *)

\* Goroutines of different kinds, and of different connections, differ.
LEMMA Distinct ==
    /\ Main # Keepalive /\ Main # Reconnector /\ Keepalive # Reconnector
    /\ \A p \in UserProcs : p # Main /\ p # Keepalive /\ p # Reconnector
    /\ \A c : /\ Reader(c) # Main /\ Reader(c) # Keepalive /\ Reader(c) # Reconnector
              /\ Consumer(c) # Main /\ Consumer(c) # Keepalive /\ Consumer(c) # Reconnector
              /\ Reader(c) \notin UserProcs /\ Consumer(c) \notin UserProcs
    /\ \A c, d : /\ Reader(c) # Consumer(d)
                 /\ Reader(c) = Reader(d) => c = d
                 /\ Consumer(c) = Consumer(d) => c = d
BY DEF Main, Keepalive, Reconnector, UserProcs, User, Reader, Consumer

\* Where Do returns to: its caller.
LEMMA DoRetLabels ==
    /\ \A p \in UserProcs : DoRet(p) = "idle"
    /\ DoRet(Main) = "m_authed"
    /\ DoRet(Reconnector) \in {"rc_authed", "rc_resumed", "rc_done"}
BY Distinct DEF DoRet

AfterClose == {"off", "rc_clear", "cl_end", "srv_end"}
AfterRec   == {"off", "ka_idle", "close_end", "cs_top", "cs_drain", "cs_fin"}
AfterDo    == {"idle", "m_authed", "rc_authed", "rc_resumed", "rc_done"}

\* Where the three procedures return to.
LEMMA ReturnLabels ==
    ASSUME PcOK, NEW p \in Goroutines
    PROVE  /\ pc[p] \in CloseL => cret[p] \in AfterClose
           /\ pc[p] \in RecL => rret[p] \in AfterRec
           /\ p \in Callers => DoRet(p) \in AfterDo
<1>1. p \in Callers => DoRet(p) \in AfterDo
    BY DoRetLabels DEF Callers, AfterDo
<1>2. pc[p] \in CloseL => cret[p] \in AfterClose
    BY DEF PcOK, Goroutines, CloseL, DialL, DoL, RecL, ClL, AfterClose
<1>3. pc[p] \in RecL => rret[p] \in AfterRec
    BY DEF PcOK, Goroutines, CloseL, DialL, DoL, RecL, ClL, AfterRec
<1> QED
    BY <1>1, <1>2, <1>3

CloseCheckEff(p) ==
    /\ At(p, "close_check")
    /\ \/ /\ Closed(closing[p])
          /\ \E l \in AfterClose : pc' = [pc EXCEPT ![p] = l]
          /\ cret' = [cret EXCEPT ![p] = "off"]
          /\ closing' = [closing EXCEPT ![p] = NoConn]
       \/ /\ ~Closed(closing[p])
          /\ pc' = [pc EXCEPT ![p] = "close_once"]
          /\ UNCHANGED <<cret, closing>>
    /\ UNCHANGED <<rret, readers, writer, conn, doReconnectting, recvs, chBuf, chClosed,
                   rid, reqConn, connState, packetCh, lastId>>

\* What the early return of ClientConn.Close does.
LEMMA CloseCheckEffect ==
    ASSUME TypeOK, PcOK, NEW p \in Goroutines, CloseCheck(p)
    PROVE  CloseCheckEff(p)
<1> USE DEF CloseCheckEff
<1>1. cret[p] \in AfterClose
    BY ReturnLabels DEF CloseCheck, At, CloseL
<1> QED
    BY <1>1 DEF CloseCheck, CloseReturn, Goto, lockVars, sessVars, reqVars, connVars

CloseOnceEff(p) ==
    /\ At(p, "close_once")
    /\ \/ /\ connState[closing[p]] = "open"
          /\ connState' = [connState EXCEPT ![closing[p]] = "closing"]
          /\ pc' = [pc EXCEPT ![p] = "close_dispatch"]
          /\ UNCHANGED <<cret, closing>>
       \/ /\ connState[closing[p]] = "closed" /\ UNCHANGED connState
          /\ \E l \in AfterClose : pc' = [pc EXCEPT ![p] = l]
          /\ cret' = [cret EXCEPT ![p] = "off"]
          /\ closing' = [closing EXCEPT ![p] = NoConn]
    /\ UNCHANGED <<rret, readers, writer, conn, doReconnectting, recvs, chBuf, chClosed,
                   rid, reqConn, packetCh, lastId>>

\* What entering closeOnce.Do does.
LEMMA CloseOnceEffect ==
    ASSUME TypeOK, PcOK, NEW p \in Goroutines, CloseOnce(p)
    PROVE  CloseOnceEff(p)
<1> USE DEF CloseOnceEff
<1>1. cret[p] \in AfterClose
    BY ReturnLabels DEF CloseOnce, At, CloseL
<1> QED
    BY <1>1 DEF CloseOnce, CloseReturn, Goto, lockVars, sessVars, reqVars, connVars

CloseEndEff(p) ==
    /\ At(p, "close_end")
    /\ connState' = [connState EXCEPT ![closing[p]] = "closed"]
    /\ \E l \in AfterClose : pc' = [pc EXCEPT ![p] = l]
    /\ cret' = [cret EXCEPT ![p] = "off"]
    /\ closing' = [closing EXCEPT ![p] = NoConn]
    /\ UNCHANGED <<rret, readers, writer, conn, doReconnectting, recvs, chBuf, chClosed,
                   rid, reqConn, packetCh, lastId>>

\* What leaving closeOnce.Do does.
LEMMA CloseEndEffect ==
    ASSUME TypeOK, PcOK, NEW p \in Goroutines, CloseEnd(p)
    PROVE  CloseEndEff(p)
<1> USE DEF CloseEndEff
<1>1. cret[p] \in AfterClose
    BY ReturnLabels DEF CloseEnd, At, CloseL
<1> QED
    BY <1>1 DEF CloseEnd, CloseReturn, Goto, lockVars, sessVars, reqVars, connVars

RecEnterEff(p) ==
    /\ At(p, "rec_lock") /\ CanLock(p) /\ writer' = NoProc
    /\ \/ /\ doReconnectting
          /\ \E l \in AfterRec : pc' = [pc EXCEPT ![p] = l]
          /\ UNCHANGED doReconnectting
       \/ /\ ~doReconnectting
          /\ pc' = [pc EXCEPT ![p] = "rec_wait", ![Reconnector] = "rc_try"]
          /\ doReconnectting' = TRUE
    /\ UNCHANGED <<cret, closing, readers, conn, recvs, chBuf, chClosed, rid, reqConn,
                   connState, packetCh, lastId>>

\* What the first critical section of reconnecting does.
LEMMA RecEnterEffect ==
    ASSUME TypeOK, PcOK, NEW p \in Goroutines, RecEnter(p)
    PROVE  RecEnterEff(p)
<1> USE DEF RecEnterEff
<1>1. rret[p] \in AfterRec
    BY ReturnLabels DEF RecEnter, At, RecL
<1>2. At(p, "rec_lock") /\ CanLock(p) /\ writer' = NoProc
    BY DEF RecEnter, Unlock
<1>3. UNCHANGED <<cret, closing, readers, conn, recvs, chBuf, chClosed, rid, reqConn,
                  connState, packetCh, lastId>>
    BY DEF RecEnter, Unlock, reqVars, connVars
<1>4. CASE doReconnectting
    BY <1>1, <1>2, <1>3, <1>4 DEF RecEnter, RecReturn, Goto
<1>5. CASE ~doReconnectting
    BY <1>2, <1>3, <1>5 DEF RecEnter
<1> QED
    BY <1>4, <1>5

RecLeaveEff(p) ==
    /\ At(p, "rec_relock") /\ CanLock(p) /\ writer' = NoProc
    /\ \E l \in AfterRec : pc' = [pc EXCEPT ![p] = l]
    /\ doReconnectting' = FALSE
    /\ UNCHANGED <<cret, closing, readers, conn, recvs, chBuf, chClosed, rid, reqConn,
                   connState, packetCh, lastId>>

\* What the second critical section of reconnecting does.
LEMMA RecLeaveEffect ==
    ASSUME TypeOK, PcOK, NEW p \in Goroutines, RecLeave(p)
    PROVE  RecLeaveEff(p)
<1> USE DEF RecLeaveEff
<1>1. rret[p] \in AfterRec
    BY ReturnLabels DEF RecLeave, At, RecL
<1> QED
    BY <1>1 DEF RecLeave, RecReturn, Unlock, Goto, reqVars, connVars

RecvEndEff(p) ==
    /\ At(p, "do_wait")
    /\ recvs' = {e \in recvs : e.rid # rid[p]}
    /\ \/ /\ chClosed[p]
          /\ UNCHANGED <<pc, readers, chBuf, rid, reqConn>>
       \/ /\ ~chClosed[p]
          /\ \E l \in AfterDo : pc' = [pc EXCEPT ![p] = l]
          /\ readers' = readers \ {p}
          /\ chBuf' = [chBuf EXCEPT ![p] = {}]
          /\ rid' = [rid EXCEPT ![p] = 0]
          /\ reqConn' = [reqConn EXCEPT ![p] = NoConn]
    /\ UNCHANGED <<cret, closing, writer, conn, doReconnectting, chClosed, connState,
                   packetCh, lastId>>

\* What the end of recv and of its Do does, on a response or a timeout.
LEMMA RecvEndEffect ==
    ASSUME TypeOK, PcOK, NEW p \in Callers, DoReceive(p) \/ DoTimeout(p)
    PROVE  RecvEndEff(p)
<1> USE DEF RecvEndEff
<1>1. DoRet(p) \in AfterDo
    BY ReturnLabels, Procs
<1>2. PICK r : At(p, "do_wait") /\ RecvEnd(p, r)
    BY DEF DoReceive, DoTimeout
<1>3. UNCHANGED <<cret, closing, conn, doReconnectting, chClosed, connState, packetCh, lastId>>
    BY <1>2 DEF RecvEnd, retVars, sessVars, connVars
<1>4. recvs' = {e \in recvs : e.rid # rid[p]}
    BY <1>2 DEF RecvEnd
<1>5. CASE chClosed[p]
    BY <1>2, <1>3, <1>4, <1>5 DEF RecvEnd, lockVars
<1>6. CASE ~chClosed[p]
    BY <1>1, <1>2, <1>3, <1>4, <1>6 DEF RecvEnd, DoEnd, RUnlock, Goto
<1> QED
    BY <1>5, <1>6

ClBeginEff(p) ==
    /\ At(p, "cl_begin")
    /\ pc' = pc \/ pc' = [pc EXCEPT ![p] = "cl_rlock"]
    /\ UNCHANGED <<cret, closing, rret, readers, writer, conn, doReconnectting, recvs,
                   chBuf, chClosed, rid, reqConn, connState, packetCh, lastId>>

\* What close(c.closeCh) in Close does to the rest of the state.
LEMMA ClBeginEffect ==
    ASSUME TypeOK, PcOK, NEW p \in Goroutines, ClBegin(p)
    PROVE  ClBeginEff(p)
<1> USE DEF ClBeginEff
<1>1. CASE closeCh
    BY <1>1 DEF ClBegin, retVars, lockVars, sessVars, reqVars, connVars
<1>2. CASE ~closeCh
    BY <1>2 DEF ClBegin, Goto, retVars, lockVars, sessVars, reqVars, connVars
<1> QED
    BY <1>1, <1>2

CsTakeEff(c) ==
    /\ pc[Consumer(c)] \in {"cs_recv", "cs_drain"}
    /\ \/ pc' = pc
       \/ \E l \in {"cs_drain", "cs_top", "srv_rlock"} :
             pc' = [pc EXCEPT ![Consumer(c)] = l]
    /\ UNCHANGED <<cret, closing, rret, readers, writer, conn, doReconnectting, recvs,
                   chClosed, rid, reqConn, connState, packetCh, lastId>>

\* What handling a packet does to the goroutines.
LEMMA CsTakeEffect ==
    ASSUME TypeOK, PcOK, NEW c \in Conns, CsTake(c)
    PROVE  CsTakeEff(c)
<1> USE DEF CsTakeEff
<1>1. UNCHANGED <<cret, closing, rret, readers, writer, conn, doReconnectting, recvs, chClosed, rid,
        reqConn, connState, packetCh, lastId>>
    BY DEF CsTake, retVars, lockVars, sessVars
<1>2. pc[Consumer(c)] \in {"cs_recv", "cs_drain"}
    BY DEF CsTake, At
<1>3. pc' = pc \/ \E l \in {"cs_drain", "cs_top", "srv_rlock"} : pc' = [pc EXCEPT ![Consumer(c)] = l]
    BY DEF CsTake, HandleResponse, HandleOther, CsBack, Goto
<1> QED
    BY <1>1, <1>2, <1>3

Effects ==
    /\ \A p \in Goroutines : CloseCheck(p) => CloseCheckEff(p)
    /\ \A p \in Goroutines : CloseOnce(p) => CloseOnceEff(p)
    /\ \A p \in Goroutines : CloseEnd(p) => CloseEndEff(p)
    /\ \A p \in Goroutines : RecEnter(p) => RecEnterEff(p)
    /\ \A p \in Goroutines : RecLeave(p) => RecLeaveEff(p)
    /\ \A p \in Callers : DoReceive(p) \/ DoTimeout(p) => RecvEndEff(p)
    /\ \A p \in Goroutines : ClBegin(p) => ClBeginEff(p)
    /\ \A c \in Conns : CsTake(c) => CsTakeEff(c)

\* The effects above, in one formula that the proofs below open one at a
\* time.
LEMMA EffectsHold == TypeOK /\ PcOK => Effects
<1> SUFFICES ASSUME TypeOK, PcOK PROVE Effects
    OBVIOUS
<1>1. \A p \in Goroutines : CloseCheck(p) => CloseCheckEff(p)
    BY CloseCheckEffect
<1>2. \A p \in Goroutines : CloseOnce(p) => CloseOnceEff(p)
    BY CloseOnceEffect
<1>3. \A p \in Goroutines : CloseEnd(p) => CloseEndEff(p)
    BY CloseEndEffect
<1>4. \A p \in Goroutines : RecEnter(p) => RecEnterEff(p)
    BY RecEnterEffect
<1>5. \A p \in Goroutines : RecLeave(p) => RecLeaveEff(p)
    BY RecLeaveEffect
<1>6. \A p \in Callers : DoReceive(p) \/ DoTimeout(p) => RecvEndEff(p)
    BY RecvEndEffect
<1>7. \A p \in Goroutines : ClBegin(p) => ClBeginEff(p)
    BY ClBeginEffect
<1>8. \A c \in Conns : CsTake(c) => CsTakeEff(c)
    BY CsTakeEffect, Zenon
<1> QED
    BY <1>1, <1>2, <1>3, <1>4, <1>5, <1>6, <1>7, <1>8 DEF Effects

-----------------------------------------------------------------------------
\* Every step leaves each goroutine within its own code.
LEMMA PcOKNext == TypeOK /\ PcOK /\ Next => PcOK'
<1> SUFFICES ASSUME TypeOK, PcOK, Next PROVE PcOK'
    OBVIOUS
<1>e. Effects
    BY EffectsHold
<1> USE Procs, Distinct DEF TypeOK, GoroutineTypes, PcOK, DialL, DoL, ClL, CloseL, RecL, At,
    Goto, lockVars, sessVars, shutVars, retVars, reqVars, connVars
<1>0. UNCHANGED <<pc, cret, rret>> => PcOK'
    OBVIOUS
<1>1. ASSUME NEW p \in Goroutines, Announce(p) PROVE UNCHANGED <<pc, cret, rret>>
    BY <1>1 DEF Announce
<1>2. ASSUME NEW p \in Goroutines, CloseCheck(p) PROVE PcOK'
    BY <1>2 DEF CloseCheck, CloseReturn, Closed
<1>3. ASSUME NEW p \in Goroutines, CloseOnce(p) PROVE PcOK'
    BY <1>3 DEF CloseOnce, CloseReturn
<1>4. ASSUME NEW p \in Goroutines, CloseDispatch(p) PROVE PcOK'
    BY <1>4 DEF CloseDispatch, CallReconnecting
<1>5. ASSUME NEW p \in Goroutines, CloseEnd(p) PROVE PcOK'
    BY <1>5 DEF CloseEnd, CloseReturn
<1>6. ASSUME NEW p \in Goroutines, RecEnter(p) PROVE PcOK'
    BY <1>6 DEF RecEnter, CanLock, RecReturn, Unlock
<1>7. ASSUME NEW p \in Goroutines, RecWait(p) PROVE PcOK'
    BY <1>7 DEF RecWait
<1>8. ASSUME NEW p \in Goroutines, RecLeave(p) PROVE PcOK'
    BY <1>8 DEF RecLeave, CanLock, RecReturn, Unlock
<1>9. ASSUME NEW p \in {Main, Reconnector}, DialLock(p) PROVE PcOK'
    BY <1>9 DEF DialLock, CanLock
<1>10. ASSUME NEW p \in {Main, Reconnector}, DialFail(p) PROVE PcOK'
    BY <1>10 DEF DialFail, Unlock
<1>11. ASSUME NEW p \in {Main, Reconnector}, DialOnPacket(p) PROVE PcOK'
    BY <1>11 DEF DialOnPacket
<1>12. ASSUME NEW p \in {Main, Reconnector}, DialOnClose(p) PROVE PcOK'
    BY <1>12 DEF DialOnClose, Unlock
<1>13. ASSUME NEW p \in {Main, Reconnector}, NEW c \in Conns, DialOk(p, c) PROVE PcOK'
    BY <1>13 DEF DialOk
<1>14. ASSUME NEW p \in Callers, DoNil(p) PROVE UNCHANGED <<pc, cret, rret>>
    BY <1>14 DEF DoNil, RLock
<1>15. ASSUME NEW p \in Callers, DoWrite(p) PROVE PcOK'
    BY <1>15 DEF DoWrite, RLock
<1>16. ASSUME NEW p \in Callers, DoWriteErr(p) PROVE PcOK'
    BY <1>16, DoRetLabels DEF DoWriteErr, DoEnd, Callers
<1>17. ASSUME NEW p \in Callers, DoRegister(p) PROVE PcOK'
    BY <1>17 DEF DoRegister
<1>18. ASSUME NEW p \in Callers, DoReceive(p) PROVE PcOK'
<2>1. UNCHANGED <<cret, rret>> /\ At(p, "do_wait")
    BY <1>18 DEF DoReceive, RecvEnd
<2>2. pc' = pc \/ pc' = [pc EXCEPT ![p] = DoRet(p)]
    <3>1. CASE chClosed[p]
        BY <1>18, <3>1 DEF DoReceive, RecvEnd
    <3>2. CASE ~chClosed[p]
        BY <1>18, <3>2 DEF DoReceive, RecvEnd, DoEnd
    <3> QED
        BY <3>1, <3>2
<2> QED
    BY <2>1, <2>2, DoRetLabels DEF Callers
<1>19. ASSUME NEW p \in Callers, DoTimeout(p) PROVE PcOK'
<2>1. UNCHANGED <<cret, rret>> /\ At(p, "do_wait")
    BY <1>19 DEF DoTimeout, RecvEnd
<2>2. pc' = pc \/ pc' = [pc EXCEPT ![p] = DoRet(p)]
    <3>1. CASE chClosed[p]
        BY <1>19, <3>1 DEF DoTimeout, RecvEnd
    <3>2. CASE ~chClosed[p]
        BY <1>19, <3>2 DEF DoTimeout, RecvEnd, DoEnd
    <3> QED
        BY <3>1, <3>2
<2> QED
    BY <2>1, <2>2, DoRetLabels DEF Callers
<1>20. ASSUME NEW p \in UserProcs \cup {Reconnector}, ClBegin(p) PROVE PcOK'
<2>1. ClBeginEff(p)
    BY <1>20, <1>e DEF Effects
<2> QED
    BY <2>1 DEF ClBeginEff
<1>21. ASSUME NEW p \in UserProcs \cup {Reconnector}, ClRLock(p) PROVE PcOK'
    BY <1>21 DEF ClRLock, RLock, CallClose
<1>22. ASSUME NEW p \in UserProcs \cup {Reconnector}, ClEnd(p) PROVE PcOK'
    BY <1>22 DEF ClEnd, RUnlock
<1>23. ASSUME AuthExpire PROVE UNCHANGED <<pc, cret, rret>>
    BY <1>23 DEF AuthExpire
<1>24. ASSUME MainDialed PROVE PcOK'
    BY <1>24 DEF MainDialed
<1>25. ASSUME MainAuthed PROVE PcOK'
    BY <1>25 DEF MainAuthed, Granted
<1>26. ASSUME RcTry PROVE PcOK'
    BY <1>26 DEF RcTry, CallClose
<1>27. ASSUME RcClear PROVE PcOK'
    BY <1>27 DEF RcClear
<1>28. ASSUME RcDialed PROVE PcOK'
    BY <1>28 DEF RcDialed, CallDo
<1>29. ASSUME RcAuthed PROVE PcOK'
    BY <1>29 DEF RcAuthed, Granted
<1>30. ASSUME RcResumed PROVE PcOK'
    BY <1>30 DEF RcResumed, Granted
<1>31. ASSUME RcAfter PROVE PcOK'
    BY <1>31 DEF RcAfter, CallDo
<1>32. ASSUME KaExit PROVE PcOK'
    BY <1>32 DEF KaExit
<1>33. ASSUME KaTimeout PROVE PcOK'
    BY <1>33 DEF KaTimeout, CallReconnecting
<1>34. ASSUME KaPing PROVE PcOK'
    BY <1>34 DEF KaPing, CallReconnecting
<1>35. ASSUME NEW p \in UserProcs, UserDo(p) PROVE PcOK'
    BY <1>35 DEF UserDo, CallDo
<1>36. ASSUME NEW p \in UserProcs, UserClose(p) PROVE PcOK'
    BY <1>36 DEF UserClose
<1>37. ASSUME NEW c \in Conns, ReaderResponse(c) \/ ReaderServer(c) PROVE UNCHANGED <<pc,
    cret, rret>>
    BY <1>37 DEF ReaderResponse, ReaderPacket, ReaderServer
<1>38. ASSUME NEW c \in Conns, ReaderFail(c) PROVE PcOK'
    BY <1>38 DEF ReaderFail, CallClose
<1>39. ASSUME NEW c \in Conns, CsTop(c) PROVE PcOK'
    BY <1>39 DEF CsTop
<1>40. ASSUME NEW c \in Conns, CsTake(c) PROVE PcOK'
<2>1. CsTakeEff(c)
    BY <1>40, <1>e DEF Effects
<2> QED
    BY <2>1 DEF CsTakeEff
<1>41. ASSUME NEW c \in Conns, SrvRLock(c) PROVE PcOK'
    BY <1>41 DEF SrvRLock, RLock, CallClose
<1>42. ASSUME NEW c \in Conns, SrvEnd(c) PROVE PcOK'
    BY <1>42 DEF SrvEnd, RUnlock, CallReconnecting, CsBack
<1>43. ASSUME NEW c \in Conns, CsDrained(c) PROVE PcOK'
    BY <1>43 DEF CsDrained, CallReconnecting
<1>44. ASSUME NEW c \in Conns, CsFin(c) PROVE PcOK'
    BY <1>44 DEF CsFin
<1> QED
    BY SMTT(30), <1>0, <1>1, <1>2, <1>3, <1>4, <1>5, <1>6, <1>7, <1>8, <1>9, <1>10, <1>11, <1>12,
        <1>13, <1>14, <1>15, <1>16, <1>17, <1>18, <1>19, <1>20, <1>21, <1>22, <1>23, <1>24,
        <1>25, <1>26, <1>27, <1>28, <1>29, <1>30, <1>31, <1>32, <1>33, <1>34, <1>35, <1>36,
        <1>37, <1>38, <1>39, <1>40, <1>41, <1>42, <1>43, <1>44, ZenonT(40) DEF Next,
        Environment, Step, CloseStep, RecStep, DialStep, DoStep, ClStep, MainStep, RcStep, KaStep, CsStep

\* A goroutine that runs shows that the first dial is through.
LEMMA EarlyKept ==
    ASSUME TypeOK, Early, NEW q \in Goroutines, q # Main, q # Keepalive,
           pc[q] \notin {"idle", "off"}, NEW l, pc' = [pc EXCEPT ![q] = l]
    PROVE  Early'
<1>1. pc'[Main] = pc[Main] /\ pc'[Keepalive] = pc[Keepalive]
    BY Procs DEF TypeOK, GoroutineTypes
<1>2. pc[Main] \notin {"m_start", "dial"}
    BY DEF Early
<1> QED
    BY <1>1, <1>2 DEF Early, DialL

\* A consumer's step comes after the first dial.
LEMMA EarlyConsumer ==
    ASSUME TypeOK, PcOK, Early, NEW c \in Conns, CsTop(c) \/ CsTake(c) \/ SrvRLock(c)
    PROVE  Early'
<1>1. Consumer(c) \in Goroutines /\ Consumer(c) # Main /\ Consumer(c) # Keepalive
    BY Procs, Distinct
<1>2. CASE CsTop(c)
    <2>1. pc[Consumer(c)] = "cs_top"
        BY <1>2 DEF CsTop, At
    <2>2. \E l \in {"cs_drain", "cs_recv"} : pc' = [pc EXCEPT ![Consumer(c)] = l]
        BY <1>2 DEF CsTop, Goto
    <2> QED
        BY <1>1, <2>1, <2>2, EarlyKept
<1>3. CASE CsTake(c)
    <2>1. CsTakeEff(c)
        BY <1>3, CsTakeEffect
    <2>2. CASE pc' = pc
        BY <2>1, <2>2 DEF CsTakeEff, Early
    <2>3. CASE \E l \in {"cs_drain", "cs_top", "srv_rlock"} :
                  pc' = [pc EXCEPT ![Consumer(c)] = l]
        <3>1. pc[Consumer(c)] \notin {"idle", "off"}
            BY <2>1 DEF CsTakeEff
        <3> QED
            BY <1>1, <2>3, <3>1, EarlyKept
    <2> QED
        BY <2>1, <2>2, <2>3 DEF CsTakeEff
<1>4. CASE SrvRLock(c)
    <2>1. pc[Consumer(c)] = "srv_rlock"
        BY <1>4 DEF SrvRLock, At
    <2>2. \E l \in {"close_check", "srv_end"} : pc' = [pc EXCEPT ![Consumer(c)] = l]
        BY <1>4 DEF SrvRLock, CallClose, Goto
    <2> QED
        BY <1>1, <2>1, <2>2, EarlyKept
<1> QED
    BY <1>2, <1>3, <1>4

\* Nothing runs before the first dial is through.
LEMMA EarlyNext == TypeOK /\ PcOK /\ Early /\ Next => Early'
<1> SUFFICES ASSUME TypeOK, PcOK, Early, Next PROVE Early'
    OBVIOUS
<1>e. Effects
    BY EffectsHold
<1>39. ASSUME NEW c \in Conns, CsTop(c) \/ CsTake(c) \/ SrvRLock(c) PROVE Early'
    BY <1>39, EarlyConsumer
<1> USE Procs, Distinct DEF TypeOK, GoroutineTypes, ConnTypes, PcOK, Early, Callers, DialL,
    DoL, ClL, CloseL, RecL, At, Goto, lockVars, sessVars, shutVars, retVars, reqVars,
    connVars
<1>0. UNCHANGED <<pc, conn, connState>> => Early'
    OBVIOUS
<1>1. ASSUME NEW p \in Goroutines, Announce(p) PROVE UNCHANGED <<pc, conn, connState>>
    BY <1>1 DEF Announce
<1>2. ASSUME NEW p \in Goroutines, CloseCheck(p) PROVE Early'
<2>1. CloseCheckEff(p)
    BY <1>2, <1>e DEF Effects
<2> QED
    BY <2>1 DEF CloseCheckEff, AfterClose
<1>3. ASSUME NEW p \in Goroutines, CloseOnce(p) PROVE Early'
<2>1. CloseOnceEff(p)
    BY <1>3, <1>e DEF Effects
<2> QED
    BY <2>1 DEF CloseOnceEff, AfterClose
<1>4. ASSUME NEW p \in Goroutines, CloseDispatch(p) PROVE Early'
    BY <1>4 DEF CloseDispatch, CallReconnecting
<1>5. ASSUME NEW p \in Goroutines, CloseEnd(p) PROVE Early'
<2>1. CloseEndEff(p)
    BY <1>5, <1>e DEF Effects
<2> QED
    BY <2>1 DEF CloseEndEff, AfterClose
<1>6. ASSUME NEW p \in Goroutines, RecEnter(p) PROVE Early'
<2>1. RecEnterEff(p)
    BY <1>6, <1>e DEF Effects
<2> QED
    BY <2>1 DEF RecEnterEff, AfterRec, CanLock
<1>7. ASSUME NEW p \in Goroutines, RecWait(p) PROVE Early'
    BY <1>7 DEF RecWait
<1>8. ASSUME NEW p \in Goroutines, RecLeave(p) PROVE Early'
<2>1. RecLeaveEff(p)
    BY <1>8, <1>e DEF Effects
<2> QED
    BY <2>1 DEF RecLeaveEff, AfterRec, CanLock
<1>9. ASSUME NEW p \in {Main, Reconnector}, DialLock(p) PROVE Early'
    BY <1>9 DEF DialLock, CanLock
<1>10. ASSUME NEW p \in {Main, Reconnector}, DialFail(p) PROVE Early'
    BY <1>10 DEF DialFail, Unlock
<1>11. ASSUME NEW p \in {Main, Reconnector}, DialOnPacket(p) PROVE Early'
    BY <1>11 DEF DialOnPacket
<1>12. ASSUME NEW p \in {Main, Reconnector}, DialOnClose(p) PROVE Early'
    BY <1>12 DEF DialOnClose, Unlock
<1>13. ASSUME NEW p \in {Main, Reconnector}, NEW c \in Conns, DialOk(p, c) PROVE Early'
    BY <1>13 DEF DialOk
<1>14. ASSUME NEW p \in Callers, DoNil(p) PROVE UNCHANGED <<pc, conn, connState>>
    BY <1>14 DEF DoNil, RLock
<1>15. ASSUME NEW p \in Callers, DoWrite(p) PROVE Early'
    BY <1>15 DEF DoWrite, RLock
<1>16. ASSUME NEW p \in Callers, DoWriteErr(p) PROVE Early'
    BY <1>16 DEF DoWriteErr, DoEnd, DoRet
<1>17. ASSUME NEW p \in Callers, DoRegister(p) PROVE Early'
    BY <1>17 DEF DoRegister
<1>18. ASSUME NEW p \in Callers, DoReceive(p) PROVE Early'
<2>1. RecvEndEff(p)
    BY <1>18, <1>e DEF Effects
<2> QED
    BY <2>1 DEF RecvEndEff, AfterDo
<1>19. ASSUME NEW p \in Callers, DoTimeout(p) PROVE Early'
<2>1. RecvEndEff(p)
    BY <1>19, <1>e DEF Effects
<2> QED
    BY <2>1 DEF RecvEndEff, AfterDo
<1>20. ASSUME NEW p \in UserProcs \cup {Reconnector}, ClBegin(p) PROVE Early'
<2>1. ClBeginEff(p)
    BY <1>20, <1>e DEF Effects
<2> QED
    BY <2>1 DEF ClBeginEff
<1>21. ASSUME NEW p \in UserProcs \cup {Reconnector}, ClRLock(p) PROVE Early'
    BY <1>21 DEF ClRLock, RLock, CallClose
<1>22. ASSUME NEW p \in UserProcs \cup {Reconnector}, ClEnd(p) PROVE Early'
    BY <1>22 DEF ClEnd, RUnlock
<1>23. ASSUME AuthExpire PROVE UNCHANGED <<pc, conn, connState>>
    BY <1>23 DEF AuthExpire
<1>24. ASSUME MainDialed PROVE Early'
    BY <1>24 DEF MainDialed
<1>25. ASSUME MainAuthed PROVE Early'
    BY <1>25 DEF MainAuthed, Granted
<1>26. ASSUME RcTry PROVE Early'
    BY <1>26 DEF RcTry, CallClose
<1>27. ASSUME RcClear PROVE Early'
    BY <1>27 DEF RcClear
<1>28. ASSUME RcDialed PROVE Early'
    BY <1>28 DEF RcDialed, CallDo
<1>29. ASSUME RcAuthed PROVE Early'
    BY <1>29 DEF RcAuthed, Granted
<1>30. ASSUME RcResumed PROVE Early'
    BY <1>30 DEF RcResumed, Granted
<1>31. ASSUME RcAfter PROVE Early'
    BY <1>31 DEF RcAfter, CallDo
<1>32. ASSUME KaExit PROVE Early'
    BY <1>32 DEF KaExit
<1>33. ASSUME KaTimeout PROVE Early'
    BY <1>33 DEF KaTimeout, CallReconnecting
<1>34. ASSUME KaPing PROVE Early'
    BY <1>34 DEF KaPing, CallReconnecting
<1>35. ASSUME NEW p \in UserProcs, UserDo(p) PROVE Early'
    BY <1>35 DEF UserDo, CallDo
<1>36. ASSUME NEW p \in UserProcs, UserClose(p) PROVE Early'
    BY <1>36 DEF UserClose
<1>37. ASSUME NEW c \in Conns, ReaderResponse(c) \/ ReaderServer(c) PROVE UNCHANGED <<pc,
    conn, connState>>
    BY <1>37 DEF ReaderResponse, ReaderPacket, ReaderServer
<1>38. ASSUME NEW c \in Conns, ReaderFail(c) PROVE Early'
    BY <1>38 DEF ReaderFail, CallClose
<1>42. ASSUME NEW c \in Conns, SrvEnd(c) PROVE Early'
    BY <1>42 DEF SrvEnd, RUnlock, CallReconnecting, CsBack
<1>43. ASSUME NEW c \in Conns, CsDrained(c) PROVE Early'
    BY <1>43 DEF CsDrained, CallReconnecting
<1>44. ASSUME NEW c \in Conns, CsFin(c) PROVE Early'
    BY <1>44 DEF CsFin
<1> QED
    BY SMTT(30), <1>0, <1>1, <1>2, <1>3, <1>4, <1>5, <1>6, <1>7, <1>8, <1>9, <1>10, <1>11, <1>12,
        <1>13, <1>14, <1>15, <1>16, <1>17, <1>18, <1>19, <1>20, <1>21, <1>22, <1>23, <1>24,
        <1>25, <1>26, <1>27, <1>28, <1>29, <1>30, <1>31, <1>32, <1>33, <1>34, <1>35, <1>36,
        <1>37, <1>38, <1>39, <1>42, <1>43, <1>44 DEF Next, Environment, Step,
        CloseStep, RecStep, DialStep, DoStep, ClStep, MainStep, RcStep, KaStep, CsStep

\* Reader and consumer start with their connection's dial and never before.
LEMMA BornNext == TypeOK /\ PcOK /\ Early /\ Born /\ DialLocks /\ Next => Born'
<1> SUFFICES ASSUME TypeOK, PcOK, Early, Born, DialLocks, Next PROVE Born'
    OBVIOUS
<1>e. Effects
    BY EffectsHold
<1>24. ASSUME MainDialed PROVE Born'
    <2>1. UNCHANGED <<connState, packetCh, conn>>
        BY <1>24 DEF MainDialed, connVars
    <2>2. \E l \in {"do_rlock", "m_err", "m_ok"} :
              pc' = [pc EXCEPT ![Main] = l, ![Keepalive] = "ka_idle"]
        BY <1>24 DEF MainDialed
    <2>3. \A q \in Goroutines \ {Main, Keepalive} : pc'[q] = pc[q]
        BY <2>2 DEF TypeOK, GoroutineTypes
    <2>4. pc'[Main] # "dial_onpacket" /\ pc'[Keepalive] # "dial_onpacket"
        BY <2>2, Procs, Distinct DEF TypeOK, GoroutineTypes
    <2>5. \A d \in Conns : pc'[Reader(d)] = pc[Reader(d)] /\ pc'[Consumer(d)] = pc[Consumer(d)]
        BY <2>3, Procs, Distinct
    <2>6. \A q \in Goroutines : pc'[q] = "dial_onpacket" => pc[q] = "dial_onpacket"
        BY <2>3, <2>4
    <2> QED
        BY <2>1, <2>5, <2>6 DEF Born
<1> USE ClientAssumption, Procs, Distinct DEF TypeOK, GoroutineTypes, ConnTypes, PcOK,
    Early, Born, DialLocks, DialL, DoL, ClL, CloseL, RecL, At, Goto, lockVars, sessVars,
    shutVars, retVars, reqVars, connVars
<1>0. UNCHANGED <<pc, connState, packetCh, conn>> => Born'
    OBVIOUS
<1>1. ASSUME NEW p \in Goroutines, Announce(p) PROVE UNCHANGED <<pc, connState, packetCh,
    conn>>
    BY <1>1 DEF Announce
<1>2. ASSUME NEW p \in Goroutines, CloseCheck(p) PROVE Born'
<2>1. CloseCheckEff(p)
    BY <1>2, <1>e DEF Effects
<2> QED
    BY <2>1 DEF CloseCheckEff, AfterClose
<1>3. ASSUME NEW p \in Goroutines, CloseOnce(p) PROVE Born'
<2>1. CloseOnceEff(p)
    BY <1>3, <1>e DEF Effects
<2> QED
    BY <2>1 DEF CloseOnceEff, AfterClose
<1>4. ASSUME NEW p \in Goroutines, CloseDispatch(p) PROVE Born'
    BY <1>4 DEF CloseDispatch, CallReconnecting
<1>5. ASSUME NEW p \in Goroutines, CloseEnd(p) PROVE Born'
<2>1. CloseEndEff(p)
    BY <1>5, <1>e DEF Effects
<2> QED
    BY <2>1 DEF CloseEndEff, AfterClose
<1>6. ASSUME NEW p \in Goroutines, RecEnter(p) PROVE Born'
<2>1. RecEnterEff(p)
    BY <1>6, <1>e DEF Effects
<2> QED
    BY <2>1 DEF RecEnterEff, AfterRec, CanLock
<1>7. ASSUME NEW p \in Goroutines, RecWait(p) PROVE Born'
    BY <1>7 DEF RecWait
<1>8. ASSUME NEW p \in Goroutines, RecLeave(p) PROVE Born'
<2>1. RecLeaveEff(p)
    BY <1>8, <1>e DEF Effects
<2> QED
    BY <2>1 DEF RecLeaveEff, AfterRec, CanLock
<1>9. ASSUME NEW p \in {Main, Reconnector}, DialLock(p) PROVE Born'
    BY <1>9 DEF DialLock, CanLock
<1>10. ASSUME NEW p \in {Main, Reconnector}, DialFail(p) PROVE Born'
    BY <1>10 DEF DialFail, Unlock
<1>11. ASSUME NEW p \in {Main, Reconnector}, DialOnPacket(p) PROVE Born'
    BY <1>11 DEF DialOnPacket
<1>12. ASSUME NEW p \in {Main, Reconnector}, DialOnClose(p) PROVE Born'
    BY <1>12 DEF DialOnClose, Unlock
<1>13. ASSUME NEW p \in {Main, Reconnector}, NEW c \in Conns, DialOk(p, c) PROVE Born'
    BY <1>13 DEF DialOk
<1>14. ASSUME NEW p \in Callers, DoNil(p) PROVE UNCHANGED <<pc, connState, packetCh, conn>>
    BY <1>14 DEF DoNil, RLock
<1>15. ASSUME NEW p \in Callers, DoWrite(p) PROVE Born'
    BY <1>15 DEF DoWrite, RLock
<1>16. ASSUME NEW p \in Callers, DoWriteErr(p) PROVE Born'
    BY <1>16 DEF DoWriteErr, DoEnd, DoRet
<1>17. ASSUME NEW p \in Callers, DoRegister(p) PROVE Born'
    BY <1>17 DEF DoRegister
<1>18. ASSUME NEW p \in Callers, DoReceive(p) PROVE Born'
<2>1. RecvEndEff(p)
    BY <1>18, <1>e DEF Effects
<2> QED
    BY <2>1 DEF RecvEndEff, AfterDo
<1>19. ASSUME NEW p \in Callers, DoTimeout(p) PROVE Born'
<2>1. RecvEndEff(p)
    BY <1>19, <1>e DEF Effects
<2> QED
    BY <2>1 DEF RecvEndEff, AfterDo
<1>20. ASSUME NEW p \in UserProcs \cup {Reconnector}, ClBegin(p) PROVE Born'
<2>1. ClBeginEff(p)
    BY <1>20, <1>e DEF Effects
<2> QED
    BY <2>1 DEF ClBeginEff
<1>21. ASSUME NEW p \in UserProcs \cup {Reconnector}, ClRLock(p) PROVE Born'
    BY <1>21 DEF ClRLock, RLock, CallClose
<1>22. ASSUME NEW p \in UserProcs \cup {Reconnector}, ClEnd(p) PROVE Born'
    BY <1>22 DEF ClEnd, RUnlock
<1>23. ASSUME AuthExpire PROVE UNCHANGED <<pc, connState, packetCh, conn>>
    BY <1>23 DEF AuthExpire
<1>25. ASSUME MainAuthed PROVE Born'
    BY <1>25 DEF MainAuthed, Granted
<1>26. ASSUME RcTry PROVE Born'
    BY <1>26 DEF RcTry, CallClose
<1>27. ASSUME RcClear PROVE Born'
    BY <1>27 DEF RcClear
<1>28. ASSUME RcDialed PROVE Born'
    BY <1>28 DEF RcDialed, CallDo
<1>29. ASSUME RcAuthed PROVE Born'
    BY <1>29 DEF RcAuthed, Granted
<1>30. ASSUME RcResumed PROVE Born'
    BY <1>30 DEF RcResumed, Granted
<1>31. ASSUME RcAfter PROVE Born'
    BY <1>31 DEF RcAfter, CallDo
<1>32. ASSUME KaExit PROVE Born'
    BY <1>32 DEF KaExit
<1>33. ASSUME KaTimeout PROVE Born'
    BY <1>33 DEF KaTimeout, CallReconnecting
<1>34. ASSUME KaPing PROVE Born'
    BY <1>34 DEF KaPing, CallReconnecting
<1>35. ASSUME NEW p \in UserProcs, UserDo(p) PROVE Born'
    BY <1>35 DEF UserDo, CallDo
<1>36. ASSUME NEW p \in UserProcs, UserClose(p) PROVE Born'
    BY <1>36 DEF UserClose
<1>37. ASSUME NEW c \in Conns, ReaderResponse(c) \/ ReaderServer(c) PROVE UNCHANGED <<pc,
    connState, packetCh, conn>>
    BY <1>37 DEF ReaderResponse, ReaderPacket, ReaderServer
<1>38. ASSUME NEW c \in Conns, ReaderFail(c) PROVE Born'
    BY <1>38 DEF ReaderFail, CallClose
<1>39. ASSUME NEW c \in Conns, CsTop(c) PROVE Born'
    BY <1>39 DEF CsTop
<1>40. ASSUME NEW c \in Conns, CsTake(c) PROVE Born'
<2>1. CsTakeEff(c)
    BY <1>40, <1>e DEF Effects
<2> QED
    BY <2>1 DEF CsTakeEff
<1>41. ASSUME NEW c \in Conns, SrvRLock(c) PROVE Born'
    BY <1>41 DEF SrvRLock, RLock, CallClose
<1>42. ASSUME NEW c \in Conns, SrvEnd(c) PROVE Born'
    BY <1>42 DEF SrvEnd, RUnlock, CallReconnecting, CsBack
<1>43. ASSUME NEW c \in Conns, CsDrained(c) PROVE Born'
    BY <1>43 DEF CsDrained, CallReconnecting
<1>44. ASSUME NEW c \in Conns, CsFin(c) PROVE Born'
    BY <1>44 DEF CsFin
<1> QED
    BY SMTT(30), <1>0, <1>1, <1>2, <1>3, <1>4, <1>5, <1>6, <1>7, <1>8, <1>9, <1>10, <1>11, <1>12,
        <1>13, <1>14, <1>15, <1>16, <1>17, <1>18, <1>19, <1>20, <1>21, <1>22, <1>23, <1>24,
        <1>25, <1>26, <1>27, <1>28, <1>29, <1>30, <1>31, <1>32, <1>33, <1>34, <1>35, <1>36,
        <1>37, <1>38, <1>39, <1>40, <1>41, <1>42, <1>43, <1>44 DEF Next, Environment, Step,
        CloseStep, RecStep, DialStep, DoStep, ClStep, MainStep, RcStep, KaStep, CsStep

\* dial holds the client's lock from its first step to its last.
LEMMA DialLocksNext == TypeOK /\ PcOK /\ DialLocks /\ Next => DialLocks'
<1> SUFFICES ASSUME TypeOK, PcOK, DialLocks, Next PROVE DialLocks'
    OBVIOUS
<1>e. Effects
    BY EffectsHold
<1> USE ClientAssumption, Procs, Distinct DEF TypeOK, GoroutineTypes, PcOK, DialLocks,
    DialL, DoL, ClL, CloseL, RecL, At, Goto, lockVars, sessVars, shutVars, retVars, reqVars,
    connVars
<1>0. UNCHANGED <<pc, writer, readers>> => DialLocks'
    OBVIOUS
<1>1. ASSUME NEW p \in Goroutines, Announce(p) PROVE DialLocks'
    BY <1>1 DEF Announce, LockLabels
<1>2. ASSUME NEW p \in Goroutines, CloseCheck(p) PROVE DialLocks'
<2>1. CloseCheckEff(p)
    BY <1>2, <1>e DEF Effects
<2> QED
    BY <2>1 DEF CloseCheckEff, AfterClose
<1>3. ASSUME NEW p \in Goroutines, CloseOnce(p) PROVE DialLocks'
<2>1. CloseOnceEff(p)
    BY <1>3, <1>e DEF Effects
<2> QED
    BY <2>1 DEF CloseOnceEff, AfterClose
<1>4. ASSUME NEW p \in Goroutines, CloseDispatch(p) PROVE DialLocks'
    BY <1>4 DEF CloseDispatch, CallReconnecting
<1>5. ASSUME NEW p \in Goroutines, CloseEnd(p) PROVE DialLocks'
<2>1. CloseEndEff(p)
    BY <1>5, <1>e DEF Effects
<2> QED
    BY <2>1 DEF CloseEndEff, AfterClose
<1>6. ASSUME NEW p \in Goroutines, RecEnter(p) PROVE DialLocks'
<2>1. RecEnterEff(p)
    BY <1>6, <1>e DEF Effects
<2> QED
    BY <2>1 DEF RecEnterEff, AfterRec, CanLock
<1>7. ASSUME NEW p \in Goroutines, RecWait(p) PROVE DialLocks'
    BY <1>7 DEF RecWait
<1>8. ASSUME NEW p \in Goroutines, RecLeave(p) PROVE DialLocks'
<2>1. RecLeaveEff(p)
    BY <1>8, <1>e DEF Effects
<2> QED
    BY <2>1 DEF RecLeaveEff, AfterRec, CanLock
<1>9. ASSUME NEW p \in {Main, Reconnector}, DialLock(p) PROVE DialLocks'
    BY <1>9 DEF DialLock, CanLock
<1>10. ASSUME NEW p \in {Main, Reconnector}, DialFail(p) PROVE DialLocks'
    BY <1>10 DEF DialFail, Unlock
<1>11. ASSUME NEW p \in {Main, Reconnector}, DialOnPacket(p) PROVE DialLocks'
    BY <1>11 DEF DialOnPacket
<1>12. ASSUME NEW p \in {Main, Reconnector}, DialOnClose(p) PROVE DialLocks'
    BY <1>12 DEF DialOnClose, Unlock
<1>13. ASSUME NEW p \in {Main, Reconnector}, NEW c \in Conns, DialOk(p, c) PROVE DialLocks'
    BY <1>13 DEF DialOk
<1>14. ASSUME NEW p \in Callers, DoNil(p) PROVE DialLocks'
    BY <1>14 DEF DoNil, RLock, Panic
<1>15. ASSUME NEW p \in Callers, DoWrite(p) PROVE DialLocks'
    BY <1>15 DEF DoWrite, RLock
<1>16. ASSUME NEW p \in Callers, DoWriteErr(p) PROVE DialLocks'
    BY <1>16 DEF DoWriteErr, DoEnd, DoRet
<1>17. ASSUME NEW p \in Callers, DoRegister(p) PROVE DialLocks'
    BY <1>17 DEF DoRegister
<1>18. ASSUME NEW p \in Callers, DoReceive(p) PROVE DialLocks'
<2>1. RecvEndEff(p)
    BY <1>18, <1>e DEF Effects
<2> QED
    BY <2>1 DEF RecvEndEff, AfterDo
<1>19. ASSUME NEW p \in Callers, DoTimeout(p) PROVE DialLocks'
<2>1. RecvEndEff(p)
    BY <1>19, <1>e DEF Effects
<2> QED
    BY <2>1 DEF RecvEndEff, AfterDo
<1>20. ASSUME NEW p \in UserProcs \cup {Reconnector}, ClBegin(p) PROVE DialLocks'
<2>1. ClBeginEff(p)
    BY <1>20, <1>e DEF Effects
<2> QED
    BY <2>1 DEF ClBeginEff
<1>21. ASSUME NEW p \in UserProcs \cup {Reconnector}, ClRLock(p) PROVE DialLocks'
    BY <1>21 DEF ClRLock, RLock, CallClose
<1>22. ASSUME NEW p \in UserProcs \cup {Reconnector}, ClEnd(p) PROVE DialLocks'
    BY <1>22 DEF ClEnd, RUnlock
<1>23. ASSUME AuthExpire PROVE UNCHANGED <<pc, writer, readers>>
    BY <1>23 DEF AuthExpire
<1>24. ASSUME MainDialed PROVE DialLocks'
    BY <1>24 DEF MainDialed
<1>25. ASSUME MainAuthed PROVE DialLocks'
    BY <1>25 DEF MainAuthed, Granted
<1>26. ASSUME RcTry PROVE DialLocks'
    BY <1>26 DEF RcTry, CallClose
<1>27. ASSUME RcClear PROVE DialLocks'
    BY <1>27 DEF RcClear
<1>28. ASSUME RcDialed PROVE DialLocks'
    BY <1>28 DEF RcDialed, CallDo
<1>29. ASSUME RcAuthed PROVE DialLocks'
    BY <1>29 DEF RcAuthed, Granted
<1>30. ASSUME RcResumed PROVE DialLocks'
    BY <1>30 DEF RcResumed, Granted
<1>31. ASSUME RcAfter PROVE DialLocks'
    BY <1>31 DEF RcAfter, CallDo
<1>32. ASSUME KaExit PROVE DialLocks'
    BY <1>32 DEF KaExit
<1>33. ASSUME KaTimeout PROVE DialLocks'
    BY <1>33 DEF KaTimeout, CallReconnecting
<1>34. ASSUME KaPing PROVE DialLocks'
    BY <1>34 DEF KaPing, CallReconnecting
<1>35. ASSUME NEW p \in UserProcs, UserDo(p) PROVE DialLocks'
    BY <1>35 DEF UserDo, CallDo
<1>36. ASSUME NEW p \in UserProcs, UserClose(p) PROVE DialLocks'
    BY <1>36 DEF UserClose
<1>37. ASSUME NEW c \in Conns, ReaderResponse(c) \/ ReaderServer(c) PROVE UNCHANGED <<pc,
    writer, readers>>
    BY <1>37 DEF ReaderResponse, ReaderPacket, ReaderServer
<1>38. ASSUME NEW c \in Conns, ReaderFail(c) PROVE DialLocks'
    BY <1>38 DEF ReaderFail, CallClose
<1>39. ASSUME NEW c \in Conns, CsTop(c) PROVE DialLocks'
    BY <1>39 DEF CsTop
<1>40. ASSUME NEW c \in Conns, CsTake(c) PROVE DialLocks'
<2>1. CsTakeEff(c)
    BY <1>40, <1>e DEF Effects
<2> QED
    BY <2>1 DEF CsTakeEff
<1>41. ASSUME NEW c \in Conns, SrvRLock(c) PROVE DialLocks'
    BY <1>41 DEF SrvRLock, RLock, CallClose
<1>42. ASSUME NEW c \in Conns, SrvEnd(c) PROVE DialLocks'
    BY <1>42 DEF SrvEnd, RUnlock, CallReconnecting, CsBack
<1>43. ASSUME NEW c \in Conns, CsDrained(c) PROVE DialLocks'
    BY <1>43 DEF CsDrained, CallReconnecting
<1>44. ASSUME NEW c \in Conns, CsFin(c) PROVE DialLocks'
    BY <1>44 DEF CsFin
<1> QED
    BY SMTT(30), <1>0, <1>1, <1>2, <1>3, <1>4, <1>5, <1>6, <1>7, <1>8, <1>9, <1>10, <1>11, <1>12,
        <1>13, <1>14, <1>15, <1>16, <1>17, <1>18, <1>19, <1>20, <1>21, <1>22, <1>23, <1>24,
        <1>25, <1>26, <1>27, <1>28, <1>29, <1>30, <1>31, <1>32, <1>33, <1>34, <1>35, <1>36,
        <1>37, <1>38, <1>39, <1>40, <1>41, <1>42, <1>43, <1>44 DEF Next, Environment, Step,
        CloseStep, RecStep, DialStep, DoStep, ClStep, MainStep, RcStep, KaStep, CsStep

\* The doReconnectting flag, read and set under the lock, admits one
\* reconnect.
LEMMA SingleReconnectNext ==
    TypeOK /\ PcOK /\ Early /\ Born /\ SingleReconnect /\ Next
        => SingleReconnect'
<1> SUFFICES ASSUME TypeOK, PcOK, Early, Born, SingleReconnect, Next PROVE SingleReconnect'
    OBVIOUS
<1>e. Effects
    BY EffectsHold
<1> USE ClientAssumption, Procs, Distinct DEF TypeOK, GoroutineTypes, PcOK, Early, Born,
    SingleReconnect, Rec, RcOff, DialL, DoL, ClL, CloseL, RecL, At, Goto, lockVars,
    sessVars, shutVars, retVars, reqVars, connVars
<1>0. UNCHANGED <<pc, doReconnectting>> => SingleReconnect'
    OBVIOUS
<1>1. ASSUME NEW p \in Goroutines, Announce(p) PROVE UNCHANGED <<pc, doReconnectting>>
    BY <1>1 DEF Announce
<1>2. ASSUME NEW p \in Goroutines, CloseCheck(p) PROVE SingleReconnect'
<2>1. CloseCheckEff(p)
    BY <1>2, <1>e DEF Effects
<2> QED
    BY <2>1 DEF CloseCheckEff, AfterClose
<1>3. ASSUME NEW p \in Goroutines, CloseOnce(p) PROVE SingleReconnect'
<2>1. CloseOnceEff(p)
    BY <1>3, <1>e DEF Effects
<2> QED
    BY <2>1 DEF CloseOnceEff, AfterClose
<1>4. ASSUME NEW p \in Goroutines, CloseDispatch(p) PROVE SingleReconnect'
    BY <1>4 DEF CloseDispatch, CallReconnecting
<1>5. ASSUME NEW p \in Goroutines, CloseEnd(p) PROVE SingleReconnect'
<2>1. CloseEndEff(p)
    BY <1>5, <1>e DEF Effects
<2> QED
    BY <2>1 DEF CloseEndEff, AfterClose
<1>6. ASSUME NEW p \in Goroutines, RecEnter(p) PROVE SingleReconnect'
<2>1. RecEnterEff(p)
    BY <1>6, <1>e DEF Effects
<2> QED
    BY <2>1 DEF RecEnterEff, AfterRec, CanLock
<1>7. ASSUME NEW p \in Goroutines, RecWait(p) PROVE SingleReconnect'
    BY <1>7 DEF RecWait
<1>8. ASSUME NEW p \in Goroutines, RecLeave(p) PROVE SingleReconnect'
<2>1. RecLeaveEff(p)
    BY <1>8, <1>e DEF Effects
<2> QED
    BY <2>1 DEF RecLeaveEff, AfterRec, CanLock
<1>9. ASSUME NEW p \in {Main, Reconnector}, DialLock(p) PROVE SingleReconnect'
    BY <1>9 DEF DialLock, CanLock
<1>10. ASSUME NEW p \in {Main, Reconnector}, DialFail(p) PROVE SingleReconnect'
    BY <1>10 DEF DialFail, Unlock
<1>11. ASSUME NEW p \in {Main, Reconnector}, DialOnPacket(p) PROVE SingleReconnect'
    BY <1>11 DEF DialOnPacket
<1>12. ASSUME NEW p \in {Main, Reconnector}, DialOnClose(p) PROVE SingleReconnect'
    BY <1>12 DEF DialOnClose, Unlock
<1>13. ASSUME NEW p \in {Main, Reconnector}, NEW c \in Conns, DialOk(p, c) PROVE
    SingleReconnect'
    BY <1>13 DEF DialOk
<1>14. ASSUME NEW p \in Callers, DoNil(p) PROVE UNCHANGED <<pc, doReconnectting>>
    BY <1>14 DEF DoNil, RLock
<1>15. ASSUME NEW p \in Callers, DoWrite(p) PROVE SingleReconnect'
    BY <1>15 DEF DoWrite, RLock
<1>16. ASSUME NEW p \in Callers, DoWriteErr(p) PROVE SingleReconnect'
    BY <1>16 DEF DoWriteErr, DoEnd, DoRet
<1>17. ASSUME NEW p \in Callers, DoRegister(p) PROVE SingleReconnect'
    BY <1>17 DEF DoRegister
<1>18. ASSUME NEW p \in Callers, DoReceive(p) PROVE SingleReconnect'
<2>1. RecvEndEff(p)
    BY <1>18, <1>e DEF Effects
<2> QED
    BY <2>1 DEF RecvEndEff, AfterDo
<1>19. ASSUME NEW p \in Callers, DoTimeout(p) PROVE SingleReconnect'
<2>1. RecvEndEff(p)
    BY <1>19, <1>e DEF Effects
<2> QED
    BY <2>1 DEF RecvEndEff, AfterDo
<1>20. ASSUME NEW p \in UserProcs \cup {Reconnector}, ClBegin(p) PROVE SingleReconnect'
<2>1. ClBeginEff(p)
    BY <1>20, <1>e DEF Effects
<2> QED
    BY <2>1 DEF ClBeginEff
<1>21. ASSUME NEW p \in UserProcs \cup {Reconnector}, ClRLock(p) PROVE SingleReconnect'
    BY <1>21 DEF ClRLock, RLock, CallClose
<1>22. ASSUME NEW p \in UserProcs \cup {Reconnector}, ClEnd(p) PROVE SingleReconnect'
    BY <1>22 DEF ClEnd, RUnlock
<1>23. ASSUME AuthExpire PROVE UNCHANGED <<pc, doReconnectting>>
    BY <1>23 DEF AuthExpire
<1>24. ASSUME MainDialed PROVE SingleReconnect'
    BY <1>24 DEF MainDialed
<1>25. ASSUME MainAuthed PROVE SingleReconnect'
    BY <1>25 DEF MainAuthed, Granted
<1>26. ASSUME RcTry PROVE SingleReconnect'
    BY <1>26 DEF RcTry, CallClose
<1>27. ASSUME RcClear PROVE SingleReconnect'
    BY <1>27 DEF RcClear
<1>28. ASSUME RcDialed PROVE SingleReconnect'
    BY <1>28 DEF RcDialed, CallDo
<1>29. ASSUME RcAuthed PROVE SingleReconnect'
    BY <1>29 DEF RcAuthed, Granted
<1>30. ASSUME RcResumed PROVE SingleReconnect'
    BY <1>30 DEF RcResumed, Granted
<1>31. ASSUME RcAfter PROVE SingleReconnect'
    BY <1>31 DEF RcAfter, CallDo
<1>32. ASSUME KaExit PROVE SingleReconnect'
    BY <1>32 DEF KaExit
<1>33. ASSUME KaTimeout PROVE SingleReconnect'
    BY <1>33 DEF KaTimeout, CallReconnecting
<1>34. ASSUME KaPing PROVE SingleReconnect'
    BY <1>34 DEF KaPing, CallReconnecting
<1>35. ASSUME NEW p \in UserProcs, UserDo(p) PROVE SingleReconnect'
    BY <1>35 DEF UserDo, CallDo
<1>36. ASSUME NEW p \in UserProcs, UserClose(p) PROVE SingleReconnect'
    BY <1>36 DEF UserClose
<1>37. ASSUME NEW c \in Conns, ReaderResponse(c) \/ ReaderServer(c) PROVE UNCHANGED <<pc,
    doReconnectting>>
    BY <1>37 DEF ReaderResponse, ReaderPacket, ReaderServer
<1>38. ASSUME NEW c \in Conns, ReaderFail(c) PROVE SingleReconnect'
    BY <1>38 DEF ReaderFail, CallClose
<1>39. ASSUME NEW c \in Conns, CsTop(c) PROVE SingleReconnect'
    BY <1>39 DEF CsTop
<1>40. ASSUME NEW c \in Conns, CsTake(c) PROVE SingleReconnect'
<2>1. CsTakeEff(c)
    BY <1>40, <1>e DEF Effects
<2> QED
    BY <2>1 DEF CsTakeEff
<1>41. ASSUME NEW c \in Conns, SrvRLock(c) PROVE SingleReconnect'
    BY <1>41 DEF SrvRLock, RLock, CallClose
<1>42. ASSUME NEW c \in Conns, SrvEnd(c) PROVE SingleReconnect'
    BY <1>42 DEF SrvEnd, RUnlock, CallReconnecting, CsBack
<1>43. ASSUME NEW c \in Conns, CsDrained(c) PROVE SingleReconnect'
    BY <1>43 DEF CsDrained, CallReconnecting
<1>44. ASSUME NEW c \in Conns, CsFin(c) PROVE SingleReconnect'
    BY <1>44 DEF CsFin
<1> QED
    BY SMTT(30), <1>0, <1>1, <1>2, <1>3, <1>4, <1>5, <1>6, <1>7, <1>8, <1>9, <1>10, <1>11, <1>12,
        <1>13, <1>14, <1>15, <1>16, <1>17, <1>18, <1>19, <1>20, <1>21, <1>22, <1>23, <1>24,
        <1>25, <1>26, <1>27, <1>28, <1>29, <1>30, <1>31, <1>32, <1>33, <1>34, <1>35, <1>36,
        <1>37, <1>38, <1>39, <1>40, <1>41, <1>42, <1>43, <1>44 DEF Next, Environment, Step,
        CloseStep, RecStep, DialStep, DoStep, ClStep, MainStep, RcStep, KaStep, CsStep

\* dial waits for the requests in flight before it replaces c.conn.
LEMMA InFlightNext ==
    TypeOK /\ PcOK /\ DialLocks /\ InFlightOnCurrent /\ Next
        => InFlightOnCurrent'
<1> SUFFICES ASSUME TypeOK, PcOK, DialLocks, InFlightOnCurrent, Next PROVE InFlightOnCurrent'
    OBVIOUS
<1>e. Effects
    BY EffectsHold
<1> USE ClientAssumption, Procs, Distinct DEF TypeOK, GoroutineTypes, RequestTypes, PcOK,
    DialLocks, InFlightOnCurrent, InDo, DialL, DoL, ClL, CloseL, RecL, At, Goto, lockVars,
    sessVars, shutVars, retVars, reqVars, connVars
<1>0. UNCHANGED <<pc, readers, reqConn, conn>> => InFlightOnCurrent'
    OBVIOUS
<1>1. ASSUME NEW p \in Goroutines, Announce(p) PROVE UNCHANGED <<pc, readers, reqConn,
    conn>>
    BY <1>1 DEF Announce
<1>2. ASSUME NEW p \in Goroutines, CloseCheck(p) PROVE InFlightOnCurrent'
<2>1. CloseCheckEff(p)
    BY <1>2, <1>e DEF Effects
<2> QED
    BY <2>1 DEF CloseCheckEff, AfterClose
<1>3. ASSUME NEW p \in Goroutines, CloseOnce(p) PROVE InFlightOnCurrent'
<2>1. CloseOnceEff(p)
    BY <1>3, <1>e DEF Effects
<2> QED
    BY <2>1 DEF CloseOnceEff, AfterClose
<1>4. ASSUME NEW p \in Goroutines, CloseDispatch(p) PROVE InFlightOnCurrent'
    BY <1>4 DEF CloseDispatch, CallReconnecting
<1>5. ASSUME NEW p \in Goroutines, CloseEnd(p) PROVE InFlightOnCurrent'
<2>1. CloseEndEff(p)
    BY <1>5, <1>e DEF Effects
<2> QED
    BY <2>1 DEF CloseEndEff, AfterClose
<1>6. ASSUME NEW p \in Goroutines, RecEnter(p) PROVE InFlightOnCurrent'
<2>1. RecEnterEff(p)
    BY <1>6, <1>e DEF Effects
<2> QED
    BY <2>1 DEF RecEnterEff, AfterRec, CanLock
<1>7. ASSUME NEW p \in Goroutines, RecWait(p) PROVE InFlightOnCurrent'
    BY <1>7 DEF RecWait
<1>8. ASSUME NEW p \in Goroutines, RecLeave(p) PROVE InFlightOnCurrent'
<2>1. RecLeaveEff(p)
    BY <1>8, <1>e DEF Effects
<2> QED
    BY <2>1 DEF RecLeaveEff, AfterRec, CanLock
<1>9. ASSUME NEW p \in {Main, Reconnector}, DialLock(p) PROVE InFlightOnCurrent'
    BY <1>9 DEF DialLock, CanLock
<1>10. ASSUME NEW p \in {Main, Reconnector}, DialFail(p) PROVE InFlightOnCurrent'
    BY <1>10 DEF DialFail, Unlock
<1>11. ASSUME NEW p \in {Main, Reconnector}, DialOnPacket(p) PROVE InFlightOnCurrent'
    BY <1>11 DEF DialOnPacket
<1>12. ASSUME NEW p \in {Main, Reconnector}, DialOnClose(p) PROVE InFlightOnCurrent'
    BY <1>12 DEF DialOnClose, Unlock
<1>13. ASSUME NEW p \in {Main, Reconnector}, NEW c \in Conns, DialOk(p, c) PROVE
    InFlightOnCurrent'
    BY <1>13 DEF DialOk
<1>14. ASSUME NEW p \in Callers, DoNil(p) PROVE InFlightOnCurrent'
    BY <1>14 DEF DoNil, RLock, Panic
<1>15. ASSUME NEW p \in Callers, DoWrite(p) PROVE InFlightOnCurrent'
    BY <1>15 DEF DoWrite, RLock
<1>16. ASSUME NEW p \in Callers, DoWriteErr(p) PROVE InFlightOnCurrent'
    BY <1>16 DEF DoWriteErr, DoEnd, DoRet
<1>17. ASSUME NEW p \in Callers, DoRegister(p) PROVE InFlightOnCurrent'
    BY <1>17 DEF DoRegister
<1>18. ASSUME NEW p \in Callers, DoReceive(p) PROVE InFlightOnCurrent'
<2>1. RecvEndEff(p)
    BY <1>18, <1>e DEF Effects
<2> QED
    BY <2>1 DEF RecvEndEff, AfterDo
<1>19. ASSUME NEW p \in Callers, DoTimeout(p) PROVE InFlightOnCurrent'
<2>1. RecvEndEff(p)
    BY <1>19, <1>e DEF Effects
<2> QED
    BY <2>1 DEF RecvEndEff, AfterDo
<1>20. ASSUME NEW p \in UserProcs \cup {Reconnector}, ClBegin(p) PROVE InFlightOnCurrent'
<2>1. ClBeginEff(p)
    BY <1>20, <1>e DEF Effects
<2> QED
    BY <2>1 DEF ClBeginEff
<1>21. ASSUME NEW p \in UserProcs \cup {Reconnector}, ClRLock(p) PROVE InFlightOnCurrent'
    BY <1>21 DEF ClRLock, RLock, CallClose
<1>22. ASSUME NEW p \in UserProcs \cup {Reconnector}, ClEnd(p) PROVE InFlightOnCurrent'
    BY <1>22 DEF ClEnd, RUnlock
<1>23. ASSUME AuthExpire PROVE UNCHANGED <<pc, readers, reqConn, conn>>
    BY <1>23 DEF AuthExpire
<1>24. ASSUME MainDialed PROVE InFlightOnCurrent'
    BY <1>24 DEF MainDialed
<1>25. ASSUME MainAuthed PROVE InFlightOnCurrent'
    BY <1>25 DEF MainAuthed, Granted
<1>26. ASSUME RcTry PROVE InFlightOnCurrent'
    BY <1>26 DEF RcTry, CallClose
<1>27. ASSUME RcClear PROVE InFlightOnCurrent'
    BY <1>27 DEF RcClear
<1>28. ASSUME RcDialed PROVE InFlightOnCurrent'
    BY <1>28 DEF RcDialed, CallDo
<1>29. ASSUME RcAuthed PROVE InFlightOnCurrent'
    BY <1>29 DEF RcAuthed, Granted
<1>30. ASSUME RcResumed PROVE InFlightOnCurrent'
    BY <1>30 DEF RcResumed, Granted
<1>31. ASSUME RcAfter PROVE InFlightOnCurrent'
    BY <1>31 DEF RcAfter, CallDo
<1>32. ASSUME KaExit PROVE InFlightOnCurrent'
    BY <1>32 DEF KaExit
<1>33. ASSUME KaTimeout PROVE InFlightOnCurrent'
    BY <1>33 DEF KaTimeout, CallReconnecting
<1>34. ASSUME KaPing PROVE InFlightOnCurrent'
    BY <1>34 DEF KaPing, CallReconnecting
<1>35. ASSUME NEW p \in UserProcs, UserDo(p) PROVE InFlightOnCurrent'
    BY <1>35 DEF UserDo, CallDo
<1>36. ASSUME NEW p \in UserProcs, UserClose(p) PROVE InFlightOnCurrent'
    BY <1>36 DEF UserClose
<1>37. ASSUME NEW c \in Conns, ReaderResponse(c) \/ ReaderServer(c) PROVE UNCHANGED <<pc,
    readers, reqConn, conn>>
    BY <1>37 DEF ReaderResponse, ReaderPacket, ReaderServer
<1>38. ASSUME NEW c \in Conns, ReaderFail(c) PROVE InFlightOnCurrent'
    BY <1>38 DEF ReaderFail, CallClose
<1>39. ASSUME NEW c \in Conns, CsTop(c) PROVE InFlightOnCurrent'
    BY <1>39 DEF CsTop
<1>40. ASSUME NEW c \in Conns, CsTake(c) PROVE InFlightOnCurrent'
<2>1. CsTakeEff(c)
    BY <1>40, <1>e DEF Effects
<2> QED
    BY <2>1 DEF CsTakeEff
<1>41. ASSUME NEW c \in Conns, SrvRLock(c) PROVE InFlightOnCurrent'
    BY <1>41 DEF SrvRLock, RLock, CallClose
<1>42. ASSUME NEW c \in Conns, SrvEnd(c) PROVE InFlightOnCurrent'
    BY <1>42 DEF SrvEnd, RUnlock, CallReconnecting, CsBack
<1>43. ASSUME NEW c \in Conns, CsDrained(c) PROVE InFlightOnCurrent'
    BY <1>43 DEF CsDrained, CallReconnecting
<1>44. ASSUME NEW c \in Conns, CsFin(c) PROVE InFlightOnCurrent'
    BY <1>44 DEF CsFin
<1> QED
    BY SMTT(30), <1>0, <1>1, <1>2, <1>3, <1>4, <1>5, <1>6, <1>7, <1>8, <1>9, <1>10, <1>11, <1>12,
        <1>13, <1>14, <1>15, <1>16, <1>17, <1>18, <1>19, <1>20, <1>21, <1>22, <1>23, <1>24,
        <1>25, <1>26, <1>27, <1>28, <1>29, <1>30, <1>31, <1>32, <1>33, <1>34, <1>35, <1>36,
        <1>37, <1>38, <1>39, <1>40, <1>41, <1>42, <1>43, <1>44 DEF Next, Environment, Step,
        CloseStep, RecStep, DialStep, DoStep, ClStep, MainStep, RcStep, KaStep, CsStep

-----------------------------------------------------------------------------
\* The actions that enter, advance or leave the part of Do that has sent a request.
DoAction == \E p \in Callers : DoWrite(p) \/ DoRegister(p) \/ DoReceive(p) \/ DoTimeout(p)

\* Every request that was sent is left as it was.
DoQuiet ==
    \A p \in Goroutines :
        /\ pc'[p] = "do_wait" <=> pc[p] = "do_wait"
        /\ pc'[p] = "do_register" <=> pc[p] = "do_register"
        /\ InDo(p) => rid'[p] = rid[p] /\ reqConn'[p] = reqConn[p]

\* A step that is not one of Do leaves the requests that were sent alone.
LEMMA DoQuietNext == TypeOK /\ PcOK /\ Born /\ SingleReconnect /\ Next => DoQuiet \/ DoAction
<1> SUFFICES ASSUME TypeOK, PcOK, Born, SingleReconnect, Next PROVE DoQuiet \/ DoAction
    OBVIOUS
<1>e. Effects
    BY EffectsHold
<1> USE ClientAssumption, Procs, Distinct DEF TypeOK, GoroutineTypes, RequestTypes, PcOK,
    Born, SingleReconnect, DoQuiet, InDo, Rec, RcOff, DialL, DoL, ClL, CloseL, RecL, At,
    Goto, lockVars, sessVars, shutVars, retVars, reqVars, connVars
<1>0. UNCHANGED <<pc, rid, reqConn>> => DoQuiet \/ DoAction
    OBVIOUS
<1>1. ASSUME NEW p \in Goroutines, Announce(p) PROVE UNCHANGED <<pc, rid, reqConn>>
    BY <1>1 DEF Announce
<1>2. ASSUME NEW p \in Goroutines, CloseCheck(p) PROVE DoQuiet \/ DoAction
<2>1. CloseCheckEff(p)
    BY <1>2, <1>e DEF Effects
<2> QED
    BY <2>1 DEF CloseCheckEff, AfterClose
<1>3. ASSUME NEW p \in Goroutines, CloseOnce(p) PROVE DoQuiet \/ DoAction
<2>1. CloseOnceEff(p)
    BY <1>3, <1>e DEF Effects
<2> QED
    BY <2>1 DEF CloseOnceEff, AfterClose
<1>4. ASSUME NEW p \in Goroutines, CloseDispatch(p) PROVE DoQuiet \/ DoAction
    BY <1>4 DEF CloseDispatch, CallReconnecting
<1>5. ASSUME NEW p \in Goroutines, CloseEnd(p) PROVE DoQuiet \/ DoAction
<2>1. CloseEndEff(p)
    BY <1>5, <1>e DEF Effects
<2> QED
    BY <2>1 DEF CloseEndEff, AfterClose
<1>6. ASSUME NEW p \in Goroutines, RecEnter(p) PROVE DoQuiet \/ DoAction
<2>1. RecEnterEff(p)
    BY <1>6, <1>e DEF Effects
<2>2. UNCHANGED <<rid, reqConn>> /\ At(p, "rec_lock")
    BY <2>1 DEF RecEnterEff
<2>3. CASE doReconnectting
    BY <2>1, <2>2, <2>3 DEF RecEnterEff, AfterRec
<2>4. CASE ~doReconnectting
    <3>1. At(Reconnector, "off") \/ p = Reconnector
        BY <2>4
    <3> QED
        BY <2>1, <2>2, <2>4, <3>1 DEF RecEnterEff
<2> QED
    BY <2>3, <2>4
<1>7. ASSUME NEW p \in Goroutines, RecWait(p) PROVE DoQuiet \/ DoAction
    BY <1>7 DEF RecWait
<1>8. ASSUME NEW p \in Goroutines, RecLeave(p) PROVE DoQuiet \/ DoAction
<2>1. RecLeaveEff(p)
    BY <1>8, <1>e DEF Effects
<2> QED
    BY <2>1 DEF RecLeaveEff, AfterRec, CanLock
<1>9. ASSUME NEW p \in {Main, Reconnector}, DialLock(p) PROVE DoQuiet \/ DoAction
    BY <1>9 DEF DialLock, CanLock
<1>10. ASSUME NEW p \in {Main, Reconnector}, DialFail(p) PROVE DoQuiet \/ DoAction
    BY <1>10 DEF DialFail, Unlock
<1>11. ASSUME NEW p \in {Main, Reconnector}, DialOnPacket(p) PROVE DoQuiet \/ DoAction
<2>1. conn \in Conns /\ pc[Consumer(conn)] \notin DoL
    BY <1>11 DEF DialOnPacket
<2> QED
    BY <1>11, <2>1 DEF DialOnPacket
<1>12. ASSUME NEW p \in {Main, Reconnector}, DialOnClose(p) PROVE DoQuiet \/ DoAction
    BY <1>12 DEF DialOnClose, Unlock
<1>13. ASSUME NEW p \in {Main, Reconnector}, NEW c \in Conns, DialOk(p, c) PROVE DoQuiet \/
    DoAction
    BY <1>13 DEF DialOk
<1>14. ASSUME NEW p \in Callers, DoNil(p) PROVE UNCHANGED <<pc, rid, reqConn>>
    BY <1>14 DEF DoNil, RLock
<1>15. ASSUME NEW p \in Callers, DoWrite(p) PROVE DoQuiet \/ DoAction
    BY <1>15 DEF DoAction
<1>16. ASSUME NEW p \in Callers, DoWriteErr(p) PROVE DoQuiet \/ DoAction
<2>1. DoRet(p) \in AfterDo
    BY <1>16, ReturnLabels, Procs
<2> QED
    BY <1>16, <2>1 DEF DoWriteErr, DoEnd, AfterDo
<1>17. ASSUME NEW p \in Callers, DoRegister(p) PROVE DoQuiet \/ DoAction
    BY <1>17 DEF DoAction
<1>18. ASSUME NEW p \in Callers, DoReceive(p) PROVE DoQuiet \/ DoAction
    BY <1>18 DEF DoAction
<1>19. ASSUME NEW p \in Callers, DoTimeout(p) PROVE DoQuiet \/ DoAction
    BY <1>19 DEF DoAction
<1>20. ASSUME NEW p \in UserProcs \cup {Reconnector}, ClBegin(p) PROVE DoQuiet \/ DoAction
<2>1. ClBeginEff(p)
    BY <1>20, <1>e DEF Effects
<2> QED
    BY <2>1 DEF ClBeginEff
<1>21. ASSUME NEW p \in UserProcs \cup {Reconnector}, ClRLock(p) PROVE DoQuiet \/ DoAction
    BY <1>21 DEF ClRLock, RLock, CallClose
<1>22. ASSUME NEW p \in UserProcs \cup {Reconnector}, ClEnd(p) PROVE DoQuiet \/ DoAction
    BY <1>22 DEF ClEnd, RUnlock
<1>23. ASSUME AuthExpire PROVE UNCHANGED <<pc, rid, reqConn>>
    BY <1>23 DEF AuthExpire
<1>24. ASSUME MainDialed PROVE DoQuiet \/ DoAction
<2>1. UNCHANGED <<rid, reqConn>> /\ At(Main, "m_dialed") /\ pc[Keepalive] \notin DoL
    BY <1>24 DEF MainDialed
<2>2. \E l \in {"do_rlock", "m_err", "m_ok"} : pc' = [pc EXCEPT ![Main] = l, ![Keepalive] = "ka_idle"]
    BY <1>24 DEF MainDialed
<2> QED
    BY <2>1, <2>2
<1>25. ASSUME MainAuthed PROVE DoQuiet \/ DoAction
    BY <1>25 DEF MainAuthed, Granted
<1>26. ASSUME RcTry PROVE DoQuiet \/ DoAction
    BY <1>26 DEF RcTry, CallClose
<1>27. ASSUME RcClear PROVE DoQuiet \/ DoAction
    BY <1>27 DEF RcClear
<1>28. ASSUME RcDialed PROVE DoQuiet \/ DoAction
    BY <1>28 DEF RcDialed, CallDo
<1>29. ASSUME RcAuthed PROVE DoQuiet \/ DoAction
    BY <1>29 DEF RcAuthed, Granted
<1>30. ASSUME RcResumed PROVE DoQuiet \/ DoAction
    BY <1>30 DEF RcResumed, Granted
<1>31. ASSUME RcAfter PROVE DoQuiet \/ DoAction
    BY <1>31 DEF RcAfter, CallDo
<1>32. ASSUME KaExit PROVE DoQuiet \/ DoAction
    BY <1>32 DEF KaExit
<1>33. ASSUME KaTimeout PROVE DoQuiet \/ DoAction
    BY <1>33 DEF KaTimeout, CallReconnecting
<1>34. ASSUME KaPing PROVE DoQuiet \/ DoAction
    BY <1>34 DEF KaPing, CallReconnecting
<1>35. ASSUME NEW p \in UserProcs, UserDo(p) PROVE DoQuiet \/ DoAction
    BY <1>35 DEF UserDo, CallDo
<1>36. ASSUME NEW p \in UserProcs, UserClose(p) PROVE DoQuiet \/ DoAction
    BY <1>36 DEF UserClose
<1>37. ASSUME NEW c \in Conns, ReaderResponse(c) \/ ReaderServer(c) PROVE UNCHANGED <<pc,
    rid, reqConn>>
    BY <1>37 DEF ReaderResponse, ReaderPacket, ReaderServer
<1>38. ASSUME NEW c \in Conns, ReaderFail(c) PROVE DoQuiet \/ DoAction
    BY <1>38 DEF ReaderFail, CallClose
<1>39. ASSUME NEW c \in Conns, CsTop(c) PROVE DoQuiet \/ DoAction
    BY <1>39 DEF CsTop
<1>40. ASSUME NEW c \in Conns, CsTake(c) PROVE DoQuiet \/ DoAction
<2>1. CsTakeEff(c)
    BY <1>40, <1>e DEF Effects
<2> QED
    BY <2>1 DEF CsTakeEff
<1>41. ASSUME NEW c \in Conns, SrvRLock(c) PROVE DoQuiet \/ DoAction
    BY <1>41 DEF SrvRLock, RLock, CallClose
<1>42. ASSUME NEW c \in Conns, SrvEnd(c) PROVE DoQuiet \/ DoAction
    BY <1>42 DEF SrvEnd, RUnlock, CallReconnecting, CsBack
<1>43. ASSUME NEW c \in Conns, CsDrained(c) PROVE DoQuiet \/ DoAction
    BY <1>43 DEF CsDrained, CallReconnecting
<1>44. ASSUME NEW c \in Conns, CsFin(c) PROVE DoQuiet \/ DoAction
    BY <1>44 DEF CsFin
<1> QED
    BY SMTT(30), <1>0, <1>1, <1>2, <1>3, <1>4, <1>5, <1>6, <1>7, <1>8, <1>9, <1>10, <1>11, <1>12,
        <1>13, <1>14, <1>15, <1>16, <1>17, <1>18, <1>19, <1>20, <1>21, <1>22, <1>23, <1>24,
        <1>25, <1>26, <1>27, <1>28, <1>29, <1>30, <1>31, <1>32, <1>33, <1>34, <1>35, <1>36,
        <1>37, <1>38, <1>39, <1>40, <1>41, <1>42, <1>43, <1>44 DEF Next, Environment, Step,
        CloseStep, RecStep, DialStep, DoStep, ClStep, MainStep, RcStep, KaStep, CsStep

\* Only Do and the clean-up of reconnect change recvs.
LEMMA RecvsFrame == TypeOK /\ Next => UNCHANGED recvs \/ DoAction \/ RcClear
<1> SUFFICES ASSUME TypeOK, Next PROVE UNCHANGED recvs \/ DoAction \/ RcClear
    OBVIOUS
<1> USE DEF At, Goto, lockVars, sessVars, shutVars, retVars, reqVars, connVars
<1>0. UNCHANGED <<recvs>> => UNCHANGED recvs \/ DoAction \/ RcClear
    OBVIOUS
<1>1. ASSUME NEW p \in Goroutines, Announce(p) \/ CloseCheck(p) \/ CloseOnce(p) \/
    CloseDispatch(p) \/ CloseEnd(p) \/ RecEnter(p) \/ RecWait(p) \/ RecLeave(p) PROVE
    UNCHANGED <<recvs>>
    BY <1>1 DEF Announce, CloseCheck, CloseReturn, CloseOnce, CloseDispatch,
        CallReconnecting, CloseEnd, RecEnter, CanLock, RecReturn, Unlock, RecWait, RecLeave
<1>2. ASSUME NEW p \in {Main, Reconnector}, DialLock(p) \/ DialFail(p) \/ DialOnPacket(p) \/
    DialOnClose(p) PROVE UNCHANGED <<recvs>>
    BY <1>2 DEF DialLock, CanLock, DialFail, Unlock, DialOnPacket, DialOnClose
<1>3. ASSUME NEW p \in {Main, Reconnector}, NEW c \in Conns, DialOk(p, c) PROVE UNCHANGED
    <<recvs>>
    BY <1>3 DEF DialOk
<1>4. ASSUME NEW p \in Callers, DoNil(p) \/ DoWriteErr(p) PROVE UNCHANGED <<recvs>>
    BY <1>4 DEF DoNil, RLock, DoWriteErr, DoEnd
<1>5. ASSUME NEW p \in Callers, DoWrite(p) PROVE UNCHANGED recvs \/ DoAction \/ RcClear
    BY <1>5 DEF DoAction
<1>6. ASSUME NEW p \in Callers, DoRegister(p) PROVE UNCHANGED recvs \/ DoAction \/ RcClear
    BY <1>6 DEF DoAction
<1>7. ASSUME NEW p \in Callers, DoReceive(p) PROVE UNCHANGED recvs \/ DoAction \/ RcClear
    BY <1>7 DEF DoAction
<1>8. ASSUME NEW p \in Callers, DoTimeout(p) PROVE UNCHANGED recvs \/ DoAction \/ RcClear
    BY <1>8 DEF DoAction
<1>9. ASSUME NEW p \in UserProcs \cup {Reconnector}, ClBegin(p) \/ ClRLock(p) \/ ClEnd(p)
    PROVE UNCHANGED <<recvs>>
    BY <1>9 DEF ClBegin, ClRLock, RLock, CallClose, ClEnd, RUnlock
<1>10. ASSUME MainDialed \/ MainAuthed \/ RcTry \/ RcDialed \/ RcAuthed \/ RcResumed \/
    RcAfter \/ AuthExpire \/ KaExit \/ KaTimeout \/ KaPing PROVE UNCHANGED <<recvs>>
    BY <1>10 DEF MainDialed, MainAuthed, RcTry, CallClose, RcDialed, CallDo, RcAuthed,
        RcResumed, RcAfter, AuthExpire, KaExit, KaTimeout, CallReconnecting, KaPing
<1>11. ASSUME RcClear PROVE UNCHANGED recvs \/ DoAction \/ RcClear
    BY <1>11
<1>12. ASSUME NEW p \in UserProcs, UserDo(p) \/ UserClose(p) PROVE UNCHANGED <<recvs>>
    BY <1>12 DEF UserDo, CallDo, UserClose
<1>13. ASSUME NEW c \in Conns, ReaderResponse(c) \/ ReaderServer(c) \/ ReaderFail(c) \/
    CsTop(c) \/ CsTake(c) \/ SrvRLock(c) \/ SrvEnd(c) \/ CsDrained(c) \/ CsFin(c) PROVE
    UNCHANGED <<recvs>>
    BY <1>13 DEF ReaderResponse, ReaderPacket, ReaderServer, ReaderFail, CallClose, CsTop,
        CsTake, HandleResponse, HandleOther, SrvRLock, RLock, SrvEnd, RUnlock,
        CallReconnecting, CsDrained, CsFin
<1> QED
    BY SMTT(30), <1>0, <1>1, <1>2, <1>3, <1>4, <1>5, <1>6, <1>7, <1>8, <1>9, <1>10, <1>11, <1>12,
        <1>13 DEF Next, Environment, Step, CloseStep, RecStep, DialStep, DoStep, ClStep,
        MainStep, RcStep, KaStep, CsStep

\* Only the clean-up of reconnect closes the channel of a pending request.
LEMMA ChClosedFrame == TypeOK /\ Next => UNCHANGED chClosed \/ RcClear
<1> SUFFICES ASSUME TypeOK, Next PROVE UNCHANGED chClosed \/ RcClear
    OBVIOUS
<1> USE DEF At, Goto, lockVars, sessVars, shutVars, retVars, reqVars, connVars
<1>0. UNCHANGED <<chClosed>> => UNCHANGED chClosed \/ RcClear
    OBVIOUS
<1>1. ASSUME NEW p \in Goroutines, Announce(p) \/ CloseCheck(p) \/ CloseOnce(p) \/
    CloseDispatch(p) \/ CloseEnd(p) \/ RecEnter(p) \/ RecWait(p) \/ RecLeave(p) PROVE
    UNCHANGED <<chClosed>>
    BY <1>1 DEF Announce, CloseCheck, CloseReturn, CloseOnce, CloseDispatch,
        CallReconnecting, CloseEnd, RecEnter, CanLock, RecReturn, Unlock, RecWait, RecLeave
<1>2. ASSUME NEW p \in {Main, Reconnector}, DialLock(p) \/ DialFail(p) \/ DialOnPacket(p) \/
    DialOnClose(p) PROVE UNCHANGED <<chClosed>>
    BY <1>2 DEF DialLock, CanLock, DialFail, Unlock, DialOnPacket, DialOnClose
<1>3. ASSUME NEW p \in {Main, Reconnector}, NEW c \in Conns, DialOk(p, c) PROVE UNCHANGED
    <<chClosed>>
    BY <1>3 DEF DialOk
<1>4. ASSUME NEW p \in Callers, DoNil(p) \/ DoWrite(p) \/ DoWriteErr(p) \/ DoRegister(p) \/
    DoReceive(p) \/ DoTimeout(p) PROVE UNCHANGED <<chClosed>>
    BY <1>4 DEF DoNil, RLock, DoWrite, DoWriteErr, DoEnd, DoRegister, DoReceive, RecvEnd,
        RUnlock, DoTimeout
<1>5. ASSUME NEW p \in UserProcs \cup {Reconnector}, ClBegin(p) \/ ClRLock(p) \/ ClEnd(p)
    PROVE UNCHANGED <<chClosed>>
    BY <1>5 DEF ClBegin, ClRLock, RLock, CallClose, ClEnd, RUnlock
<1>6. ASSUME MainDialed \/ MainAuthed \/ RcTry \/ RcDialed \/ RcAuthed \/ RcResumed \/
    RcAfter \/ AuthExpire \/ KaExit \/ KaTimeout \/ KaPing PROVE UNCHANGED <<chClosed>>
    BY <1>6 DEF MainDialed, MainAuthed, RcTry, CallClose, RcDialed, CallDo, RcAuthed,
        RcResumed, RcAfter, AuthExpire, KaExit, KaTimeout, CallReconnecting, KaPing
<1>7. ASSUME RcClear PROVE UNCHANGED chClosed \/ RcClear
    BY <1>7
<1>8. ASSUME NEW p \in UserProcs, UserDo(p) \/ UserClose(p) PROVE UNCHANGED <<chClosed>>
    BY <1>8 DEF UserDo, CallDo, UserClose
<1>9. ASSUME NEW c \in Conns, ReaderResponse(c) \/ ReaderServer(c) \/ ReaderFail(c) \/
    CsTop(c) \/ CsTake(c) \/ SrvRLock(c) \/ SrvEnd(c) \/ CsDrained(c) \/ CsFin(c) PROVE
    UNCHANGED <<chClosed>>
    BY <1>9 DEF ReaderResponse, ReaderPacket, ReaderServer, ReaderFail, CallClose, CsTop,
        CsTake, HandleResponse, HandleOther, SrvRLock, RLock, SrvEnd, RUnlock,
        CallReconnecting, CsDrained, CsFin
<1> QED
    BY SMTT(30), <1>0, <1>1, <1>2, <1>3, <1>4, <1>5, <1>6, <1>7, <1>8, <1>9 DEF Next, Environment,
        Step, CloseStep, RecStep, DialStep, DoStep, ClStep, MainStep, RcStep, KaStep, CsStep

\* Only the consumer fills a response channel and only its request empties
\* it.
LEMMA ChBufFrame ==
    TypeOK /\ Next
        => UNCHANGED chBuf \/ DoAction \/ (\E c \in Conns : CsTake(c))
<1> SUFFICES ASSUME TypeOK, Next
             PROVE  UNCHANGED chBuf \/ DoAction \/ (\E c \in Conns : CsTake(c))
    OBVIOUS
<1> USE DEF At, Goto, lockVars, sessVars, shutVars, retVars, reqVars, connVars
<1>0. UNCHANGED <<chBuf>> => UNCHANGED chBuf \/ DoAction \/ (\E c \in Conns : CsTake(c))
    OBVIOUS
<1>1. ASSUME NEW p \in Goroutines, Announce(p) \/ CloseCheck(p) \/ CloseOnce(p) \/
    CloseDispatch(p) \/ CloseEnd(p) \/ RecEnter(p) \/ RecWait(p) \/ RecLeave(p) PROVE
    UNCHANGED <<chBuf>>
    BY <1>1 DEF Announce, CloseCheck, CloseReturn, CloseOnce, CloseDispatch,
        CallReconnecting, CloseEnd, RecEnter, CanLock, RecReturn, Unlock, RecWait, RecLeave
<1>2. ASSUME NEW p \in {Main, Reconnector}, DialLock(p) \/ DialFail(p) \/ DialOnPacket(p) \/
    DialOnClose(p) PROVE UNCHANGED <<chBuf>>
    BY <1>2 DEF DialLock, CanLock, DialFail, Unlock, DialOnPacket, DialOnClose
<1>3. ASSUME NEW p \in {Main, Reconnector}, NEW c \in Conns, DialOk(p, c) PROVE UNCHANGED
    <<chBuf>>
    BY <1>3 DEF DialOk
<1>4. ASSUME NEW p \in Callers, DoNil(p) \/ DoWrite(p) \/ DoWriteErr(p) \/ DoRegister(p)
    PROVE UNCHANGED <<chBuf>>
    BY <1>4 DEF DoNil, RLock, DoWrite, DoWriteErr, DoEnd, DoRegister
<1>5. ASSUME NEW p \in Callers, DoReceive(p) PROVE UNCHANGED chBuf \/ DoAction \/ (\E d \in
    Conns : CsTake(d))
    BY <1>5 DEF DoAction
<1>6. ASSUME NEW p \in Callers, DoTimeout(p) PROVE UNCHANGED chBuf \/ DoAction \/ (\E d \in
    Conns : CsTake(d))
    BY <1>6 DEF DoAction
<1>7. ASSUME NEW p \in UserProcs \cup {Reconnector}, ClBegin(p) \/ ClRLock(p) \/ ClEnd(p)
    PROVE UNCHANGED <<chBuf>>
    BY <1>7 DEF ClBegin, ClRLock, RLock, CallClose, ClEnd, RUnlock
<1>8. ASSUME MainDialed \/ MainAuthed \/ RcTry \/ RcClear \/ RcDialed \/ RcAuthed \/
    RcResumed \/ RcAfter \/ AuthExpire \/ KaExit \/ KaTimeout \/ KaPing PROVE UNCHANGED
    <<chBuf>>
    BY <1>8 DEF MainDialed, MainAuthed, RcTry, CallClose, RcClear, RcDialed, CallDo,
        RcAuthed, RcResumed, RcAfter, AuthExpire, KaExit, KaTimeout, CallReconnecting,
        KaPing
<1>9. ASSUME NEW p \in UserProcs, UserDo(p) \/ UserClose(p) PROVE UNCHANGED <<chBuf>>
    BY <1>9 DEF UserDo, CallDo, UserClose
<1>10. ASSUME NEW c \in Conns, ReaderResponse(c) \/ ReaderServer(c) \/ ReaderFail(c) \/
    CsTop(c) \/ SrvRLock(c) \/ SrvEnd(c) \/ CsDrained(c) \/ CsFin(c) PROVE UNCHANGED
    <<chBuf>>
    BY <1>10 DEF ReaderResponse, ReaderPacket, ReaderServer, ReaderFail, CallClose, CsTop,
        SrvRLock, RLock, SrvEnd, RUnlock, CallReconnecting, CsDrained, CsFin
<1>11. ASSUME NEW c \in Conns, CsTake(c) PROVE UNCHANGED chBuf \/ DoAction \/ (\E d \in
    Conns : CsTake(d))
    BY <1>11
<1> QED
    BY SMTT(30), <1>0, <1>1, <1>2, <1>3, <1>4, <1>5, <1>6, <1>7, <1>8, <1>9, <1>10, <1>11 DEF Next,
        Environment, Step, CloseStep, RecStep, DialStep, DoStep, ClStep, MainStep, RcStep,
        KaStep, CsStep

\* A closed connection stays closed.
LEMMA ClosedStays == TypeOK /\ PcOK /\ Next => \A c \in Conns : Closed(c) => Closed(c)'
<1> SUFFICES ASSUME TypeOK, PcOK, Next PROVE \A c \in Conns : Closed(c) => Closed(c)'
    OBVIOUS
<1>e. Effects
    BY EffectsHold
<1> USE ClientAssumption, Procs, Distinct DEF TypeOK, GoroutineTypes, ConnTypes, Closed, At,
    Goto, lockVars, sessVars, shutVars, retVars, reqVars, connVars
<1>0. UNCHANGED <<connState>> => \A c \in Conns : Closed(c) => Closed(c)'
    OBVIOUS
<1>1. ASSUME NEW p \in Goroutines, Announce(p) \/ CloseCheck(p) \/ CloseDispatch(p) \/
    RecEnter(p) \/ RecWait(p) \/ RecLeave(p) PROVE UNCHANGED <<connState>>
    BY <1>1 DEF Announce, CloseCheck, CloseReturn, CloseDispatch, CallReconnecting,
        RecEnter, CanLock, RecReturn, Unlock, RecWait, RecLeave
<1>2. ASSUME NEW p \in Goroutines, CloseOnce(p) PROVE \A c \in Conns : Closed(c) =>
    Closed(c)'
<2>1. CloseOnceEff(p)
    BY <1>2, <1>e DEF Effects
<2> QED
    BY <2>1 DEF CloseOnceEff, AfterClose
<1>3. ASSUME NEW p \in Goroutines, CloseEnd(p) PROVE \A c \in Conns : Closed(c) =>
    Closed(c)'
<2>1. CloseEndEff(p)
    BY <1>3, <1>e DEF Effects
<2> QED
    BY <2>1 DEF CloseEndEff, AfterClose
<1>4. ASSUME NEW p \in {Main, Reconnector}, DialLock(p) \/ DialFail(p) \/ DialOnPacket(p) \/
    DialOnClose(p) PROVE UNCHANGED <<connState>>
    BY <1>4 DEF DialLock, CanLock, DialFail, Unlock, DialOnPacket, DialOnClose
<1>5. ASSUME NEW p \in {Main, Reconnector}, NEW c \in Conns, DialOk(p, c) PROVE \A d \in
    Conns : Closed(d) => Closed(d)'
    BY <1>5 DEF DialOk
<1>6. ASSUME NEW p \in Callers, DoNil(p) \/ DoWrite(p) \/ DoWriteErr(p) \/ DoRegister(p) \/
    DoReceive(p) \/ DoTimeout(p) PROVE UNCHANGED <<connState>>
    BY <1>6 DEF DoNil, RLock, DoWrite, DoWriteErr, DoEnd, DoRegister, DoReceive, RecvEnd,
        RUnlock, DoTimeout
<1>7. ASSUME NEW p \in UserProcs \cup {Reconnector}, ClBegin(p) \/ ClRLock(p) \/ ClEnd(p)
    PROVE UNCHANGED <<connState>>
    BY <1>7 DEF ClBegin, ClRLock, RLock, CallClose, ClEnd, RUnlock
<1>8. ASSUME MainDialed \/ MainAuthed \/ RcTry \/ RcClear \/ RcDialed \/ RcAuthed \/
    RcResumed \/ RcAfter \/ AuthExpire \/ KaExit \/ KaTimeout \/ KaPing PROVE UNCHANGED
    <<connState>>
    BY <1>8 DEF MainDialed, MainAuthed, RcTry, CallClose, RcClear, RcDialed, CallDo,
        RcAuthed, RcResumed, RcAfter, AuthExpire, KaExit, KaTimeout, CallReconnecting,
        KaPing
<1>9. ASSUME NEW p \in UserProcs, UserDo(p) \/ UserClose(p) PROVE UNCHANGED <<connState>>
    BY <1>9 DEF UserDo, CallDo, UserClose
<1>10. ASSUME NEW c \in Conns, ReaderResponse(c) \/ ReaderServer(c) \/ ReaderFail(c) \/
    CsTop(c) \/ CsTake(c) \/ SrvRLock(c) \/ SrvEnd(c) \/ CsDrained(c) \/ CsFin(c) PROVE
    UNCHANGED <<connState>>
    BY <1>10 DEF ReaderResponse, ReaderPacket, ReaderServer, ReaderFail, CallClose, CsTop,
        CsTake, HandleResponse, HandleOther, SrvRLock, RLock, SrvEnd, RUnlock,
        CallReconnecting, CsDrained, CsFin
<1> QED
    BY SMTT(30), <1>0, <1>1, <1>2, <1>3, <1>4, <1>5, <1>6, <1>7, <1>8, <1>9, <1>10 DEF Next,
        Environment, Step, CloseStep, RecStep, DialStep, DoStep, ClStep, MainStep, RcStep,
        KaStep, CsStep

\* The request id counter moves back only when dial replaces the connection,
\* which it does when no request is in flight.
LEMMA LastIdFrame == TypeOK /\ PcOK /\ DialLocks /\ Next => lastId' >= lastId \/ readers = {}
<1> SUFFICES ASSUME TypeOK, PcOK, DialLocks, Next PROVE lastId' >= lastId \/ readers = {}
    OBVIOUS
<1>e. Effects
    BY EffectsHold
<1> USE ClientAssumption, Procs, Distinct DEF TypeOK, ConnTypes, PcOK, DialLocks, DialL, At,
    Goto, lockVars, sessVars, shutVars, retVars, reqVars, connVars
<1>0. UNCHANGED <<lastId>> => lastId' >= lastId \/ readers = {}
    OBVIOUS
<1>1. ASSUME NEW p \in Goroutines, Announce(p) \/ CloseCheck(p) \/ CloseOnce(p) \/
    CloseDispatch(p) \/ CloseEnd(p) \/ RecEnter(p) \/ RecWait(p) \/ RecLeave(p) PROVE
    UNCHANGED <<lastId>>
    BY <1>1 DEF Announce, CloseCheck, CloseReturn, CloseOnce, CloseDispatch,
        CallReconnecting, CloseEnd, RecEnter, CanLock, RecReturn, Unlock, RecWait, RecLeave
<1>2. ASSUME NEW p \in {Main, Reconnector}, DialLock(p) \/ DialOnPacket(p) \/ DialOnClose(p)
    PROVE UNCHANGED <<lastId>>
    BY <1>2 DEF DialLock, CanLock, DialOnPacket, DialOnClose, Unlock
<1>3. ASSUME NEW p \in {Main, Reconnector}, DialFail(p) PROVE lastId' >= lastId \/ readers =
    {}
    BY <1>3 DEF DialFail, Unlock
<1>4. ASSUME NEW p \in {Main, Reconnector}, NEW c \in Conns, DialOk(p, c) PROVE lastId' >=
    lastId \/ readers = {}
    BY <1>4 DEF DialOk
<1>5. ASSUME NEW p \in Callers, DoNil(p) \/ DoRegister(p) \/ DoReceive(p) \/ DoTimeout(p)
    PROVE UNCHANGED <<lastId>>
    BY <1>5 DEF DoNil, RLock, DoRegister, DoReceive, RecvEnd, DoEnd, RUnlock, DoTimeout
<1>6. ASSUME NEW p \in Callers, DoWrite(p) PROVE lastId' >= lastId \/ readers = {}
    BY <1>6 DEF DoWrite, RLock
<1>7. ASSUME NEW p \in Callers, DoWriteErr(p) PROVE lastId' >= lastId \/ readers = {}
    BY <1>7 DEF DoWriteErr, DoEnd, DoRet
<1>8. ASSUME NEW p \in UserProcs \cup {Reconnector}, ClBegin(p) \/ ClRLock(p) \/ ClEnd(p)
    PROVE UNCHANGED <<lastId>>
    BY <1>8 DEF ClBegin, ClRLock, RLock, CallClose, ClEnd, RUnlock
<1>9. ASSUME MainDialed \/ MainAuthed \/ RcTry \/ RcClear \/ RcDialed \/ RcAuthed \/
    RcResumed \/ RcAfter \/ AuthExpire \/ KaExit \/ KaTimeout PROVE UNCHANGED <<lastId>>
    BY <1>9 DEF MainDialed, MainAuthed, RcTry, CallClose, RcClear, RcDialed, CallDo,
        RcAuthed, RcResumed, RcAfter, AuthExpire, KaExit, KaTimeout, CallReconnecting
<1>10. ASSUME KaPing PROVE lastId' >= lastId \/ readers = {}
    BY <1>10 DEF KaPing, CallReconnecting
<1>11. ASSUME NEW p \in UserProcs, UserDo(p) \/ UserClose(p) PROVE UNCHANGED <<lastId>>
    BY <1>11 DEF UserDo, CallDo, UserClose
<1>12. ASSUME NEW c \in Conns, ReaderResponse(c) \/ ReaderServer(c) \/ ReaderFail(c) \/
    CsTop(c) \/ CsTake(c) \/ SrvRLock(c) \/ SrvEnd(c) \/ CsDrained(c) \/ CsFin(c) PROVE
    UNCHANGED <<lastId>>
    BY <1>12 DEF ReaderResponse, ReaderPacket, ReaderServer, ReaderFail, CallClose, CsTop,
        CsTake, HandleResponse, HandleOther, SrvRLock, RLock, SrvEnd, RUnlock,
        CallReconnecting, CsDrained, CsFin
<1> QED
    BY SMTT(30), <1>0, <1>1, <1>2, <1>3, <1>4, <1>5, <1>6, <1>7, <1>8, <1>9, <1>10, <1>11, <1>12 DEF
        Next, Environment, Step, CloseStep, RecStep, DialStep, DoStep, ClStep, MainStep,
        RcStep, KaStep, CsStep

\* Two requests in flight never share an id, although ids restart with each
\* connection.
LEMMA IdsDistinctNext ==
    TypeOK /\ PcOK /\ Born /\ DialLocks /\ SingleReconnect /\ InFlightOnCurrent /\ IdsDistinct
        /\ Next => IdsDistinct'
<1> SUFFICES ASSUME TypeOK, PcOK, Born, DialLocks, SingleReconnect, InFlightOnCurrent,
                    IdsDistinct, Next
             PROVE  IdsDistinct'
    OBVIOUS
<1>e. Effects
    BY EffectsHold
<1>t. /\ pc \in [Goroutines -> Labels] /\ rid \in [Goroutines -> Nat] /\ lastId \in Nat
      /\ lastId' \in Nat
    BY ConnTypesNext DEF TypeOK, GoroutineTypes, RequestTypes, ConnTypes
<1>1. ASSUME DoQuiet PROVE IdsDistinct'
    <2>1. \A p \in Callers : InDo(p)' => InDo(p) /\ rid'[p] = rid[p]
        BY <1>1, Procs DEF DoQuiet, InDo
    <2>2. CASE readers = {}
        BY <2>1, <2>2 DEF InFlightOnCurrent, IdsDistinct
    <2>3. CASE lastId' >= lastId
        BY <2>1, <2>3, <1>t, Procs DEF IdsDistinct
    <2> QED
        BY <2>2, <2>3, LastIdFrame
<1>2. ASSUME NEW p \in Callers, DoWrite(p) PROVE IdsDistinct'
    <2>1. /\ pc' = [pc EXCEPT ![p] = "do_register"]
          /\ rid' = [rid EXCEPT ![p] = lastId + 1] /\ lastId' = lastId + 1
        BY <1>2 DEF DoWrite, Goto
    <2>2. \A q \in Callers : q # p => (InDo(q)' <=> InDo(q)) /\ rid'[q] = rid[q]
        BY <2>1, <1>t, Procs DEF InDo
    <2>3. rid'[p] = lastId + 1
        BY <2>1, <1>t, Procs
    <2>4. \A q \in Callers : q # p /\ InDo(q) => rid[q] \in 1..lastId
        BY DEF IdsDistinct
    <2> QED
        BY <2>1, <2>2, <2>3, <2>4, <1>t DEF IdsDistinct
<1>3. ASSUME NEW p \in Callers, DoRegister(p) PROVE IdsDistinct'
    BY <1>3, <1>t, Procs DEF DoRegister, Goto, At, InDo, IdsDistinct, connVars
<1>4. ASSUME NEW p \in Callers, DoReceive(p) \/ DoTimeout(p) PROVE IdsDistinct'
    <2>1. RecvEndEff(p)
        BY <1>4, <1>e DEF Effects
    <2>2. \A q \in Callers : InDo(q)' => InDo(q) /\ rid'[q] = rid[q]
        <3>1. CASE chClosed[p]
            BY <2>1, <3>1 DEF RecvEndEff, InDo
        <3>2. CASE ~chClosed[p]
            BY <2>1, <3>2, <1>t, Procs DEF RecvEndEff, InDo, AfterDo
        <3> QED
            BY <3>1, <3>2
    <2>3. lastId' = lastId
        BY <2>1 DEF RecvEndEff
    <2> QED
        BY <2>2, <2>3 DEF IdsDistinct
<1> QED
    BY <1>1, <1>2, <1>3, <1>4, DoQuietNext DEF DoAction

\* The clean-up of reconnect closes channels of waiting requests only.
LEMMA ClosedWaitingNext ==
    TypeOK /\ PcOK /\ Born /\ SingleReconnect /\ RecvsExact /\ ClosedWaiting
        /\ Next => ClosedWaiting'
<1> SUFFICES ASSUME TypeOK, PcOK, Born, SingleReconnect, RecvsExact, ClosedWaiting, Next
             PROVE  ClosedWaiting'
    OBVIOUS
<1>e. Effects
    BY EffectsHold
<1>t. pc \in [Goroutines -> Labels] /\ chClosed \in [Goroutines -> BOOLEAN]
    BY DEF TypeOK, GoroutineTypes, RequestTypes
<1>1. ASSUME UNCHANGED chClosed, DoQuiet PROVE ClosedWaiting'
    BY <1>1 DEF ClosedWaiting, DoQuiet, At
<1>2. ASSUME RcClear PROVE ClosedWaiting'
    <2>1. \A q \in Goroutines : chClosed'[q] => chClosed[q] \/ \E e \in recvs : e.owner = q
        BY <1>2 DEF RcClear
    <2>2. \A e \in recvs : e.owner \in Callers /\ At(e.owner, "do_wait")
        BY DEF RecvsExact
    <2>3. \A q \in Goroutines : At(q, "do_wait") => At(q, "do_wait")'
        BY <1>2, <1>t DEF RcClear, Goto, At
    <2> QED
        BY <2>1, <2>2, <2>3 DEF ClosedWaiting
<1>3. ASSUME NEW p \in Callers, DoWrite(p) \/ DoRegister(p) PROVE ClosedWaiting'
    BY <1>3, <1>t, Procs DEF DoWrite, DoRegister, ClosedWaiting, Goto, At
<1>4. ASSUME NEW p \in Callers, DoReceive(p) \/ DoTimeout(p) PROVE ClosedWaiting'
    <2>1. RecvEndEff(p)
        BY <1>4, <1>e DEF Effects
    <2>2. UNCHANGED chClosed
        BY <2>1 DEF RecvEndEff
    <2>3. CASE chClosed[p]
        BY <2>1, <2>2, <2>3 DEF RecvEndEff, ClosedWaiting, At
    <2>4. CASE ~chClosed[p]
        <3>1. \A q \in Goroutines : q # p => pc'[q] = pc[q]
            BY <2>1, <2>4, <1>t, Procs DEF RecvEndEff
        <3> QED
            BY <3>1, <2>2, <2>4 DEF ClosedWaiting, At
    <2> QED
        BY <2>3, <2>4
<1> QED
    BY <1>1, <1>2, <1>3, <1>4, DoQuietNext, ChClosedFrame DEF DoAction

\* Registration, delivery, timeout and the clean-up of reconnect keep recvs
\* equal to the requests that wait.
LEMMA RecvsExactNext ==
    TypeOK /\ PcOK /\ Born /\ SingleReconnect /\ IdsDistinct /\ ClosedWaiting /\ RecvsExact
        /\ Next => RecvsExact'
<1> SUFFICES ASSUME TypeOK, PcOK, Born, SingleReconnect, IdsDistinct, ClosedWaiting,
                    RecvsExact, Next
             PROVE  RecvsExact'
    OBVIOUS
<1>e. Effects
    BY EffectsHold
<1>t. /\ pc \in [Goroutines -> Labels] /\ chClosed \in [Goroutines -> BOOLEAN]
      /\ rid \in [Goroutines -> Nat]
    BY DEF TypeOK, GoroutineTypes, RequestTypes
<1> DEFINE Waits(q) == At(q, "do_wait") /\ ~chClosed[q]
<1>0. recvs = {[rid |-> rid[q], owner |-> q] : q \in {r \in Callers : Waits(r)}}
    BY DEF RecvsExact
<1>1. ASSUME UNCHANGED <<recvs, chClosed>>, DoQuiet PROVE RecvsExact'
    <2>1. \A q \in Callers : (Waits(q)' <=> Waits(q)) /\ (Waits(q) => rid'[q] = rid[q])
        BY <1>1, Procs DEF DoQuiet, At, InDo
    <2> QED
        BY <1>0, <1>1, <2>1 DEF RecvsExact
<1>2. ASSUME RcClear PROVE RecvsExact'
    <2>1. recvs' = {}
        BY <1>2 DEF RcClear
    <2>2. \A q \in Callers : At(q, "do_wait")' => chClosed'[q]
        <3> SUFFICES ASSUME NEW q \in Callers, At(q, "do_wait")' PROVE chClosed'[q]
            OBVIOUS
        <3>1. q \in Goroutines /\ At(q, "do_wait")
            BY <1>2, <1>t, Procs DEF RcClear, Goto, At
        <3>2. CASE chClosed[q]
            BY <1>2, <3>1, <3>2 DEF RcClear
        <3>3. CASE ~chClosed[q]
            <4>1. [rid |-> rid[q], owner |-> q] \in recvs
                BY <1>0, <3>1, <3>3
            <4>2. \E e \in recvs : e.owner = q
                BY <4>1
            <4> QED
                BY <1>2, <3>1, <4>2 DEF RcClear
        <3> QED
            BY <3>2, <3>3
    <2> QED
        BY <2>1, <2>2 DEF RecvsExact
<1>3. ASSUME NEW p \in Callers, DoWrite(p) PROVE RecvsExact'
    <2>1. UNCHANGED <<recvs, chClosed>> /\ At(p, "do_rlock")
        BY <1>3 DEF DoWrite
    <2>2. \A q \in Callers : (Waits(q)' <=> Waits(q)) /\ (Waits(q) => rid'[q] = rid[q])
        BY <1>3, <1>t, <2>1, Procs DEF DoWrite, Goto, At
    <2> QED
        BY <1>0, <2>1, <2>2 DEF RecvsExact
<1>4. ASSUME NEW p \in Callers, DoRegister(p) PROVE RecvsExact'
    <2>1. UNCHANGED <<chClosed, rid>> /\ At(p, "do_register") /\ ~chClosed[p]
        BY <1>4, Procs DEF DoRegister, ClosedWaiting, At
    <2>2. \A q \in Callers : Waits(q)' <=> Waits(q) \/ q = p
        BY <1>4, <1>t, <2>1, Procs DEF DoRegister, Goto, At
    <2>3. \A q \in Callers : Waits(q) => rid[q] # rid[p]
        BY <2>1 DEF IdsDistinct, InDo, At
    <2>4. recvs' = recvs \cup {[rid |-> rid[p], owner |-> p]}
        BY <1>4, <1>0, <2>3 DEF DoRegister
    <2> QED
        BY <1>0, <2>1, <2>2, <2>4 DEF RecvsExact
<1>5. ASSUME NEW p \in Callers, DoReceive(p) \/ DoTimeout(p) PROVE RecvsExact'
    <2>1. RecvEndEff(p)
        BY <1>5, <1>e DEF Effects
    <2>2. At(p, "do_wait") /\ UNCHANGED chClosed /\ recvs' = {e \in recvs : e.rid # rid[p]}
        BY <2>1 DEF RecvEndEff
    <2>3. \A q \in Callers : Waits(q) /\ q # p => rid[q] # rid[p]
        BY <2>2 DEF IdsDistinct, InDo, At
    <2>4. \A q \in Callers : (Waits(q)' <=> Waits(q) /\ q # p) /\ (q # p => rid'[q] = rid[q])
        <3>1. CASE chClosed[p]
            BY <2>1, <2>2, <3>1 DEF RecvEndEff, At
        <3>2. CASE ~chClosed[p]
            BY <2>1, <2>2, <3>2, <1>t, Procs DEF RecvEndEff, At, AfterDo
        <3> QED
            BY <3>1, <3>2
    <2>5. recvs' = {[rid |-> rid[q], owner |-> q] : q \in {r \in Callers : Waits(r) /\ r # p}}
        BY <1>0, <2>2, <2>3
    <2> QED
        BY <2>4, <2>5 DEF RecvsExact
<1> QED
    BY <1>1, <1>2, <1>3, <1>4, <1>5, DoQuietNext, RecvsFrame, ChClosedFrame DEF DoAction

\* A packet the consumer takes changes only the buffer of a request registered for it.
CsTakeBufEff(c) ==
    \A p \in Goroutines : \A r \in chBuf'[p] :
        \/ r \in chBuf[p]
        \/ r.conn = c /\ \E e \in recvs : e.owner = p /\ e.rid = r.rid

LEMMA CsTakeBuf ==
    ASSUME TypeOK, NEW c \in Conns, CsTake(c)
    PROVE  CsTakeBufEff(c)
<1> SUFFICES ASSUME NEW p \in Goroutines, NEW r \in chBuf'[p], r \notin chBuf[p]
             PROVE  r.conn = c /\ \E e \in recvs : e.owner = p /\ e.rid = r.rid
    BY DEF CsTakeBufEff
<1> DEFINE k == Head(queue[c])
<1>1. HandleResponse(c, k)
    BY DEF CsTake, HandleOther
<1>2. [rid |-> k.rid, owner |-> p] \in recvs /\ r = [conn |-> c, rid |-> k.rid, status |-> k.status]
    BY <1>1 DEF HandleResponse
<1> QED
    BY <1>2

\* A response is put only into the channel of a request that waits.
LEMMA BufferedWaitingNext ==
    TypeOK /\ PcOK /\ Born /\ SingleReconnect /\ RecvsExact /\ BufferedWaiting
        /\ Next => BufferedWaiting'
<1> SUFFICES ASSUME TypeOK, PcOK, Born, SingleReconnect, RecvsExact, BufferedWaiting, Next
             PROVE  BufferedWaiting'
    OBVIOUS
<1>e. Effects
    BY EffectsHold
<1>t. pc \in [Goroutines -> Labels] /\ chBuf \in [Goroutines -> SUBSET Responses]
    BY DEF TypeOK, GoroutineTypes, RequestTypes
<1>1. ASSUME UNCHANGED chBuf, DoQuiet PROVE BufferedWaiting'
    BY <1>1 DEF BufferedWaiting, DoQuiet, At
<1>2. ASSUME NEW c \in Conns, CsTake(c), DoQuiet PROVE BufferedWaiting'
    BY <1>2, CsTakeBuf DEF CsTakeBufEff, RecvsExact, BufferedWaiting, DoQuiet, At
<1>3. ASSUME NEW p \in Callers, DoWrite(p) \/ DoRegister(p) PROVE BufferedWaiting'
    BY <1>3, <1>t, Procs DEF DoWrite, DoRegister, BufferedWaiting, Goto, At
<1>4. ASSUME NEW p \in Callers, DoReceive(p) \/ DoTimeout(p) PROVE BufferedWaiting'
    <2>1. RecvEndEff(p)
        BY <1>4, <1>e DEF Effects
    <2>2. CASE chClosed[p]
        BY <2>1, <2>2 DEF RecvEndEff, BufferedWaiting, At
    <2>3. CASE ~chClosed[p]
        <3>1. \A q \in Goroutines : q # p => pc'[q] = pc[q] /\ chBuf'[q] = chBuf[q]
            BY <2>1, <2>3, <1>t, Procs DEF RecvEndEff
        <3>2. chBuf'[p] = {}
            BY <2>1, <2>3, <1>t, Procs DEF RecvEndEff
        <3> QED
            BY <3>1, <3>2 DEF BufferedWaiting, At
    <2> QED
        BY <2>2, <2>3
<1> QED
    BY <1>1, <1>2, <1>3, <1>4, DoQuietNext, ChBufFrame DEF DoAction

\* A response answers its request; a stale one comes from a closed
\* connection.
LEMMA ResponseFitsNext ==
    TypeOK /\ PcOK /\ Born /\ SingleReconnect /\ InFlightOnCurrent /\ RecvsExact
        /\ BufferedWaiting /\ OneOpenConn /\ ResponseFits /\ Next => ResponseFits'
<1> SUFFICES ASSUME TypeOK, PcOK, Born, SingleReconnect, InFlightOnCurrent, RecvsExact,
                    BufferedWaiting, OneOpenConn, ResponseFits, Next
             PROVE  ResponseFits'
    OBVIOUS
<1>e. Effects
    BY EffectsHold
<1>t. /\ pc \in [Goroutines -> Labels] /\ chBuf \in [Goroutines -> SUBSET Responses]
      /\ rid \in [Goroutines -> Nat] /\ reqConn \in [Goroutines -> Conns \cup {NoConn}]
      /\ connState \in [Conns -> {"unused", "open", "closing", "closed"}]
    BY DEF TypeOK, GoroutineTypes, RequestTypes, ConnTypes
<1>f. \A p \in Callers : \A r \in chBuf[p] : r.conn \in Conns
    BY <1>t, Procs DEF Responses
<1>s. \A p \in Callers : \A r \in chBuf[p] :
          InDo(p) /\ r.rid = rid[p] /\ (r.conn # reqConn[p] => Closed(r.conn)')
    BY <1>f, ClosedStays DEF ResponseFits
<1>q. ASSUME DoQuiet, NEW p \in Callers, InDo(p)
      PROVE  InDo(p)' /\ rid'[p] = rid[p] /\ reqConn'[p] = reqConn[p]
    BY <1>q, Procs DEF DoQuiet, InDo
<1>1. ASSUME UNCHANGED chBuf, DoQuiet PROVE ResponseFits'
    BY <1>1, <1>s, <1>q DEF ResponseFits
<1>2. ASSUME NEW c \in Conns, CsTake(c), DoQuiet PROVE ResponseFits'
    <2> SUFFICES ASSUME NEW p \in Callers, NEW r \in chBuf'[p]
                 PROVE  /\ InDo(p)' /\ r.rid = rid'[p]
                        /\ r.conn # reqConn'[p] => Closed(r.conn)'
        BY DEF ResponseFits
    <2>1. CASE r \in chBuf[p]
        BY <2>1, <1>2, <1>s, <1>q
    <2>2. CASE r \notin chBuf[p]
        <3>1. r.conn = c /\ \E e \in recvs : e.owner = p /\ e.rid = r.rid
            BY <1>2, <2>2, CsTakeBuf, Procs DEF CsTakeBufEff
        <3>2. At(p, "do_wait") /\ r.rid = rid[p]
            BY <3>1 DEF RecvsExact
        <3>3. InDo(p) /\ reqConn[p] = conn
            BY <3>2 DEF InDo, At, InFlightOnCurrent
        <3>4. connState[c] # "unused"
            BY <1>2, <1>e, Procs DEF Effects, CsTakeEff, Born
        <3>5. c # reqConn[p] => Closed(c)
            BY <3>3, <3>4, <1>t DEF OneOpenConn, Closed
        <3> QED
            BY <1>2, <1>q, <3>1, <3>2, <3>3, <3>5, ClosedStays
    <2> QED
        BY <2>1, <2>2
<1>3. ASSUME NEW p \in Callers, DoWrite(p) \/ DoRegister(p) PROVE ResponseFits'
    <2>1. UNCHANGED chBuf /\ chBuf[p] = {}
        BY <1>3, Procs DEF DoWrite, DoRegister, BufferedWaiting, At
    <2>2. \A q \in Callers : q # p => pc'[q] = pc[q] /\ rid'[q] = rid[q] /\ reqConn'[q] = reqConn[q]
        BY <1>3, <1>t, Procs DEF DoWrite, DoRegister, Goto
    <2> QED
        BY <2>1, <2>2, <1>s DEF ResponseFits, InDo
<1>4. ASSUME NEW p \in Callers, DoReceive(p) \/ DoTimeout(p) PROVE ResponseFits'
    <2>1. RecvEndEff(p)
        BY <1>4, <1>e DEF Effects
    <2>2. CASE chClosed[p]
        BY <2>1, <2>2, <1>s DEF RecvEndEff, ResponseFits, InDo
    <2>3. CASE ~chClosed[p]
        <3>1. \A q \in Callers : q # p => /\ pc'[q] = pc[q] /\ chBuf'[q] = chBuf[q]
                                          /\ rid'[q] = rid[q] /\ reqConn'[q] = reqConn[q]
            BY <2>1, <2>3, <1>t, Procs DEF RecvEndEff
        <3>2. chBuf'[p] = {}
            BY <2>1, <2>3, <1>t, Procs DEF RecvEndEff
        <3> QED
            BY <3>1, <3>2, <1>s DEF ResponseFits, InDo
    <2> QED
        BY <2>2, <2>3
<1> QED
    BY <1>1, <1>2, <1>3, <1>4, DoQuietNext, ChBufFrame DEF DoAction

\* The reconnector closes the old connection before it dials.
LEMMA OldClosedNext == TypeOK /\ PcOK /\ Early /\ OldClosed /\ Next => OldClosed'
<1> SUFFICES ASSUME TypeOK, PcOK, Early, OldClosed, Next PROVE OldClosed'
    OBVIOUS
<1>e. Effects
    BY EffectsHold
<1>c. \A c \in Conns : Closed(c) => Closed(c)'
    BY ClosedStays
<1> USE DEF Closed
<1> USE ClientAssumption, Procs, Distinct DEF TypeOK, GoroutineTypes, ConnTypes, PcOK,
    OldClosed, DialL, DoL, ClL, CloseL, RecL, At, Goto, lockVars, sessVars, shutVars,
    retVars, reqVars, connVars
<1>0. UNCHANGED <<pc, conn, cret, closing, connState>> => OldClosed'
    OBVIOUS
<1>1. ASSUME NEW p \in Goroutines, Announce(p) PROVE UNCHANGED <<pc, conn, cret, closing,
    connState>>
    BY <1>1 DEF Announce
<1>2. ASSUME NEW p \in Goroutines, CloseCheck(p) PROVE OldClosed'
<2>1. CASE p = Reconnector
    BY <2>1, <1>2 DEF CloseCheck, CloseReturn
<2>2. CASE p # Reconnector
    <3>1. pc'[Reconnector] = pc[Reconnector] /\ cret'[Reconnector] = cret[Reconnector]
            /\ closing'[Reconnector] = closing[Reconnector] /\ conn' = conn
        BY <2>2, <1>2 DEF CloseCheck, CloseReturn
    <3> QED
        BY <3>1, <1>c DEF OldClosed
<2> QED
    BY <2>1, <2>2
<1>3. ASSUME NEW p \in Goroutines, CloseOnce(p) PROVE OldClosed'
<2>1. CASE p = Reconnector
    BY <2>1, <1>3 DEF CloseOnce, CloseReturn
<2>2. CASE p # Reconnector
    <3>1. pc'[Reconnector] = pc[Reconnector] /\ cret'[Reconnector] = cret[Reconnector]
            /\ closing'[Reconnector] = closing[Reconnector] /\ conn' = conn
        BY <2>2, <1>3 DEF CloseOnce, CloseReturn
    <3> QED
        BY <3>1, <1>c DEF OldClosed
<2> QED
    BY <2>1, <2>2
<1>4. ASSUME NEW p \in Goroutines, CloseDispatch(p) PROVE OldClosed'
    BY <1>4 DEF CloseDispatch, CallReconnecting
<1>5. ASSUME NEW p \in Goroutines, CloseEnd(p) PROVE OldClosed'
<2>1. CASE p = Reconnector
    BY <2>1, <1>5 DEF CloseEnd, CloseReturn
<2>2. CASE p # Reconnector
    <3>1. pc'[Reconnector] = pc[Reconnector] /\ cret'[Reconnector] = cret[Reconnector]
            /\ closing'[Reconnector] = closing[Reconnector] /\ conn' = conn
        BY <2>2, <1>5 DEF CloseEnd, CloseReturn
    <3> QED
        BY <3>1, <1>c DEF OldClosed
<2> QED
    BY <2>1, <2>2
<1>6. ASSUME NEW p \in Goroutines, RecEnter(p) PROVE OldClosed'
<2>1. RecEnterEff(p)
    BY <1>6, <1>e DEF Effects
<2> QED
    BY <2>1 DEF RecEnterEff, AfterRec, CanLock
<1>7. ASSUME NEW p \in Goroutines, RecWait(p) PROVE OldClosed'
    BY <1>7 DEF RecWait
<1>8. ASSUME NEW p \in Goroutines, RecLeave(p) PROVE OldClosed'
<2>1. RecLeaveEff(p)
    BY <1>8, <1>e DEF Effects
<2> QED
    BY <2>1 DEF RecLeaveEff, AfterRec, CanLock
<1>9. ASSUME NEW p \in {Main, Reconnector}, DialLock(p) PROVE OldClosed'
    BY <1>9 DEF DialLock, CanLock
<1>10. ASSUME NEW p \in {Main, Reconnector}, DialFail(p) PROVE OldClosed'
<2>1. CASE p = Main
    <3>1. At(Reconnector, "off")
        BY <2>1, <1>10 DEF DialFail, Early
    <3> QED
        BY <2>1, <3>1, <1>10 DEF DialFail
<2>2. CASE p = Reconnector
    <3>1. pc'[Reconnector] \in {"rc_try", "dial_onpacket"}
        BY <2>2, <1>10 DEF DialFail
    <3> QED
        BY <3>1
<2> QED
    BY <2>1, <2>2
<1>11. ASSUME NEW p \in {Main, Reconnector}, DialOnPacket(p) PROVE OldClosed'
    BY <1>11 DEF DialOnPacket
<1>12. ASSUME NEW p \in {Main, Reconnector}, DialOnClose(p) PROVE OldClosed'
    BY <1>12 DEF DialOnClose, Unlock
<1>13. ASSUME NEW p \in {Main, Reconnector}, NEW c \in Conns, DialOk(p, c) PROVE OldClosed'
<2>1. CASE p = Main
    <3>1. At(Reconnector, "off")
        BY <2>1, <1>13 DEF DialOk, Early
    <3> QED
        BY <2>1, <3>1, <1>13 DEF DialOk
<2>2. CASE p = Reconnector
    <3>1. pc'[Reconnector] \in {"rc_try", "dial_onpacket"}
        BY <2>2, <1>13 DEF DialOk
    <3> QED
        BY <3>1
<2> QED
    BY <2>1, <2>2
<1>14. ASSUME NEW p \in Callers, DoNil(p) PROVE UNCHANGED <<pc, conn, cret, closing,
    connState>>
    BY <1>14 DEF DoNil, RLock
<1>15. ASSUME NEW p \in Callers, DoWrite(p) PROVE OldClosed'
    BY <1>15 DEF DoWrite, RLock
<1>16. ASSUME NEW p \in Callers, DoWriteErr(p) PROVE OldClosed'
    BY <1>16 DEF DoWriteErr, DoEnd, DoRet
<1>17. ASSUME NEW p \in Callers, DoRegister(p) PROVE OldClosed'
    BY <1>17 DEF DoRegister
<1>18. ASSUME NEW p \in Callers, DoReceive(p) PROVE OldClosed'
<2>1. RecvEndEff(p)
    BY <1>18, <1>e DEF Effects
<2> QED
    BY <2>1 DEF RecvEndEff, AfterDo
<1>19. ASSUME NEW p \in Callers, DoTimeout(p) PROVE OldClosed'
<2>1. RecvEndEff(p)
    BY <1>19, <1>e DEF Effects
<2> QED
    BY <2>1 DEF RecvEndEff, AfterDo
<1>20. ASSUME NEW p \in UserProcs \cup {Reconnector}, ClBegin(p) PROVE OldClosed'
<2>1. ClBeginEff(p)
    BY <1>20, <1>e DEF Effects
<2> QED
    BY <2>1 DEF ClBeginEff
<1>21. ASSUME NEW p \in UserProcs \cup {Reconnector}, ClRLock(p) PROVE OldClosed'
    BY <1>21 DEF ClRLock, RLock, CallClose
<1>22. ASSUME NEW p \in UserProcs \cup {Reconnector}, ClEnd(p) PROVE OldClosed'
    BY <1>22 DEF ClEnd, RUnlock
<1>23. ASSUME AuthExpire PROVE UNCHANGED <<pc, conn, cret, closing, connState>>
    BY <1>23 DEF AuthExpire
<1>24. ASSUME MainDialed PROVE OldClosed'
    BY <1>24 DEF MainDialed
<1>25. ASSUME MainAuthed PROVE OldClosed'
    BY <1>25 DEF MainAuthed, Granted
<1>26. ASSUME RcTry PROVE OldClosed'
    BY <1>26 DEF RcTry, CallClose
<1>27. ASSUME RcClear PROVE OldClosed'
    BY <1>27 DEF RcClear
<1>28. ASSUME RcDialed PROVE OldClosed'
    BY <1>28 DEF RcDialed, CallDo
<1>29. ASSUME RcAuthed PROVE OldClosed'
    BY <1>29 DEF RcAuthed, Granted
<1>30. ASSUME RcResumed PROVE OldClosed'
    BY <1>30 DEF RcResumed, Granted
<1>31. ASSUME RcAfter PROVE OldClosed'
    BY <1>31 DEF RcAfter, CallDo
<1>32. ASSUME KaExit PROVE OldClosed'
    BY <1>32 DEF KaExit
<1>33. ASSUME KaTimeout PROVE OldClosed'
    BY <1>33 DEF KaTimeout, CallReconnecting
<1>34. ASSUME KaPing PROVE OldClosed'
    BY <1>34 DEF KaPing, CallReconnecting
<1>35. ASSUME NEW p \in UserProcs, UserDo(p) PROVE OldClosed'
    BY <1>35 DEF UserDo, CallDo
<1>36. ASSUME NEW p \in UserProcs, UserClose(p) PROVE OldClosed'
    BY <1>36 DEF UserClose
<1>37. ASSUME NEW c \in Conns, ReaderResponse(c) \/ ReaderServer(c) PROVE UNCHANGED <<pc,
    conn, cret, closing, connState>>
    BY <1>37 DEF ReaderResponse, ReaderPacket, ReaderServer
<1>38. ASSUME NEW c \in Conns, ReaderFail(c) PROVE OldClosed'
    BY <1>38 DEF ReaderFail, CallClose
<1>39. ASSUME NEW c \in Conns, CsTop(c) PROVE OldClosed'
    BY <1>39 DEF CsTop
<1>40. ASSUME NEW c \in Conns, CsTake(c) PROVE OldClosed'
<2>1. CsTakeEff(c)
    BY <1>40, <1>e DEF Effects
<2> QED
    BY <2>1 DEF CsTakeEff
<1>41. ASSUME NEW c \in Conns, SrvRLock(c) PROVE OldClosed'
    BY <1>41 DEF SrvRLock, RLock, CallClose
<1>42. ASSUME NEW c \in Conns, SrvEnd(c) PROVE OldClosed'
    BY <1>42 DEF SrvEnd, RUnlock, CallReconnecting, CsBack
<1>43. ASSUME NEW c \in Conns, CsDrained(c) PROVE OldClosed'
    BY <1>43 DEF CsDrained, CallReconnecting
<1>44. ASSUME NEW c \in Conns, CsFin(c) PROVE OldClosed'
    BY <1>44 DEF CsFin
<1> QED
    BY SMTT(30), <1>0, <1>1, <1>2, <1>3, <1>4, <1>5, <1>6, <1>7, <1>8, <1>9, <1>10, <1>11, <1>12,
        <1>13, <1>14, <1>15, <1>16, <1>17, <1>18, <1>19, <1>20, <1>21, <1>22, <1>23, <1>24,
        <1>25, <1>26, <1>27, <1>28, <1>29, <1>30, <1>31, <1>32, <1>33, <1>34, <1>35, <1>36,
        <1>37, <1>38, <1>39, <1>40, <1>41, <1>42, <1>43, <1>44 DEF Next, Environment, Step,
        CloseStep, RecStep, DialStep, DoStep, ClStep, MainStep, RcStep, KaStep, CsStep

\* A connection is opened only when the one before it is closed.
LEMMA OneOpenConnNext ==
    TypeOK /\ PcOK /\ Early /\ OldClosed /\ OneOpenConn /\ Next
        => OneOpenConn'
<1> SUFFICES ASSUME TypeOK, PcOK, Early, OldClosed, OneOpenConn, Next PROVE OneOpenConn'
    OBVIOUS
<1>e. Effects
    BY EffectsHold
<1> USE ClientAssumption, Procs, Distinct DEF TypeOK, GoroutineTypes, ConnTypes, PcOK,
    Early, OldClosed, OneOpenConn, Closed, DialL, DoL, ClL, CloseL, RecL, At, Goto,
    lockVars, sessVars, shutVars, retVars, reqVars, connVars
<1>0. UNCHANGED <<connState, conn>> => OneOpenConn'
    OBVIOUS
<1>1. ASSUME NEW p \in Goroutines, Announce(p) \/ CloseCheck(p) \/ CloseDispatch(p) \/
    RecEnter(p) \/ RecWait(p) \/ RecLeave(p) PROVE UNCHANGED <<connState, conn>>
    BY <1>1 DEF Announce, CloseCheck, CloseReturn, CloseDispatch, CallReconnecting,
        RecEnter, CanLock, RecReturn, Unlock, RecWait, RecLeave
<1>2. ASSUME NEW p \in Goroutines, CloseOnce(p) PROVE OneOpenConn'
<2>1. CloseOnceEff(p)
    BY <1>2, <1>e DEF Effects
<2> QED
    BY <2>1 DEF CloseOnceEff, AfterClose
<1>3. ASSUME NEW p \in Goroutines, CloseEnd(p) PROVE OneOpenConn'
<2>1. CloseEndEff(p)
    BY <1>3, <1>e DEF Effects
<2> QED
    BY <2>1 DEF CloseEndEff, AfterClose
<1>4. ASSUME NEW p \in {Main, Reconnector}, DialLock(p) \/ DialOnPacket(p) \/ DialOnClose(p)
    PROVE UNCHANGED <<connState, conn>>
    BY <1>4 DEF DialLock, CanLock, DialOnPacket, DialOnClose, Unlock
<1>5. ASSUME NEW p \in {Main, Reconnector}, DialFail(p) PROVE OneOpenConn'
    BY <1>5 DEF DialFail, Unlock
<1>6. ASSUME NEW p \in {Main, Reconnector}, NEW c \in Conns, DialOk(p, c) PROVE OneOpenConn'
    BY <1>6 DEF DialOk
<1>7. ASSUME NEW p \in Callers, DoNil(p) \/ DoWrite(p) \/ DoWriteErr(p) \/ DoRegister(p) \/
    DoReceive(p) \/ DoTimeout(p) PROVE UNCHANGED <<connState, conn>>
    BY <1>7 DEF DoNil, RLock, DoWrite, DoWriteErr, DoEnd, DoRegister, DoReceive, RecvEnd,
        RUnlock, DoTimeout
<1>8. ASSUME NEW p \in UserProcs \cup {Reconnector}, ClBegin(p) \/ ClRLock(p) \/ ClEnd(p)
    PROVE UNCHANGED <<connState, conn>>
    BY <1>8 DEF ClBegin, ClRLock, RLock, CallClose, ClEnd, RUnlock
<1>9. ASSUME MainDialed \/ MainAuthed \/ RcTry \/ RcClear \/ RcDialed \/ RcAuthed \/
    RcResumed \/ RcAfter \/ AuthExpire \/ KaExit \/ KaTimeout \/ KaPing PROVE UNCHANGED
    <<connState, conn>>
    BY <1>9 DEF MainDialed, MainAuthed, RcTry, CallClose, RcClear, RcDialed, CallDo,
        RcAuthed, RcResumed, RcAfter, AuthExpire, KaExit, KaTimeout, CallReconnecting,
        KaPing
<1>10. ASSUME NEW p \in UserProcs, UserDo(p) \/ UserClose(p) PROVE UNCHANGED <<connState,
    conn>>
    BY <1>10 DEF UserDo, CallDo, UserClose
<1>11. ASSUME NEW c \in Conns, ReaderResponse(c) \/ ReaderServer(c) \/ ReaderFail(c) \/
    CsTop(c) \/ CsTake(c) \/ SrvRLock(c) \/ SrvEnd(c) \/ CsDrained(c) \/ CsFin(c) PROVE
    UNCHANGED <<connState, conn>>
    BY <1>11 DEF ReaderResponse, ReaderPacket, ReaderServer, ReaderFail, CallClose, CsTop,
        CsTake, HandleResponse, HandleOther, SrvRLock, RLock, SrvEnd, RUnlock,
        CallReconnecting, CsDrained, CsFin
<1> QED
    BY SMTT(30), <1>0, <1>1, <1>2, <1>3, <1>4, <1>5, <1>6, <1>7, <1>8, <1>9, <1>10, <1>11 DEF Next,
        Environment, Step, CloseStep, RecStep, DialStep, DoStep, ClStep, MainStep, RcStep,
        KaStep, CsStep

-----------------------------------------------------------------------------
\* A new client satisfies the invariant.
LEMMA RequestInit == Init => RequestInvariant
<1> SUFFICES ASSUME Init PROVE RequestInvariant
    OBVIOUS
<1>1. TypeOK
    BY TypeOKInit
<1>2. /\ pc[Main] = "m_start" /\ pc[Keepalive] = "off" /\ pc[Reconnector] = "off"
      /\ \A p \in UserProcs : pc[p] = "idle"
      /\ \A c \in Conns : pc[Reader(c)] = "off" /\ pc[Consumer(c)] = "off"
    BY Procs, Distinct DEF Init
<1>3. \A p \in Goroutines : pc[p] \in {"m_start", "idle", "off"}
    BY DEF Init
<1>4. \A p \in Goroutines : cret[p] = "off" /\ rret[p] = "off"
    BY DEF Init
<1>5. PcOK
    BY <1>2, <1>4, Procs DEF PcOK
<1>6. Early
    BY <1>2, <1>3 DEF Early, Init, Goroutines
<1>7. Born
    BY <1>2, <1>3, ClientAssumption DEF Born, Init
<1>8. DialLocks /\ OldClosed
    BY <1>2, <1>3 DEF DialLocks, OldClosed, DialL, CloseL
<1>9. SingleReconnect
    BY <1>2, <1>3 DEF Init, SingleReconnect, Rec, RcOff, At
<1>10. InFlightOnCurrent /\ IdsDistinct
    BY <1>3, Procs DEF InFlightOnCurrent, IdsDistinct, InDo
<1>11. ClosedWaiting /\ BufferedWaiting /\ ResponseFits /\ OneOpenConn
    BY Procs DEF Init, ClosedWaiting, BufferedWaiting, ResponseFits, OneOpenConn
<1>12. RecvsExact
    BY <1>3, Procs DEF Init, RecvsExact, At
<1> QED
    BY <1>1, <1>5, <1>6, <1>7, <1>8, <1>9, <1>10, <1>11, <1>12 DEF RequestInvariant

\* Every step of the client preserves the invariant.
LEMMA RequestNext == RequestInvariant /\ [Next]_vars => RequestInvariant'
<1>1. ASSUME RequestInvariant, Next PROVE RequestInvariant'
    <2>1. /\ TypeOK /\ PcOK /\ Early /\ Born /\ DialLocks /\ SingleReconnect
          /\ InFlightOnCurrent /\ IdsDistinct /\ ClosedWaiting /\ RecvsExact
          /\ BufferedWaiting /\ ResponseFits /\ OldClosed /\ OneOpenConn
        BY <1>1 DEF RequestInvariant
    <2>2. TypeOK' /\ PcOK' /\ Early' /\ Born' /\ DialLocks'
        BY <1>1, <2>1, TypeOKNext, PcOKNext, EarlyNext, BornNext, DialLocksNext
    <2>3. SingleReconnect' /\ InFlightOnCurrent' /\ IdsDistinct'
        BY <1>1, <2>1, SingleReconnectNext, InFlightNext, IdsDistinctNext
    <2>4. ClosedWaiting' /\ RecvsExact' /\ BufferedWaiting' /\ ResponseFits'
        BY <1>1, <2>1, ClosedWaitingNext, RecvsExactNext, BufferedWaitingNext,
            ResponseFitsNext
    <2>5. OldClosed' /\ OneOpenConn'
        BY <1>1, <2>1, OldClosedNext, OneOpenConnNext
    <2> QED
        BY <2>2, <2>3, <2>4, <2>5 DEF RequestInvariant
<1>2. ASSUME RequestInvariant, UNCHANGED vars PROVE RequestInvariant'
    <2>1. TypeOK'
        BY <1>2, TypeOKNext DEF RequestInvariant
    <2> USE <1>2 DEF RequestInvariant, vars, retVars, lockVars, sessVars, shutVars, reqVars,
            connVars
    <2>2. PcOK' /\ Early' /\ Born' /\ DialLocks'
        BY DEF PcOK, Early, Born, DialLocks
    <2>3. SingleReconnect' /\ InFlightOnCurrent' /\ IdsDistinct'
        BY DEF SingleReconnect, Rec, RcOff, At, InFlightOnCurrent, InDo, IdsDistinct
    <2>4. ClosedWaiting' /\ RecvsExact' /\ BufferedWaiting' /\ ResponseFits'
        BY DEF ClosedWaiting, RecvsExact, BufferedWaiting, ResponseFits, InDo, At, Closed
    <2>5. OldClosed' /\ OneOpenConn'
        BY DEF OldClosed, OneOpenConn, Closed
    <2> QED
        BY <2>1, <2>2, <2>3, <2>4, <2>5
<1> QED
    BY <1>1, <1>2

\* The invariant holds of every reachable state of the client.
THEOREM RequestsInvariant == Spec => []RequestInvariant
BY RequestInit, RequestNext, PTL DEF Spec

\* reconnecting admits one reconnect at a time, whoever calls it: close
\* callbacks, consumers and keepalive may race, one wins, and the reconnect
\* goroutine never outlives its wait.
THEOREM OneReconnectAtATime == Spec => []SingleReconnect
<1>1. RequestInvariant => SingleReconnect
    BY DEF RequestInvariant
<1> QED
    BY <1>1, RequestsInvariant, PTL

\* dial never replaces the connection under a request in flight: the request
\* holds the read lock and its connection is still c.conn.
THEOREM RequestsKeepTheirConn == Spec => []InFlightOnCurrent
<1>1. RequestInvariant => InFlightOnCurrent
    BY DEF RequestInvariant
<1> QED
    BY <1>1, RequestsInvariant, PTL

\* recvs holds exactly the requests that wait on an open channel: no entry
\* outlives its request, no request loses its entry to another, and
\* handleResponse never sends on a channel that reconnect closed.
THEOREM RecvsTableExact == Spec => []RecvsExact
<1>1. RequestInvariant => RecvsExact
    BY DEF RequestInvariant
<1> QED
    BY <1>1, RequestsInvariant, PTL

\* A request is handed the answer to its own id; a response that came over
\* another connection, possible since ids restart, is one of a closed connection.
THEOREM ResponsesFit == Spec => []ResponseFits
<1>1. RequestInvariant => ResponseFits
    BY DEF RequestInvariant
<1> QED
    BY <1>1, RequestsInvariant, PTL

\* However often the client reconnects, no connection but c.conn is open.
THEOREM NoConnLeaks == Spec => []OneOpenConn
<1>1. RequestInvariant => OneOpenConn
    BY DEF RequestInvariant
<1> QED
    BY <1>1, RequestsInvariant, PTL
=============================================================================
