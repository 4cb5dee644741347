--------------------------- MODULE ClientLifeProofs --------------------------
(***************************************************************************)
(* The life of the client's connections, its panics and its read lock, for *)
(* all values of the constants: the second half of ClientInvariant, on top *)
(* of the first, which module ClientProofs shows.                          *)
(***************************************************************************)
EXTENDS ClientProofs

-----------------------------------------------------------------------------
(* Close and reconnecting, seen by the other actions.                        *)

\* The actions inside ClientConn.Close and reconnecting, and the calls of the two.
CloseOrRec ==
    \/ \E p \in Goroutines : CloseStep(p) \/ RecStep(p)
    \/ \E p \in UserProcs \cup {Reconnector} : ClRLock(p)
    \/ RcTry \/ KaTimeout \/ KaPing
    \/ \E c \in Conns : ReaderFail(c) \/ SrvRLock(c) \/ SrvEnd(c) \/ CsDrained(c)

\* Nobody enters, leaves or moves within Close and reconnecting, and no
\* connection that was dialed changes its state.
Apart ==
    /\ UNCHANGED <<cret, closing, rret>>
    /\ \A q \in Goroutines :
          \/ pc'[q] = pc[q]
          \/ pc[q] \notin CloseL \cup RecL /\ pc'[q] \notin CloseL \cup RecL
    /\ \A c \in Conns : connState[c] # "unused" => connState'[c] = connState[c]

\* Every other action leaves Close and reconnecting alone.
LEMMA ApartNext == TypeOK /\ PcOK /\ Early /\ Born /\ Next => Apart \/ CloseOrRec
<1> SUFFICES ASSUME TypeOK, PcOK, Early, Born, Next PROVE Apart \/ CloseOrRec
    OBVIOUS
<1>e. Effects
    BY EffectsHold
<1> USE ClientAssumption, Procs, Distinct DEF TypeOK, GoroutineTypes, ConnTypes, PcOK, Born,
    Apart, DialL, DoL, ClL, CloseL, RecL, At, Goto, lockVars, sessVars, shutVars, retVars,
    reqVars, connVars
<1>0. UNCHANGED <<pc, cret, closing, rret, connState>> => Apart \/ CloseOrRec
    OBVIOUS
<1>1. ASSUME NEW p \in Goroutines, Announce(p) PROVE UNCHANGED <<pc, cret, closing, rret,
    connState>>
    BY <1>1 DEF Announce
<1>2. ASSUME NEW p \in Goroutines, CloseCheck(p) PROVE Apart \/ CloseOrRec
    BY <1>2 DEF CloseOrRec, CloseStep
<1>3. ASSUME NEW p \in Goroutines, CloseOnce(p) PROVE Apart \/ CloseOrRec
    BY <1>3 DEF CloseOrRec, CloseStep
<1>4. ASSUME NEW p \in Goroutines, CloseDispatch(p) PROVE Apart \/ CloseOrRec
    BY <1>4 DEF CloseOrRec, CloseStep
<1>5. ASSUME NEW p \in Goroutines, CloseEnd(p) PROVE Apart \/ CloseOrRec
    BY <1>5 DEF CloseOrRec, CloseStep
<1>6. ASSUME NEW p \in Goroutines, RecEnter(p) PROVE Apart \/ CloseOrRec
    BY <1>6 DEF CloseOrRec, RecStep
<1>7. ASSUME NEW p \in Goroutines, RecWait(p) PROVE Apart \/ CloseOrRec
    BY <1>7 DEF CloseOrRec, RecStep
<1>8. ASSUME NEW p \in Goroutines, RecLeave(p) PROVE Apart \/ CloseOrRec
    BY <1>8 DEF CloseOrRec, RecStep
<1>9. ASSUME NEW p \in {Main, Reconnector}, DialLock(p) PROVE Apart \/ CloseOrRec
    BY <1>9 DEF DialLock, CanLock
<1>10. ASSUME NEW p \in {Main, Reconnector}, DialFail(p) PROVE Apart \/ CloseOrRec
    BY <1>10 DEF DialFail, Unlock
<1>11. ASSUME NEW p \in {Main, Reconnector}, DialOnPacket(p) PROVE Apart \/ CloseOrRec
  <2>1. conn \in Conns /\ pc[Consumer(conn)] = "off"
      BY <1>11 DEF DialOnPacket
  <2> QED
      BY <1>11, <2>1 DEF DialOnPacket
<1>12. ASSUME NEW p \in {Main, Reconnector}, DialOnClose(p) PROVE Apart \/ CloseOrRec
    BY <1>12 DEF DialOnClose, Unlock
<1>13. ASSUME NEW p \in {Main, Reconnector}, NEW c \in Conns, DialOk(p, c) PROVE Apart \/
    CloseOrRec
    BY <1>13 DEF DialOk
<1>14. ASSUME NEW p \in Callers, DoNil(p) PROVE UNCHANGED <<pc, cret, closing, rret,
    connState>>
    BY <1>14 DEF DoNil, RLock
<1>15. ASSUME NEW p \in Callers, DoWrite(p) PROVE Apart \/ CloseOrRec
    BY <1>15 DEF DoWrite, RLock
<1>16. ASSUME NEW p \in Callers, DoWriteErr(p) PROVE Apart \/ CloseOrRec
  <2>1. DoRet(p) \in AfterDo
      BY <1>16, ReturnLabels, Procs
  <2> QED
      BY <1>16, <2>1 DEF DoWriteErr, DoEnd, AfterDo
<1>17. ASSUME NEW p \in Callers, DoRegister(p) PROVE Apart \/ CloseOrRec
    BY <1>17 DEF DoRegister
<1>18. ASSUME NEW p \in Callers, DoReceive(p) PROVE Apart \/ CloseOrRec
  <2>1. RecvEndEff(p)
      BY <1>18, <1>e DEF Effects
  <2>2. UNCHANGED rret
      BY <1>18 DEF DoReceive, RecvEnd
  <2> QED
      BY <2>1, <2>2 DEF RecvEndEff, AfterDo
<1>19. ASSUME NEW p \in Callers, DoTimeout(p) PROVE Apart \/ CloseOrRec
  <2>1. RecvEndEff(p)
      BY <1>19, <1>e DEF Effects
  <2>2. UNCHANGED rret
      BY <1>19 DEF DoTimeout, RecvEnd
  <2> QED
      BY <2>1, <2>2 DEF RecvEndEff, AfterDo
<1>20. ASSUME NEW p \in UserProcs \cup {Reconnector}, ClBegin(p) PROVE Apart \/ CloseOrRec
  <2>1. ClBeginEff(p)
      BY <1>20, <1>e DEF Effects
  <2> QED
      BY <2>1 DEF ClBeginEff
<1>21. ASSUME NEW p \in UserProcs \cup {Reconnector}, ClRLock(p) PROVE Apart \/ CloseOrRec
    BY <1>21 DEF CloseOrRec
<1>22. ASSUME NEW p \in UserProcs \cup {Reconnector}, ClEnd(p) PROVE Apart \/ CloseOrRec
    BY <1>22 DEF ClEnd, RUnlock
<1>23. ASSUME AuthExpire PROVE UNCHANGED <<pc, cret, closing, rret, connState>>
    BY <1>23 DEF AuthExpire
<1>24. ASSUME MainDialed PROVE Apart \/ CloseOrRec
  <2>1. UNCHANGED <<cret, closing, rret, connState>>
      BY <1>24 DEF MainDialed
  <2>2. At(Main, "m_dialed") /\ pc[Keepalive] = "off"
      BY <1>24 DEF MainDialed, Early
  <2>3. \E l \in {"do_rlock", "m_err", "m_ok"} :
            pc' = [pc EXCEPT ![Main] = l, ![Keepalive] = "ka_idle"]
      BY <1>24 DEF MainDialed
  <2> QED
      BY <2>1, <2>2, <2>3
<1>25. ASSUME MainAuthed PROVE Apart \/ CloseOrRec
    BY <1>25 DEF MainAuthed, Granted
<1>26. ASSUME RcTry PROVE Apart \/ CloseOrRec
    BY <1>26 DEF CloseOrRec
<1>27. ASSUME RcClear PROVE Apart \/ CloseOrRec
    BY <1>27 DEF RcClear
<1>28. ASSUME RcDialed PROVE Apart \/ CloseOrRec
    BY <1>28 DEF RcDialed, CallDo
<1>29. ASSUME RcAuthed PROVE Apart \/ CloseOrRec
    BY <1>29 DEF RcAuthed, Granted
<1>30. ASSUME RcResumed PROVE Apart \/ CloseOrRec
    BY <1>30 DEF RcResumed, Granted
<1>31. ASSUME RcAfter PROVE Apart \/ CloseOrRec
    BY <1>31 DEF RcAfter, CallDo
<1>32. ASSUME KaExit PROVE Apart \/ CloseOrRec
    BY <1>32 DEF KaExit
<1>33. ASSUME KaTimeout PROVE Apart \/ CloseOrRec
    BY <1>33 DEF CloseOrRec
<1>34. ASSUME KaPing PROVE Apart \/ CloseOrRec
    BY <1>34 DEF CloseOrRec
<1>35. ASSUME NEW p \in UserProcs, UserDo(p) PROVE Apart \/ CloseOrRec
    BY <1>35 DEF UserDo, CallDo
<1>36. ASSUME NEW p \in UserProcs, UserClose(p) PROVE Apart \/ CloseOrRec
    BY <1>36 DEF UserClose
<1>37. ASSUME NEW c \in Conns, ReaderResponse(c) \/ ReaderServer(c) PROVE UNCHANGED <<pc,
    cret, closing, rret, connState>>
    BY <1>37 DEF ReaderResponse, ReaderPacket, ReaderServer
<1>38. ASSUME NEW c \in Conns, ReaderFail(c) PROVE Apart \/ CloseOrRec
    BY <1>38 DEF CloseOrRec
<1>39. ASSUME NEW c \in Conns, CsTop(c) PROVE Apart \/ CloseOrRec
    BY <1>39 DEF CsTop
<1>40. ASSUME NEW c \in Conns, CsTake(c) PROVE Apart \/ CloseOrRec
  <2>1. CsTakeEff(c)
      BY <1>40, <1>e DEF Effects
  <2> QED
      BY <2>1 DEF CsTakeEff
<1>41. ASSUME NEW c \in Conns, SrvRLock(c) PROVE Apart \/ CloseOrRec
    BY <1>41 DEF CloseOrRec
<1>42. ASSUME NEW c \in Conns, SrvEnd(c) PROVE Apart \/ CloseOrRec
    BY <1>42 DEF CloseOrRec
<1>43. ASSUME NEW c \in Conns, CsDrained(c) PROVE Apart \/ CloseOrRec
    BY <1>43 DEF CloseOrRec
<1>44. ASSUME NEW c \in Conns, CsFin(c) PROVE Apart \/ CloseOrRec
    BY <1>44 DEF CsFin
<1> QED
    BY SMTT(30), <1>0, <1>1, <1>2, <1>3, <1>4, <1>5, <1>6, <1>7, <1>8, <1>9, <1>10, <1>11, <1>12,
        <1>13, <1>14, <1>15, <1>16, <1>17, <1>18, <1>19, <1>20, <1>21, <1>22, <1>23, <1>24,
        <1>25, <1>26, <1>27, <1>28, <1>29, <1>30, <1>31, <1>32, <1>33, <1>34, <1>35, <1>36,
        <1>37, <1>38, <1>39, <1>40, <1>41, <1>42, <1>43, <1>44 DEF Next, Environment, Step,
        CloseStep, RecStep, DialStep, DoStep, ClStep, MainStep, RcStep, KaStep, CsStep

\* A goroutine's Close call: where it is in it, and of which connection.
AtClose(p)   == pc[p] \in {"close_check", "close_once"}
SameClose(q) == (AtClose(q)' <=> AtClose(q)) /\ (InBody(q)' <=> InBody(q)) /\ closing'[q] = closing[q]

\* A step of p that neither enters nor leaves the body of a closeOnce, but may
\* begin or end a call of Close.
LEMMA CloseBodyKept ==
    ASSUME CloseBody, UNCHANGED connState, NEW p \in Goroutines,
           \A q \in Goroutines \ {p} : SameClose(q),
           closing'[p] \in Conns <=> AtClose(p)' \/ InBody(p)',
           InBody(p)' => InBody(p) /\ closing'[p] = closing[p]
    PROVE  CloseBody'
<1>1. \A q \in Goroutines : closing'[q] \in Conns <=> AtClose(q)' \/ InBody(q)'
    BY DEF CloseBody, SameClose, AtClose
<1>2. \A q \in Goroutines : InBody(q)' => InBody(q) /\ closing'[q] = closing[q]
    BY DEF SameClose
<1> QED
    BY <1>1, <1>2 DEF CloseBody, AtClose

\* closeOnce admits one goroutine to its body, and the connection is closing
\* while that goroutine is in it.
LEMMA CloseBodyNext ==
    TypeOK /\ PcOK /\ Early /\ Born /\ SingleReconnect /\ CloseBody /\ Next
        => CloseBody'
<1> SUFFICES ASSUME TypeOK, PcOK, Early, Born, SingleReconnect, CloseBody, Next
             PROVE  CloseBody'
    OBVIOUS
<1>s. Apart \/ CloseOrRec
    BY ApartNext
<1>r. \A p \in Goroutines : pc[p] \in CloseL => cret[p] \in AfterClose
    BY ReturnLabels
<1>t. \A p \in Goroutines : pc[p] \in RecL => rret[p] \in AfterRec
    BY ReturnLabels
<1>n. NoConn \notin Conns
    BY ClientAssumption
<1> USE <1>n, Procs DEF TypeOK, GoroutineTypes, AfterClose, AfterRec, CloseL, RecL, At,
    Goto, lockVars, sessVars, shutVars, retVars, reqVars, connVars
<1>0. ASSUME Apart PROVE CloseBody'
  <2>1. \A q \in Goroutines : InBody(q)' <=> InBody(q)
      BY <1>0 DEF Apart, InBody
  <2>2. \A q \in Goroutines :
            pc'[q] \in {"close_check", "close_once"} <=> pc[q] \in {"close_check", "close_once"}
      BY <1>0 DEF Apart
  <2>3. \A c \in Conns : connState[c] = "closing" => connState'[c] = "closing"
      BY <1>0 DEF Apart
  <2>4. UNCHANGED closing
      BY <1>0 DEF Apart
  <2> QED
      BY <2>1, <2>2, <2>3, <2>4 DEF CloseBody
<1>1. ASSUME NEW p \in Goroutines, CloseCheck(p) PROVE CloseBody'
  <2>1. \A q \in Goroutines \ {p} : SameClose(q)
      BY <1>1 DEF SameClose, AtClose, InBody, CloseCheck, CloseReturn
  <2>2. /\ closing'[p] \in Conns <=> AtClose(p)' \/ InBody(p)'
        /\ InBody(p)' => InBody(p) /\ closing'[p] = closing[p]
      BY <1>1, <1>r DEF CloseBody, AtClose, InBody, CloseCheck, CloseReturn
  <2>3. UNCHANGED connState
      BY <1>1 DEF CloseCheck
  <2> QED
      BY <2>1, <2>2, <2>3, CloseBodyKept
<1>2. ASSUME NEW p \in Goroutines, CloseOnce(p) PROVE CloseBody'
  <2>1. CASE connState[closing[p]] = "open"
    <3>1. /\ connState' = [connState EXCEPT ![closing[p]] = "closing"] /\ pc[p] = "close_once"
          /\ pc' = [pc EXCEPT ![p] = "close_dispatch"] /\ UNCHANGED <<closing, rret>>
        BY <1>2, <2>1 DEF CloseOnce
    <3>2. closing[p] \in Conns /\ connState'[closing[p]] = "closing"
        BY <3>1 DEF CloseBody, ConnTypes
    <3>3. \A q \in Goroutines \ {p} : SameClose(q)
        BY <3>1 DEF SameClose, AtClose, InBody
    <3>4. InBody(p)' /\ closing'[p] = closing[p] /\ ~InBody(p)
        BY <3>1 DEF InBody
    <3>5. \A q \in Goroutines : InBody(q) =>
              closing[q] # closing[p] /\ connState'[closing[q]] = "closing"
        BY <2>1, <3>1, <3>2 DEF CloseBody
    <3>6. \A q \in Goroutines : closing'[q] \in Conns <=> AtClose(q)' \/ InBody(q)'
        BY <3>2, <3>3, <3>4 DEF CloseBody, SameClose, AtClose
    <3>7. \A q \in Goroutines : InBody(q)' => connState'[closing'[q]] = "closing"
        BY <3>2, <3>3, <3>4, <3>5 DEF SameClose
    <3>8. \A q, r \in Goroutines : InBody(q)' /\ InBody(r)' /\ closing'[q] = closing'[r] => q = r
        BY <3>3, <3>4, <3>5 DEF CloseBody, SameClose
    <3> QED
        BY <3>6, <3>7, <3>8 DEF CloseBody, AtClose
  <2>2. CASE connState[closing[p]] = "closed"
    <3>1. /\ UNCHANGED <<connState, rret>> /\ pc[p] = "close_once"
          /\ pc' = [pc EXCEPT ![p] = cret[p]] /\ closing' = [closing EXCEPT ![p] = NoConn]
        BY <1>2, <2>2 DEF CloseOnce, CloseReturn
    <3>2. cret[p] \in AfterClose
        BY <1>r, <3>1
    <3>3. \A q \in Goroutines \ {p} : SameClose(q)
        BY <3>1 DEF SameClose, AtClose, InBody
    <3>4. ~InBody(p)' /\ ~AtClose(p)' /\ closing'[p] = NoConn
        BY <3>1, <3>2 DEF AtClose, InBody
    <3> QED
        BY <3>1, <3>3, <3>4, CloseBodyKept
  <2> QED
      BY <1>2, <2>1, <2>2 DEF CloseOnce
<1>3. ASSUME NEW p \in Goroutines, CloseDispatch(p) PROVE CloseBody'
  <2>1. \A q \in Goroutines \ {p} : SameClose(q)
      BY <1>3 DEF SameClose, AtClose, InBody, CloseDispatch, CallReconnecting
  <2>2. /\ closing'[p] \in Conns <=> AtClose(p)' \/ InBody(p)'
        /\ InBody(p)' => InBody(p) /\ closing'[p] = closing[p]
      BY <1>3 DEF CloseBody, AtClose, InBody, CloseDispatch, CallReconnecting
  <2>3. UNCHANGED connState
      BY <1>3 DEF CloseDispatch
  <2> QED
      BY <2>1, <2>2, <2>3, CloseBodyKept
<1>4. ASSUME NEW p \in Goroutines, CloseEnd(p) PROVE CloseBody'
  <2>1. /\ connState' = [connState EXCEPT ![closing[p]] = "closed"] /\ pc[p] = "close_end"
        /\ pc' = [pc EXCEPT ![p] = cret[p]]
        /\ closing' = [closing EXCEPT ![p] = NoConn] /\ UNCHANGED rret
      BY <1>4 DEF CloseEnd, CloseReturn
  <2>2. cret[p] \in AfterClose /\ closing[p] \in Conns
      BY <1>r, <2>1 DEF CloseBody, InBody
  <2>3. \A q \in Goroutines \ {p} : SameClose(q)
      BY <2>1 DEF SameClose, AtClose, InBody
  <2>4. ~InBody(p)' /\ ~AtClose(p)' /\ closing'[p] = NoConn
      BY <2>1, <2>2 DEF AtClose, InBody
  <2>5. InBody(p) /\ \A q \in Goroutines \ {p} : InBody(q) => closing[q] # closing[p]
      BY <2>1 DEF CloseBody, InBody
  <2>6. \A q \in Goroutines : closing'[q] \in Conns <=> AtClose(q)' \/ InBody(q)'
      BY <2>3, <2>4 DEF CloseBody, SameClose, AtClose
  <2>7. \A q \in Goroutines : InBody(q)' =>
            /\ q # p /\ InBody(q) /\ closing'[q] = closing[q]
            /\ connState'[closing[q]] = "closing"
      BY <2>1, <2>2, <2>3, <2>4, <2>5 DEF CloseBody, SameClose
  <2> QED
      BY <2>6, <2>7 DEF CloseBody, AtClose
<1>5. ASSUME NEW p \in Goroutines, RecEnter(p) PROVE CloseBody'
  <2>1. CASE doReconnectting
    <3>1. \A q \in Goroutines \ {p} : SameClose(q)
        BY <1>5, <2>1 DEF SameClose, AtClose, InBody, RecEnter, CanLock, RecReturn, Unlock
    <3>2. /\ closing'[p] \in Conns <=> AtClose(p)' \/ InBody(p)'
          /\ InBody(p)' => InBody(p) /\ closing'[p] = closing[p]
        BY <1>5, <1>t, <2>1 DEF CloseBody, AtClose, InBody, RecEnter, CanLock, RecReturn, Unlock
    <3>3. UNCHANGED connState
        BY <1>5, <2>1 DEF RecEnter
    <3> QED
        BY <3>1, <3>2, <3>3, CloseBodyKept
  <2>2. CASE ~doReconnectting
    <3>0. pc[Reconnector] = "off" /\ p # Reconnector
        BY <1>5, <2>2 DEF RecEnter, SingleReconnect, Rec, RcOff
    <3>1. UNCHANGED <<closing, rret, connState>> /\ pc[p] = "rec_lock"
        BY <1>5, <2>2 DEF RecEnter
    <3>2. pc' = [pc EXCEPT ![p] = "rec_wait", ![Reconnector] = "rc_try"]
        BY <1>5, <2>2 DEF RecEnter
    <3>3. pc'[p] = "rec_wait" /\ pc'[Reconnector] = "rc_try"
        BY <3>0, <3>2
    <3>4. \A q \in Goroutines \ {p} : SameClose(q)
        BY <3>0, <3>1, <3>2, <3>3 DEF SameClose, AtClose, InBody
    <3>5. /\ closing'[p] \in Conns <=> AtClose(p)' \/ InBody(p)'
          /\ InBody(p)' => InBody(p) /\ closing'[p] = closing[p]
        BY <3>1, <3>3 DEF CloseBody, AtClose, InBody
    <3> QED
        BY <3>1, <3>4, <3>5, CloseBodyKept
  <2> QED
      BY <2>1, <2>2
<1>6. ASSUME NEW p \in Goroutines, RecWait(p) PROVE CloseBody'
  <2>1. \A q \in Goroutines \ {p} : SameClose(q)
      BY <1>6 DEF SameClose, AtClose, InBody, RecWait
  <2>2. /\ closing'[p] \in Conns <=> AtClose(p)' \/ InBody(p)'
        /\ InBody(p)' => InBody(p) /\ closing'[p] = closing[p]
      BY <1>6 DEF CloseBody, AtClose, InBody, RecWait
  <2>3. UNCHANGED connState
      BY <1>6 DEF RecWait
  <2> QED
      BY <2>1, <2>2, <2>3, CloseBodyKept
<1>7. ASSUME NEW p \in Goroutines, RecLeave(p) PROVE CloseBody'
  <2>1. \A q \in Goroutines \ {p} : SameClose(q)
      BY <1>7 DEF SameClose, AtClose, InBody, RecLeave, CanLock, RecReturn, Unlock
  <2>2. /\ closing'[p] \in Conns <=> AtClose(p)' \/ InBody(p)'
        /\ InBody(p)' => InBody(p) /\ closing'[p] = closing[p]
      BY <1>7, <1>t DEF CloseBody, AtClose, InBody, RecLeave, CanLock, RecReturn, Unlock
  <2>3. UNCHANGED connState
      BY <1>7 DEF RecLeave
  <2> QED
      BY <2>1, <2>2, <2>3, CloseBodyKept
<1>8. ASSUME NEW p \in UserProcs \cup {Reconnector}, ClRLock(p) PROVE CloseBody'
  <2>1. \A q \in Goroutines \ {p} : SameClose(q)
      BY <1>8 DEF SameClose, AtClose, InBody, ClRLock, RLock, CallClose
  <2>2. /\ closing'[p] \in Conns <=> AtClose(p)' \/ InBody(p)'
        /\ InBody(p)' => InBody(p) /\ closing'[p] = closing[p]
      BY <1>8 DEF CloseBody, AtClose, InBody, ClRLock, RLock, CallClose
  <2>3. UNCHANGED connState
      BY <1>8 DEF ClRLock
  <2> QED
      BY <2>1, <2>2, <2>3, CloseBodyKept
<1>9. ASSUME RcTry PROVE CloseBody'
  <2>1. \A q \in Goroutines \ {Reconnector} : SameClose(q)
      BY <1>9 DEF SameClose, AtClose, InBody, RcTry, CallClose
  <2>2. /\ closing'[Reconnector] \in Conns <=> AtClose(Reconnector)' \/ InBody(Reconnector)'
        /\ InBody(Reconnector)' => InBody(Reconnector) /\ closing'[Reconnector] = closing[Reconnector]
      BY <1>9 DEF CloseBody, AtClose, InBody, RcTry, CallClose
  <2>3. UNCHANGED connState
      BY <1>9 DEF RcTry
  <2> QED
      BY <2>1, <2>2, <2>3, CloseBodyKept
<1>10. ASSUME KaTimeout PROVE CloseBody'
  <2>1. \A q \in Goroutines \ {Keepalive} : SameClose(q)
      BY <1>10 DEF SameClose, AtClose, InBody, KaTimeout, CallReconnecting
  <2>2. /\ closing'[Keepalive] \in Conns <=> AtClose(Keepalive)' \/ InBody(Keepalive)'
        /\ InBody(Keepalive)' => InBody(Keepalive) /\ closing'[Keepalive] = closing[Keepalive]
      BY <1>10 DEF CloseBody, AtClose, InBody, KaTimeout, CallReconnecting
  <2>3. UNCHANGED connState
      BY <1>10 DEF KaTimeout
  <2> QED
      BY <2>1, <2>2, <2>3, CloseBodyKept
<1>11. ASSUME KaPing PROVE CloseBody'
  <2>1. \A q \in Goroutines \ {Keepalive} : SameClose(q)
      BY <1>11 DEF SameClose, AtClose, InBody, KaPing, CallReconnecting
  <2>2. /\ closing'[Keepalive] \in Conns <=> AtClose(Keepalive)' \/ InBody(Keepalive)'
        /\ InBody(Keepalive)' => InBody(Keepalive) /\ closing'[Keepalive] = closing[Keepalive]
      BY <1>11 DEF CloseBody, AtClose, InBody, KaPing, CallReconnecting
  <2>3. UNCHANGED connState
      BY <1>11 DEF KaPing
  <2> QED
      BY <2>1, <2>2, <2>3, CloseBodyKept
<1>12. ASSUME NEW c \in Conns, ReaderFail(c) PROVE CloseBody'
  <2>1. \A q \in Goroutines \ {Reader(c)} : SameClose(q)
      BY <1>12 DEF SameClose, AtClose, InBody, ReaderFail, CallClose
  <2>2. /\ closing'[Reader(c)] \in Conns <=> AtClose(Reader(c))' \/ InBody(Reader(c))'
        /\ InBody(Reader(c))' => InBody(Reader(c)) /\ closing'[Reader(c)] = closing[Reader(c)]
      BY <1>12 DEF CloseBody, AtClose, InBody, ReaderFail, CallClose
  <2>3. UNCHANGED connState
      BY <1>12 DEF ReaderFail
  <2> QED
      BY <2>1, <2>2, <2>3, CloseBodyKept
<1>13. ASSUME NEW c \in Conns, SrvRLock(c) PROVE CloseBody'
  <2>1. \A q \in Goroutines \ {Consumer(c)} : SameClose(q)
      BY <1>13 DEF SameClose, AtClose, InBody, SrvRLock, RLock, CallClose
  <2>2. /\ closing'[Consumer(c)] \in Conns <=> AtClose(Consumer(c))' \/ InBody(Consumer(c))'
        /\ InBody(Consumer(c))' => InBody(Consumer(c)) /\ closing'[Consumer(c)] = closing[Consumer(c)]
      BY <1>13 DEF CloseBody, AtClose, InBody, SrvRLock, RLock, CallClose
  <2>3. UNCHANGED connState
      BY <1>13 DEF SrvRLock
  <2> QED
      BY <2>1, <2>2, <2>3, CloseBodyKept
<1>14. ASSUME NEW c \in Conns, SrvEnd(c) PROVE CloseBody'
  <2>1. \A q \in Goroutines \ {Consumer(c)} : SameClose(q)
      BY <1>14 DEF SameClose, AtClose, InBody, SrvEnd, RUnlock, CallReconnecting, CsBack
  <2>2. /\ closing'[Consumer(c)] \in Conns <=> AtClose(Consumer(c))' \/ InBody(Consumer(c))'
        /\ InBody(Consumer(c))' => InBody(Consumer(c)) /\ closing'[Consumer(c)] = closing[Consumer(c)]
      BY <1>14 DEF CloseBody, AtClose, InBody, SrvEnd, RUnlock, CallReconnecting, CsBack
  <2>3. UNCHANGED connState
      BY <1>14 DEF SrvEnd
  <2> QED
      BY <2>1, <2>2, <2>3, CloseBodyKept
<1>15. ASSUME NEW c \in Conns, CsDrained(c) PROVE CloseBody'
  <2>1. \A q \in Goroutines \ {Consumer(c)} : SameClose(q)
      BY <1>15 DEF SameClose, AtClose, InBody, CsDrained, CallReconnecting
  <2>2. /\ closing'[Consumer(c)] \in Conns <=> AtClose(Consumer(c))' \/ InBody(Consumer(c))'
        /\ InBody(Consumer(c))' => InBody(Consumer(c)) /\ closing'[Consumer(c)] = closing[Consumer(c)]
      BY <1>15 DEF CloseBody, AtClose, InBody, CsDrained, CallReconnecting
  <2>3. UNCHANGED connState
      BY <1>15 DEF CsDrained
  <2> QED
      BY <2>1, <2>2, <2>3, CloseBodyKept
<1> QED
    BY <1>s, <1>0, <1>1, <1>2, <1>3, <1>4, <1>5, <1>6, <1>7, <1>8, <1>9, <1>10, <1>11,
        <1>12, <1>13, <1>14, <1>15 DEF CloseOrRec, CloseStep, RecStep

-----------------------------------------------------------------------------
(* A connection's consumer, seen by the other goroutines.                    *)

\* The actions that move c's consumer or touch its channel.
CsMoves(c) ==
    \/ CloseStep(Consumer(c)) \/ RecStep(Consumer(c)) \/ CsStep(c)
    \/ ReaderResponse(c) \/ ReaderServer(c)
    \/ c = conn /\ \E p \in {Main, Reconnector} : DialOnPacket(p)

CsSame(c) ==
    /\ pc'[Consumer(c)] = pc[Consumer(c)] /\ cret'[Consumer(c)] = cret[Consumer(c)]
    /\ rret'[Consumer(c)] = rret[Consumer(c)]
    /\ packetCh'[c] = packetCh[c] /\ queue'[c] = queue[c] /\ left'[c] = left[c]

\* Only its own steps, its reader and its dial move a consumer or touch its
\* channel.
LEMMA CsFrame == TypeOK /\ PcOK /\ Born /\ Next => \A d \in Conns : CsSame(d) \/ CsMoves(d)
<1> SUFFICES ASSUME TypeOK, PcOK, Born, Next PROVE \A d \in Conns : CsSame(d) \/ CsMoves(d)
    OBVIOUS
<1>e. Effects
    BY EffectsHold
<1> USE Procs, Distinct DEF TypeOK, GoroutineTypes, ConnTypes, At, Goto, lockVars, sessVars,
    shutVars, retVars, reqVars, connVars
<1>0. UNCHANGED <<pc, cret, rret, packetCh, queue, left>> =>
        \A d \in Conns : CsSame(d) \/ CsMoves(d)
    BY DEF CsSame
<1>1. ASSUME NEW p \in Goroutines, Announce(p) PROVE UNCHANGED <<pc, cret, rret, packetCh,
    queue, left>>
    BY <1>1 DEF Announce
<1>2. ASSUME NEW p \in Goroutines, CloseCheck(p) PROVE \A d \in Conns : CsSame(d) \/
    CsMoves(d)
  <2> SUFFICES ASSUME NEW d \in Conns PROVE CsSame(d) \/ CsMoves(d)
      OBVIOUS
  <2>1. CASE p = Consumer(d)
      BY <1>2, <2>1 DEF CsMoves, CloseStep
  <2>2. CASE p # Consumer(d)
      BY <1>2, <2>2 DEF CsSame, CloseCheck, CloseReturn
  <2> QED
      BY <2>1, <2>2
<1>3. ASSUME NEW p \in Goroutines, CloseOnce(p) PROVE \A d \in Conns : CsSame(d) \/
    CsMoves(d)
  <2> SUFFICES ASSUME NEW d \in Conns PROVE CsSame(d) \/ CsMoves(d)
      OBVIOUS
  <2>1. CASE p = Consumer(d)
      BY <1>3, <2>1 DEF CsMoves, CloseStep
  <2>2. CASE p # Consumer(d)
      BY <1>3, <2>2 DEF CsSame, CloseOnce, CloseReturn
  <2> QED
      BY <2>1, <2>2
<1>4. ASSUME NEW p \in Goroutines, CloseDispatch(p) PROVE \A d \in Conns : CsSame(d) \/
    CsMoves(d)
  <2> SUFFICES ASSUME NEW d \in Conns PROVE CsSame(d) \/ CsMoves(d)
      OBVIOUS
  <2>1. CASE p = Consumer(d)
      BY <1>4, <2>1 DEF CsMoves, CloseStep
  <2>2. CASE p # Consumer(d)
      BY <1>4, <2>2 DEF CsSame, CloseDispatch, CallReconnecting
  <2> QED
      BY <2>1, <2>2
<1>5. ASSUME NEW p \in Goroutines, CloseEnd(p) PROVE \A d \in Conns : CsSame(d) \/
    CsMoves(d)
  <2> SUFFICES ASSUME NEW d \in Conns PROVE CsSame(d) \/ CsMoves(d)
      OBVIOUS
  <2>1. CASE p = Consumer(d)
      BY <1>5, <2>1 DEF CsMoves, CloseStep
  <2>2. CASE p # Consumer(d)
      BY <1>5, <2>2 DEF CsSame, CloseEnd, CloseReturn
  <2> QED
      BY <2>1, <2>2
<1>6. ASSUME NEW p \in Goroutines, RecEnter(p) PROVE \A d \in Conns : CsSame(d) \/
    CsMoves(d)
  <2> SUFFICES ASSUME NEW d \in Conns PROVE CsSame(d) \/ CsMoves(d)
      OBVIOUS
  <2>1. CASE p = Consumer(d)
      BY <1>6, <2>1 DEF CsMoves, RecStep
  <2>2. CASE p # Consumer(d)
      BY <1>6, <2>2 DEF CsSame, RecEnter, CanLock, RecReturn, Unlock
  <2> QED
      BY <2>1, <2>2
<1>7. ASSUME NEW p \in Goroutines, RecWait(p) PROVE \A d \in Conns : CsSame(d) \/ CsMoves(d)
  <2> SUFFICES ASSUME NEW d \in Conns PROVE CsSame(d) \/ CsMoves(d)
      OBVIOUS
  <2>1. CASE p = Consumer(d)
      BY <1>7, <2>1 DEF CsMoves, RecStep
  <2>2. CASE p # Consumer(d)
      BY <1>7, <2>2 DEF CsSame, RecWait
  <2> QED
      BY <2>1, <2>2
<1>8. ASSUME NEW p \in Goroutines, RecLeave(p) PROVE \A d \in Conns : CsSame(d) \/
    CsMoves(d)
  <2> SUFFICES ASSUME NEW d \in Conns PROVE CsSame(d) \/ CsMoves(d)
      OBVIOUS
  <2>1. CASE p = Consumer(d)
      BY <1>8, <2>1 DEF CsMoves, RecStep
  <2>2. CASE p # Consumer(d)
      BY <1>8, <2>2 DEF CsSame, RecLeave, CanLock, RecReturn, Unlock
  <2> QED
      BY <2>1, <2>2
<1>9. ASSUME NEW p \in {Main, Reconnector}, DialLock(p) PROVE \A d \in Conns : CsSame(d) \/
    CsMoves(d)
    BY <1>9 DEF DialLock, CanLock, CsSame, Callers
<1>10. ASSUME NEW p \in {Main, Reconnector}, DialFail(p) PROVE \A d \in Conns : CsSame(d) \/
    CsMoves(d)
    BY <1>10 DEF DialFail, Unlock, CsSame, Callers
<1>11. ASSUME NEW p \in {Main, Reconnector}, DialOnPacket(p) PROVE \A d \in Conns :
    CsSame(d) \/ CsMoves(d)
  <2> SUFFICES ASSUME NEW d \in Conns PROVE CsSame(d) \/ CsMoves(d)
      OBVIOUS
  <2>1. CASE conn = d
      BY <1>11, <2>1 DEF CsMoves
  <2>2. CASE conn # d
      BY <1>11, <2>2 DEF CsSame, DialOnPacket, Born
  <2> QED
      BY <2>1, <2>2
<1>12. ASSUME NEW p \in {Main, Reconnector}, DialOnClose(p) PROVE \A d \in Conns : CsSame(d)
    \/ CsMoves(d)
    BY <1>12 DEF DialOnClose, Unlock, CsSame, Callers
<1>13. ASSUME NEW p \in {Main, Reconnector}, NEW c \in Conns, DialOk(p, c) PROVE \A d \in
    Conns : CsSame(d) \/ CsMoves(d)
    BY <1>13 DEF DialOk, CsSame, Callers
<1>14. ASSUME NEW p \in Callers, DoNil(p) PROVE UNCHANGED <<pc, cret, rret, packetCh, queue,
    left>>
    BY <1>14 DEF DoNil, RLock
<1>15. ASSUME NEW p \in Callers, DoWrite(p) PROVE \A d \in Conns : CsSame(d) \/ CsMoves(d)
    BY <1>15 DEF DoWrite, RLock, CsSame, Callers
<1>16. ASSUME NEW p \in Callers, DoWriteErr(p) PROVE \A d \in Conns : CsSame(d) \/
    CsMoves(d)
    BY <1>16 DEF DoWriteErr, DoEnd, DoRet, CsSame, Callers
<1>17. ASSUME NEW p \in Callers, DoRegister(p) PROVE \A d \in Conns : CsSame(d) \/
    CsMoves(d)
    BY <1>17 DEF DoRegister, CsSame, Callers
<1>18. ASSUME NEW p \in Callers, DoReceive(p) PROVE \A d \in Conns : CsSame(d) \/ CsMoves(d)
  <2>1. RecvEndEff(p)
      BY <1>18, <1>e DEF Effects
  <2>2. UNCHANGED <<rret, queue, left>>
      BY <1>18 DEF DoReceive, RecvEnd
  <2> QED
      BY <2>1, <2>2 DEF RecvEndEff, CsSame, Callers
<1>19. ASSUME NEW p \in Callers, DoTimeout(p) PROVE \A d \in Conns : CsSame(d) \/ CsMoves(d)
  <2>1. RecvEndEff(p)
      BY <1>19, <1>e DEF Effects
  <2>2. UNCHANGED <<rret, queue, left>>
      BY <1>19 DEF DoTimeout, RecvEnd
  <2> QED
      BY <2>1, <2>2 DEF RecvEndEff, CsSame, Callers
<1>20. ASSUME NEW p \in UserProcs \cup {Reconnector}, ClBegin(p) PROVE \A d \in Conns :
    CsSame(d) \/ CsMoves(d)
  <2>1. ClBeginEff(p)
      BY <1>20, <1>e DEF Effects
  <2>2. UNCHANGED <<rret, queue, left>>
      BY <1>20 DEF ClBegin
  <2> QED
      BY <2>1, <2>2 DEF ClBeginEff, CsSame
<1>21. ASSUME NEW p \in UserProcs \cup {Reconnector}, ClRLock(p) PROVE \A d \in Conns :
    CsSame(d) \/ CsMoves(d)
    BY <1>21 DEF ClRLock, RLock, CallClose, CsSame, Callers
<1>22. ASSUME NEW p \in UserProcs \cup {Reconnector}, ClEnd(p) PROVE \A d \in Conns :
    CsSame(d) \/ CsMoves(d)
    BY <1>22 DEF ClEnd, RUnlock, CsSame, Callers
<1>23. ASSUME AuthExpire PROVE UNCHANGED <<pc, cret, rret, packetCh, queue, left>>
    BY <1>23 DEF AuthExpire
<1>24. ASSUME MainDialed PROVE \A d \in Conns : CsSame(d) \/ CsMoves(d)
  <2>1. UNCHANGED <<cret, rret, packetCh, queue, left>>
      BY <1>24 DEF MainDialed
  <2>2. \E l \in {"do_rlock", "m_err", "m_ok"} :
            pc' = [pc EXCEPT ![Main] = l, ![Keepalive] = "ka_idle"]
      BY <1>24 DEF MainDialed
  <2> QED
      BY <2>1, <2>2 DEF CsSame
<1>25. ASSUME MainAuthed PROVE \A d \in Conns : CsSame(d) \/ CsMoves(d)
    BY <1>25 DEF MainAuthed, Granted, CsSame, Callers
<1>26. ASSUME RcTry PROVE \A d \in Conns : CsSame(d) \/ CsMoves(d)
    BY <1>26 DEF RcTry, CallClose, CsSame, Callers
<1>27. ASSUME RcClear PROVE \A d \in Conns : CsSame(d) \/ CsMoves(d)
    BY <1>27 DEF RcClear, CsSame, Callers
<1>28. ASSUME RcDialed PROVE \A d \in Conns : CsSame(d) \/ CsMoves(d)
    BY <1>28 DEF RcDialed, CallDo, CsSame, Callers
<1>29. ASSUME RcAuthed PROVE \A d \in Conns : CsSame(d) \/ CsMoves(d)
    BY <1>29 DEF RcAuthed, Granted, CsSame, Callers
<1>30. ASSUME RcResumed PROVE \A d \in Conns : CsSame(d) \/ CsMoves(d)
    BY <1>30 DEF RcResumed, Granted, CsSame, Callers
<1>31. ASSUME RcAfter PROVE \A d \in Conns : CsSame(d) \/ CsMoves(d)
    BY <1>31 DEF RcAfter, CallDo, CsSame, Callers
<1>32. ASSUME KaExit PROVE \A d \in Conns : CsSame(d) \/ CsMoves(d)
    BY <1>32 DEF KaExit, CsSame, Callers
<1>33. ASSUME KaTimeout PROVE \A d \in Conns : CsSame(d) \/ CsMoves(d)
    BY <1>33 DEF KaTimeout, CallReconnecting, CsSame, Callers
<1>34. ASSUME KaPing PROVE \A d \in Conns : CsSame(d) \/ CsMoves(d)
    BY <1>34 DEF KaPing, CallReconnecting, CsSame, Callers
<1>35. ASSUME NEW p \in UserProcs, UserDo(p) PROVE \A d \in Conns : CsSame(d) \/ CsMoves(d)
    BY <1>35 DEF UserDo, CallDo, CsSame, Callers
<1>36. ASSUME NEW p \in UserProcs, UserClose(p) PROVE \A d \in Conns : CsSame(d) \/
    CsMoves(d)
    BY <1>36 DEF UserClose, CsSame, Callers
<1>37. ASSUME NEW c \in Conns, ReaderResponse(c) PROVE \A d \in Conns : CsSame(d) \/
    CsMoves(d)
  <2> SUFFICES ASSUME NEW d \in Conns PROVE CsSame(d) \/ CsMoves(d)
      OBVIOUS
  <2>1. CASE c = d
      BY <1>37, <2>1 DEF CsMoves
  <2>2. CASE c # d
    <3>1. UNCHANGED <<pc, cret, rret, packetCh, left>>
        BY <1>37 DEF ReaderResponse, ReaderPacket
    <3>2. queue'[d] = queue[d]
        BY <1>37, <2>2 DEF ReaderResponse, ReaderPacket
    <3> QED
        BY <3>1, <3>2 DEF CsSame
  <2> QED
      BY <2>1, <2>2
<1>38. ASSUME NEW c \in Conns, ReaderServer(c) PROVE \A d \in Conns : CsSame(d) \/
    CsMoves(d)
  <2> SUFFICES ASSUME NEW d \in Conns PROVE CsSame(d) \/ CsMoves(d)
      OBVIOUS
  <2>1. CASE c = d
      BY <1>38, <2>1 DEF CsMoves
  <2>2. CASE c # d
    <3>1. UNCHANGED <<pc, cret, rret, packetCh, left>>
        BY <1>38 DEF ReaderServer, ReaderPacket
    <3>2. queue'[d] = queue[d]
        BY <1>38, <2>2 DEF ReaderServer, ReaderPacket
    <3> QED
        BY <3>1, <3>2 DEF CsSame
  <2> QED
      BY <2>1, <2>2
<1>39. ASSUME NEW c \in Conns, ReaderFail(c) PROVE \A d \in Conns : CsSame(d) \/ CsMoves(d)
    BY <1>39 DEF ReaderFail, CallClose, CsSame, Callers
<1>40. ASSUME NEW c \in Conns, CsTop(c) PROVE \A d \in Conns : CsSame(d) \/ CsMoves(d)
  <2> SUFFICES ASSUME NEW d \in Conns PROVE CsSame(d) \/ CsMoves(d)
      OBVIOUS
  <2>1. CASE c = d
      BY <1>40, <2>1 DEF CsMoves, CsStep
  <2>2. CASE c # d
      BY <1>40, <2>2 DEF CsSame, CsTop
  <2> QED
      BY <2>1, <2>2
<1>41. ASSUME NEW c \in Conns, CsTake(c) PROVE \A d \in Conns : CsSame(d) \/ CsMoves(d)
  <2> SUFFICES ASSUME NEW d \in Conns PROVE CsSame(d) \/ CsMoves(d)
      OBVIOUS
  <2>1. CASE c = d
      BY <1>41, <2>1 DEF CsMoves, CsStep
  <2>2. CASE c # d
    <3>1. CsTakeEff(c)
        BY <1>41, <1>e DEF Effects
    <3>2. queue'[d] = queue[d] /\ left'[d] = left[d]
        BY <1>41, <2>2 DEF CsTake
    <3> QED
        BY <2>2, <3>1, <3>2 DEF CsSame, CsTakeEff
  <2> QED
      BY <2>1, <2>2
<1>42. ASSUME NEW c \in Conns, SrvRLock(c) PROVE \A d \in Conns : CsSame(d) \/ CsMoves(d)
  <2> SUFFICES ASSUME NEW d \in Conns PROVE CsSame(d) \/ CsMoves(d)
      OBVIOUS
  <2>1. CASE c = d
      BY <1>42, <2>1 DEF CsMoves, CsStep
  <2>2. CASE c # d
      BY <1>42, <2>2 DEF CsSame, SrvRLock, RLock, CallClose
  <2> QED
      BY <2>1, <2>2
<1>43. ASSUME NEW c \in Conns, SrvEnd(c) PROVE \A d \in Conns : CsSame(d) \/ CsMoves(d)
  <2> SUFFICES ASSUME NEW d \in Conns PROVE CsSame(d) \/ CsMoves(d)
      OBVIOUS
  <2>1. CASE c = d
      BY <1>43, <2>1 DEF CsMoves, CsStep
  <2>2. CASE c # d
      BY <1>43, <2>2 DEF CsSame, SrvEnd, RUnlock, CallReconnecting
  <2> QED
      BY <2>1, <2>2
<1>44. ASSUME NEW c \in Conns, CsDrained(c) PROVE \A d \in Conns : CsSame(d) \/ CsMoves(d)
  <2> SUFFICES ASSUME NEW d \in Conns PROVE CsSame(d) \/ CsMoves(d)
      OBVIOUS
  <2>1. CASE c = d
      BY <1>44, <2>1 DEF CsMoves, CsStep
  <2>2. CASE c # d
      BY <1>44, <2>2 DEF CsSame, CsDrained, CallReconnecting
  <2> QED
      BY <2>1, <2>2
<1>45. ASSUME NEW c \in Conns, CsFin(c) PROVE \A d \in Conns : CsSame(d) \/ CsMoves(d)
  <2> SUFFICES ASSUME NEW d \in Conns PROVE CsSame(d) \/ CsMoves(d)
      OBVIOUS
  <2>1. CASE c = d
      BY <1>45, <2>1 DEF CsMoves, CsStep
  <2>2. CASE c # d
      BY <1>45, <2>2 DEF CsSame, CsFin
  <2> QED
      BY <2>1, <2>2
<1> QED
    BY SMTT(30), <1>0, <1>1, <1>2, <1>3, <1>4, <1>5, <1>6, <1>7, <1>8, <1>9, <1>10, <1>11, <1>12,
        <1>13, <1>14, <1>15, <1>16, <1>17, <1>18, <1>19, <1>20, <1>21, <1>22, <1>23, <1>24,
        <1>25, <1>26, <1>27, <1>28, <1>29, <1>30, <1>31, <1>32, <1>33, <1>34, <1>35, <1>36,
        <1>37, <1>38, <1>39, <1>40, <1>41, <1>42, <1>43, <1>44, <1>45 DEF Next, Environment,
        Step, CloseStep, RecStep, DialStep, DoStep, ClStep, MainStep, RcStep, KaStep, CsStep

\* A step that leaves c's consumer and channel alone leaves c's life alone.
LEMMA LifeKept ==
    ASSUME NEW c \in Conns, LifeOf(c), Closed(c) => Closed(c)', CsSame(c)
    PROVE  LifeOf(c)'
BY DEF LifeOf, Loops, CsSame

\* The consumer and its channel end together; what is left is counted once the
\* connection is found closed.
LEMMA ConsumerLifeNext ==
    TypeOK /\ PcOK /\ Born /\ ConsumerLife /\ Next => ConsumerLife'
<1> SUFFICES ASSUME TypeOK, PcOK, Born, ConsumerLife, Next, NEW c \in Conns
             PROVE  LifeOf(c)'
    BY DEF ConsumerLife
<1> DEFINE C == Consumer(c)
<1>1. LifeOf(c) /\ C \in Goroutines /\ C # Reconnector
    BY Procs, Distinct DEF ConsumerLife
<1>2. Closed(c) => Closed(c)'
    BY ClosedStays
<1>3. CsSame(c) \/ CsMoves(c)
    BY CsFrame
<1>4. /\ pc \in [Goroutines -> Labels] /\ rret \in [Goroutines -> Labels]
      /\ cret \in [Goroutines -> Labels]
      /\ packetCh \in [Conns -> {"nil", "open", "closed"}]
      /\ queue \in [Conns -> Seq(Packets)] /\ left \in [Conns -> Nat \cup {-1}]
    BY DEF TypeOK, GoroutineTypes, ConnTypes
<1>5. pc[C] \in RecL => rret[C] \in {"off", "close_end", "cs_top", "cs_drain", "cs_fin"}
    BY DEF PcOK
<1>6. Reconnector \in Goroutines
    BY Procs
<1> HIDE DEF C
<1> USE <1>1, <1>2, <1>4, <1>6 DEF LifeOf, Loops, CloseL, RecL, At, Goto
<1>7. ASSUME CloseStep(C) PROVE LifeOf(c)'
  <2>1. UNCHANGED <<packetCh, queue, left>>
      BY <1>7 DEF CloseStep, CloseCheck, CloseOnce, CloseDispatch, CloseEnd, connVars
  <2>2. CASE CloseCheck(C)
      BY <2>1, <2>2 DEF CloseCheck, CloseReturn, C
  <2>3. CASE CloseOnce(C)
      BY <2>1, <2>3 DEF CloseOnce, CloseReturn, C
  <2>4. CASE CloseDispatch(C)
      BY <2>1, <2>4 DEF CloseDispatch, CallReconnecting, C
  <2>5. CASE CloseEnd(C)
      BY <2>1, <2>5 DEF CloseEnd, CloseReturn, C
  <2> QED
      BY <1>7, <2>2, <2>3, <2>4, <2>5 DEF CloseStep
<1>8. ASSUME RecStep(C) PROVE LifeOf(c)'
  <2>1. UNCHANGED <<packetCh, queue, left, cret>>
      BY <1>8 DEF RecStep, RecEnter, RecWait, RecLeave, connVars, retVars
  <2>2. CASE RecEnter(C) /\ doReconnectting
      BY <1>5, <2>1, <2>2 DEF RecEnter, RecReturn, C
  <2>3. CASE RecEnter(C) /\ ~doReconnectting
      BY <2>1, <2>3 DEF RecEnter, C
  <2>4. CASE RecWait(C)
      BY <2>1, <2>4 DEF RecWait, retVars, C
  <2>5. CASE RecLeave(C)
      BY <1>5, <2>1, <2>5 DEF RecLeave, RecReturn, C
  <2> QED
      BY <1>8, <2>2, <2>3, <2>4, <2>5 DEF RecStep
<1>9. ASSUME CsTop(c) PROVE LifeOf(c)'
  <2>1. /\ UNCHANGED <<packetCh, queue, cret, rret>> /\ pc[C] = "cs_top"
        /\ pc' = [pc EXCEPT ![C] = IF Closed(c) THEN "cs_drain" ELSE "cs_recv"]
        /\ left' = IF Closed(c) THEN [left EXCEPT ![c] = Len(queue[c])] ELSE left
      BY <1>9 DEF CsTop, retVars, C
  <2>2. Len(queue[c]) \in Nat
      OBVIOUS
  <2> QED
      BY <2>1, <2>2 DEF C
<1>10. ASSUME CsTake(c) PROVE LifeOf(c)'
  <2>1. UNCHANGED <<packetCh, cret, rret>> /\ pc[C] \in {"cs_recv", "cs_drain"}
      BY <1>10 DEF CsTake, retVars, C
  <2>2. pc' = pc \/ \E l \in {CsBack(c), "srv_rlock"} : pc' = [pc EXCEPT ![C] = l]
      BY <1>10 DEF CsTake, HandleResponse, HandleOther, C
  <2>3. \/ pc[C] = "cs_recv" /\ left' = left
        \/ pc[C] = "cs_drain" /\ left[c] > 0 /\ left' = [left EXCEPT ![c] = left[c] - 1]
      BY <1>10 DEF CsTake, C
  <2>4. left[c] \in Int /\ packetCh[c] = "open"
      BY <2>1 DEF C
  <2> QED
      BY <2>1, <2>2, <2>3, <2>4 DEF C, CsBack
<1>11. ASSUME SrvRLock(c) PROVE LifeOf(c)'
    BY <1>11 DEF SrvRLock, CallClose, connVars, C
<1>12. ASSUME SrvEnd(c) PROVE LifeOf(c)'
    BY <1>12 DEF SrvEnd, CallReconnecting, CsBack, connVars, C
<1>13. ASSUME CsDrained(c) PROVE LifeOf(c)'
    BY <1>13 DEF CsDrained, CallReconnecting, connVars, C
<1>14. ASSUME CsFin(c) PROVE LifeOf(c)'
    BY <1>14 DEF CsFin, retVars, C
<1>15. ASSUME ReaderResponse(c) \/ ReaderServer(c) PROVE LifeOf(c)'
  <2>1. UNCHANGED <<pc, cret, rret, packetCh, left>>
      BY <1>15 DEF ReaderResponse, ReaderServer, ReaderPacket, retVars
  <2>2. packetCh[c] # "open" => queue' = queue
      BY <1>15 DEF ReaderResponse, ReaderServer, ReaderPacket
  <2> QED
      BY <2>1, <2>2
<1>16. ASSUME c = conn, NEW p \in {Main, Reconnector}, DialOnPacket(p) PROVE LifeOf(c)'
  <2>1. packetCh[c] = "nil" /\ p \in Goroutines
      BY <1>16, Procs DEF Born, DialOnPacket
  <2> QED
      BY <1>16, <2>1 DEF DialOnPacket, retVars, C
<1>17. ASSUME CsSame(c) PROVE LifeOf(c)'
    BY <1>17, LifeKept
<1> QED
    BY <1>3, <1>7, <1>8, <1>9, <1>10, <1>11, <1>12, <1>13, <1>14, <1>15, <1>16, <1>17
        DEF CsMoves, CsStep, C

-----------------------------------------------------------------------------
(* Every connection is one that ConnView describes.                          *)

\* The actions that touch a connection's channel.
ChannelActs ==
    \/ \E c \in Conns : CsTop(c) \/ CsTake(c) \/ CsFin(c) \/ ReaderResponse(c) \/ ReaderServer(c)
    \/ \E p \in {Main, Reconnector} : DialOnPacket(p)

\* No other action touches a channel.
LEMMA ChannelFrame == TypeOK /\ Next => UNCHANGED <<packetCh, queue, left>> \/ ChannelActs
<1> SUFFICES ASSUME TypeOK, Next PROVE UNCHANGED <<packetCh, queue, left>> \/ ChannelActs
    OBVIOUS
<1> USE DEF At, Goto, lockVars, sessVars, shutVars, retVars, reqVars, connVars
<1>0. UNCHANGED <<packetCh, queue, left>> => UNCHANGED <<packetCh, queue, left>> \/
    ChannelActs
    OBVIOUS
<1>1. ASSUME NEW p \in Goroutines, Announce(p) \/ CloseCheck(p) \/ CloseOnce(p) \/
    CloseDispatch(p) \/ CloseEnd(p) \/ RecEnter(p) \/ RecWait(p) \/ RecLeave(p) PROVE
    UNCHANGED <<packetCh, queue, left>>
    BY <1>1 DEF Announce, CloseCheck, CloseReturn, CloseOnce, CloseDispatch,
        CallReconnecting, CloseEnd, RecEnter, CanLock, RecReturn, Unlock, RecWait, RecLeave
<1>2. ASSUME NEW p \in {Main, Reconnector}, DialLock(p) \/ DialFail(p) \/ DialOnClose(p)
    PROVE UNCHANGED <<packetCh, queue, left>>
    BY <1>2 DEF DialLock, CanLock, DialFail, Unlock, DialOnClose
<1>3. ASSUME NEW p \in {Main, Reconnector}, DialOnPacket(p) PROVE UNCHANGED <<packetCh,
    queue, left>> \/ ChannelActs
    BY <1>3 DEF ChannelActs
<1>4. ASSUME NEW p \in {Main, Reconnector}, NEW c \in Conns, DialOk(p, c) PROVE UNCHANGED
    <<packetCh, queue, left>>
    BY <1>4 DEF DialOk
<1>5. ASSUME NEW p \in Callers, DoNil(p) \/ DoWrite(p) \/ DoWriteErr(p) \/ DoRegister(p) \/
    DoReceive(p) \/ DoTimeout(p) PROVE UNCHANGED <<packetCh, queue, left>>
    BY <1>5 DEF DoNil, RLock, DoWrite, DoWriteErr, DoEnd, DoRegister, DoReceive, RecvEnd,
        RUnlock, DoTimeout
<1>6. ASSUME NEW p \in UserProcs \cup {Reconnector}, ClBegin(p) \/ ClRLock(p) \/ ClEnd(p)
    PROVE UNCHANGED <<packetCh, queue, left>>
    BY <1>6 DEF ClBegin, ClRLock, RLock, CallClose, ClEnd, RUnlock
<1>7. ASSUME MainDialed \/ MainAuthed \/ RcTry \/ RcClear \/ RcDialed \/ RcAuthed \/
    RcResumed \/ RcAfter \/ AuthExpire \/ KaExit \/ KaTimeout \/ KaPing PROVE UNCHANGED
    <<packetCh, queue, left>>
    BY <1>7 DEF MainDialed, MainAuthed, RcTry, CallClose, RcClear, RcDialed, CallDo,
        RcAuthed, RcResumed, RcAfter, AuthExpire, KaExit, KaTimeout, CallReconnecting,
        KaPing
<1>8. ASSUME NEW p \in UserProcs, UserDo(p) \/ UserClose(p) PROVE UNCHANGED <<packetCh,
    queue, left>>
    BY <1>8 DEF UserDo, CallDo, UserClose
<1>9. ASSUME NEW c \in Conns, ReaderFail(c) \/ SrvRLock(c) \/ SrvEnd(c) \/ CsDrained(c)
    PROVE UNCHANGED <<packetCh, queue, left>>
    BY <1>9 DEF ReaderFail, CallClose, SrvRLock, RLock, SrvEnd, RUnlock, CallReconnecting,
        CsDrained
<1>10. ASSUME NEW c \in Conns, ReaderResponse(c) PROVE UNCHANGED <<packetCh, queue, left>>
    \/ ChannelActs
    BY <1>10 DEF ChannelActs
<1>11. ASSUME NEW c \in Conns, ReaderServer(c) PROVE UNCHANGED <<packetCh, queue, left>> \/
    ChannelActs
    BY <1>11 DEF ChannelActs
<1>12. ASSUME NEW c \in Conns, CsTop(c) PROVE UNCHANGED <<packetCh, queue, left>> \/
    ChannelActs
    BY <1>12 DEF ChannelActs
<1>13. ASSUME NEW c \in Conns, CsTake(c) PROVE UNCHANGED <<packetCh, queue, left>> \/
    ChannelActs
    BY <1>13 DEF ChannelActs
<1>14. ASSUME NEW c \in Conns, CsFin(c) PROVE UNCHANGED <<packetCh, queue, left>> \/
    ChannelActs
    BY <1>14 DEF ChannelActs
<1> QED
    BY SMTT(30), <1>0, <1>1, <1>2, <1>3, <1>4, <1>5, <1>6, <1>7, <1>8, <1>9, <1>10, <1>11, <1>12,
        <1>13, <1>14 DEF Next, Environment, Step, CloseStep, RecStep, DialStep, DoStep,
        ClStep, MainStep, RcStep, KaStep, CsStep

\* How a step may change the state of a connection.
StateStep(c) ==
    \/ connState'[c] = connState[c]
    \/ connState[c] = "unused" /\ connState'[c] = "open"
    \/ connState[c] = "open" /\ connState'[c] = "closing"
    \/ connState[c] = "closing" /\ connState'[c] = "closed"

\* A connection is opened once, then closes in two steps.
LEMMA StateFrame == TypeOK /\ PcOK /\ CloseBody /\ Next => \A d \in Conns : StateStep(d)
<1> SUFFICES ASSUME TypeOK, PcOK, CloseBody, Next PROVE \A d \in Conns : StateStep(d)
    OBVIOUS
<1>k. /\ connState \in [Conns -> {"unused", "open", "closing", "closed"}]
      /\ \A p \in Goroutines : pc[p] = "close_end" => connState[closing[p]] = "closing"
    BY DEF TypeOK, ConnTypes, CloseBody, InBody
<1> USE <1>k, Procs DEF StateStep, At, Goto, lockVars, sessVars, shutVars, retVars, reqVars,
    connVars
<1>0. UNCHANGED <<connState>> => \A d \in Conns : StateStep(d)
    OBVIOUS
<1>1. ASSUME NEW p \in Goroutines, Announce(p) \/ CloseCheck(p) \/ CloseDispatch(p) \/
    RecEnter(p) \/ RecWait(p) \/ RecLeave(p) PROVE UNCHANGED <<connState>>
    BY <1>1 DEF Announce, CloseCheck, CloseReturn, CloseDispatch, CallReconnecting,
        RecEnter, CanLock, RecReturn, Unlock, RecWait, RecLeave
<1>2. ASSUME NEW p \in Goroutines, CloseOnce(p) PROVE \A d \in Conns : StateStep(d)
    BY <1>2 DEF CloseOnce, CloseReturn
<1>3. ASSUME NEW p \in Goroutines, CloseEnd(p) PROVE \A d \in Conns : StateStep(d)
    BY <1>3 DEF CloseEnd, CloseReturn
<1>4. ASSUME NEW p \in {Main, Reconnector}, DialLock(p) \/ DialFail(p) \/ DialOnPacket(p) \/
    DialOnClose(p) PROVE UNCHANGED <<connState>>
    BY <1>4 DEF DialLock, CanLock, DialFail, Unlock, DialOnPacket, DialOnClose
<1>5. ASSUME NEW p \in {Main, Reconnector}, NEW c \in Conns, DialOk(p, c) PROVE \A d \in
    Conns : StateStep(d)
    BY <1>5 DEF DialOk
<1>6. ASSUME NEW p \in Callers, DoNil(p) \/ DoWrite(p) \/ DoWriteErr(p) \/ DoRegister(p) \/
    DoReceive(p) \/ DoTimeout(p) PROVE UNCHANGED <<connState>>
    BY <1>6 DEF DoNil, RLock, DoWrite, DoWriteErr, DoEnd, DoRegister, DoReceive, RecvEnd,
        RUnlock, DoTimeout
<1>7. ASSUME NEW p \in UserProcs \cup {Reconnector}, ClBegin(p) \/ ClRLock(p) \/ ClEnd(p)
    PROVE UNCHANGED <<connState>>
    BY <1>7 DEF ClBegin, ClRLock, RLock, CallClose, ClEnd, RUnlock
<1>8. ASSUME MainDialed \/ MainAuthed \/ RcTry \/ RcClear \/ RcDialed \/ RcAuthed \/
    RcResumed \/ RcAfter \/ AuthExpire \/ KaExit \/ KaTimeout \/ KaPing PROVE UNCHANGED
    <<connState>>
    BY <1>8 DEF MainDialed, MainAuthed, RcTry, CallClose, RcClear, RcDialed, CallDo,
        RcAuthed, RcResumed, RcAfter, AuthExpire, KaExit, KaTimeout, CallReconnecting,
        KaPing
<1>9. ASSUME NEW p \in UserProcs, UserDo(p) \/ UserClose(p) PROVE UNCHANGED <<connState>>
    BY <1>9 DEF UserDo, CallDo, UserClose
<1>10. ASSUME NEW c \in Conns, ReaderResponse(c) \/ ReaderServer(c) \/ ReaderFail(c) \/
    CsTop(c) \/ CsTake(c) \/ SrvRLock(c) \/ SrvEnd(c) \/ CsDrained(c) \/ CsFin(c) PROVE
    UNCHANGED <<connState>>
    BY <1>10 DEF ReaderResponse, ReaderPacket, ReaderServer, ReaderFail, CallClose, CsTop,
        CsTake, HandleResponse, HandleOther, SrvRLock, RLock, SrvEnd, RUnlock,
        CallReconnecting, CsDrained, CsFin
<1> QED
    BY SMTT(30), <1>0, <1>1, <1>2, <1>3, <1>4, <1>5, <1>6, <1>7, <1>8, <1>9, <1>10 DEF Next,
        Environment, Step, CloseStep, RecStep, DialStep, DoStep, ClStep, MainStep, RcStep,
        KaStep, CsStep

\* What Append does to the end of a sequence.
LEMMA AppendPrefix ==
    ASSUME NEW S, NEW s \in Seq(S), NEW e
    PROVE  Len(Append(s, e)) = Len(s) + 1 /\ SubSeq(Append(s, e), 1, Len(s)) = s
OBVIOUS

\* A step of the client is, for each connection, a step of ConnView or none.
LEMMA ViewStep ==
    TypeOK /\ PcOK /\ Born /\ CloseBody /\ ConsumerLife /\ Next
        => \A c \in Conns : View(c)!Next \/ UNCHANGED View(c)!vars
<1> SUFFICES ASSUME TypeOK, PcOK, Born, CloseBody, ConsumerLife, Next, NEW c \in Conns
             PROVE  View(c)!Next \/ UNCHANGED View(c)!vars
    OBVIOUS
<1>1. StateStep(c)
    BY StateFrame
<1>2. /\ connState[c] \in {"unused", "open", "closing", "closed"}
      /\ packetCh \in [Conns -> {"nil", "open", "closed"}] /\ packetCh[c] \in {"nil", "open", "closed"}
      /\ queue \in [Conns -> Seq(Packets)] /\ queue[c] \in Seq(Packets)
      /\ left \in [Conns -> Nat \cup {-1}] /\ left[c] \in Nat \cup {-1}
      /\ Len(queue[c]) \in Nat
    BY DEF TypeOK, ConnTypes
<1>3. ReadQueueSize \in Nat \ {0}
    BY ClientAssumption
<1>4. LifeOf(c)
    BY DEF ConsumerLife
<1>5. ASSUME UNCHANGED <<packetCh, queue, left>>
      PROVE  View(c)!Next \/ UNCHANGED View(c)!vars
    BY <1>1, <1>5 DEF StateStep, View!Next, View!vars, View!BeginClose, View!EndClose
<1>6. ASSUME NEW d \in Conns, d # c,
             CsTop(d) \/ CsTake(d) \/ CsFin(d) \/ ReaderResponse(d) \/ ReaderServer(d)
      PROVE  UNCHANGED View(c)!vars
  <2>1. UNCHANGED connState /\ packetCh'[c] = packetCh[c] /\ queue'[c] = queue[c]
      BY <1>6, <1>2 DEF CsTop, CsTake, CsFin, ReaderResponse, ReaderServer, ReaderPacket
  <2>2. left'[c] = left[c]
      BY <1>6, <1>2 DEF CsTop, CsTake, CsFin, ReaderResponse, ReaderServer, ReaderPacket
  <2> QED
      BY <2>1, <2>2 DEF View!vars
<1>7. ASSUME CsTop(c) PROVE View(c)!Next \/ UNCHANGED View(c)!vars
  <2>1. /\ UNCHANGED <<connState, packetCh, queue>> /\ pc[Consumer(c)] = "cs_top"
        /\ left' = IF Closed(c) THEN [left EXCEPT ![c] = Len(queue[c])] ELSE left
      BY <1>7 DEF CsTop, At
  <2>2. packetCh[c] = "open" /\ left[c] = -1
      BY <1>4, <2>1 DEF LifeOf, Loops
  <2>3. CASE Closed(c)
    <3>1. View(c)!Settle
        BY <1>2, <2>1, <2>2, <2>3 DEF View!Settle, Closed
    <3> QED
        BY <3>1 DEF View!Next
  <2>4. CASE ~Closed(c)
      BY <2>1, <2>4 DEF View!vars
  <2> QED
      BY <2>3, <2>4
<1>8. ASSUME CsTake(c) PROVE View(c)!Next \/ UNCHANGED View(c)!vars
  <2>1. /\ UNCHANGED <<connState, packetCh>> /\ queue[c] # <<>>
        /\ queue' = [queue EXCEPT ![c] = Tail(queue[c])]
      BY <1>8 DEF CsTake
  <2>2. \/ pc[Consumer(c)] = "cs_recv" /\ left' = left
        \/ pc[Consumer(c)] = "cs_drain" /\ left[c] > 0 /\ left' = [left EXCEPT ![c] = left[c] - 1]
      BY <1>8 DEF CsTake, At
  <2>3. packetCh[c] = "open" /\ (pc[Consumer(c)] = "cs_recv" => left[c] = -1)
      BY <1>4, <2>2 DEF LifeOf, Loops
  <2>4. queue'[c] = Tail(queue[c])
      BY <1>2, <2>1
  <2>5. \/ left[c] = -1 /\ left'[c] = left[c]
        \/ left[c] > 0 /\ left'[c] = left[c] - 1
      BY <1>2, <2>2, <2>3
  <2>6. View(c)!Take
      BY <2>1, <2>3, <2>4, <2>5 DEF View!Take
  <2> QED
      BY <2>6 DEF View!Next
<1>9. ASSUME CsFin(c) PROVE View(c)!Next \/ UNCHANGED View(c)!vars
  <2>1. /\ UNCHANGED <<connState, queue>> /\ pc[Consumer(c)] = "cs_fin"
        /\ packetCh' = [packetCh EXCEPT ![c] = "closed"]
      BY <1>9 DEF CsFin, At
  <2>2. packetCh[c] = "open" /\ left[c] = 0 /\ packetCh'[c] = "closed"
      BY <1>2, <1>4, <2>1 DEF LifeOf, Loops
  <2>3. View(c)!Shut
      BY <2>1, <2>2 DEF View!Shut
  <2> QED
      BY <2>3 DEF View!Next
<1>10. ASSUME ReaderResponse(c) \/ ReaderServer(c) PROVE View(c)!Next \/ UNCHANGED View(c)!vars
  <2>1. PICK k : ReaderPacket(c, k)
      BY <1>10 DEF ReaderResponse, ReaderServer
  <2>2. UNCHANGED <<connState, packetCh, left>>
      BY <2>1 DEF ReaderPacket
  <2>3. \/ UNCHANGED queue
        \/ /\ packetCh[c] = "open" /\ Len(queue[c]) < ReadQueueSize
           /\ queue' = [queue EXCEPT ![c] = Append(queue[c], k)]
      BY <2>1 DEF ReaderPacket
  <2>4. CASE UNCHANGED queue
      BY <2>2, <2>4 DEF View!vars
  <2>5. CASE /\ packetCh[c] = "open" /\ Len(queue[c]) < ReadQueueSize
             /\ queue' = [queue EXCEPT ![c] = Append(queue[c], k)]
    <3>1. queue'[c] = Append(queue[c], k)
        BY <1>2, <2>5
    <3>2. Len(Append(queue[c], k)) = Len(queue[c]) + 1 /\ SubSeq(Append(queue[c], k), 1, Len(queue[c])) = queue[c]
        BY <1>2, AppendPrefix
    <3>3. View(c)!Put
        BY <2>2, <2>5, <3>1, <3>2 DEF View!Put
    <3> QED
        BY <3>3 DEF View!Next
  <2> QED
      BY <2>3, <2>4, <2>5
<1>11. ASSUME NEW p \in {Main, Reconnector}, DialOnPacket(p)
       PROVE  View(c)!Next \/ UNCHANGED View(c)!vars
  <2>1. conn \in Conns /\ packetCh[conn] = "nil" /\ p \in Goroutines
      BY <1>11, Procs DEF Born, DialOnPacket, At
  <2>2. /\ UNCHANGED <<connState, queue, left>>
        /\ packetCh' = [packetCh EXCEPT ![conn] = "open"]
      BY <1>11 DEF DialOnPacket
  <2>3. CASE conn = c
    <3>1. View(c)!Listen
        BY <1>2, <2>1, <2>2, <2>3 DEF View!Listen
    <3> QED
        BY <3>1 DEF View!Next
  <2>4. CASE conn # c
      BY <1>2, <2>1, <2>2, <2>4 DEF View!vars
  <2> QED
      BY <2>3, <2>4
<1>12. UNCHANGED <<packetCh, queue, left>> \/ ChannelActs
    BY ChannelFrame
<1> QED
    BY <1>5, <1>6, <1>7, <1>8, <1>9, <1>10, <1>11, <1>12 DEF ChannelActs

-----------------------------------------------------------------------------
(* Panics.                                                                   *)

\* The actions that may panic.
PanicActs ==
    \/ \E p \in Callers : DoNil(p) \/ DoReceive(p) \/ DoTimeout(p)
    \/ \E p \in UserProcs \cup {Reconnector} : ClBegin(p)
    \/ \E c \in Conns : CsTake(c) \/ ReaderResponse(c) \/ ReaderServer(c)

\* No other action panics.
LEMMA PanicFrame == TypeOK /\ Next => UNCHANGED panic \/ PanicActs
<1> SUFFICES ASSUME TypeOK, Next PROVE UNCHANGED panic \/ PanicActs
    OBVIOUS
<1> USE DEF At, Goto, lockVars, sessVars, shutVars, retVars, reqVars, connVars
<1>0. UNCHANGED <<panic>> => UNCHANGED panic \/ PanicActs
    OBVIOUS
<1>1. ASSUME NEW p \in Goroutines, Announce(p) \/ CloseCheck(p) \/ CloseOnce(p) \/
    CloseDispatch(p) \/ CloseEnd(p) \/ RecEnter(p) \/ RecWait(p) \/ RecLeave(p) PROVE
    UNCHANGED <<panic>>
    BY <1>1 DEF Announce, CloseCheck, CloseReturn, CloseOnce, CloseDispatch,
        CallReconnecting, CloseEnd, RecEnter, CanLock, RecReturn, Unlock, RecWait, RecLeave
<1>2. ASSUME NEW p \in {Main, Reconnector}, DialLock(p) \/ DialFail(p) \/ DialOnPacket(p) \/
    DialOnClose(p) PROVE UNCHANGED <<panic>>
    BY <1>2 DEF DialLock, CanLock, DialFail, Unlock, DialOnPacket, DialOnClose
<1>3. ASSUME NEW p \in {Main, Reconnector}, NEW c \in Conns, DialOk(p, c) PROVE UNCHANGED
    <<panic>>
    BY <1>3 DEF DialOk
<1>4. ASSUME NEW p \in Callers, DoWrite(p) \/ DoWriteErr(p) \/ DoRegister(p) PROVE UNCHANGED
    <<panic>>
    BY <1>4 DEF DoWrite, RLock, DoWriteErr, DoEnd, DoRegister
<1>5. ASSUME NEW p \in Callers, DoNil(p) PROVE UNCHANGED panic \/ PanicActs
    BY <1>5 DEF PanicActs
<1>6. ASSUME NEW p \in Callers, DoReceive(p) PROVE UNCHANGED panic \/ PanicActs
    BY <1>6 DEF PanicActs
<1>7. ASSUME NEW p \in Callers, DoTimeout(p) PROVE UNCHANGED panic \/ PanicActs
    BY <1>7 DEF PanicActs
<1>8. ASSUME NEW p \in UserProcs \cup {Reconnector}, ClRLock(p) \/ ClEnd(p) PROVE UNCHANGED
    <<panic>>
    BY <1>8 DEF ClRLock, RLock, CallClose, ClEnd, RUnlock
<1>9. ASSUME NEW p \in UserProcs \cup {Reconnector}, ClBegin(p) PROVE UNCHANGED panic \/
    PanicActs
    BY <1>9 DEF PanicActs
<1>10. ASSUME MainDialed \/ MainAuthed \/ RcTry \/ RcClear \/ RcDialed \/ RcAuthed \/
    RcResumed \/ RcAfter \/ AuthExpire \/ KaExit \/ KaTimeout \/ KaPing PROVE UNCHANGED
    <<panic>>
    BY <1>10 DEF MainDialed, MainAuthed, RcTry, CallClose, RcClear, RcDialed, CallDo,
        RcAuthed, RcResumed, RcAfter, AuthExpire, KaExit, KaTimeout, CallReconnecting,
        KaPing
<1>11. ASSUME NEW p \in UserProcs, UserDo(p) \/ UserClose(p) PROVE UNCHANGED <<panic>>
    BY <1>11 DEF UserDo, CallDo, UserClose
<1>12. ASSUME NEW c \in Conns, ReaderFail(c) \/ CsTop(c) \/ SrvRLock(c) \/ SrvEnd(c) \/
    CsDrained(c) \/ CsFin(c) PROVE UNCHANGED <<panic>>
    BY <1>12 DEF ReaderFail, CallClose, CsTop, SrvRLock, RLock, SrvEnd, RUnlock,
        CallReconnecting, CsDrained, CsFin
<1>13. ASSUME NEW c \in Conns, ReaderResponse(c) PROVE UNCHANGED panic \/ PanicActs
    BY <1>13 DEF PanicActs
<1>14. ASSUME NEW c \in Conns, ReaderServer(c) PROVE UNCHANGED panic \/ PanicActs
    BY <1>14 DEF PanicActs
<1>15. ASSUME NEW c \in Conns, CsTake(c) PROVE UNCHANGED panic \/ PanicActs
    BY <1>15 DEF PanicActs
<1> QED
    BY SMTT(30), <1>0, <1>1, <1>2, <1>3, <1>4, <1>5, <1>6, <1>7, <1>8, <1>9, <1>10, <1>11, <1>12,
        <1>13, <1>14, <1>15 DEF Next, Environment, Step, CloseStep, RecStep, DialStep,
        DoStep, ClStep, MainStep, RcStep, KaStep, CsStep

\* The actions that replace c.conn.
Dials == \E p \in {Main, Reconnector} : DialFail(p) \/ \E c \in Conns : DialOk(p, c)

\* Only dial replaces the connection.
LEMMA ConnFrame == TypeOK /\ Next => UNCHANGED conn \/ Dials
<1> SUFFICES ASSUME TypeOK, Next PROVE UNCHANGED conn \/ Dials
    OBVIOUS
<1> USE DEF At, Goto, lockVars, sessVars, shutVars, retVars, reqVars, connVars
<1>0. UNCHANGED <<conn>> => UNCHANGED conn \/ Dials
    OBVIOUS
<1>1. ASSUME NEW p \in Goroutines, Announce(p) \/ CloseCheck(p) \/ CloseOnce(p) \/
    CloseDispatch(p) \/ CloseEnd(p) \/ RecEnter(p) \/ RecWait(p) \/ RecLeave(p) PROVE
    UNCHANGED <<conn>>
    BY <1>1 DEF Announce, CloseCheck, CloseReturn, CloseOnce, CloseDispatch,
        CallReconnecting, CloseEnd, RecEnter, CanLock, RecReturn, Unlock, RecWait, RecLeave
<1>2. ASSUME NEW p \in {Main, Reconnector}, DialLock(p) \/ DialOnPacket(p) \/ DialOnClose(p)
    PROVE UNCHANGED <<conn>>
    BY <1>2 DEF DialLock, CanLock, DialOnPacket, DialOnClose, Unlock
<1>3. ASSUME NEW p \in {Main, Reconnector}, DialFail(p) PROVE UNCHANGED conn \/ Dials
    BY <1>3 DEF Dials
<1>4. ASSUME NEW p \in {Main, Reconnector}, NEW c \in Conns, DialOk(p, c) PROVE UNCHANGED
    conn \/ Dials
    BY <1>4 DEF Dials
<1>5. ASSUME NEW p \in Callers, DoNil(p) \/ DoWrite(p) \/ DoWriteErr(p) \/ DoRegister(p) \/
    DoReceive(p) \/ DoTimeout(p) PROVE UNCHANGED <<conn>>
    BY <1>5 DEF DoNil, RLock, DoWrite, DoWriteErr, DoEnd, DoRegister, DoReceive, RecvEnd,
        RUnlock, DoTimeout
<1>6. ASSUME NEW p \in UserProcs \cup {Reconnector}, ClBegin(p) \/ ClRLock(p) \/ ClEnd(p)
    PROVE UNCHANGED <<conn>>
    BY <1>6 DEF ClBegin, ClRLock, RLock, CallClose, ClEnd, RUnlock
<1>7. ASSUME MainDialed \/ MainAuthed \/ RcTry \/ RcClear \/ RcDialed \/ RcAuthed \/
    RcResumed \/ RcAfter \/ AuthExpire \/ KaExit \/ KaTimeout \/ KaPing PROVE UNCHANGED
    <<conn>>
    BY <1>7 DEF MainDialed, MainAuthed, RcTry, CallClose, RcClear, RcDialed, CallDo,
        RcAuthed, RcResumed, RcAfter, AuthExpire, KaExit, KaTimeout, CallReconnecting,
        KaPing
<1>8. ASSUME NEW p \in UserProcs, UserDo(p) \/ UserClose(p) PROVE UNCHANGED <<conn>>
    BY <1>8 DEF UserDo, CallDo, UserClose
<1>9. ASSUME NEW c \in Conns, ReaderResponse(c) \/ ReaderServer(c) \/ ReaderFail(c) \/
    CsTop(c) \/ CsTake(c) \/ SrvRLock(c) \/ SrvEnd(c) \/ CsDrained(c) \/ CsFin(c) PROVE
    UNCHANGED <<conn>>
    BY <1>9 DEF ReaderResponse, ReaderPacket, ReaderServer, ReaderFail, CallClose, CsTop,
        CsTake, HandleResponse, HandleOther, SrvRLock, RLock, SrvEnd, RUnlock,
        CallReconnecting, CsDrained, CsFin
<1> QED
    BY SMTT(30), <1>0, <1>1, <1>2, <1>3, <1>4, <1>5, <1>6, <1>7, <1>8, <1>9 DEF Next, Environment,
        Step, CloseStep, RecStep, DialStep, DoStep, ClStep, MainStep, RcStep, KaStep, CsStep

\* The client is closed for good.
LEMMA CloseChFrame == TypeOK /\ Next => (closeCh => closeCh')
<1> SUFFICES ASSUME TypeOK, Next PROVE (closeCh => closeCh')
    OBVIOUS
<1> USE DEF At, Goto, lockVars, sessVars, shutVars, retVars, reqVars, connVars
<1>0. UNCHANGED <<closeCh>> => (closeCh => closeCh')
    OBVIOUS
<1>1. ASSUME NEW p \in Goroutines, Announce(p) \/ CloseCheck(p) \/ CloseOnce(p) \/
    CloseDispatch(p) \/ CloseEnd(p) \/ RecEnter(p) \/ RecWait(p) \/ RecLeave(p) PROVE
    UNCHANGED <<closeCh>>
    BY <1>1 DEF Announce, CloseCheck, CloseReturn, CloseOnce, CloseDispatch,
        CallReconnecting, CloseEnd, RecEnter, CanLock, RecReturn, Unlock, RecWait, RecLeave
<1>2. ASSUME NEW p \in {Main, Reconnector}, DialLock(p) \/ DialFail(p) \/ DialOnPacket(p) \/
    DialOnClose(p) PROVE UNCHANGED <<closeCh>>
    BY <1>2 DEF DialLock, CanLock, DialFail, Unlock, DialOnPacket, DialOnClose
<1>3. ASSUME NEW p \in {Main, Reconnector}, NEW c \in Conns, DialOk(p, c) PROVE UNCHANGED
    <<closeCh>>
    BY <1>3 DEF DialOk
<1>4. ASSUME NEW p \in Callers, DoNil(p) \/ DoWrite(p) \/ DoWriteErr(p) \/ DoRegister(p) \/
    DoReceive(p) \/ DoTimeout(p) PROVE UNCHANGED <<closeCh>>
    BY <1>4 DEF DoNil, RLock, DoWrite, DoWriteErr, DoEnd, DoRegister, DoReceive, RecvEnd,
        RUnlock, DoTimeout
<1>5. ASSUME NEW p \in UserProcs \cup {Reconnector}, ClRLock(p) \/ ClEnd(p) PROVE UNCHANGED
    <<closeCh>>
    BY <1>5 DEF ClRLock, RLock, CallClose, ClEnd, RUnlock
<1>6. ASSUME NEW p \in UserProcs \cup {Reconnector}, ClBegin(p) PROVE (closeCh => closeCh')
    BY <1>6 DEF ClBegin
<1>7. ASSUME MainDialed \/ MainAuthed \/ RcTry \/ RcClear \/ RcDialed \/ RcAuthed \/
    RcResumed \/ RcAfter \/ AuthExpire \/ KaExit \/ KaTimeout \/ KaPing PROVE UNCHANGED
    <<closeCh>>
    BY <1>7 DEF MainDialed, MainAuthed, RcTry, CallClose, RcClear, RcDialed, CallDo,
        RcAuthed, RcResumed, RcAfter, AuthExpire, KaExit, KaTimeout, CallReconnecting,
        KaPing
<1>8. ASSUME NEW p \in UserProcs, UserDo(p) \/ UserClose(p) PROVE UNCHANGED <<closeCh>>
    BY <1>8 DEF UserDo, CallDo, UserClose
<1>9. ASSUME NEW c \in Conns, ReaderResponse(c) \/ ReaderServer(c) \/ ReaderFail(c) \/
    CsTop(c) \/ CsTake(c) \/ SrvRLock(c) \/ SrvEnd(c) \/ CsDrained(c) \/ CsFin(c) PROVE
    UNCHANGED <<closeCh>>
    BY <1>9 DEF ReaderResponse, ReaderPacket, ReaderServer, ReaderFail, CallClose, CsTop,
        CsTake, HandleResponse, HandleOther, SrvRLock, RLock, SrvEnd, RUnlock,
        CallReconnecting, CsDrained, CsFin
<1> QED
    BY ZenonT(60), <1>0, <1>1, <1>2, <1>3, <1>4, <1>5, <1>6, <1>7, <1>8, <1>9 DEF Next, Environment,
        Step, CloseStep, RecStep, DialStep, DoStep, ClStep, MainStep, RcStep, KaStep, CsStep

\* As long as Dial has not got a connection nothing of the client runs.
LEMMA NotStartedNext == TypeOK /\ PcOK /\ NotStarted /\ ~closeCh /\ conn = NoConn /\ Next => NotStarted' \/ conn' # NoConn \/ closeCh'
<1> SUFFICES ASSUME TypeOK, PcOK, NotStarted, ~closeCh, conn = NoConn, Next PROVE NotStarted' \/ conn' # NoConn \/ closeCh'
    OBVIOUS
<1> USE ClientAssumption, Procs, Distinct DEF TypeOK, GoroutineTypes, NotStarted, Callers,
    LockLabels, At, Goto, lockVars, sessVars, shutVars, retVars, reqVars, connVars
<1>0. UNCHANGED <<pc>> => NotStarted' \/ conn' # NoConn \/ closeCh'
    OBVIOUS
<1>1. ASSUME NEW p \in Goroutines, Announce(p) PROVE UNCHANGED <<pc>>
    BY <1>1 DEF Announce
<1>2. ASSUME NEW p \in Goroutines, CloseCheck(p) PROVE NotStarted' \/ conn' # NoConn \/
    closeCh'
    BY <1>2 DEF CloseCheck, CloseReturn, Closed
<1>3. ASSUME NEW p \in Goroutines, CloseOnce(p) PROVE NotStarted' \/ conn' # NoConn \/
    closeCh'
    BY <1>3 DEF CloseOnce, CloseReturn
<1>4. ASSUME NEW p \in Goroutines, CloseDispatch(p) PROVE NotStarted' \/ conn' # NoConn \/
    closeCh'
    BY <1>4 DEF CloseDispatch, CallReconnecting
<1>5. ASSUME NEW p \in Goroutines, CloseEnd(p) PROVE NotStarted' \/ conn' # NoConn \/
    closeCh'
    BY <1>5 DEF CloseEnd, CloseReturn
<1>6. ASSUME NEW p \in Goroutines, RecEnter(p) PROVE NotStarted' \/ conn' # NoConn \/
    closeCh'
    BY <1>6 DEF RecEnter, CanLock, RecReturn, Unlock
<1>7. ASSUME NEW p \in Goroutines, RecWait(p) PROVE NotStarted' \/ conn' # NoConn \/
    closeCh'
    BY <1>7 DEF RecWait
<1>8. ASSUME NEW p \in Goroutines, RecLeave(p) PROVE NotStarted' \/ conn' # NoConn \/
    closeCh'
    BY <1>8 DEF RecLeave, CanLock, RecReturn, Unlock
<1>9. ASSUME NEW p \in {Main, Reconnector}, DialLock(p) PROVE NotStarted' \/ conn' # NoConn
    \/ closeCh'
    BY <1>9 DEF DialLock, CanLock
<1>10. ASSUME NEW p \in {Main, Reconnector}, DialFail(p) PROVE NotStarted' \/ conn' # NoConn
    \/ closeCh'
    BY <1>10 DEF DialFail, Unlock
<1>11. ASSUME NEW p \in {Main, Reconnector}, DialOnPacket(p) PROVE NotStarted' \/ conn' #
    NoConn \/ closeCh'
    BY <1>11 DEF DialOnPacket
<1>12. ASSUME NEW p \in {Main, Reconnector}, DialOnClose(p) PROVE NotStarted' \/ conn' #
    NoConn \/ closeCh'
    BY <1>12 DEF DialOnClose, Unlock
<1>13. ASSUME NEW p \in {Main, Reconnector}, NEW c \in Conns, DialOk(p, c) PROVE NotStarted'
    \/ conn' # NoConn \/ closeCh'
    BY <1>13 DEF DialOk
<1>14. ASSUME NEW p \in Callers, DoNil(p) PROVE UNCHANGED <<pc>>
    BY <1>14 DEF DoNil, RLock
<1>15. ASSUME NEW p \in Callers, DoWrite(p) PROVE NotStarted' \/ conn' # NoConn \/ closeCh'
    BY <1>15 DEF DoWrite, RLock
<1>16. ASSUME NEW p \in Callers, DoWriteErr(p) PROVE NotStarted' \/ conn' # NoConn \/
    closeCh'
    BY <1>16 DEF DoWriteErr, DoEnd, DoRet
<1>17. ASSUME NEW p \in Callers, DoRegister(p) PROVE NotStarted' \/ conn' # NoConn \/
    closeCh'
    BY <1>17 DEF DoRegister
<1>18. ASSUME NEW p \in Callers, DoReceive(p) PROVE NotStarted' \/ conn' # NoConn \/
    closeCh'
    BY <1>18 DEF DoReceive, RecvEnd, DoEnd, DoRet, RUnlock, Panic
<1>19. ASSUME NEW p \in Callers, DoTimeout(p) PROVE NotStarted' \/ conn' # NoConn \/
    closeCh'
    BY <1>19 DEF DoTimeout, RecvEnd, DoEnd, DoRet, RUnlock, Panic
<1>20. ASSUME NEW p \in UserProcs \cup {Reconnector}, ClBegin(p) PROVE NotStarted' \/ conn'
    # NoConn \/ closeCh'
    BY <1>20 DEF ClBegin, Panic
<1>21. ASSUME NEW p \in UserProcs \cup {Reconnector}, ClRLock(p) PROVE NotStarted' \/ conn'
    # NoConn \/ closeCh'
    BY <1>21 DEF ClRLock, RLock, CallClose
<1>22. ASSUME NEW p \in UserProcs \cup {Reconnector}, ClEnd(p) PROVE NotStarted' \/ conn' #
    NoConn \/ closeCh'
    BY <1>22 DEF ClEnd, RUnlock
<1>23. ASSUME AuthExpire PROVE UNCHANGED <<pc>>
    BY <1>23 DEF AuthExpire
<1>24. ASSUME MainDialed PROVE NotStarted' \/ conn' # NoConn \/ closeCh'
    BY <1>24 DEF MainDialed
<1>25. ASSUME MainAuthed PROVE NotStarted' \/ conn' # NoConn \/ closeCh'
    BY <1>25 DEF MainAuthed, Granted
<1>26. ASSUME RcTry PROVE NotStarted' \/ conn' # NoConn \/ closeCh'
    BY <1>26 DEF RcTry, CallClose
<1>27. ASSUME RcClear PROVE NotStarted' \/ conn' # NoConn \/ closeCh'
    BY <1>27 DEF RcClear
<1>28. ASSUME RcDialed PROVE NotStarted' \/ conn' # NoConn \/ closeCh'
    BY <1>28 DEF RcDialed, CallDo
<1>29. ASSUME RcAuthed PROVE NotStarted' \/ conn' # NoConn \/ closeCh'
    BY <1>29 DEF RcAuthed, Granted
<1>30. ASSUME RcResumed PROVE NotStarted' \/ conn' # NoConn \/ closeCh'
    BY <1>30 DEF RcResumed, Granted
<1>31. ASSUME RcAfter PROVE NotStarted' \/ conn' # NoConn \/ closeCh'
    BY <1>31 DEF RcAfter, CallDo
<1>32. ASSUME KaExit PROVE NotStarted' \/ conn' # NoConn \/ closeCh'
    BY <1>32 DEF KaExit
<1>33. ASSUME KaTimeout PROVE NotStarted' \/ conn' # NoConn \/ closeCh'
    BY <1>33 DEF KaTimeout, CallReconnecting
<1>34. ASSUME KaPing PROVE NotStarted' \/ conn' # NoConn \/ closeCh'
    BY <1>34 DEF KaPing, CallReconnecting
<1>35. ASSUME NEW p \in UserProcs, UserDo(p) PROVE NotStarted' \/ conn' # NoConn \/ closeCh'
    BY <1>35 DEF UserDo, CallDo
<1>36. ASSUME NEW p \in UserProcs, UserClose(p) PROVE NotStarted' \/ conn' # NoConn \/
    closeCh'
    BY <1>36 DEF UserClose
<1>37. ASSUME NEW c \in Conns, ReaderResponse(c) \/ ReaderServer(c) PROVE UNCHANGED <<pc>>
    BY <1>37 DEF ReaderResponse, ReaderPacket, ReaderServer
<1>38. ASSUME NEW c \in Conns, ReaderFail(c) PROVE NotStarted' \/ conn' # NoConn \/ closeCh'
    BY <1>38 DEF ReaderFail, CallClose
<1>39. ASSUME NEW c \in Conns, CsTop(c) PROVE NotStarted' \/ conn' # NoConn \/ closeCh'
    BY <1>39 DEF CsTop
<1>40. ASSUME NEW c \in Conns, CsTake(c) PROVE NotStarted' \/ conn' # NoConn \/ closeCh'
    BY <1>40 DEF CsTake, HandleResponse, HandleOther, CsBack, Panic
<1>41. ASSUME NEW c \in Conns, SrvRLock(c) PROVE NotStarted' \/ conn' # NoConn \/ closeCh'
    BY <1>41 DEF SrvRLock, RLock, CallClose
<1>42. ASSUME NEW c \in Conns, SrvEnd(c) PROVE NotStarted' \/ conn' # NoConn \/ closeCh'
    BY <1>42 DEF SrvEnd, RUnlock, CallReconnecting, CsBack
<1>43. ASSUME NEW c \in Conns, CsDrained(c) PROVE NotStarted' \/ conn' # NoConn \/ closeCh'
    BY <1>43 DEF CsDrained, CallReconnecting
<1>44. ASSUME NEW c \in Conns, CsFin(c) PROVE NotStarted' \/ conn' # NoConn \/ closeCh'
    BY <1>44 DEF CsFin
<1> QED
    BY SMTT(30), <1>0, <1>1, <1>2, <1>3, <1>4, <1>5, <1>6, <1>7, <1>8, <1>9, <1>10, <1>11, <1>12,
        <1>13, <1>14, <1>15, <1>16, <1>17, <1>18, <1>19, <1>20, <1>21, <1>22, <1>23, <1>24,
        <1>25, <1>26, <1>27, <1>28, <1>29, <1>30, <1>31, <1>32, <1>33, <1>34, <1>35, <1>36,
        <1>37, <1>38, <1>39, <1>40, <1>41, <1>42, <1>43, <1>44 DEF Next, Environment, Step,
        CloseStep, RecStep, DialStep, DoStep, ClStep, MainStep, RcStep, KaStep, CsStep

\* The reconnector is on its way to a connection.
Seeking == pc[Reconnector] \in {"rc_try", "rc_clear", "rc_dial", "dial", "cl_begin"}

\* Without a connection the reconnector goes on until it has one or closes
\* the client.
LEMMA SeekingNext == TypeOK /\ PcOK /\ Early /\ Born /\ SingleReconnect /\ Seeking /\ conn = NoConn /\ Next => Seeking' \/ conn' # NoConn \/ closeCh'
<1> SUFFICES ASSUME TypeOK, PcOK, Early, Born, SingleReconnect, Seeking, conn = NoConn, Next PROVE Seeking' \/ conn' # NoConn \/ closeCh'
    OBVIOUS
<1> USE ClientAssumption, Procs, Distinct DEF TypeOK, GoroutineTypes, PcOK, Seeking,
    Callers, RecL, At, Goto, lockVars, sessVars, shutVars, retVars, reqVars, connVars
<1>0. UNCHANGED <<pc>> => Seeking' \/ conn' # NoConn \/ closeCh'
    OBVIOUS
<1>1. ASSUME NEW p \in Goroutines, Announce(p) PROVE UNCHANGED <<pc>>
    BY <1>1 DEF Announce
<1>2. ASSUME NEW p \in Goroutines, CloseCheck(p) PROVE Seeking' \/ conn' # NoConn \/
    closeCh'
    BY <1>2 DEF CloseCheck, CloseReturn, Closed
<1>3. ASSUME NEW p \in Goroutines, CloseOnce(p) PROVE Seeking' \/ conn' # NoConn \/ closeCh'
    BY <1>3 DEF CloseOnce, CloseReturn
<1>4. ASSUME NEW p \in Goroutines, CloseDispatch(p) PROVE Seeking' \/ conn' # NoConn \/
    closeCh'
    BY <1>4 DEF CloseDispatch, CallReconnecting
<1>5. ASSUME NEW p \in Goroutines, CloseEnd(p) PROVE Seeking' \/ conn' # NoConn \/ closeCh'
    BY <1>5 DEF CloseEnd, CloseReturn
<1>6. ASSUME NEW p \in Goroutines, RecEnter(p) PROVE Seeking' \/ conn' # NoConn \/ closeCh'
  <2>1. doReconnectting
      BY DEF SingleReconnect, RcOff, Rec
  <2>2. rret[p] \in AfterRec
      BY <1>6, ReturnLabels DEF RecEnter
  <2> QED
      BY <1>6, <2>1, <2>2 DEF RecEnter, RecReturn, SingleReconnect, Rec, RcOff
<1>7. ASSUME NEW p \in Goroutines, RecWait(p) PROVE Seeking' \/ conn' # NoConn \/ closeCh'
    BY <1>7 DEF RecWait
<1>8. ASSUME NEW p \in Goroutines, RecLeave(p) PROVE Seeking' \/ conn' # NoConn \/ closeCh'
    BY <1>8 DEF RecLeave, CanLock, RecReturn, Unlock
<1>9. ASSUME NEW p \in {Main, Reconnector}, DialLock(p) PROVE Seeking' \/ conn' # NoConn \/
    closeCh'
    BY <1>9 DEF DialLock, CanLock
<1>10. ASSUME NEW p \in {Main, Reconnector}, DialFail(p) PROVE Seeking' \/ conn' # NoConn \/
    closeCh'
    BY <1>10 DEF DialFail, Unlock
<1>11. ASSUME NEW p \in {Main, Reconnector}, DialOnPacket(p) PROVE Seeking' \/ conn' #
    NoConn \/ closeCh'
    BY <1>11 DEF DialOnPacket
<1>12. ASSUME NEW p \in {Main, Reconnector}, DialOnClose(p) PROVE Seeking' \/ conn' # NoConn
    \/ closeCh'
    BY <1>12 DEF DialOnClose, Unlock
<1>13. ASSUME NEW p \in {Main, Reconnector}, NEW c \in Conns, DialOk(p, c) PROVE Seeking' \/
    conn' # NoConn \/ closeCh'
    BY <1>13 DEF DialOk
<1>14. ASSUME NEW p \in Callers, DoNil(p) PROVE UNCHANGED <<pc>>
    BY <1>14 DEF DoNil, RLock
<1>15. ASSUME NEW p \in Callers, DoWrite(p) PROVE Seeking' \/ conn' # NoConn \/ closeCh'
    BY <1>15 DEF DoWrite, RLock
<1>16. ASSUME NEW p \in Callers, DoWriteErr(p) PROVE Seeking' \/ conn' # NoConn \/ closeCh'
    BY <1>16 DEF DoWriteErr, DoEnd, DoRet
<1>17. ASSUME NEW p \in Callers, DoRegister(p) PROVE Seeking' \/ conn' # NoConn \/ closeCh'
    BY <1>17 DEF DoRegister
<1>18. ASSUME NEW p \in Callers, DoReceive(p) PROVE Seeking' \/ conn' # NoConn \/ closeCh'
    BY <1>18 DEF DoReceive, RecvEnd, DoEnd, DoRet, RUnlock, Panic
<1>19. ASSUME NEW p \in Callers, DoTimeout(p) PROVE Seeking' \/ conn' # NoConn \/ closeCh'
    BY <1>19 DEF DoTimeout, RecvEnd, DoEnd, DoRet, RUnlock, Panic
<1>20. ASSUME NEW p \in UserProcs \cup {Reconnector}, ClBegin(p) PROVE Seeking' \/ conn' #
    NoConn \/ closeCh'
    BY <1>20 DEF ClBegin, Panic
<1>21. ASSUME NEW p \in UserProcs \cup {Reconnector}, ClRLock(p) PROVE Seeking' \/ conn' #
    NoConn \/ closeCh'
    BY <1>21 DEF ClRLock, RLock, CallClose
<1>22. ASSUME NEW p \in UserProcs \cup {Reconnector}, ClEnd(p) PROVE Seeking' \/ conn' #
    NoConn \/ closeCh'
    BY <1>22 DEF ClEnd, RUnlock
<1>23. ASSUME AuthExpire PROVE UNCHANGED <<pc>>
    BY <1>23 DEF AuthExpire
<1>24. ASSUME MainDialed PROVE Seeking' \/ conn' # NoConn \/ closeCh'
    BY <1>24 DEF MainDialed
<1>25. ASSUME MainAuthed PROVE Seeking' \/ conn' # NoConn \/ closeCh'
    BY <1>25 DEF MainAuthed, Granted
<1>26. ASSUME RcTry PROVE Seeking' \/ conn' # NoConn \/ closeCh'
    BY <1>26 DEF RcTry, CallClose
<1>27. ASSUME RcClear PROVE Seeking' \/ conn' # NoConn \/ closeCh'
    BY <1>27 DEF RcClear
<1>28. ASSUME RcDialed PROVE Seeking' \/ conn' # NoConn \/ closeCh'
    BY <1>28 DEF RcDialed, CallDo
<1>29. ASSUME RcAuthed PROVE Seeking' \/ conn' # NoConn \/ closeCh'
    BY <1>29 DEF RcAuthed, Granted
<1>30. ASSUME RcResumed PROVE Seeking' \/ conn' # NoConn \/ closeCh'
    BY <1>30 DEF RcResumed, Granted
<1>31. ASSUME RcAfter PROVE Seeking' \/ conn' # NoConn \/ closeCh'
    BY <1>31 DEF RcAfter, CallDo
<1>32. ASSUME KaExit PROVE Seeking' \/ conn' # NoConn \/ closeCh'
    BY <1>32 DEF KaExit
<1>33. ASSUME KaTimeout PROVE Seeking' \/ conn' # NoConn \/ closeCh'
    BY <1>33 DEF KaTimeout, CallReconnecting
<1>34. ASSUME KaPing PROVE Seeking' \/ conn' # NoConn \/ closeCh'
    BY <1>34 DEF KaPing, CallReconnecting
<1>35. ASSUME NEW p \in UserProcs, UserDo(p) PROVE Seeking' \/ conn' # NoConn \/ closeCh'
    BY <1>35 DEF UserDo, CallDo
<1>36. ASSUME NEW p \in UserProcs, UserClose(p) PROVE Seeking' \/ conn' # NoConn \/ closeCh'
    BY <1>36 DEF UserClose
<1>37. ASSUME NEW c \in Conns, ReaderResponse(c) \/ ReaderServer(c) PROVE UNCHANGED <<pc>>
    BY <1>37 DEF ReaderResponse, ReaderPacket, ReaderServer
<1>38. ASSUME NEW c \in Conns, ReaderFail(c) PROVE Seeking' \/ conn' # NoConn \/ closeCh'
    BY <1>38 DEF ReaderFail, CallClose
<1>39. ASSUME NEW c \in Conns, CsTop(c) PROVE Seeking' \/ conn' # NoConn \/ closeCh'
    BY <1>39 DEF CsTop
<1>40. ASSUME NEW c \in Conns, CsTake(c) PROVE Seeking' \/ conn' # NoConn \/ closeCh'
    BY <1>40 DEF CsTake, HandleResponse, HandleOther, CsBack, Panic
<1>41. ASSUME NEW c \in Conns, SrvRLock(c) PROVE Seeking' \/ conn' # NoConn \/ closeCh'
    BY <1>41 DEF SrvRLock, RLock, CallClose
<1>42. ASSUME NEW c \in Conns, SrvEnd(c) PROVE Seeking' \/ conn' # NoConn \/ closeCh'
    BY <1>42 DEF SrvEnd, RUnlock, CallReconnecting, CsBack
<1>43. ASSUME NEW c \in Conns, CsDrained(c) PROVE Seeking' \/ conn' # NoConn \/ closeCh'
    BY <1>43 DEF CsDrained, CallReconnecting
<1>44. ASSUME NEW c \in Conns, CsFin(c) PROVE Seeking' \/ conn' # NoConn \/ closeCh'
    BY <1>44 DEF CsFin
<1> QED
    BY SMTT(30), <1>0, <1>1, <1>2, <1>3, <1>4, <1>5, <1>6, <1>7, <1>8, <1>9, <1>10, <1>11, <1>12,
        <1>13, <1>14, <1>15, <1>16, <1>17, <1>18, <1>19, <1>20, <1>21, <1>22, <1>23, <1>24,
        <1>25, <1>26, <1>27, <1>28, <1>29, <1>30, <1>31, <1>32, <1>33, <1>34, <1>35, <1>36,
        <1>37, <1>38, <1>39, <1>40, <1>41, <1>42, <1>43, <1>44 DEF Next, Environment, Step,
        CloseStep, RecStep, DialStep, DoStep, ClStep, MainStep, RcStep, KaStep, CsStep

\* The reconnector leaves the point before its dial only with the lock.
LEMMA AtDialStays == TypeOK /\ PcOK /\ Early /\ Born /\ SingleReconnect /\ pc[Reconnector] = "rc_dial" /\ Next => pc'[Reconnector] = "rc_dial" \/ DialLock(Reconnector)
<1> SUFFICES ASSUME TypeOK, PcOK, Early, Born, SingleReconnect, pc[Reconnector] = "rc_dial", Next PROVE pc'[Reconnector] = "rc_dial" \/ DialLock(Reconnector)
    OBVIOUS
<1> USE ClientAssumption, Procs, Distinct DEF TypeOK, GoroutineTypes, PcOK, Callers, RecL,
    At, Goto, lockVars, sessVars, shutVars, retVars, reqVars, connVars
<1>0. UNCHANGED <<pc>> => pc'[Reconnector] = "rc_dial" \/ DialLock(Reconnector)
    OBVIOUS
<1>1. ASSUME NEW p \in Goroutines, Announce(p) PROVE UNCHANGED <<pc>>
    BY <1>1 DEF Announce
<1>2. ASSUME NEW p \in Goroutines, CloseCheck(p) PROVE pc'[Reconnector] = "rc_dial" \/
    DialLock(Reconnector)
    BY <1>2 DEF CloseCheck, CloseReturn, Closed
<1>3. ASSUME NEW p \in Goroutines, CloseOnce(p) PROVE pc'[Reconnector] = "rc_dial" \/
    DialLock(Reconnector)
    BY <1>3 DEF CloseOnce, CloseReturn
<1>4. ASSUME NEW p \in Goroutines, CloseDispatch(p) PROVE pc'[Reconnector] = "rc_dial" \/
    DialLock(Reconnector)
    BY <1>4 DEF CloseDispatch, CallReconnecting
<1>5. ASSUME NEW p \in Goroutines, CloseEnd(p) PROVE pc'[Reconnector] = "rc_dial" \/
    DialLock(Reconnector)
    BY <1>5 DEF CloseEnd, CloseReturn
<1>6. ASSUME NEW p \in Goroutines, RecEnter(p) PROVE pc'[Reconnector] = "rc_dial" \/
    DialLock(Reconnector)
  <2>1. doReconnectting
      BY DEF SingleReconnect, RcOff, Rec
  <2>2. rret[p] \in AfterRec
      BY <1>6, ReturnLabels DEF RecEnter
  <2> QED
      BY <1>6, <2>1, <2>2 DEF RecEnter, RecReturn, SingleReconnect, Rec, RcOff
<1>7. ASSUME NEW p \in Goroutines, RecWait(p) PROVE pc'[Reconnector] = "rc_dial" \/
    DialLock(Reconnector)
    BY <1>7 DEF RecWait
<1>8. ASSUME NEW p \in Goroutines, RecLeave(p) PROVE pc'[Reconnector] = "rc_dial" \/
    DialLock(Reconnector)
    BY <1>8 DEF RecLeave, CanLock, RecReturn, Unlock
<1>9. ASSUME NEW p \in {Main, Reconnector}, DialLock(p) PROVE pc'[Reconnector] = "rc_dial"
    \/ DialLock(Reconnector)
  <2>1. CASE p = Reconnector
      BY <1>9, <2>1
  <2>2. CASE p # Reconnector
      BY <1>9, <2>2 DEF DialLock
  <2> QED
      BY <2>1, <2>2
<1>10. ASSUME NEW p \in {Main, Reconnector}, DialFail(p) PROVE pc'[Reconnector] = "rc_dial"
    \/ DialLock(Reconnector)
    BY <1>10 DEF DialFail, Unlock
<1>11. ASSUME NEW p \in {Main, Reconnector}, DialOnPacket(p) PROVE pc'[Reconnector] =
    "rc_dial" \/ DialLock(Reconnector)
    BY <1>11 DEF DialOnPacket
<1>12. ASSUME NEW p \in {Main, Reconnector}, DialOnClose(p) PROVE pc'[Reconnector] =
    "rc_dial" \/ DialLock(Reconnector)
    BY <1>12 DEF DialOnClose, Unlock
<1>13. ASSUME NEW p \in {Main, Reconnector}, NEW c \in Conns, DialOk(p, c) PROVE
    pc'[Reconnector] = "rc_dial" \/ DialLock(Reconnector)
    BY <1>13 DEF DialOk
<1>14. ASSUME NEW p \in Callers, DoNil(p) PROVE UNCHANGED <<pc>>
    BY <1>14 DEF DoNil, RLock
<1>15. ASSUME NEW p \in Callers, DoWrite(p) PROVE pc'[Reconnector] = "rc_dial" \/
    DialLock(Reconnector)
    BY <1>15 DEF DoWrite, RLock
<1>16. ASSUME NEW p \in Callers, DoWriteErr(p) PROVE pc'[Reconnector] = "rc_dial" \/
    DialLock(Reconnector)
    BY <1>16 DEF DoWriteErr, DoEnd, DoRet
<1>17. ASSUME NEW p \in Callers, DoRegister(p) PROVE pc'[Reconnector] = "rc_dial" \/
    DialLock(Reconnector)
    BY <1>17 DEF DoRegister
<1>18. ASSUME NEW p \in Callers, DoReceive(p) PROVE pc'[Reconnector] = "rc_dial" \/
    DialLock(Reconnector)
    BY <1>18 DEF DoReceive, RecvEnd, DoEnd, DoRet, RUnlock, Panic
<1>19. ASSUME NEW p \in Callers, DoTimeout(p) PROVE pc'[Reconnector] = "rc_dial" \/
    DialLock(Reconnector)
    BY <1>19 DEF DoTimeout, RecvEnd, DoEnd, DoRet, RUnlock, Panic
<1>20. ASSUME NEW p \in UserProcs \cup {Reconnector}, ClBegin(p) PROVE pc'[Reconnector] =
    "rc_dial" \/ DialLock(Reconnector)
    BY <1>20 DEF ClBegin, Panic
<1>21. ASSUME NEW p \in UserProcs \cup {Reconnector}, ClRLock(p) PROVE pc'[Reconnector] =
    "rc_dial" \/ DialLock(Reconnector)
    BY <1>21 DEF ClRLock, RLock, CallClose
<1>22. ASSUME NEW p \in UserProcs \cup {Reconnector}, ClEnd(p) PROVE pc'[Reconnector] =
    "rc_dial" \/ DialLock(Reconnector)
    BY <1>22 DEF ClEnd, RUnlock
<1>23. ASSUME AuthExpire PROVE UNCHANGED <<pc>>
    BY <1>23 DEF AuthExpire
<1>24. ASSUME MainDialed PROVE pc'[Reconnector] = "rc_dial" \/ DialLock(Reconnector)
    BY <1>24 DEF MainDialed
<1>25. ASSUME MainAuthed PROVE pc'[Reconnector] = "rc_dial" \/ DialLock(Reconnector)
    BY <1>25 DEF MainAuthed, Granted
<1>26. ASSUME RcTry PROVE pc'[Reconnector] = "rc_dial" \/ DialLock(Reconnector)
    BY <1>26 DEF RcTry, CallClose
<1>27. ASSUME RcClear PROVE pc'[Reconnector] = "rc_dial" \/ DialLock(Reconnector)
    BY <1>27 DEF RcClear
<1>28. ASSUME RcDialed PROVE pc'[Reconnector] = "rc_dial" \/ DialLock(Reconnector)
    BY <1>28 DEF RcDialed, CallDo
<1>29. ASSUME RcAuthed PROVE pc'[Reconnector] = "rc_dial" \/ DialLock(Reconnector)
    BY <1>29 DEF RcAuthed, Granted
<1>30. ASSUME RcResumed PROVE pc'[Reconnector] = "rc_dial" \/ DialLock(Reconnector)
    BY <1>30 DEF RcResumed, Granted
<1>31. ASSUME RcAfter PROVE pc'[Reconnector] = "rc_dial" \/ DialLock(Reconnector)
    BY <1>31 DEF RcAfter, CallDo
<1>32. ASSUME KaExit PROVE pc'[Reconnector] = "rc_dial" \/ DialLock(Reconnector)
    BY <1>32 DEF KaExit
<1>33. ASSUME KaTimeout PROVE pc'[Reconnector] = "rc_dial" \/ DialLock(Reconnector)
    BY <1>33 DEF KaTimeout, CallReconnecting
<1>34. ASSUME KaPing PROVE pc'[Reconnector] = "rc_dial" \/ DialLock(Reconnector)
    BY <1>34 DEF KaPing, CallReconnecting
<1>35. ASSUME NEW p \in UserProcs, UserDo(p) PROVE pc'[Reconnector] = "rc_dial" \/
    DialLock(Reconnector)
    BY <1>35 DEF UserDo, CallDo
<1>36. ASSUME NEW p \in UserProcs, UserClose(p) PROVE pc'[Reconnector] = "rc_dial" \/
    DialLock(Reconnector)
    BY <1>36 DEF UserClose
<1>37. ASSUME NEW c \in Conns, ReaderResponse(c) \/ ReaderServer(c) PROVE UNCHANGED <<pc>>
    BY <1>37 DEF ReaderResponse, ReaderPacket, ReaderServer
<1>38. ASSUME NEW c \in Conns, ReaderFail(c) PROVE pc'[Reconnector] = "rc_dial" \/
    DialLock(Reconnector)
    BY <1>38 DEF ReaderFail, CallClose
<1>39. ASSUME NEW c \in Conns, CsTop(c) PROVE pc'[Reconnector] = "rc_dial" \/
    DialLock(Reconnector)
    BY <1>39 DEF CsTop
<1>40. ASSUME NEW c \in Conns, CsTake(c) PROVE pc'[Reconnector] = "rc_dial" \/
    DialLock(Reconnector)
    BY <1>40 DEF CsTake, HandleResponse, HandleOther, CsBack, Panic
<1>41. ASSUME NEW c \in Conns, SrvRLock(c) PROVE pc'[Reconnector] = "rc_dial" \/
    DialLock(Reconnector)
    BY <1>41 DEF SrvRLock, RLock, CallClose
<1>42. ASSUME NEW c \in Conns, SrvEnd(c) PROVE pc'[Reconnector] = "rc_dial" \/
    DialLock(Reconnector)
    BY <1>42 DEF SrvEnd, RUnlock, CallReconnecting, CsBack
<1>43. ASSUME NEW c \in Conns, CsDrained(c) PROVE pc'[Reconnector] = "rc_dial" \/
    DialLock(Reconnector)
    BY <1>43 DEF CsDrained, CallReconnecting
<1>44. ASSUME NEW c \in Conns, CsFin(c) PROVE pc'[Reconnector] = "rc_dial" \/
    DialLock(Reconnector)
    BY <1>44 DEF CsFin
<1> QED
    BY SMTT(30), <1>0, <1>1, <1>2, <1>3, <1>4, <1>5, <1>6, <1>7, <1>8, <1>9, <1>10, <1>11, <1>12,
        <1>13, <1>14, <1>15, <1>16, <1>17, <1>18, <1>19, <1>20, <1>21, <1>22, <1>23, <1>24,
        <1>25, <1>26, <1>27, <1>28, <1>29, <1>30, <1>31, <1>32, <1>33, <1>34, <1>35, <1>36,
        <1>37, <1>38, <1>39, <1>40, <1>41, <1>42, <1>43, <1>44 DEF Next, Environment, Step,
        CloseStep, RecStep, DialStep, DoStep, ClStep, MainStep, RcStep, KaStep, CsStep

\* A request whose channel was closed holds the lock that the reconnector, which
\* closed it, waits for.
LEMMA CutOffNext ==
    TypeOK /\ PcOK /\ Early /\ Born /\ SingleReconnect /\ InFlightOnCurrent /\ ClosedWaiting
        /\ CutOff /\ Next => CutOff'
<1> SUFFICES ASSUME TypeOK, PcOK, Early, Born, SingleReconnect, InFlightOnCurrent,
                    ClosedWaiting, CutOff, Next,
                    NEW p \in Goroutines, chClosed'[p]
             PROVE  pc'[Reconnector] = "rc_dial"
    BY DEF CutOff
<1>1. CASE RcClear
    BY <1>1, Procs DEF RcClear, Goto, TypeOK, GoroutineTypes
<1>2. CASE UNCHANGED chClosed
  <2>1. pc[Reconnector] = "rc_dial"
      BY <1>2 DEF CutOff
  <2>2. p \in readers
      BY <1>2 DEF ClosedWaiting, InFlightOnCurrent, InDo, At
  <2>3. ~DialLock(Reconnector)
      BY <2>2 DEF DialLock, CanLock
  <2> QED
      BY <2>1, <2>3, AtDialStays
<1> QED
    BY <1>1, <1>2, ChClosedFrame

\* A client without a connection is one that has not started, is reconnecting,
\* or is closed.
LEMMA WithoutConnNext ==
    TypeOK /\ PcOK /\ Early /\ Born /\ SingleReconnect /\ WithoutConn /\ Next => WithoutConn'
<1> SUFFICES ASSUME TypeOK, PcOK, Early, Born, SingleReconnect, WithoutConn, Next,
                    conn' = NoConn, ~closeCh'
             PROVE  NotStarted' \/ Seeking'
    BY DEF WithoutConn, Seeking
<1>1. ~closeCh
    BY CloseChFrame
<1>2. CASE UNCHANGED conn
  <2>1. conn = NoConn
      BY <1>2
  <2>2. CASE NotStarted
      BY <1>1, <2>1, <2>2, NotStartedNext
  <2>3. CASE Seeking
      BY <2>1, <2>3, SeekingNext
  <2> QED
      BY <1>1, <2>1, <2>2, <2>3 DEF WithoutConn, Seeking
<1>3. ASSUME NEW p \in {Main, Reconnector}, DialFail(p) PROVE NotStarted' \/ Seeking'
  <2>1. CASE p = Main
    <3>1. /\ pc[Main] = "dial" /\ pc' = [pc EXCEPT ![Main] = "m_err"]
        BY <1>3, <2>1 DEF DialFail, Goto, At
    <3>2. \A q \in Goroutines \ {Main} : pc[q] \in {"idle", "off"}
        BY <3>1 DEF Early
    <3> QED
        BY <3>1, <3>2, Procs DEF NotStarted, TypeOK, GoroutineTypes
  <2>2. CASE p = Reconnector
      BY <1>3, <2>2, Procs, Distinct DEF DialFail, Goto, Seeking, TypeOK, GoroutineTypes
  <2> QED
      BY <2>1, <2>2
<1>4. ASSUME NEW p \in {Main, Reconnector}, NEW c \in Conns, DialOk(p, c) PROVE FALSE
    BY <1>4, ClientAssumption DEF DialOk
<1> QED
    BY <1>2, <1>3, <1>4, ConnFrame DEF Dials

\* A step panics only while the client recovers, is closed, or reads a packet of
\* a connection it has given up.
LEMMA PanicsNext ==
    TypeOK /\ PcOK /\ SingleReconnect /\ ConsumerLife /\ WithoutConn /\ CutOff /\ Next
        => PanicsOnlyInRecovery'
<1> SUFFICES ASSUME TypeOK, PcOK, SingleReconnect, ConsumerLife, WithoutConn, CutOff, Next
             PROVE  PanicsOnlyInRecovery'
    OBVIOUS
<1>1. panic = "none"
    BY DEF Next
<1>2. CASE UNCHANGED panic
    BY <1>1, <1>2 DEF PanicsOnlyInRecovery
<1>3. ~RcOff => doReconnectting
    BY DEF SingleReconnect, Rec, At
<1>4. ASSUME NEW p \in Goroutines, conn = NoConn,
             pc[p] \in {"do_rlock", "cs_recv", "cs_drain"}
      PROVE  doReconnectting \/ closeCh
  <2>1. ~NotStarted
      BY <1>4 DEF NotStarted
  <2> QED
      BY <1>3, <1>4, <2>1 DEF WithoutConn, RcOff, At
<1>5. ASSUME NEW p \in Callers, DoNil(p) PROVE PanicsOnlyInRecovery'
  <2>1. /\ UNCHANGED <<closeCh, doReconnectting>> /\ panic' = "nil_conn"
        /\ conn = NoConn /\ pc[p] = "do_rlock"
      BY <1>5 DEF DoNil, At, Panic, shutVars, sessVars
  <2> QED
      BY <1>4, <2>1, Procs DEF PanicsOnlyInRecovery
<1>6. ASSUME NEW p \in Callers, DoReceive(p) \/ DoTimeout(p) PROVE PanicsOnlyInRecovery'
  <2>1. PICK r : RecvEnd(p, r)
      BY <1>6 DEF DoReceive, DoTimeout
  <2>2. UNCHANGED <<closeCh, doReconnectting>>
      BY <2>1 DEF RecvEnd, shutVars, sessVars
  <2>3. CASE chClosed[p]
    <3>1. panic' = "close_of_closed_channel"
        BY <2>1, <2>3 DEF RecvEnd, Panic
    <3>2. doReconnectting
        BY <1>3, <2>3, Procs DEF CutOff, RcOff, At
    <3> QED
        BY <2>2, <3>1, <3>2 DEF PanicsOnlyInRecovery
  <2>4. CASE ~chClosed[p]
      BY <1>2, <2>1, <2>4 DEF RecvEnd
  <2> QED
      BY <2>3, <2>4
<1>7. ASSUME NEW p \in UserProcs \cup {Reconnector}, ClBegin(p) PROVE PanicsOnlyInRecovery'
  <2>1. CASE closeCh
      BY <1>7, <2>1 DEF ClBegin, Panic, PanicsOnlyInRecovery
  <2>2. CASE ~closeCh
      BY <1>2, <1>7, <2>2 DEF ClBegin
  <2> QED
      BY <2>1, <2>2
<1>8. ASSUME NEW c \in Conns, CsTake(c) PROVE PanicsOnlyInRecovery'
  <2>1. UNCHANGED <<closeCh, doReconnectting>> /\ pc[Consumer(c)] \in {"cs_recv", "cs_drain"}
      BY <1>8 DEF CsTake, At, shutVars, sessVars
  <2>2. UNCHANGED panic \/ (panic' = "nil_conn" /\ conn = NoConn)
      BY <1>8 DEF CsTake, HandleResponse, HandleOther, Panic
  <2> QED
      BY <1>2, <1>4, <2>1, <2>2, Procs DEF PanicsOnlyInRecovery
<1>9. ASSUME NEW c \in Conns, ReaderResponse(c) \/ ReaderServer(c) PROVE PanicsOnlyInRecovery'
  <2>1. PICK k : ReaderPacket(c, k)
      BY <1>9 DEF ReaderResponse, ReaderServer
  <2>2. CASE packetCh[c] = "closed"
    <3>1. panic' = "send_on_closed_channel" /\ UNCHANGED <<packetCh, connState>>
        BY <2>1, <2>2 DEF ReaderPacket, Panic
    <3>2. Closed(c)
        BY <2>2 DEF ConsumerLife, LifeOf
    <3> QED
        BY <2>2, <3>1, <3>2 DEF PanicsOnlyInRecovery, Closed
  <2>3. CASE packetCh[c] # "closed"
      BY <1>2, <2>1, <2>3 DEF ReaderPacket
  <2> QED
      BY <2>2, <2>3
<1> QED
    BY <1>2, <1>5, <1>6, <1>7, <1>8, <1>9, PanicFrame DEF PanicActs

-----------------------------------------------------------------------------
(* The read lock.                                                            *)

\* The lock is taken for reading by Do, Close and closeByServer, and given
\* back.
LEMMA ReadersKnownNext == TypeOK /\ PcOK /\ Early /\ Born /\ DialLocks /\ SingleReconnect /\ ReadersKnown /\ Next => ReadersKnown'
<1> SUFFICES ASSUME TypeOK, PcOK, Early, Born, DialLocks, SingleReconnect, ReadersKnown, Next PROVE ReadersKnown'
    OBVIOUS
<1>e. Effects
    BY EffectsHold
<1>r. \A p \in Goroutines : pc[p] \in CloseL => cret[p] \in AfterClose
    BY ReturnLabels
<1> USE ClientAssumption, Procs, Distinct DEF TypeOK, GoroutineTypes, PcOK, ConsumerProcs,
    InDo, Callers, DialL, DoL, ClL, CloseL, RecL, At, Goto, lockVars, sessVars, shutVars,
    retVars, reqVars, connVars
<1>0. UNCHANGED <<pc, readers, cret, closeCh, panic>> => ReadersKnown'
    BY DEF ReadersKnown, MayRead
<1>1. ASSUME NEW p \in Goroutines, Announce(p) PROVE UNCHANGED <<pc, readers, cret, closeCh,
    panic>>
    BY <1>1 DEF Announce
<1>2. ASSUME NEW p \in Goroutines, CloseCheck(p) PROVE ReadersKnown'
  <2>1. UNCHANGED <<readers, closeCh, panic>> /\ pc[p] \in CloseL
      BY <1>2 DEF CloseCheck
  <2>2. /\ \A q \in Goroutines \ {p} : pc'[q] = pc[q] /\ cret'[q] = cret[q]
        /\ (pc'[p] \in CloseL /\ cret'[p] = cret[p]) \/ pc'[p] = cret[p]
      BY <1>2 DEF CloseCheck, CloseReturn
  <2>3. cret[p] # "cl_rlock" /\ (p \in readers => MayRead(p))
      BY <1>r, <2>1 DEF AfterClose, ReadersKnown
  <2>4. p \in readers => MayRead(p)'
      BY <2>1, <2>2, <2>3 DEF MayRead, InDo
  <2>5. \A q \in readers \ {p} : MayRead(q)'
      BY <2>1, <2>2 DEF ReadersKnown, MayRead, InDo
  <2>6. \A q \in Goroutines : pc'[q] = "cl_rlock" => pc[q] = "cl_rlock"
      BY <2>1, <2>2, <2>3
  <2> QED
      BY <2>1, <2>4, <2>5, <2>6 DEF ReadersKnown
<1>3. ASSUME NEW p \in Goroutines, CloseOnce(p) PROVE ReadersKnown'
  <2>1. UNCHANGED <<readers, closeCh, panic>> /\ pc[p] \in CloseL
      BY <1>3 DEF CloseOnce
  <2>2. /\ \A q \in Goroutines \ {p} : pc'[q] = pc[q] /\ cret'[q] = cret[q]
        /\ (pc'[p] \in CloseL /\ cret'[p] = cret[p]) \/ pc'[p] = cret[p]
      BY <1>3 DEF CloseOnce, CloseReturn
  <2>3. cret[p] # "cl_rlock" /\ (p \in readers => MayRead(p))
      BY <1>r, <2>1 DEF AfterClose, ReadersKnown
  <2>4. p \in readers => MayRead(p)'
      BY <2>1, <2>2, <2>3 DEF MayRead, InDo
  <2>5. \A q \in readers \ {p} : MayRead(q)'
      BY <2>1, <2>2 DEF ReadersKnown, MayRead, InDo
  <2>6. \A q \in Goroutines : pc'[q] = "cl_rlock" => pc[q] = "cl_rlock"
      BY <2>1, <2>2, <2>3
  <2> QED
      BY <2>1, <2>4, <2>5, <2>6 DEF ReadersKnown
<1>4. ASSUME NEW p \in Goroutines, CloseDispatch(p) PROVE ReadersKnown'
    BY <1>4 DEF CloseDispatch, CallReconnecting, ReadersKnown, MayRead
<1>5. ASSUME NEW p \in Goroutines, CloseEnd(p) PROVE ReadersKnown'
  <2>1. UNCHANGED <<readers, closeCh, panic>> /\ pc[p] \in CloseL
      BY <1>5 DEF CloseEnd
  <2>2. /\ \A q \in Goroutines \ {p} : pc'[q] = pc[q] /\ cret'[q] = cret[q]
        /\ (pc'[p] \in CloseL /\ cret'[p] = cret[p]) \/ pc'[p] = cret[p]
      BY <1>5 DEF CloseEnd, CloseReturn
  <2>3. cret[p] # "cl_rlock" /\ (p \in readers => MayRead(p))
      BY <1>r, <2>1 DEF AfterClose, ReadersKnown
  <2>4. p \in readers => MayRead(p)'
      BY <2>1, <2>2, <2>3 DEF MayRead, InDo
  <2>5. \A q \in readers \ {p} : MayRead(q)'
      BY <2>1, <2>2 DEF ReadersKnown, MayRead, InDo
  <2>6. \A q \in Goroutines : pc'[q] = "cl_rlock" => pc[q] = "cl_rlock"
      BY <2>1, <2>2, <2>3
  <2> QED
      BY <2>1, <2>4, <2>5, <2>6 DEF ReadersKnown
<1>6. ASSUME NEW p \in Goroutines, RecEnter(p) PROVE ReadersKnown'
  <2>1. RecEnterEff(p)
      BY <1>6, <1>e DEF Effects
  <2>2. readers' = {} /\ UNCHANGED closeCh
      BY <1>6 DEF RecEnter, CanLock, Unlock
  <2>3. \A q \in Goroutines : pc'[q] = "cl_rlock" => pc[q] = "cl_rlock"
      BY <2>1 DEF RecEnterEff, AfterRec
  <2> QED
      BY <2>2, <2>3 DEF ReadersKnown
<1>7. ASSUME NEW p \in Goroutines, RecWait(p) PROVE ReadersKnown'
    BY <1>7 DEF RecWait, ReadersKnown, MayRead
<1>8. ASSUME NEW p \in Goroutines, RecLeave(p) PROVE ReadersKnown'
  <2>1. RecLeaveEff(p)
      BY <1>8, <1>e DEF Effects
  <2>2. readers' = {} /\ UNCHANGED closeCh
      BY <1>8 DEF RecLeave, CanLock, Unlock
  <2>3. \A q \in Goroutines : pc'[q] = "cl_rlock" => pc[q] = "cl_rlock"
      BY <2>1 DEF RecLeaveEff, AfterRec
  <2> QED
      BY <2>2, <2>3 DEF ReadersKnown
<1>9. ASSUME NEW p \in {Main, Reconnector}, DialLock(p) PROVE ReadersKnown'
    BY <1>9 DEF DialLock, CanLock, ReadersKnown, MayRead
<1>10. ASSUME NEW p \in {Main, Reconnector}, DialFail(p) PROVE ReadersKnown'
    BY <1>10 DEF DialFail, Unlock, ReadersKnown, MayRead
<1>11. ASSUME NEW p \in {Main, Reconnector}, DialOnPacket(p) PROVE ReadersKnown'
  <2>1. readers' = {} /\ UNCHANGED closeCh /\ conn \in Conns
      BY <1>11 DEF DialOnPacket, Born, DialLocks
  <2>2. \A q \in Goroutines : pc'[q] = "cl_rlock" => pc[q] = "cl_rlock"
      BY <1>11, <2>1 DEF DialOnPacket
  <2> QED
      BY <2>1, <2>2 DEF ReadersKnown
<1>12. ASSUME NEW p \in {Main, Reconnector}, DialOnClose(p) PROVE ReadersKnown'
    BY <1>12 DEF DialOnClose, Unlock, ReadersKnown, MayRead
<1>13. ASSUME NEW p \in {Main, Reconnector}, NEW c \in Conns, DialOk(p, c) PROVE
    ReadersKnown'
    BY <1>13 DEF DialOk, ReadersKnown, MayRead
<1>14. ASSUME NEW p \in Callers, DoNil(p) PROVE ReadersKnown'
    BY <1>14 DEF DoNil, RLock, Panic, ReadersKnown, MayRead
<1>15. ASSUME NEW p \in Callers, DoWrite(p) PROVE ReadersKnown'
    BY <1>15 DEF DoWrite, RLock, ReadersKnown, MayRead
<1>16. ASSUME NEW p \in Callers, DoWriteErr(p) PROVE ReadersKnown'
  <2>1. DoRet(p) \in AfterDo
      BY <1>16, ReturnLabels, Procs
  <2>2. UNCHANGED <<readers, cret, closeCh, panic>> /\ pc[p] = "do_rlock" /\ panic = "none"
      BY <1>16 DEF DoWriteErr, Next
  <2>3. pc' = [pc EXCEPT ![p] = DoRet(p)]
      BY <1>16 DEF DoWriteErr, DoEnd
  <2>4. p \notin readers
      BY <2>2 DEF ReadersKnown, MayRead, InDo
  <2> QED
      BY <2>1, <2>2, <2>3, <2>4 DEF ReadersKnown, MayRead, AfterDo
<1>17. ASSUME NEW p \in Callers, DoRegister(p) PROVE ReadersKnown'
    BY <1>17 DEF DoRegister, ReadersKnown, MayRead
<1>18. ASSUME NEW p \in Callers, DoReceive(p) PROVE ReadersKnown'
    BY <1>18 DEF DoReceive, RecvEnd, DoEnd, DoRet, RUnlock, Panic, ReadersKnown, MayRead
<1>19. ASSUME NEW p \in Callers, DoTimeout(p) PROVE ReadersKnown'
    BY <1>19 DEF DoTimeout, RecvEnd, DoEnd, DoRet, RUnlock, Panic, ReadersKnown, MayRead
<1>20. ASSUME NEW p \in UserProcs \cup {Reconnector}, ClBegin(p) PROVE ReadersKnown'
    BY <1>20 DEF ClBegin, Panic, ReadersKnown, MayRead
<1>21. ASSUME NEW p \in UserProcs \cup {Reconnector}, ClRLock(p) PROVE ReadersKnown'
    BY <1>21 DEF ClRLock, RLock, CallClose, ReadersKnown, MayRead
<1>22. ASSUME NEW p \in UserProcs \cup {Reconnector}, ClEnd(p) PROVE ReadersKnown'
    BY <1>22 DEF ClEnd, RUnlock, ReadersKnown, MayRead
<1>23. ASSUME AuthExpire PROVE UNCHANGED <<pc, readers, cret, closeCh, panic>>
    BY <1>23 DEF AuthExpire
<1>24. ASSUME MainDialed PROVE ReadersKnown'
    BY <1>24 DEF MainDialed, ReadersKnown, MayRead
<1>25. ASSUME MainAuthed PROVE ReadersKnown'
    BY <1>25 DEF MainAuthed, Granted, ReadersKnown, MayRead
<1>26. ASSUME RcTry PROVE ReadersKnown'
    BY <1>26 DEF RcTry, CallClose, ReadersKnown, MayRead
<1>27. ASSUME RcClear PROVE ReadersKnown'
    BY <1>27 DEF RcClear, ReadersKnown, MayRead
<1>28. ASSUME RcDialed PROVE ReadersKnown'
    BY <1>28 DEF RcDialed, CallDo, ReadersKnown, MayRead
<1>29. ASSUME RcAuthed PROVE ReadersKnown'
    BY <1>29 DEF RcAuthed, Granted, ReadersKnown, MayRead
<1>30. ASSUME RcResumed PROVE ReadersKnown'
    BY <1>30 DEF RcResumed, Granted, ReadersKnown, MayRead
<1>31. ASSUME RcAfter PROVE ReadersKnown'
    BY <1>31 DEF RcAfter, CallDo, ReadersKnown, MayRead
<1>32. ASSUME KaExit PROVE ReadersKnown'
    BY <1>32 DEF KaExit, ReadersKnown, MayRead
<1>33. ASSUME KaTimeout PROVE ReadersKnown'
    BY <1>33 DEF KaTimeout, CallReconnecting, ReadersKnown, MayRead
<1>34. ASSUME KaPing PROVE ReadersKnown'
    BY <1>34 DEF KaPing, CallReconnecting, ReadersKnown, MayRead
<1>35. ASSUME NEW p \in UserProcs, UserDo(p) PROVE ReadersKnown'
    BY <1>35 DEF UserDo, CallDo, ReadersKnown, MayRead
<1>36. ASSUME NEW p \in UserProcs, UserClose(p) PROVE ReadersKnown'
    BY <1>36 DEF UserClose, ReadersKnown, MayRead
<1>37. ASSUME NEW c \in Conns, ReaderResponse(c) PROVE ReadersKnown'
    BY <1>37 DEF ReaderResponse, ReaderPacket, Panic, ReadersKnown, MayRead
<1>38. ASSUME NEW c \in Conns, ReaderServer(c) PROVE ReadersKnown'
    BY <1>38 DEF ReaderServer, ReaderPacket, Panic, ReadersKnown, MayRead
<1>39. ASSUME NEW c \in Conns, ReaderFail(c) PROVE ReadersKnown'
    BY <1>39 DEF ReaderFail, CallClose, ReadersKnown, MayRead
<1>40. ASSUME NEW c \in Conns, CsTop(c) PROVE ReadersKnown'
    BY <1>40 DEF CsTop, ReadersKnown, MayRead
<1>41. ASSUME NEW c \in Conns, CsTake(c) PROVE ReadersKnown'
    BY <1>41 DEF CsTake, HandleResponse, HandleOther, CsBack, Panic, ReadersKnown, MayRead
<1>42. ASSUME NEW c \in Conns, SrvRLock(c) PROVE ReadersKnown'
    BY <1>42 DEF SrvRLock, RLock, CallClose, ReadersKnown, MayRead
<1>43. ASSUME NEW c \in Conns, SrvEnd(c) PROVE ReadersKnown'
    BY <1>43 DEF SrvEnd, RUnlock, CallReconnecting, CsBack, ReadersKnown, MayRead
<1>44. ASSUME NEW c \in Conns, CsDrained(c) PROVE ReadersKnown'
    BY <1>44 DEF CsDrained, CallReconnecting, ReadersKnown, MayRead
<1>45. ASSUME NEW c \in Conns, CsFin(c) PROVE ReadersKnown'
    BY <1>45 DEF CsFin, ReadersKnown, MayRead
<1> QED
    BY SMTT(30), <1>0, <1>1, <1>2, <1>3, <1>4, <1>5, <1>6, <1>7, <1>8, <1>9, <1>10, <1>11, <1>12,
        <1>13, <1>14, <1>15, <1>16, <1>17, <1>18, <1>19, <1>20, <1>21, <1>22, <1>23, <1>24,
        <1>25, <1>26, <1>27, <1>28, <1>29, <1>30, <1>31, <1>32, <1>33, <1>34, <1>35, <1>36,
        <1>37, <1>38, <1>39, <1>40, <1>41, <1>42, <1>43, <1>44, <1>45 DEF Next, Environment,
        Step, CloseStep, RecStep, DialStep, DoStep, ClStep, MainStep, RcStep, KaStep, CsStep

\* A goroutine does not take the read lock inside a closeOnce.
LEMMA NewReaders == TypeOK /\ PcOK /\ Next => \A q \in readers' : q \in readers \/ pc'[q] # "close_once"
<1> SUFFICES ASSUME TypeOK, PcOK, Next PROVE \A q \in readers' : q \in readers \/ pc'[q] # "close_once"
    OBVIOUS
<1> USE Procs DEF TypeOK, GoroutineTypes, At, Goto, lockVars, sessVars, shutVars, retVars,
    reqVars, connVars
<1>0. UNCHANGED <<readers>> => \A q \in readers' : q \in readers \/ pc'[q] # "close_once"
    OBVIOUS
<1>1. ASSUME NEW p \in Goroutines, Announce(p) \/ CloseCheck(p) \/ CloseOnce(p) \/
    CloseDispatch(p) \/ CloseEnd(p) \/ RecEnter(p) \/ RecWait(p) \/ RecLeave(p) PROVE
    UNCHANGED <<readers>>
    BY <1>1 DEF Announce, CloseCheck, CloseReturn, CloseOnce, CloseDispatch,
        CallReconnecting, CloseEnd, RecEnter, CanLock, RecReturn, Unlock, RecWait, RecLeave
<1>2. ASSUME NEW p \in {Main, Reconnector}, DialLock(p) \/ DialFail(p) \/ DialOnPacket(p) \/
    DialOnClose(p) PROVE UNCHANGED <<readers>>
    BY <1>2 DEF DialLock, CanLock, DialFail, Unlock, DialOnPacket, DialOnClose
<1>3. ASSUME NEW p \in {Main, Reconnector}, NEW c \in Conns, DialOk(p, c) PROVE UNCHANGED
    <<readers>>
    BY <1>3 DEF DialOk
<1>4. ASSUME NEW p \in Callers, DoWriteErr(p) \/ DoRegister(p) PROVE UNCHANGED <<readers>>
    BY <1>4 DEF DoWriteErr, DoEnd, DoRegister
<1>5. ASSUME NEW p \in Callers, DoNil(p) PROVE \A q \in readers' : q \in readers \/ pc'[q] #
    "close_once"
    BY <1>5 DEF DoNil, RLock, Panic
<1>6. ASSUME NEW p \in Callers, DoWrite(p) PROVE \A q \in readers' : q \in readers \/ pc'[q]
    # "close_once"
    BY <1>6 DEF DoWrite, RLock
<1>7. ASSUME NEW p \in Callers, DoReceive(p) PROVE \A q \in readers' : q \in readers \/
    pc'[q] # "close_once"
    BY <1>7 DEF DoReceive, RecvEnd, DoEnd, DoRet, RUnlock, Panic
<1>8. ASSUME NEW p \in Callers, DoTimeout(p) PROVE \A q \in readers' : q \in readers \/
    pc'[q] # "close_once"
    BY <1>8 DEF DoTimeout, RecvEnd, DoEnd, DoRet, RUnlock, Panic
<1>9. ASSUME NEW p \in UserProcs \cup {Reconnector}, ClBegin(p) PROVE UNCHANGED <<readers>>
    BY <1>9 DEF ClBegin
<1>10. ASSUME NEW p \in UserProcs \cup {Reconnector}, ClRLock(p) PROVE \A q \in readers' : q
    \in readers \/ pc'[q] # "close_once"
    BY <1>10 DEF ClRLock, RLock, CallClose
<1>11. ASSUME NEW p \in UserProcs \cup {Reconnector}, ClEnd(p) PROVE \A q \in readers' : q
    \in readers \/ pc'[q] # "close_once"
    BY <1>11 DEF ClEnd, RUnlock
<1>12. ASSUME MainDialed \/ MainAuthed \/ RcTry \/ RcClear \/ RcDialed \/ RcAuthed \/
    RcResumed \/ RcAfter \/ AuthExpire \/ KaExit \/ KaTimeout \/ KaPing PROVE UNCHANGED
    <<readers>>
    BY <1>12 DEF MainDialed, MainAuthed, RcTry, CallClose, RcClear, RcDialed, CallDo,
        RcAuthed, RcResumed, RcAfter, AuthExpire, KaExit, KaTimeout, CallReconnecting,
        KaPing
<1>13. ASSUME NEW p \in UserProcs, UserDo(p) \/ UserClose(p) PROVE UNCHANGED <<readers>>
    BY <1>13 DEF UserDo, CallDo, UserClose
<1>14. ASSUME NEW c \in Conns, ReaderResponse(c) \/ ReaderServer(c) \/ ReaderFail(c) \/
    CsTop(c) \/ CsTake(c) \/ CsDrained(c) \/ CsFin(c) PROVE UNCHANGED <<readers>>
    BY <1>14 DEF ReaderResponse, ReaderPacket, ReaderServer, ReaderFail, CallClose, CsTop,
        CsTake, HandleResponse, HandleOther, CsDrained, CallReconnecting, CsFin
<1>15. ASSUME NEW c \in Conns, SrvRLock(c) PROVE \A q \in readers' : q \in readers \/ pc'[q]
    # "close_once"
    BY <1>15 DEF SrvRLock, RLock, CallClose
<1>16. ASSUME NEW c \in Conns, SrvEnd(c) PROVE \A q \in readers' : q \in readers \/ pc'[q] #
    "close_once"
    BY <1>16 DEF SrvEnd, RUnlock, CallReconnecting, CsBack
<1> QED
    BY SMTT(30), <1>0, <1>1, <1>2, <1>3, <1>4, <1>5, <1>6, <1>7, <1>8, <1>9, <1>10, <1>11, <1>12,
        <1>13, <1>14, <1>15, <1>16 DEF Next, Environment, Step, CloseStep, RecStep,
        DialStep, DoStep, ClStep, MainStep, RcStep, KaStep, CsStep

\* A Close waits only for closes that do not call reconnecting, since closeCh
\* is closed first.
LEMMA ClosersFreeNext ==
    TypeOK /\ PcOK /\ Early /\ Born /\ CloseBody /\ ReadersKnown /\ ClosersFree /\ Next
        => ClosersFree'
<1> SUFFICES ASSUME TypeOK, PcOK, Early, Born, CloseBody, ReadersKnown, ClosersFree, Next
             PROVE  ClosersFree'
    OBVIOUS
<1>s. Apart \/ CloseOrRec
    BY ApartNext
<1>r. \A p \in Goroutines : pc[p] \in CloseL => cret[p] \in AfterClose
    BY ReturnLabels
<1>w. \A q \in readers' : pc'[q] = "close_once" => q \in readers /\ q \in Goroutines
    BY NewReaders DEF TypeOK, GoroutineTypes
<1> USE Procs DEF TypeOK, GoroutineTypes, ConsumerProcs, CloseL, RecL, At, Goto, lockVars,
    sessVars, shutVars, retVars, reqVars, connVars
<1>0. ASSUME Apart PROVE ClosersFree'
  <2> SUFFICES ASSUME NEW p \in readers' \ ConsumerProcs', pc'[p] = "close_once",
                      NEW q \in Goroutines, closing'[q] = closing'[p]
               PROVE  pc'[q] \notin RecL
      BY DEF ClosersFree
  <2>1. p \in readers \ ConsumerProcs /\ p \in Goroutines
      BY <1>w
  <2>2. pc[p] = "close_once" /\ (pc'[q] \in RecL => pc[q] \in RecL) /\ closing[q] = closing[p]
      BY <1>0, <2>1 DEF Apart
  <2> QED
      BY <2>1, <2>2 DEF ClosersFree
<1>1. ASSUME NEW p \in Goroutines, CloseCheck(p) PROVE ClosersFree'
  <2> SUFFICES ASSUME NEW r \in readers' \ ConsumerProcs', pc'[r] = "close_once",
                      NEW q \in Goroutines, closing'[q] = closing'[r], pc'[q] \in RecL
               PROVE  FALSE
      BY DEF ClosersFree
  <2>1. r \in readers \ ConsumerProcs /\ r \in Goroutines
      BY <1>w
  <2>2. /\ pc[p] = "close_check"
        /\ \A s \in Goroutines \ {p} : pc'[s] = pc[s] /\ closing'[s] = closing[s]
      BY <1>1 DEF CloseCheck, CloseReturn
  <2>3. pc'[p] \notin RecL
      BY <1>1, <1>r, <2>2 DEF CloseCheck, CloseReturn, AfterClose
  <2>4. CASE r = p
    <3>1. ~Closed(closing[p]) /\ closing' = closing
        BY <1>1, <1>r, <2>2, <2>4 DEF CloseCheck, CloseReturn, AfterClose
    <3>2. closing[p] \in Conns /\ pc[q] \in RecL /\ closing[q] = closing[p]
        BY <2>2, <2>3, <2>4, <3>1 DEF CloseBody
    <3>3. InBody(q)
        BY <3>2 DEF CloseBody
    <3> QED
        BY <3>1, <3>2, <3>3 DEF CloseBody, Closed
  <2>5. CASE r # p
      BY <2>1, <2>2, <2>3, <2>5 DEF ClosersFree
  <2> QED
      BY <2>4, <2>5
<1>2. ASSUME NEW p \in Goroutines, CloseOnce(p) PROVE ClosersFree'
  <2> SUFFICES ASSUME NEW r \in readers' \ ConsumerProcs', pc'[r] = "close_once",
                      NEW q \in Goroutines, closing'[q] = closing'[r], pc'[q] \in RecL
               PROVE  FALSE
      BY DEF ClosersFree
  <2>1. r \in readers \ ConsumerProcs /\ r \in Goroutines
      BY <1>w
  <2>2. /\ pc[p] \in CloseL
        /\ \A s \in Goroutines \ {p} : pc'[s] = pc[s] /\ closing'[s] = closing[s]
      BY <1>2 DEF CloseOnce, CloseReturn
  <2>3. pc'[p] \notin RecL /\ pc'[p] # "close_once"
      BY <1>2, <1>r, <2>2 DEF CloseOnce, CloseReturn, AfterClose
  <2> QED
      BY <2>1, <2>2, <2>3 DEF ClosersFree
<1>3. ASSUME NEW p \in Goroutines, CloseDispatch(p) PROVE ClosersFree'
  <2> SUFFICES ASSUME NEW r \in readers' \ ConsumerProcs', pc'[r] = "close_once",
                      NEW q \in Goroutines, closing'[q] = closing'[r], pc'[q] \in RecL
               PROVE  FALSE
      BY DEF ClosersFree
  <2>1. r \in readers \ ConsumerProcs /\ r \in Goroutines
      BY <1>w
  <2>2. /\ pc[p] = "close_dispatch" /\ UNCHANGED closing
        /\ \A s \in Goroutines \ {p} : pc'[s] = pc[s]
      BY <1>3 DEF CloseDispatch, CallReconnecting
  <2>3. pc'[p] = "close_end" \/ (pc'[p] = "rec_lock" /\ ~closeCh)
      BY <1>3 DEF CloseDispatch, CallReconnecting
  <2>4. r # p /\ pc[r] = "close_once"
      BY <2>1, <2>2, <2>3
  <2>5. closeCh
      BY <2>1, <2>4 DEF ReadersKnown, MayRead, InDo
  <2> QED
      BY <2>1, <2>2, <2>3, <2>4, <2>5 DEF ClosersFree
<1>4. ASSUME NEW p \in Goroutines, CloseEnd(p) PROVE ClosersFree'
  <2> SUFFICES ASSUME NEW r \in readers' \ ConsumerProcs', pc'[r] = "close_once",
                      NEW q \in Goroutines, closing'[q] = closing'[r], pc'[q] \in RecL
               PROVE  FALSE
      BY DEF ClosersFree
  <2>1. r \in readers \ ConsumerProcs /\ r \in Goroutines
      BY <1>w
  <2>2. /\ pc[p] \in CloseL
        /\ \A s \in Goroutines \ {p} : pc'[s] = pc[s] /\ closing'[s] = closing[s]
      BY <1>4 DEF CloseEnd, CloseReturn
  <2>3. pc'[p] \notin RecL /\ pc'[p] # "close_once"
      BY <1>4, <1>r, <2>2 DEF CloseEnd, CloseReturn, AfterClose
  <2> QED
      BY <2>1, <2>2, <2>3 DEF ClosersFree
<1>5. ASSUME NEW p \in Goroutines, RecEnter(p) PROVE ClosersFree'
  <2>1. readers' = {}
      BY <1>5 DEF RecEnter, CanLock, Unlock
  <2> QED
      BY <2>1 DEF ClosersFree
<1>6. ASSUME NEW p \in Goroutines, RecWait(p) PROVE ClosersFree'
  <2> SUFFICES ASSUME NEW r \in readers' \ ConsumerProcs', pc'[r] = "close_once",
                      NEW q \in Goroutines, closing'[q] = closing'[r], pc'[q] \in RecL
               PROVE  FALSE
      BY DEF ClosersFree
  <2>1. r \in readers \ ConsumerProcs /\ r \in Goroutines
      BY <1>w
  <2>2. /\ pc[p] = "rec_wait" /\ UNCHANGED closing /\ pc[Reconnector] = "rc_done"
        /\ pc' = [pc EXCEPT ![p] = "rec_relock", ![Reconnector] = "off"]
      BY <1>6 DEF RecWait
  <2>3. pc[r] = "close_once" /\ pc[q] \in RecL
      BY <2>1, <2>2
  <2> QED
      BY <2>1, <2>2, <2>3 DEF ClosersFree
<1>7. ASSUME NEW p \in Goroutines, RecLeave(p) PROVE ClosersFree'
  <2>1. readers' = {}
      BY <1>7 DEF RecLeave, CanLock, Unlock
  <2> QED
      BY <2>1 DEF ClosersFree
<1>8. ASSUME NEW p \in UserProcs \cup {Reconnector}, ClRLock(p) PROVE ClosersFree'
  <2> SUFFICES ASSUME NEW r \in readers' \ ConsumerProcs', pc'[r] = "close_once",
                      NEW q \in Goroutines, closing'[q] = closing'[r], pc'[q] \in RecL
               PROVE  FALSE
      BY DEF ClosersFree
  <2>1. r \in readers \ ConsumerProcs /\ r \in Goroutines
      BY <1>w
  <2>2. /\ pc'[p] = "close_check" \/ pc'[p] \notin RecL \cup {"close_once"}
        /\ \A s \in Goroutines \ {p} : pc'[s] = pc[s] /\ closing'[s] = closing[s]
      BY <1>8 DEF ClRLock, RLock, CallClose
  <2> QED
      BY <2>1, <2>2 DEF ClosersFree
<1>9. ASSUME RcTry PROVE ClosersFree'
  <2> SUFFICES ASSUME NEW r \in readers' \ ConsumerProcs', pc'[r] = "close_once",
                      NEW q \in Goroutines, closing'[q] = closing'[r], pc'[q] \in RecL
               PROVE  FALSE
      BY DEF ClosersFree
  <2>1. r \in readers \ ConsumerProcs /\ r \in Goroutines
      BY <1>w
  <2>2. /\ pc'[Reconnector] = "close_check" \/ pc'[Reconnector] \notin RecL \cup {"close_once"}
        /\ \A s \in Goroutines \ {Reconnector} : pc'[s] = pc[s] /\ closing'[s] = closing[s]
      BY <1>9 DEF RcTry, CallClose
  <2> QED
      BY <2>1, <2>2 DEF ClosersFree
<1>10. ASSUME KaTimeout PROVE ClosersFree'
  <2> SUFFICES ASSUME NEW r \in readers' \ ConsumerProcs', pc'[r] = "close_once",
                      NEW q \in Goroutines, closing'[q] = closing'[r], pc'[q] \in RecL
               PROVE  FALSE
      BY DEF ClosersFree
  <2>1. r \in readers \ ConsumerProcs /\ r \in Goroutines
      BY <1>w
  <2>2. /\ pc[Keepalive] = "ka_idle" /\ UNCHANGED closing
        /\ \A s \in Goroutines \ {Keepalive} : pc'[s] = pc[s]
        /\ pc'[Keepalive] \in {pc[Keepalive], "rec_lock"}
      BY <1>10 DEF KaTimeout, CallReconnecting
  <2>3. closing[Keepalive] \notin Conns
      BY <2>2 DEF CloseBody, InBody
  <2>4. pc[r] = "close_once" /\ closing[r] \in Conns
      BY <2>1, <2>2 DEF CloseBody
  <2> QED
      BY <2>1, <2>2, <2>3, <2>4 DEF ClosersFree
<1>11. ASSUME KaPing PROVE ClosersFree'
  <2> SUFFICES ASSUME NEW r \in readers' \ ConsumerProcs', pc'[r] = "close_once",
                      NEW q \in Goroutines, closing'[q] = closing'[r], pc'[q] \in RecL
               PROVE  FALSE
      BY DEF ClosersFree
  <2>1. r \in readers \ ConsumerProcs /\ r \in Goroutines
      BY <1>w
  <2>2. /\ pc[Keepalive] = "ka_idle" /\ UNCHANGED closing
        /\ \A s \in Goroutines \ {Keepalive} : pc'[s] = pc[s]
        /\ pc'[Keepalive] \in {pc[Keepalive], "rec_lock"}
      BY <1>11 DEF KaPing, CallReconnecting
  <2>3. closing[Keepalive] \notin Conns
      BY <2>2 DEF CloseBody, InBody
  <2>4. pc[r] = "close_once" /\ closing[r] \in Conns
      BY <2>1, <2>2 DEF CloseBody
  <2> QED
      BY <2>1, <2>2, <2>3, <2>4 DEF ClosersFree
<1>12. ASSUME NEW c \in Conns, ReaderFail(c) PROVE ClosersFree'
  <2> SUFFICES ASSUME NEW r \in readers' \ ConsumerProcs', pc'[r] = "close_once",
                      NEW q \in Goroutines, closing'[q] = closing'[r], pc'[q] \in RecL
               PROVE  FALSE
      BY DEF ClosersFree
  <2>1. r \in readers \ ConsumerProcs /\ r \in Goroutines
      BY <1>w
  <2>2. /\ pc'[Reader(c)] = "close_check" \/ pc'[Reader(c)] \notin RecL \cup {"close_once"}
        /\ \A s \in Goroutines \ {Reader(c)} : pc'[s] = pc[s] /\ closing'[s] = closing[s]
      BY <1>12 DEF ReaderFail, CallClose
  <2> QED
      BY <2>1, <2>2 DEF ClosersFree
<1>13. ASSUME NEW c \in Conns, SrvRLock(c) PROVE ClosersFree'
  <2> SUFFICES ASSUME NEW r \in readers' \ ConsumerProcs', pc'[r] = "close_once",
                      NEW q \in Goroutines, closing'[q] = closing'[r], pc'[q] \in RecL
               PROVE  FALSE
      BY DEF ClosersFree
  <2>1. r \in readers \ ConsumerProcs /\ r \in Goroutines
      BY <1>w
  <2>2. /\ pc'[Consumer(c)] = "close_check" \/ pc'[Consumer(c)] \notin RecL \cup {"close_once"}
        /\ \A s \in Goroutines \ {Consumer(c)} : pc'[s] = pc[s] /\ closing'[s] = closing[s]
      BY <1>13 DEF SrvRLock, RLock, CallClose
  <2> QED
      BY <2>1, <2>2 DEF ClosersFree
<1>14. ASSUME NEW c \in Conns, SrvEnd(c) PROVE ClosersFree'
  <2> SUFFICES ASSUME NEW r \in readers' \ ConsumerProcs', pc'[r] = "close_once",
                      NEW q \in Goroutines, closing'[q] = closing'[r], pc'[q] \in RecL
               PROVE  FALSE
      BY DEF ClosersFree
  <2>1. r \in readers \ ConsumerProcs /\ r \in Goroutines
      BY <1>w
  <2>2. /\ pc[Consumer(c)] = "srv_end" /\ UNCHANGED closing
        /\ \A s \in Goroutines \ {Consumer(c)} : pc'[s] = pc[s]
        /\ pc'[Consumer(c)] \in {pc[Consumer(c)], "rec_lock"}
      BY <1>14 DEF SrvEnd, RUnlock, CallReconnecting, CsBack
  <2>3. closing[Consumer(c)] \notin Conns
      BY <2>2 DEF CloseBody, InBody
  <2>4. pc[r] = "close_once" /\ closing[r] \in Conns
      BY <2>1, <2>2 DEF CloseBody
  <2> QED
      BY <2>1, <2>2, <2>3, <2>4 DEF ClosersFree
<1>15. ASSUME NEW c \in Conns, CsDrained(c) PROVE ClosersFree'
  <2> SUFFICES ASSUME NEW r \in readers' \ ConsumerProcs', pc'[r] = "close_once",
                      NEW q \in Goroutines, closing'[q] = closing'[r], pc'[q] \in RecL
               PROVE  FALSE
      BY DEF ClosersFree
  <2>1. r \in readers \ ConsumerProcs /\ r \in Goroutines
      BY <1>w
  <2>2. /\ pc[Consumer(c)] = "cs_drain" /\ UNCHANGED closing
        /\ \A s \in Goroutines \ {Consumer(c)} : pc'[s] = pc[s]
        /\ pc'[Consumer(c)] \in {pc[Consumer(c)], "rec_lock"}
      BY <1>15 DEF CsDrained, CallReconnecting
  <2>3. closing[Consumer(c)] \notin Conns
      BY <2>2 DEF CloseBody, InBody
  <2>4. pc[r] = "close_once" /\ closing[r] \in Conns
      BY <2>1, <2>2 DEF CloseBody
  <2> QED
      BY <2>1, <2>2, <2>3, <2>4 DEF ClosersFree
<1> QED
    BY <1>s, <1>0, <1>1, <1>2, <1>3, <1>4, <1>5, <1>6, <1>7, <1>8, <1>9, <1>10, <1>11,
        <1>12, <1>13, <1>14, <1>15 DEF CloseOrRec, CloseStep, RecStep

\* Head and Tail of a sequence, and its elements.
LEMMA TailElements ==
    ASSUME NEW S, NEW s \in Seq(S), s # <<>>
    PROVE  /\ Head(s) = s[1] /\ 1 \in 1..Len(s)
           /\ \A i \in 1..Len(Tail(s)) : i + 1 \in 1..Len(s) /\ Tail(s)[i] = s[i + 1]
OBVIOUS

\* closeByServer is called for a close packet only.
LEMMA NoServerCloseNext ==
    TypeOK /\ PcOK /\ Born /\ NoServerClose /\ Next => NoServerClose'
<1> SUFFICES ASSUME TypeOK, PcOK, Born, NoServerClose, Next, "close" \notin ServerKinds,
                    NEW c \in Conns
             PROVE  ServerKeeps(c)'
    BY DEF NoServerClose
<1> DEFINE C == Consumer(c)
<1>1. ServerKeeps(c) /\ C \in Goroutines /\ C # Reconnector /\ Reconnector \in Goroutines
    BY Procs, Distinct DEF NoServerClose
<1>2. CsSame(c) \/ CsMoves(c)
    BY CsFrame
<1>3. /\ pc \in [Goroutines -> Labels] /\ rret \in [Goroutines -> Labels]
      /\ cret \in [Goroutines -> Labels] /\ queue \in [Conns -> Seq(Packets)]
    BY DEF TypeOK, GoroutineTypes, ConnTypes
<1>4. pc[C] \in RecL => rret[C] \in {"off", "close_end", "cs_top", "cs_drain", "cs_fin"}
    BY DEF PcOK
<1> DEFINE Calm == pc[C] \notin {"srv_rlock", "srv_end"} \cup CloseL
                     /\ cret[C] = "off" /\ rret[C] # "close_end"
           Kind == \A i \in 1..Len(queue[c]) : queue[c][i].type # "close"
<1>5. Calm /\ Kind
    BY <1>1 DEF ServerKeeps
<1>6. Calm' /\ Kind' => ServerKeeps(c)'
    BY DEF ServerKeeps
<1> HIDE DEF C, Calm, Kind
<1> USE <1>1, <1>3 DEF CloseL, RecL, At, Goto
<1>7. ASSUME CloseStep(C) PROVE FALSE
    BY <1>5, <1>7 DEF CloseStep, CloseCheck, CloseOnce, CloseDispatch, CloseEnd, Calm
<1>8. ASSUME RecStep(C) PROVE ServerKeeps(c)'
  <2>1. UNCHANGED <<queue, cret>>
      BY <1>8 DEF RecStep, RecEnter, RecWait, RecLeave, connVars, retVars
  <2>2. ASSUME RecEnter(C) /\ doReconnectting PROVE Calm'
      BY <1>4, <1>5, <2>1, <2>2 DEF RecEnter, RecReturn, Calm
  <2>3. ASSUME RecEnter(C) /\ ~doReconnectting PROVE Calm'
      BY <1>5, <2>1, <2>3 DEF RecEnter, Calm
  <2>4. ASSUME RecWait(C) PROVE Calm'
      BY <1>5, <2>1, <2>4 DEF RecWait, retVars, Calm
  <2>5. ASSUME RecLeave(C) PROVE Calm'
      BY <1>4, <1>5, <2>1, <2>5 DEF RecLeave, RecReturn, Calm
  <2>6. Calm'
      BY <1>8, <2>2, <2>3, <2>4, <2>5 DEF RecStep
  <2>7. Kind'
      BY <1>5, <2>1 DEF Kind
  <2> QED
      BY <1>6, <2>6, <2>7
<1>9. ASSUME CsTop(c) \/ CsDrained(c) \/ CsFin(c) PROVE ServerKeeps(c)'
  <2>1. UNCHANGED <<queue, cret>>
      BY <1>9 DEF CsTop, CsDrained, CsFin, connVars, retVars
  <2>2. ASSUME CsTop(c) PROVE Calm'
      BY <1>5, <2>1, <2>2 DEF CsTop, retVars, Calm, C
  <2>3. ASSUME CsDrained(c) PROVE Calm'
      BY <1>5, <2>1, <2>3 DEF CsDrained, CallReconnecting, Calm, C
  <2>4. ASSUME CsFin(c) PROVE Calm'
      BY <1>5, <2>1, <2>4 DEF CsFin, retVars, Calm, C
  <2>5. Kind'
      BY <1>5, <2>1 DEF Kind
  <2>6. Calm'
      BY <1>9, <2>2, <2>3, <2>4
  <2> QED
      BY <1>6, <2>5, <2>6
<1>10. ASSUME CsTake(c) PROVE ServerKeeps(c)'
  <2>1. /\ UNCHANGED <<cret, rret>> /\ queue[c] # <<>> /\ queue[c] \in Seq(Packets)
        /\ queue' = [queue EXCEPT ![c] = Tail(queue[c])]
      BY <1>10 DEF CsTake, retVars
  <2>2. /\ Head(queue[c]) = queue[c][1] /\ 1 \in 1..Len(queue[c])
        /\ \A i \in 1..Len(Tail(queue[c])) :
              i + 1 \in 1..Len(queue[c]) /\ Tail(queue[c])[i] = queue[c][i + 1]
      BY <2>1, TailElements
  <2>3. Head(queue[c]).type # "close"
      BY <1>5, <2>2 DEF Kind
  <2>4. pc' = pc \/ pc' = [pc EXCEPT ![C] = CsBack(c)]
      BY <1>10, <2>3 DEF CsTake, HandleResponse, HandleOther, C
  <2>5. Calm'
      BY <1>5, <2>1, <2>4 DEF Calm, CsBack
  <2>6. queue'[c] = Tail(queue[c])
      BY <2>1
  <2>7. Kind'
      BY <1>5, <2>2, <2>6 DEF Kind
  <2> QED
      BY <1>6, <2>5, <2>7
<1>11. ASSUME SrvRLock(c) \/ SrvEnd(c) PROVE FALSE
    BY <1>5, <1>11 DEF SrvRLock, SrvEnd, Calm, C
<1>12. ASSUME ReaderResponse(c) \/ ReaderServer(c) PROVE ServerKeeps(c)'
  <2>1. PICK k : ReaderPacket(c, k) /\ k.type # "close"
    <3>1. CASE ReaderResponse(c)
        BY <3>1 DEF ReaderResponse
    <3>2. CASE ReaderServer(c)
      <4>1. PICK t \in ServerKinds : ReaderPacket(c, [type |-> t, rid |-> 0, status |-> "ok"])
          BY <3>2 DEF ReaderServer
      <4>2. t # "close"
          OBVIOUS
      <4> QED
          BY <4>1, <4>2
    <3> QED
        BY <1>12, <3>1, <3>2
  <2>2. Calm'
      BY <1>5, <2>1 DEF ReaderPacket, retVars, Calm
  <2>3. UNCHANGED queue \/ queue' = [queue EXCEPT ![c] = Append(queue[c], k)]
      BY <2>1 DEF ReaderPacket
  <2>4. CASE UNCHANGED queue
      BY <1>5, <1>6, <2>2, <2>4 DEF Kind
  <2>5. CASE queue' = [queue EXCEPT ![c] = Append(queue[c], k)]
    <3>1. queue'[c] = Append(queue[c], k) /\ queue[c] \in Seq(Packets)
        BY <2>5
    <3>2. /\ Len(Append(queue[c], k)) = Len(queue[c]) + 1 /\ Len(queue[c]) \in Nat
          /\ \A i \in 1..Len(queue[c]) : Append(queue[c], k)[i] = queue[c][i]
          /\ Append(queue[c], k)[Len(queue[c]) + 1] = k
        BY <3>1
    <3>3. \A i \in 1..(Len(queue[c]) + 1) : i \in 1..Len(queue[c]) \/ i = Len(queue[c]) + 1
        BY <3>2
    <3>4. Kind'
        BY <1>5, <2>1, <3>1, <3>2, <3>3 DEF Kind
    <3> QED
        BY <1>6, <2>2, <3>4
  <2> QED
      BY <2>3, <2>4, <2>5
<1>13. ASSUME c = conn, NEW p \in {Main, Reconnector}, DialOnPacket(p) PROVE ServerKeeps(c)'
  <2>1. Calm'
      BY <1>5, <1>13, Procs DEF DialOnPacket, retVars, Calm, C
  <2>2. Kind'
      BY <1>5, <1>13 DEF DialOnPacket, Kind
  <2> QED
      BY <1>6, <2>1, <2>2
<1>14. ASSUME CsSame(c) PROVE ServerKeeps(c)'
    BY <1>1, <1>14 DEF CsSame, ServerKeeps
<1> QED
    BY <1>2, <1>7, <1>8, <1>9, <1>10, <1>11, <1>12, <1>13, <1>14 DEF CsMoves, CsStep, C

-----------------------------------------------------------------------------
\* A new client satisfies the invariant.
LEMMA InvariantInit == Init => ClientInvariant
<1> SUFFICES ASSUME Init PROVE ClientInvariant
    OBVIOUS
<1>1. RequestInvariant
    BY RequestInit
<1>2. /\ pc[Main] = "m_start" /\ \A p \in UserProcs : pc[p] = "idle"
      /\ \A p \in Goroutines : pc[p] \in {"m_start", "idle", "off"}
      /\ \A c \in Conns : pc[Consumer(c)] = "off" /\ Consumer(c) \in Goroutines
    BY Procs, Distinct DEF Init
<1>3. \A p \in Goroutines : cret[p] = "off" /\ rret[p] = "off" /\ closing[p] = NoConn
    BY DEF Init
<1>4. CloseBody
    BY <1>2, <1>3, ClientAssumption DEF CloseBody, InBody, RecL
<1>5. ConsumerLife
  <2>1. \A c \in Conns : packetCh[c] = "nil" /\ queue[c] = <<>> /\ left[c] = -1
      BY DEF Init
  <2>2. \A c \in Conns : ~(left[c] >= 0)
      BY <2>1
  <2>3. \A c \in Conns, l \in {"cs_top", "cs_recv", "cs_drain", "cs_fin", "close_end"} : ~Loops(c, l)
      BY <1>2 DEF Loops, RecL
  <2> QED
      BY <1>2, <2>1, <2>2, <2>3 DEF ConsumerLife, LifeOf, CloseL, RecL
<1>6. \A p \in Goroutines \ {Main} : pc[p] \in {"idle", "off"}
    BY DEF Init
<1>7. WithoutConn /\ CutOff
    BY <1>2, <1>6 DEF Init, WithoutConn, NotStarted, CutOff
<1>8. PanicsOnlyInRecovery
    BY DEF Init, PanicsOnlyInRecovery
<1>9. ReadersKnown /\ ClosersFree
    BY <1>2 DEF Init, ReadersKnown, ClosersFree
<1>10. \A c \in Conns : queue[c] = <<>>
    BY DEF Init
<1>11. NoServerClose
    BY <1>2, <1>3, <1>10 DEF NoServerClose, ServerKeeps, CloseL
<1> QED
    BY <1>1, <1>4, <1>5, <1>7, <1>8, <1>9, <1>11 DEF ClientInvariant

\* Every step of the client preserves the invariant.
LEMMA InvariantNext == ClientInvariant /\ [Next]_vars => ClientInvariant'
<1>1. ASSUME ClientInvariant, Next PROVE ClientInvariant'
    <2>1. /\ TypeOK /\ PcOK /\ Early /\ Born /\ DialLocks /\ SingleReconnect
          /\ InFlightOnCurrent /\ ClosedWaiting
          /\ CloseBody /\ ConsumerLife /\ WithoutConn /\ CutOff
          /\ ReadersKnown /\ ClosersFree /\ NoServerClose
        BY <1>1 DEF ClientInvariant, RequestInvariant
    <2>2. RequestInvariant'
        BY <1>1, RequestNext DEF ClientInvariant
    <2>3. CloseBody' /\ ConsumerLife'
        BY <1>1, <2>1, CloseBodyNext, ConsumerLifeNext
    <2>4. WithoutConn' /\ CutOff' /\ PanicsOnlyInRecovery'
        BY <1>1, <2>1, WithoutConnNext, CutOffNext, PanicsNext
    <2>5. ReadersKnown' /\ ClosersFree' /\ NoServerClose'
        BY <1>1, <2>1, ReadersKnownNext, ClosersFreeNext, NoServerCloseNext
    <2> QED
        BY <2>2, <2>3, <2>4, <2>5 DEF ClientInvariant
<1>2. ASSUME ClientInvariant, UNCHANGED vars PROVE ClientInvariant'
    <2>1. RequestInvariant'
        BY <1>2, RequestNext DEF ClientInvariant
    <2> USE <1>2 DEF ClientInvariant, vars, retVars, lockVars, sessVars, shutVars, reqVars,
            connVars
    <2>2. CloseBody' /\ ConsumerLife'
        BY DEF CloseBody, InBody, ConsumerLife, LifeOf, Loops, Closed
    <2>3. WithoutConn' /\ CutOff' /\ PanicsOnlyInRecovery'
        BY DEF WithoutConn, NotStarted, CutOff, PanicsOnlyInRecovery, Closed
    <2>4. ReadersKnown' /\ ClosersFree' /\ NoServerClose'
        BY DEF ReadersKnown, MayRead, InDo, ClosersFree, NoServerClose, ServerKeeps
    <2> QED
        BY <2>1, <2>2, <2>3, <2>4
<1> QED
    BY <1>1, <1>2

\* The whole invariant holds of every reachable state of the client.
THEOREM Invariant == Spec => []ClientInvariant
BY InvariantInit, InvariantNext, PTL DEF Spec

\* Do and the ping handler find c.conn nil, and recv its channel closed, only
\* while a reconnect goes on or after a Close; addPacket meets a closed packetCh
\* only on a connection that is closed: short of a Close a client that never
\* lost its connection does not panic.
THEOREM PanicsOnlyInRecoveries == Spec => []PanicsOnlyInRecovery
<1>1. ClientInvariant => PanicsOnlyInRecovery
    BY DEF ClientInvariant
<1> QED
    BY <1>1, Invariant, PTL

\* With a server that sends no close packet, nobody who holds the client's lock
\* for reading waits for it to be free: a Close in progress waits for another
\* goroutine's close of the connection only when that one skips reconnecting.
THEOREM ReadersDontWait ==
    ASSUME "close" \notin ServerKinds
    PROVE  Spec => []NoReaderWaits
<1>1. ClientInvariant => NoReaderWaits
  <2> SUFFICES ASSUME ClientInvariant, NEW p \in readers
               PROVE  /\ pc[p] \notin LockLabels
                      /\ At(p, "close_once") =>
                            \A q \in Goroutines : closing[q] = closing[p] => ~At(q, "rec_lock")
      BY DEF NoReaderWaits
  <2>1. MayRead(p) /\ ClosersFree /\ \A c \in Conns : ServerKeeps(c)
      BY DEF ClientInvariant, ReadersKnown, NoServerClose
  <2>2. p \notin ConsumerProcs
      BY <2>1, Distinct DEF MayRead, ServerKeeps, ConsumerProcs, Callers
  <2>3. pc[p] \notin LockLabels
      BY <2>1, <2>2 DEF MayRead, InDo, LockLabels, CloseL
  <2> QED
      BY <2>1, <2>2, <2>3 DEF ClosersFree, At, RecL
<1> QED
    BY <1>1, Invariant, PTL

\* Whatever the goroutines of the client do to its connections, each of them
\* takes the steps of ConnView, as module ConnProofs shows of the transports.
THEOREM ViewRefinement == Spec => ImplementsConnView
<1>1. Init => \A c \in Conns : View(c)!Init
    BY DEF Init, View!Init
<1>2. ClientInvariant /\ [Next]_vars
          => [\A c \in Conns : View(c)!Next \/ UNCHANGED View(c)!vars]_vars
    BY ViewStep DEF ClientInvariant, RequestInvariant
<1> QED
    BY <1>1, <1>2, Invariant, PTL DEF Spec, ImplementsConnView
=============================================================================
