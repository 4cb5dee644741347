----------------------------- MODULE ConnProofs -----------------------------
(***************************************************************************)
(* What module Conn promises, for all values of its constants: the         *)
(* invariant of module ConnInv is inductive, the safety invariants follow  *)
(* from it, and the connection implements ByteStream and ConnView.         *)
(***************************************************************************)
EXTENDS ConnInv, TLAPS

\* The constants have their types and the goroutines are distinct.
LEMMA Constants ==
    /\ Transports \subseteq {"tcp", "ws"} /\ Closers \subseteq Users
    /\ WriteQueueSize \in Nat /\ ReadQueueSize \in Nat /\ HandshakeLen \in Nat /\ MaxLen \in Nat
    /\ MaxChunk \in Nat /\ MaxBytes \in Nat /\ MaxPackets \in Nat
    /\ WriteQueueSize > 0 /\ ReadQueueSize > 0 /\ HandshakeLen > 0 /\ MaxChunk > 0
BY ConnAssumption

LEMMA Goroutines ==
    /\ Users \subseteq Procs
    /\ "dialer" \in Procs /\ "reader" \in Procs /\ "writer" \in Procs /\ "consumer" \in Procs
    /\ "dialer" \notin Users /\ "reader" \notin Users /\ "writer" \notin Users /\ "consumer" \notin Users
BY ConnAssumption DEF Procs

\* The steps of the connection, one by one.
LEMMA Steps ==
    ASSUME Next
    PROVE  \/ \E p \in Procs : CloseOnce(p) \/ CloseWrite(p) \/ CloseSock(p) \/ CloseDispatch(p)
           \/ \E p \in Users : UserClose(p) \/ UserWrite(p) \/ WriteSend(p)
           \/ DialCheck \/ DialSend
           \/ WrTop \/ WrTake \/ WrEnd \/ WrTick \/ WrCheck \/ WrWrite \/ WrFail
           \/ RdTop \/ RdRead \/ RdAdd \/ RdAfter \/ RdFail
           \/ OnPacket \/ CsTop \/ CsTake \/ CsDrained \/ CsFin
BY DEF Next, Environment, Step, CloseStep, WrStep, RdStep, CsStep

-----------------------------------------------------------------------------
(* Intervals, concatenation and its parts                                    *)

LEMMA IntervalFacts ==
    ASSUME NEW lo \in Nat, NEW n \in Nat
    PROVE  /\ Interval(lo + 1, n) \in Seq(Nat) /\ Len(Interval(lo + 1, n)) = n
           /\ \A i \in 1..n : Interval(lo + 1, n)[i] = lo + i
BY DEF Interval

LEMMA Successor == \A n \in Nat : n + 1 \in Nat
OBVIOUS

LEMMA ConcatFacts ==
    ASSUME NEW s \in Seq(Nat), NEW t \in Seq(Nat)
    PROVE  /\ s \o t \in Seq(Nat) /\ Len(s \o t) = Len(s) + Len(t)
           /\ \A i \in 1..Len(s) : (s \o t)[i] = s[i]
           /\ \A i \in 1..Len(t) : (s \o t)[Len(s) + i] = t[i]
           /\ \A i \in 1..(Len(s) + Len(t)) :
                 (s \o t)[i] = IF i =< Len(s) THEN s[i] ELSE t[i - Len(s)]
OBVIOUS

LEMMA SubSeqFacts ==
    ASSUME NEW s \in Seq(Nat), NEW n \in 0..Len(s)
    PROVE  /\ SubSeq(s, 1, n) \in Seq(Nat) /\ Len(SubSeq(s, 1, n)) = n
           /\ \A i \in 1..n : SubSeq(s, 1, n)[i] = s[i]
           /\ SubSeq(s, n + 1, Len(s)) \in Seq(Nat) /\ Len(SubSeq(s, n + 1, Len(s))) = Len(s) - n
           /\ \A i \in 1..(Len(s) - n) : SubSeq(s, n + 1, Len(s))[i] = s[n + i]
<1>1. /\ SubSeq(s, 1, n) \in Seq(Nat) /\ Len(SubSeq(s, 1, n)) = n
      /\ \A i \in 1..n : SubSeq(s, 1, n)[i] = s[i]
    OBVIOUS
<1>2. SubSeq(s, n + 1, Len(s)) \in Seq(Nat)
    OBVIOUS
<1>3. Len(SubSeq(s, n + 1, Len(s))) = Len(s) - n
    OBVIOUS
<1>4. ASSUME NEW i \in 1..(Len(s) - n)
      PROVE  SubSeq(s, n + 1, Len(s))[i] = s[n + i]
    OBVIOUS
<1> QED
    BY <1>1, <1>2, <1>3, <1>4

\* Two sequences with the same elements are the same.
LEMMA SameSeq ==
    ASSUME NEW s \in Seq(Nat), NEW t \in Seq(Nat), Len(s) = Len(t), \A i \in 1..Len(s) : s[i] = t[i]
    PROVE  s = t
OBVIOUS

\* Moving a packet from the head of the queue to the end of the delivered ones
\* changes nothing in their concatenation.
LEMMA MoveHead ==
    ASSUME NEW s \in Seq(Nat), NEW t \in Seq(Nat), t # <<>>
    PROVE  Append(s, Head(t)) \o Tail(t) = s \o t
OBVIOUS

LEMMA AppendFacts ==
    ASSUME NEW S, NEW q \in Seq(S), NEW m \in S
    PROVE  /\ Append(q, m) \in Seq(S) /\ Len(Append(q, m)) = Len(q) + 1
           /\ \A i \in 1..Len(q) : Append(q, m)[i] = q[i]
           /\ Append(q, m)[Len(q) + 1] = m
           /\ <<m>> \in Seq(S) /\ Len(<<m>>) = 1
OBVIOUS

LEMMA AppendToConcat ==
    ASSUME NEW s \in Seq(Nat), NEW t \in Seq(Nat), NEW k \in Nat
    PROVE  s \o Append(t, k) = Append(s \o t, k)
OBVIOUS

-----------------------------------------------------------------------------
LEMMA InitInv == Init => ConnInvariant
<1> SUFFICES ASSUME Init PROVE ConnInvariant
    OBVIOUS
<1> USE Constants, Goroutines DEF Init
<1>0. /\ \A p \in Users : pc[p] = "idle"
      /\ pc["dialer"] \in {"dial", "off"} /\ pc["reader"] = "rd_top" /\ pc["writer"] = "wr_top"
      /\ pc["consumer"] = "off"
    OBVIOUS
<1>1. TypeOK
  <2>1. pc \in [Procs -> Labels]
      BY <1>0 DEF Labels, Procs
  <2>2. ready \in BOOLEAN
      OBVIOUS
  <2>3. writeCh \in Seq(Seq(Nat)) /\ Len(writeCh) =< WriteQueueSize
      OBVIOUS
  <2>4. /\ transport \in Transports
        /\ closeCh = FALSE /\ once = "free" /\ sock = TRUE /\ dispatched = 0
        /\ writeClosed = FALSE /\ accepted = 0
        /\ cur = <<>> /\ buf = <<>> /\ out = <<>>
        /\ packetCh = "nil" /\ queue = <<>> /\ arrived = 0 /\ chunk = <<>> /\ after = "none"
        /\ dropped = {} /\ left = -1 /\ delivered = <<>> /\ panic = "none"
      OBVIOUS
  <2> HIDE DEF Init
  <2>5. closeCh \in BOOLEAN /\ writeClosed \in BOOLEAN /\ sock \in BOOLEAN
      BY <2>4
  <2>6. /\ cur \in Seq(Nat) /\ buf \in Seq(Nat) /\ out \in Seq(Nat)
        /\ queue \in Seq(Nat) /\ Len(queue) =< ReadQueueSize
        /\ delivered \in Seq(Nat) /\ chunk \in Seq(Nat)
      BY <2>4
  <2>7. /\ dropped \in SUBSET Nat
        /\ left \in Nat \cup {-1}
        /\ once \in {"free", "busy", "done"} /\ dispatched \in Nat /\ accepted \in Nat
        /\ packetCh \in {"nil", "open", "closed"} /\ arrived \in Nat /\ after \in Afters
        /\ panic \in {"none", "close_of_closed_channel", "send_on_closed_channel"}
      BY <2>4 DEF Afters
  <2> QED
      BY <2>1, <2>2, <2>3, <2>4, <2>5, <2>6, <2>7 DEF TypeOK, ControlTypes, WriteTypes, PacketTypes
<1>2. PcOK
    BY <1>0 DEF PcOK, Closing, Writing
<1>3. CloseInv
    BY DEF CloseInv, CloseState, CloseBody, Closing, At, Procs
<1>4. ConsumerInv
    BY DEF ConsumerInv, At
<1>5. DialInv
    BY DEF DialInv, At
<1>6. WireInv
    BY DEF WireInv, OnTheWay, Queued, Follows, Writing, Ahead, First
<1>7. PacketInv
    BY DEF PacketInv, Follows, Kept, Handled
<1>8. LastReadInv
    BY DEF LastReadInv
<1> QED
    BY <1>1, <1>2, <1>3, <1>4, <1>5, <1>6, <1>7, <1>8 DEF ConnInvariant

-----------------------------------------------------------------------------
LEMMA LabelFacts ==
    /\ "off" \in Labels /\ "idle" \in Labels /\ "dial" \in Labels /\ "write" \in Labels
    /\ "close_once" \in Labels /\ "close_write" \in Labels /\ "close_sock" \in Labels
    /\ "close_dispatch" \in Labels /\ "rd_top" \in Labels /\ "rd_read" \in Labels
    /\ "rd_add" \in Labels /\ "wr_top" \in Labels /\ "wr_select" \in Labels
    /\ "wr_check" \in Labels /\ "wr_write" \in Labels /\ "cs_top" \in Labels
    /\ "cs_recv" \in Labels /\ "cs_drain" \in Labels /\ "cs_fin" \in Labels
BY DEF Labels

\* What a read yields.
LEMMA ReadFacts ==
    ASSUME NEW r \in Reads
    PROVE  /\ r[1] \in Nat /\ r[2] \in Afters
           /\ transport = "tcp" => r[1] =< MaxChunk
BY Constants DEF Reads, Afters

\* Every step keeps the types of the program counters and of what Close uses.
LEMMA ControlTypesNext == TypeOK /\ Next => ControlTypes'
<1> SUFFICES ASSUME TypeOK, Next PROVE ControlTypes'
    OBVIOUS
<1>a. ControlTypes
    BY DEF TypeOK
<1> USE <1>a, Goroutines, LabelFacts DEF ControlTypes, Goto, CallClose, CloseRet, CloseChan, Panic, closeVars
<1>0. UNCHANGED transport
    BY DEF Next
<1> USE <1>0
<1>1. ASSUME NEW p \in Procs, CloseOnce(p) PROVE ControlTypes'
    BY <1>1 DEF CloseOnce
<1>2. ASSUME NEW p \in Procs, CloseWrite(p) PROVE ControlTypes'
    BY <1>2 DEF CloseWrite
<1>3. ASSUME NEW p \in Procs, CloseSock(p) PROVE ControlTypes'
    BY <1>3 DEF CloseSock
<1>4. ASSUME NEW p \in Procs, CloseDispatch(p) PROVE ControlTypes'
  <2>1. dispatched' = dispatched + 1 /\ once' = "done" /\ UNCHANGED <<ready, closeCh, sock, panic>>
      BY <1>4 DEF CloseDispatch
  <2>2. pc' = [pc EXCEPT ![p] = CloseRet(p)] /\ CloseRet(p) \in Labels
      BY <1>4 DEF CloseDispatch
  <2> HIDE DEF CloseRet
  <2>3. pc' \in [Procs -> Labels]
      BY <2>2
  <2>4. dispatched' \in Nat
      BY <2>1, Successor, Zenon
  <2> QED
      BY <2>1, <2>3, <2>4
<1>5. ASSUME NEW p \in Users, UserClose(p) PROVE ControlTypes'
    BY <1>5 DEF UserClose
<1>6. ASSUME NEW p \in Users, UserWrite(p) PROVE ControlTypes'
    BY <1>6 DEF UserWrite
<1>7. ASSUME NEW p \in Users, WriteSend(p) PROVE ControlTypes'
  <2>1. panic' \in {panic, "send_on_closed_channel"} /\ UNCHANGED <<ready, closeCh, once, sock, dispatched>>
      BY <1>7 DEF WriteSend, Enqueue
  <2> QED
      BY <1>7, <2>1 DEF WriteSend
<1>8. CASE DialCheck
    BY <1>8 DEF DialCheck
<1>9. CASE DialSend
  <2>1. /\ panic' \in {panic, "send_on_closed_channel"} /\ ready' \in {ready, TRUE}
        /\ UNCHANGED <<closeCh, once, sock, dispatched>>
      BY <1>9 DEF DialSend
  <2> QED
      BY <1>9, <2>1 DEF DialSend
<1>10. CASE WrTop
    BY <1>10 DEF WrTop
<1>11. CASE WrTake
    BY <1>11 DEF WrTake
<1>12. CASE WrEnd
    BY <1>12 DEF WrEnd
<1>13. CASE WrTick
    BY <1>13 DEF WrTick
<1>14. CASE WrCheck
    BY <1>14 DEF WrCheck
<1>15. CASE WrWrite
    BY <1>15 DEF WrWrite
<1>16. CASE WrFail
    BY <1>16 DEF WrFail
<1>17. CASE RdTop
    BY <1>17 DEF RdTop
<1>18. CASE RdRead
  <2>1. pc' = [pc EXCEPT !["reader"] = "rd_top"] \/ pc' = [pc EXCEPT !["reader"] = "rd_add"]
      BY <1>18 DEF RdRead
  <2>2. UNCHANGED <<ready, closeCh, once, sock, dispatched, panic>>
      BY <1>18 DEF RdRead
  <2> QED
      BY <2>1, <2>2
<1>19. CASE RdAdd
  <2>1. \E l \in {"rd_top", "rd_add", "rd_read"} : pc' = [pc EXCEPT !["reader"] = l]
      BY <1>19 DEF RdAdd
  <2>2. panic' = panic \/ panic' = "send_on_closed_channel"
      BY <1>19 DEF RdAdd, AddPacket
  <2>3. UNCHANGED <<ready, closeCh, once, sock, dispatched>>
      BY <1>19 DEF RdAdd
  <2>4. pc' \in [Procs -> Labels]
      BY <2>1
  <2> QED
      BY <2>2, <2>3, <2>4
<1>20. CASE RdAfter
    BY <1>20 DEF RdAfter
<1>21. CASE RdFail
    BY <1>21 DEF RdFail
<1>22. CASE OnPacket
    BY <1>22 DEF OnPacket
<1>23. CASE CsTop
    BY <1>23 DEF CsTop
<1>24. CASE CsTake
  <2>1. UNCHANGED <<ready, closeCh, once, sock, dispatched, panic>>
      BY <1>24 DEF CsTake
  <2>2. pc' = pc \/ pc' = [pc EXCEPT !["consumer"] = "cs_top"]
      BY <1>24 DEF CsTake
  <2> QED
      BY <2>1, <2>2
<1>25. CASE CsDrained
    BY <1>25 DEF CsDrained
<1>26. CASE CsFin
    BY <1>26 DEF CsFin
<1> QED
    BY Steps, <1>1, <1>2, <1>3, <1>4, <1>5, <1>6, <1>7, <1>8, <1>9, <1>10, <1>11, <1>12, <1>13,
       <1>14, <1>15, <1>16, <1>17, <1>18, <1>19, <1>20, <1>21, <1>22, <1>23, <1>24, <1>25, <1>26

\* Every step keeps the types of the write queue and of the bytes on their way.
LEMMA WriteTypesNext == TypeOK /\ Next => WriteTypes'
<1> SUFFICES ASSUME TypeOK, Next PROVE WriteTypes'
    OBVIOUS
<1>a. WriteTypes
    BY DEF TypeOK
<1>0. UNCHANGED <<writeCh, writeClosed, accepted, cur, buf, out>> => WriteTypes'
    BY <1>a DEF WriteTypes
<1> USE <1>a DEF WriteTypes
<1>1. ASSUME NEW p \in Procs, CloseWrite(p) PROVE WriteTypes'
    BY <1>1 DEF CloseWrite, wireVars
<1>2. ASSUME NEW p \in Users, WriteSend(p) PROVE WriteTypes'
  <2>1. PICK n \in 1..MaxLen : Enqueue(n)
      BY <1>2 DEF WriteSend
  <2>2. Interval(accepted + 1, n) \in Seq(Nat)
      BY IntervalFacts, Constants
  <2>3. UNCHANGED <<writeClosed, cur, buf, out>>
      BY <2>1 DEF Enqueue, wireVars
  <2>4. \/ UNCHANGED <<writeCh, accepted>>
        \/ /\ Len(writeCh) < WriteQueueSize
           /\ writeCh' = Append(writeCh, Interval(accepted + 1, n)) /\ accepted' = accepted + n
      BY <2>1 DEF Enqueue, Room
  <2>5. n \in Nat /\ (accepted + n) \in Nat
      BY Constants
  <2>6. accepted' \in Nat
      BY <2>4, <2>5
  <2>7. CASE UNCHANGED writeCh
      BY <2>3, <2>6, <2>7
  <2>8. CASE Len(writeCh) < WriteQueueSize /\ writeCh' = Append(writeCh, Interval(accepted + 1, n))
    <3>1. writeCh' \in Seq(Seq(Nat)) /\ Len(writeCh') = Len(writeCh) + 1
        BY <2>2, <2>8, AppendFacts
    <3>2. Len(writeCh') =< WriteQueueSize
        BY <2>8, <3>1, Constants
    <3> QED
        BY <2>3, <2>6, <3>1, <3>2
  <2> QED
      BY <2>4, <2>7, <2>8
<1>3. CASE DialSend
  <2>1. Interval(1, HandshakeLen) \in Seq(Nat)
      BY Constants DEF Interval
  <2>2. UNCHANGED <<writeClosed, cur, buf, out>>
      BY <1>3 DEF DialSend, wireVars
  <2>3. \/ UNCHANGED <<writeCh, accepted>>
        \/ writeCh' = <<Interval(1, HandshakeLen)>> /\ accepted' = HandshakeLen
      BY <1>3 DEF DialSend
  <2>4. <<Interval(1, HandshakeLen)>> \in Seq(Seq(Nat)) /\ Len(<<Interval(1, HandshakeLen)>>) = 1
      BY <2>1, AppendFacts
  <2>5. CASE UNCHANGED <<writeCh, accepted>>
      BY <2>2, <2>5
  <2>6. CASE writeCh' = <<Interval(1, HandshakeLen)>> /\ accepted' = HandshakeLen
    <3>1. writeCh' \in Seq(Seq(Nat)) /\ Len(writeCh') =< WriteQueueSize /\ accepted' \in Nat
        BY <2>4, <2>6, Constants
    <3> QED
        BY <2>2, <3>1
  <2> QED
      BY <2>3, <2>5, <2>6
<1>4. CASE WrTake
  <2>1. /\ writeCh # <<>> /\ writeCh' = Tail(writeCh) /\ cur' = buf \o Head(writeCh) /\ buf' = <<>>
        /\ UNCHANGED <<writeClosed, accepted, out>>
      BY <1>4 DEF WrTake
  <2>2. Head(writeCh) \in Seq(Nat) /\ Tail(writeCh) \in Seq(Seq(Nat)) /\ Len(Tail(writeCh)) =< Len(writeCh)
      BY <2>1
  <2>3. cur' \in Seq(Nat)
      BY <2>1, <2>2
  <2> QED
      BY <2>1, <2>2, <2>3, Constants
<1>5. CASE WrTick
    BY <1>5 DEF WrTick, writeVars
<1>6. CASE WrWrite
  <2>1. PICK n \in 1..Len(cur) : out' = out \o SubSeq(cur, 1, n) /\ buf' = SubSeq(cur, n + 1, Len(cur))
      BY <1>6 DEF WrWrite
  <2>2. SubSeq(cur, 1, n) \in Seq(Nat) /\ SubSeq(cur, n + 1, Len(cur)) \in Seq(Nat)
      BY SubSeqFacts, n \in 0..Len(cur)
  <2>3. out' \in Seq(Nat) /\ buf' \in Seq(Nat)
      BY <2>1, <2>2
  <2> QED
      BY <1>6, <2>3 DEF WrWrite, writeVars
<1>7. CASE WrFail
  <2>1. PICK n \in 0..(Len(cur) - 1) : out' = out \o SubSeq(cur, 1, n)
      BY <1>7 DEF WrFail
  <2>2. SubSeq(cur, 1, n) \in Seq(Nat)
      BY SubSeqFacts, n \in 0..Len(cur)
  <2>3. out' \in Seq(Nat)
      BY <2>1, <2>2
  <2> QED
      BY <1>7, <2>3 DEF WrFail, writeVars
<1> HIDE DEF WriteTypes
<1> QED
    BY Steps, <1>0, <1>1, <1>2, <1>3, <1>4, <1>5, <1>6, <1>7 DEF writeVars, wireVars, CloseOnce,
       CloseSock, CloseDispatch, UserClose, UserWrite, DialCheck, WrTop, WrEnd, WrCheck, RdTop,
       RdRead, RdAdd, RdAfter, RdFail, OnPacket, CsTop, CsTake, CsDrained, CsFin

\* Every step keeps the types of the packets and of the channel.
LEMMA PacketTypesNext == TypeOK /\ Next => PacketTypes'
<1> SUFFICES ASSUME TypeOK, Next PROVE PacketTypes'
    OBVIOUS
<1>a. PacketTypes
    BY DEF TypeOK
<1>0. UNCHANGED packetVars => PacketTypes'
    BY <1>a DEF PacketTypes, packetVars
<1> USE <1>a DEF PacketTypes
<1>1. CASE RdRead
  <2>1. PICK r \in Reads : /\ chunk' = Interval(arrived + 1, r[1]) /\ after' = r[2]
                            /\ arrived' = arrived + r[1]
      BY <1>1 DEF RdRead
  <2>2. r[1] \in Nat /\ r[2] \in Afters
      BY ReadFacts
  <2>3. Interval(arrived + 1, r[1]) \in Seq(Nat)
      BY <2>2, IntervalFacts
  <2>4. chunk' \in Seq(Nat) /\ after' \in Afters /\ arrived' \in Nat
      BY <2>1, <2>2, <2>3
  <2> QED
      BY <1>1, <2>4 DEF RdRead
<1>2. CASE RdAdd
  <2>1. /\ chunk # <<>> /\ chunk' = Tail(chunk)
        /\ UNCHANGED <<packetCh, arrived, after, left, delivered>>
      BY <1>2 DEF RdAdd
  <2>2. Head(chunk) \in Nat /\ chunk' \in Seq(Nat)
      BY <2>1
  <2>3. \/ Len(queue) < ReadQueueSize /\ queue' = Append(queue, Head(chunk)) /\ UNCHANGED dropped
        \/ dropped' = dropped \cup {Head(chunk)} /\ UNCHANGED queue
      BY <1>2 DEF RdAdd, AddPacket, Room
  <2>4. queue' \in Seq(Nat) /\ Len(queue') =< ReadQueueSize
    <3>1. CASE UNCHANGED queue
        BY <3>1
    <3>2. CASE Len(queue) < ReadQueueSize /\ queue' = Append(queue, Head(chunk))
      <4>1. queue' \in Seq(Nat) /\ Len(queue') = Len(queue) + 1
          BY <2>2, <3>2, AppendFacts
      <4> QED
          BY <3>2, <4>1, Constants
    <3> QED
        BY <2>3, <3>1, <3>2
  <2>5. dropped' \in SUBSET Nat
      BY <2>2, <2>3
  <2> QED
      BY <2>1, <2>2, <2>4, <2>5
<1>3. CASE RdAfter
    BY <1>3 DEF RdAfter, Afters
<1>4. CASE OnPacket
    BY <1>4 DEF OnPacket
<1>5. CASE CsTop
    BY <1>5 DEF CsTop
<1>6. CASE CsTake
  <2>1. /\ queue # <<>> /\ queue' = Tail(queue) /\ delivered' = Append(delivered, Head(queue))
        /\ UNCHANGED <<packetCh, arrived, chunk, after, dropped>>
        /\ UNCHANGED left \/ (left > 0 /\ left' = left - 1)
      BY <1>6 DEF CsTake
  <2>2. queue' \in Seq(Nat) /\ Len(queue') =< ReadQueueSize /\ delivered' \in Seq(Nat)
      BY <2>1, Constants
  <2>3. left' \in Nat \cup {-1}
      BY <2>1
  <2> QED
      BY <2>1, <2>2, <2>3
<1>7. CASE CsFin
    BY <1>7 DEF CsFin
<1> HIDE DEF PacketTypes
<1> QED
    BY Steps, <1>0, <1>1, <1>2, <1>3, <1>4, <1>5, <1>6, <1>7 DEF CloseOnce, CloseWrite,
       CloseSock, CloseDispatch, UserClose, UserWrite, WriteSend, DialCheck, DialSend, WrTop,
       WrTake, WrEnd, WrTick, WrCheck, WrWrite, WrFail, RdTop, RdFail, CsDrained, Enqueue

LEMMA TypeNext == TypeOK /\ Next => TypeOK'
BY ControlTypesNext, WriteTypesNext, PacketTypesNext DEF TypeOK

-----------------------------------------------------------------------------
\* Every goroutine stays within its own labels.
LEMMA PcNext == TypeOK /\ PcOK /\ Next => PcOK'
<1> SUFFICES ASSUME TypeOK, PcOK, Next PROVE PcOK'
    OBVIOUS
<1>0. pc \in [Procs -> Labels]
    BY DEF TypeOK, ControlTypes
<1> USE <1>0, Goroutines DEF PcOK, Goto, At, CallClose, CloseRet, Closing, Writing
<1>1. ASSUME NEW p \in Procs, CloseOnce(p) PROVE PcOK'
    BY <1>1 DEF CloseOnce
<1>2. ASSUME NEW p \in Procs, CloseWrite(p) PROVE PcOK'
    BY <1>2 DEF CloseWrite
<1>3. ASSUME NEW p \in Procs, CloseSock(p) PROVE PcOK'
    BY <1>3 DEF CloseSock
<1>4. ASSUME NEW p \in Procs, CloseDispatch(p) PROVE PcOK'
    BY <1>4 DEF CloseDispatch
<1>5. ASSUME NEW p \in Users, UserClose(p) PROVE PcOK'
    BY <1>5 DEF UserClose
<1>6. ASSUME NEW p \in Users, UserWrite(p) PROVE PcOK'
    BY <1>6 DEF UserWrite
<1>7. ASSUME NEW p \in Users, WriteSend(p) PROVE PcOK'
    BY <1>7 DEF WriteSend
<1>8. CASE DialCheck
    BY <1>8 DEF DialCheck
<1>9. CASE DialSend
    BY <1>9 DEF DialSend
<1>10. CASE WrTop
    BY <1>10 DEF WrTop
<1>11. CASE WrTake
    BY <1>11 DEF WrTake
<1>12. CASE WrEnd
    BY <1>12 DEF WrEnd
<1>13. CASE WrTick
    BY <1>13 DEF WrTick
<1>14. CASE WrCheck
    BY <1>14 DEF WrCheck
<1>15. CASE WrWrite
    BY <1>15 DEF WrWrite
<1>16. CASE WrFail
    BY <1>16 DEF WrFail
<1>17. CASE RdTop
    BY <1>17 DEF RdTop
<1>18. CASE RdRead
  <2>1. \E l \in {"rd_top", "rd_add"} : pc' = [pc EXCEPT !["reader"] = l]
      BY <1>18 DEF RdRead
  <2> QED
      BY <2>1
<1>19. CASE RdAdd
  <2>1. \E l \in {"rd_top", "rd_add", "rd_read"} : pc' = [pc EXCEPT !["reader"] = l]
      BY <1>19 DEF RdAdd
  <2> QED
      BY <2>1
<1>20. CASE RdAfter
    BY <1>20 DEF RdAfter
<1>21. CASE RdFail
    BY <1>21 DEF RdFail
<1>22. CASE OnPacket
    BY <1>22 DEF OnPacket
<1>23. CASE CsTop
    BY <1>23 DEF CsTop
<1>24. CASE CsTake
    BY <1>24 DEF CsTake
<1>25. CASE CsDrained
    BY <1>25 DEF CsDrained
<1>26. CASE CsFin
    BY <1>26 DEF CsFin
<1> QED
    BY Steps, <1>1, <1>2, <1>3, <1>4, <1>5, <1>6, <1>7, <1>8, <1>9, <1>10, <1>11, <1>12, <1>13,
       <1>14, <1>15, <1>16, <1>17, <1>18, <1>19, <1>20, <1>21, <1>22, <1>23, <1>24, <1>25, <1>26

\* A step that has nothing to do with Close leaves it alone.
LEMMA CloseQuiet ==
    ASSUME TypeOK, CloseInv, NEW p \in Procs, NEW l, Goto(p, l), l \notin Closing, pc[p] \notin Closing,
           UNCHANGED <<closeCh, once, sock, dispatched, writeClosed>>,
           panic' # "close_of_closed_channel"
    PROVE  CloseInv'
<1>1. pc \in [Procs -> Labels]
    BY DEF TypeOK, ControlTypes
<1>2. \A q \in Procs : pc'[q] = IF q = p THEN l ELSE pc[q]
    BY <1>1 DEF Goto
<1>3. \A q \in Procs : pc'[q] \in Closing => q # p /\ pc'[q] = pc[q]
    BY <1>2
<1>4. CloseBody'
    BY <1>3, Goroutines DEF CloseInv, CloseBody, At, Closing
<1>5. CloseState'
    BY DEF CloseInv, CloseState
<1> QED
    BY <1>4, <1>5 DEF CloseInv


\* Close runs once, in its order, whoever calls it.
LEMMA CloseNext == TypeOK /\ PcOK /\ ConsumerInv /\ CloseInv /\ Next => CloseInv'
<1> SUFFICES ASSUME TypeOK, PcOK, ConsumerInv, CloseInv, Next PROVE CloseInv'
    OBVIOUS
<1>0. pc \in [Procs -> Labels]
    BY DEF TypeOK, ControlTypes
<1>a. panic # "close_of_closed_channel"
    BY DEF CloseInv, CloseState
<1> USE <1>a
<1>1. ASSUME NEW p \in Procs, CloseOnce(p) PROVE CloseInv'
  <2>1. CASE once = "free" /\ once' = "busy" /\ closeCh' = TRUE /\ Goto(p, "close_write")
    <3>1. ~closeCh /\ ~writeClosed /\ \A q \in Procs : pc[q] \notin Closing
        BY <2>1 DEF CloseInv, CloseState, CloseBody
    <3>2. ~writeClosed' /\ UNCHANGED <<sock, dispatched, panic>>
        BY <1>1, <3>1 DEF CloseOnce, CloseChan, writeVars, At
    <3>3. \A q \in Procs : pc'[q] = IF q = p THEN "close_write" ELSE pc[q]
        BY <1>0, <2>1 DEF Goto
    <3>4. \A q \in Procs : /\ pc'[q] \in Closing => q = p /\ pc'[q] = "close_write"
                            /\ pc'[q] \notin {"close_sock", "close_dispatch"}
        BY <3>1, <3>3 DEF Closing
    <3>5. CloseState'
        BY <2>1, <3>2 DEF CloseInv, CloseState
    <3>6. CloseBody'
        BY <2>1, <3>1, <3>2, <3>4 DEF CloseBody, At, Procs, Closing
    <3> QED
        BY <3>5, <3>6 DEF CloseInv
  <2>2. CASE once = "done" /\ Goto(p, CloseRet(p)) /\ UNCHANGED <<once, closeCh, panic>>
    <3>1. /\ UNCHANGED <<closeCh, once, sock, dispatched, writeClosed>> 
        /\ panic' # "close_of_closed_channel"
        BY <1>1, <2>2 DEF CloseOnce, closeVars, writeVars
    <3>2. CloseRet(p) \notin Closing /\ pc[p] \notin Closing
        BY <1>1 DEF CloseOnce, At, CloseRet, Closing
    <3> QED
        BY <2>2, <3>1, <3>2, CloseQuiet
  <2> QED
      BY <1>1, <2>1, <2>2 DEF CloseOnce
<1>2. ASSUME NEW p \in Procs, CloseWrite(p) PROVE CloseInv'
  <2>1. /\ pc[p] = "close_write" /\ once = "busy" /\ closeCh
        /\ \A q \in Procs : q # p => pc[q] \notin Closing
      BY <1>2 DEF CloseWrite, CloseInv, CloseState, CloseBody, At, Closing
  <2>2. writeClosed' = TRUE /\ UNCHANGED <<closeCh, once, sock, dispatched, panic>>
      BY <1>2, <2>1 DEF CloseWrite, CloseInv, CloseState, CloseBody, CloseChan, closeVars, writeVars, At
  <2>3. \A q \in Procs : pc'[q] = IF q = p THEN "close_sock" ELSE pc[q]
      BY <1>2, <1>0 DEF CloseWrite, Goto
  <2>4. \A q \in Procs : /\ pc'[q] \in Closing => q = p /\ pc'[q] = "close_sock"
                          /\ pc'[q] \notin {"close_write", "close_dispatch"}
      BY <2>1, <2>3 DEF Closing
  <2>5. CloseState'
      BY <2>1, <2>2 DEF CloseInv, CloseState
  <2>6. CloseBody'
      BY <2>1, <2>2, <2>4 DEF CloseBody, At, Procs, Closing
  <2> QED
      BY <2>5, <2>6 DEF CloseInv
<1>3. ASSUME NEW p \in Procs, CloseSock(p) PROVE CloseInv'
  <2>1. /\ pc[p] = "close_sock" /\ once = "busy" /\ closeCh
        /\ \A q \in Procs : q # p => pc[q] \notin Closing
      BY <1>3 DEF CloseSock, CloseInv, CloseState, CloseBody, At, Closing
  <2>2. ~sock' /\ writeClosed /\ UNCHANGED <<closeCh, once, writeClosed, dispatched, panic>>
      BY <1>3, <2>1 DEF CloseSock, CloseInv, CloseState, CloseBody, CloseChan, closeVars, writeVars, At
  <2>3. \A q \in Procs : pc'[q] = IF q = p THEN "close_dispatch" ELSE pc[q]
      BY <1>3, <1>0 DEF CloseSock, Goto
  <2>4. \A q \in Procs : /\ pc'[q] \in Closing => q = p /\ pc'[q] = "close_dispatch"
                          /\ pc'[q] \notin {"close_write", "close_sock"}
      BY <2>1, <2>3 DEF Closing
  <2>5. CloseState'
      BY <2>1, <2>2 DEF CloseInv, CloseState
  <2>6. CloseBody'
      BY <2>1, <2>2, <2>4 DEF CloseBody, At, Procs, Closing
  <2> QED
      BY <2>5, <2>6 DEF CloseInv
<1>4. ASSUME NEW p \in Procs, CloseDispatch(p) PROVE CloseInv'
  <2>1. /\ pc[p] = "close_dispatch" /\ once = "busy" /\ closeCh
        /\ \A q \in Procs : q # p => pc[q] \notin Closing
      BY <1>4 DEF CloseDispatch, CloseInv, CloseState, CloseBody, At, Closing
  <2>2. /\ once' = "done" /\ writeClosed /\ ~sock
        /\ UNCHANGED <<closeCh, writeClosed, sock, panic>>
      BY <1>4, <2>1 DEF CloseDispatch, CloseInv, CloseState, CloseBody, CloseChan, closeVars, writeVars, At
  <2>3. \A q \in Procs : pc'[q] = IF q = p THEN CloseRet(p) ELSE pc[q]
      BY <1>4, <1>0 DEF CloseDispatch, Goto
  <2>4. \A q \in Procs : pc'[q] \notin Closing
      BY <2>1, <2>3 DEF Closing, CloseRet
  <2>5. dispatched' = dispatched + 1 /\ dispatched = 0
      BY <1>4, <2>1 DEF CloseDispatch, CloseInv, CloseState
  <2>6. dispatched' = 1
      BY <2>5
  <2>7. CloseState'
      BY <2>1, <2>2, <2>6 DEF CloseInv, CloseState
  <2>8. CloseBody'
      BY <2>4 DEF CloseBody, At, Closing
  <2> QED
      BY <2>7, <2>8 DEF CloseInv
<1>5. ASSUME NEW p \in Users, UserClose(p) PROVE CloseInv'
  <2>1. PICK l \in {"idle", "close_once"} : Goto(p, l)
      BY <1>5, Goroutines DEF UserClose, CallClose, CloseRet, writeVars
  <2>2. /\ UNCHANGED <<closeCh, once, sock, dispatched, writeClosed>> 
        /\ panic' # "close_of_closed_channel"
      BY <1>5 DEF UserClose, CallClose, CloseRet, writeVars, closeVars
  <2>3. l \notin Closing /\ pc[p] \notin Closing
      BY <1>5 DEF UserClose, At, Closing
  <2> QED
      BY <2>1, <2>2, <2>3, CloseQuiet, Goroutines
<1>6. ASSUME NEW p \in Users, UserWrite(p) PROVE CloseInv'
  <2>1. PICK l \in {"write"} : Goto(p, l)
      BY <1>6 DEF UserWrite, writeVars
  <2>2. /\ UNCHANGED <<closeCh, once, sock, dispatched, writeClosed>> 
        /\ panic' # "close_of_closed_channel"
      BY <1>6 DEF UserWrite, writeVars, closeVars
  <2>3. l \notin Closing /\ pc[p] \notin Closing
      BY <1>6 DEF UserWrite, At, Closing
  <2> QED
      BY <2>1, <2>2, <2>3, CloseQuiet, Goroutines
<1>7. ASSUME NEW p \in Users, WriteSend(p) PROVE CloseInv'
  <2>1. PICK l \in {"idle"} : Goto(p, l)
      BY <1>7 DEF WriteSend, Enqueue, Panic
  <2>2. /\ UNCHANGED <<closeCh, once, sock, dispatched, writeClosed>> 
        /\ panic' # "close_of_closed_channel"
      BY <1>7 DEF WriteSend, Enqueue, Panic, closeVars
  <2>3. l \notin Closing /\ pc[p] \notin Closing
      BY <1>7 DEF WriteSend, At, Closing
  <2> QED
      BY <2>1, <2>2, <2>3, CloseQuiet, Goroutines
<1>8. CASE DialCheck
  <2>1. PICK l \in {"off", "write"} : Goto("dialer", l)
      BY <1>8 DEF DialCheck, writeVars
  <2>2. /\ UNCHANGED <<closeCh, once, sock, dispatched, writeClosed>> 
        /\ panic' # "close_of_closed_channel"
      BY <1>8 DEF DialCheck, writeVars, closeVars
  <2>3. l \notin Closing /\ pc["dialer"] \notin Closing
      BY <1>8 DEF DialCheck, At, Closing
  <2> QED
      BY <2>1, <2>2, <2>3, CloseQuiet, Goroutines
<1>9. CASE DialSend
  <2>1. PICK l \in {"off"} : Goto("dialer", l)
      BY <1>9 DEF DialSend, Panic
  <2>2. /\ UNCHANGED <<closeCh, once, sock, dispatched, writeClosed>> 
        /\ panic' # "close_of_closed_channel"
      BY <1>9 DEF DialSend, Panic, closeVars
  <2>3. l \notin Closing /\ pc["dialer"] \notin Closing
      BY <1>9 DEF DialSend, At, Closing
  <2> QED
      BY <2>1, <2>2, <2>3, CloseQuiet, Goroutines
<1>10. CASE WrTop
  <2>1. PICK l \in {"off", "wr_select"} : Goto("writer", l)
      BY <1>10 DEF WrTop, writeVars
  <2>2. /\ UNCHANGED <<closeCh, once, sock, dispatched, writeClosed>> 
        /\ panic' # "close_of_closed_channel"
      BY <1>10 DEF WrTop, writeVars, closeVars
  <2>3. l \notin Closing /\ pc["writer"] \notin Closing
      BY <1>10 DEF WrTop, At, Closing
  <2> QED
      BY <2>1, <2>2, <2>3, CloseQuiet, Goroutines
<1>11. CASE WrTake
  <2>1. PICK l \in {"wr_check", "wr_write"} : Goto("writer", l)
      BY <1>11 DEF WrTake
  <2>2. /\ UNCHANGED <<closeCh, once, sock, dispatched, writeClosed>> 
        /\ panic' # "close_of_closed_channel"
      BY <1>11 DEF WrTake, closeVars
  <2>3. l \notin Closing /\ pc["writer"] \notin Closing
      BY <1>11 DEF WrTake, At, Closing
  <2> QED
      BY <2>1, <2>2, <2>3, CloseQuiet, Goroutines
<1>12. CASE WrEnd
  <2>1. PICK l \in {"off"} : Goto("writer", l)
      BY <1>12 DEF WrEnd, writeVars
  <2>2. /\ UNCHANGED <<closeCh, once, sock, dispatched, writeClosed>> 
        /\ panic' # "close_of_closed_channel"
      BY <1>12 DEF WrEnd, writeVars, closeVars
  <2>3. l \notin Closing /\ pc["writer"] \notin Closing
      BY <1>12 DEF WrEnd, At, Closing
  <2> QED
      BY <2>1, <2>2, <2>3, CloseQuiet, Goroutines
<1>13. CASE WrTick
  <2>1. PICK l \in {"wr_top", "wr_write"} : Goto("writer", l)
      BY <1>13 DEF WrTick, writeVars
  <2>2. /\ UNCHANGED <<closeCh, once, sock, dispatched, writeClosed>> 
        /\ panic' # "close_of_closed_channel"
      BY <1>13 DEF WrTick, writeVars, closeVars
  <2>3. l \notin Closing /\ pc["writer"] \notin Closing
      BY <1>13 DEF WrTick, At, Closing
  <2> QED
      BY <2>1, <2>2, <2>3, CloseQuiet, Goroutines
<1>14. CASE WrCheck
  <2>1. PICK l \in {"off", "wr_write"} : Goto("writer", l)
      BY <1>14 DEF WrCheck, writeVars
  <2>2. /\ UNCHANGED <<closeCh, once, sock, dispatched, writeClosed>> 
        /\ panic' # "close_of_closed_channel"
      BY <1>14 DEF WrCheck, writeVars, closeVars
  <2>3. l \notin Closing /\ pc["writer"] \notin Closing
      BY <1>14 DEF WrCheck, At, Closing
  <2> QED
      BY <2>1, <2>2, <2>3, CloseQuiet, Goroutines
<1>15. CASE WrWrite
  <2>1. PICK l \in {"wr_top"} : Goto("writer", l)
      BY <1>15 DEF WrWrite, writeVars
  <2>2. /\ UNCHANGED <<closeCh, once, sock, dispatched, writeClosed>> 
        /\ panic' # "close_of_closed_channel"
      BY <1>15 DEF WrWrite, writeVars, closeVars
  <2>3. l \notin Closing /\ pc["writer"] \notin Closing
      BY <1>15 DEF WrWrite, At, Closing
  <2> QED
      BY <2>1, <2>2, <2>3, CloseQuiet, Goroutines
<1>16. CASE WrFail
  <2>1. PICK l \in {"off", "close_once"} : Goto("writer", l)
      BY <1>16, Goroutines DEF WrFail, CallClose, CloseRet, writeVars
  <2>2. /\ UNCHANGED <<closeCh, once, sock, dispatched, writeClosed>> 
        /\ panic' # "close_of_closed_channel"
      BY <1>16 DEF WrFail, CallClose, CloseRet, writeVars, closeVars
  <2>3. l \notin Closing /\ pc["writer"] \notin Closing
      BY <1>16 DEF WrFail, At, Closing
  <2> QED
      BY <2>1, <2>2, <2>3, CloseQuiet, Goroutines
<1>17. CASE RdTop
  <2>1. PICK l \in {"off", "rd_read"} : Goto("reader", l)
      BY <1>17 DEF RdTop, writeVars
  <2>2. /\ UNCHANGED <<closeCh, once, sock, dispatched, writeClosed>> 
        /\ panic' # "close_of_closed_channel"
      BY <1>17 DEF RdTop, writeVars, closeVars
  <2>3. l \notin Closing /\ pc["reader"] \notin Closing
      BY <1>17 DEF RdTop, At, Closing
  <2> QED
      BY <2>1, <2>2, <2>3, CloseQuiet, Goroutines
<1>18. CASE RdRead
  <2>1. PICK l \in {"rd_top", "rd_add"} : Goto("reader", l)
      BY <1>18 DEF RdRead, writeVars
  <2>2. /\ UNCHANGED <<closeCh, once, sock, dispatched, writeClosed>> 
        /\ panic' # "close_of_closed_channel"
      BY <1>18 DEF RdRead, writeVars, closeVars
  <2>3. l \notin Closing /\ pc["reader"] \notin Closing
      BY <1>18 DEF RdRead, At, Closing
  <2> QED
      BY <2>1, <2>2, <2>3, CloseQuiet, Goroutines
<1>19. CASE RdAdd
  <2>1. PICK l \in {"rd_top", "rd_add", "rd_read"} : Goto("reader", l)
      BY <1>19 DEF RdAdd, AddPacket, Panic, writeVars
  <2>2. /\ UNCHANGED <<closeCh, once, sock, dispatched, writeClosed>> 
        /\ panic' # "close_of_closed_channel"
      BY <1>19 DEF RdAdd, AddPacket, Panic, writeVars, closeVars
  <2>3. l \notin Closing /\ pc["reader"] \notin Closing
      BY <1>19 DEF RdAdd, At, Closing
  <2> QED
      BY <2>1, <2>2, <2>3, CloseQuiet, Goroutines
<1>20. CASE RdAfter
  <2>1. PICK l \in {"off", "close_once", "rd_top"} : Goto("reader", l)
      BY <1>20, Goroutines DEF RdAfter, CallClose, CloseRet, writeVars
  <2>2. /\ UNCHANGED <<closeCh, once, sock, dispatched, writeClosed>> 
        /\ panic' # "close_of_closed_channel"
      BY <1>20 DEF RdAfter, CallClose, CloseRet, writeVars, closeVars
  <2>3. l \notin Closing /\ pc["reader"] \notin Closing
      BY <1>20 DEF RdAfter, At, Closing
  <2> QED
      BY <2>1, <2>2, <2>3, CloseQuiet, Goroutines
<1>21. CASE RdFail
  <2>1. PICK l \in {"off", "close_once"} : Goto("reader", l)
      BY <1>21, Goroutines DEF RdFail, CallClose, CloseRet, writeVars
  <2>2. /\ UNCHANGED <<closeCh, once, sock, dispatched, writeClosed>> 
        /\ panic' # "close_of_closed_channel"
      BY <1>21 DEF RdFail, CallClose, CloseRet, writeVars, closeVars
  <2>3. l \notin Closing /\ pc["reader"] \notin Closing
      BY <1>21 DEF RdFail, At, Closing
  <2> QED
      BY <2>1, <2>2, <2>3, CloseQuiet, Goroutines
<1>22. CASE OnPacket
  <2>1. PICK l \in {"cs_top"} : Goto("consumer", l)
      BY <1>22 DEF OnPacket, writeVars
  <2>2. /\ UNCHANGED <<closeCh, once, sock, dispatched, writeClosed>> 
        /\ panic' # "close_of_closed_channel"
      BY <1>22 DEF OnPacket, writeVars, closeVars
  <2>3. l \notin Closing /\ pc["consumer"] \notin Closing
      BY <1>22, Goroutines DEF OnPacket, PcOK, Closing
  <2> QED
      BY <2>1, <2>2, <2>3, CloseQuiet, Goroutines
<1>23. CASE CsTop
  <2>1. PICK l \in {"cs_drain", "cs_recv"} : Goto("consumer", l)
      BY <1>23 DEF CsTop, writeVars
  <2>2. /\ UNCHANGED <<closeCh, once, sock, dispatched, writeClosed>> 
        /\ panic' # "close_of_closed_channel"
      BY <1>23 DEF CsTop, writeVars, closeVars
  <2>3. l \notin Closing /\ pc["consumer"] \notin Closing
      BY <1>23 DEF CsTop, At, Closing
  <2> QED
      BY <2>1, <2>2, <2>3, CloseQuiet, Goroutines
<1>24. CASE CsTake
  <2>1. CASE UNCHANGED pc
    <3>1. UNCHANGED <<pc, closeCh, once, sock, dispatched, writeClosed, panic>>
        BY <1>24, <2>1 DEF CsTake, closeVars, writeVars
    <3> QED
        BY <3>1 DEF CloseInv, CloseState, CloseBody, At
  <2>2. CASE Goto("consumer", "cs_top")
    <3>1. /\ UNCHANGED <<closeCh, once, sock, dispatched, writeClosed>> 
        /\ panic' # "close_of_closed_channel"
        BY <1>24 DEF CsTake, closeVars, writeVars
    <3>2. pc["consumer"] \notin Closing /\ "cs_top" \notin Closing
        BY <1>24 DEF CsTake, At, Closing
    <3> QED
        BY <2>2, <3>1, <3>2, CloseQuiet, Goroutines
  <2> QED
      BY <1>24, <2>1, <2>2 DEF CsTake
<1>25. CASE CsDrained
  <2>1. PICK l \in {"cs_fin"} : Goto("consumer", l)
      BY <1>25 DEF CsDrained, writeVars
  <2>2. /\ UNCHANGED <<closeCh, once, sock, dispatched, writeClosed>> 
        /\ panic' # "close_of_closed_channel"
      BY <1>25 DEF CsDrained, writeVars, closeVars
  <2>3. l \notin Closing /\ pc["consumer"] \notin Closing
      BY <1>25 DEF CsDrained, At, Closing
  <2> QED
      BY <2>1, <2>2, <2>3, CloseQuiet, Goroutines
<1>26. CASE CsFin
  <2>1. PICK l \in {"off"} : Goto("consumer", l)
      BY <1>26 DEF CsFin, CloseChan, writeVars
  <2>2. /\ UNCHANGED <<closeCh, once, sock, dispatched, writeClosed>> 
        /\ panic' # "close_of_closed_channel"
      BY <1>26 DEF CsFin, CloseChan, writeVars, closeVars, ConsumerInv, At
  <2>3. l \notin Closing /\ pc["consumer"] \notin Closing
      BY <1>26 DEF CsFin, At, Closing
  <2> QED
      BY <2>1, <2>2, <2>3, CloseQuiet, Goroutines
<1> QED
    BY Steps, <1>1, <1>2, <1>3, <1>4, <1>5, <1>6, <1>7, <1>8, <1>9, <1>10, <1>11, <1>12, <1>13,
       <1>14, <1>15, <1>16, <1>17, <1>18, <1>19, <1>20, <1>21, <1>22, <1>23, <1>24, <1>25, <1>26

\* A step of another goroutine that leaves the packets alone.
LEMMA ConsumerQuiet ==
    ASSUME ConsumerInv, UNCHANGED <<packetCh, queue, left>>, pc'["consumer"] = pc["consumer"],
           closeCh => closeCh'
    PROVE  ConsumerInv'
BY DEF ConsumerInv, At

\* The consumer and its channel stay in step.
LEMMA ConsumerNext == TypeOK /\ PcOK /\ ConsumerInv /\ Next => ConsumerInv'
<1> SUFFICES ASSUME TypeOK, PcOK, ConsumerInv, Next PROVE ConsumerInv'
    OBVIOUS
<1>a. pc \in [Procs -> Labels] /\ pc["consumer"] \notin {"close_once"} \cup Closing
    BY DEF TypeOK, ControlTypes, PcOK, Closing
<1>b. queue \in Seq(Nat) /\ left \in Nat \cup {-1}
    BY DEF TypeOK, PacketTypes
<1> USE <1>a, Goroutines DEF Closing
<1>1. ASSUME NEW p \in Procs, CloseOnce(p) PROVE ConsumerInv'
  <2>1. UNCHANGED <<packetCh, queue, left>> /\ (closeCh => closeCh')
      BY <1>1 DEF CloseOnce, packetVars, closeVars
  <2>2. pc'["consumer"] = pc["consumer"]
      BY <1>1 DEF CloseOnce, Goto, CallClose, At
  <2> QED
      BY <2>1, <2>2, ConsumerQuiet
<1>2. ASSUME NEW p \in Procs, CloseWrite(p) PROVE ConsumerInv'
  <2>1. UNCHANGED <<packetCh, queue, left>> /\ (closeCh => closeCh')
      BY <1>2 DEF CloseWrite, packetVars, closeVars
  <2>2. pc'["consumer"] = pc["consumer"]
      BY <1>2 DEF CloseWrite, Goto, CallClose, At
  <2> QED
      BY <2>1, <2>2, ConsumerQuiet
<1>3. ASSUME NEW p \in Procs, CloseSock(p) PROVE ConsumerInv'
  <2>1. UNCHANGED <<packetCh, queue, left>> /\ (closeCh => closeCh')
      BY <1>3 DEF CloseSock, packetVars, closeVars
  <2>2. pc'["consumer"] = pc["consumer"]
      BY <1>3 DEF CloseSock, Goto, CallClose, At
  <2> QED
      BY <2>1, <2>2, ConsumerQuiet
<1>4. ASSUME NEW p \in Procs, CloseDispatch(p) PROVE ConsumerInv'
  <2>1. UNCHANGED <<packetCh, queue, left>> /\ (closeCh => closeCh')
      BY <1>4 DEF CloseDispatch, packetVars, closeVars
  <2>2. pc'["consumer"] = pc["consumer"]
      BY <1>4 DEF CloseDispatch, Goto, CallClose, At
  <2> QED
      BY <2>1, <2>2, ConsumerQuiet
<1>5. ASSUME NEW p \in Users, UserClose(p) PROVE ConsumerInv'
  <2>1. UNCHANGED <<packetCh, queue, left>> /\ (closeCh => closeCh')
      BY <1>5 DEF UserClose, packetVars, closeVars
  <2>2. pc'["consumer"] = pc["consumer"]
      BY <1>5 DEF UserClose, Goto, CallClose, At
  <2> QED
      BY <2>1, <2>2, ConsumerQuiet
<1>6. ASSUME NEW p \in Users, UserWrite(p) PROVE ConsumerInv'
  <2>1. UNCHANGED <<packetCh, queue, left>> /\ (closeCh => closeCh')
      BY <1>6 DEF UserWrite, packetVars, closeVars
  <2>2. pc'["consumer"] = pc["consumer"]
      BY <1>6 DEF UserWrite, Goto, CallClose, At
  <2> QED
      BY <2>1, <2>2, ConsumerQuiet
<1>7. ASSUME NEW p \in Users, WriteSend(p) PROVE ConsumerInv'
  <2>1. UNCHANGED <<packetCh, queue, left>> /\ (closeCh => closeCh')
      BY <1>7 DEF WriteSend, Enqueue, packetVars, closeVars
  <2>2. pc'["consumer"] = pc["consumer"]
      BY <1>7 DEF WriteSend, Enqueue, Goto, CallClose, At
  <2> QED
      BY <2>1, <2>2, ConsumerQuiet
<1>8. CASE DialCheck
  <2>1. UNCHANGED <<packetCh, queue, left>> /\ (closeCh => closeCh')
      BY <1>8 DEF DialCheck, packetVars, closeVars
  <2>2. pc'["consumer"] = pc["consumer"]
      BY <1>8 DEF DialCheck, Goto, CallClose, At
  <2> QED
      BY <2>1, <2>2, ConsumerQuiet
<1>9. CASE DialSend
  <2>1. UNCHANGED <<packetCh, queue, left>> /\ (closeCh => closeCh')
      BY <1>9 DEF DialSend, packetVars, closeVars
  <2>2. pc'["consumer"] = pc["consumer"]
      BY <1>9 DEF DialSend, Goto, CallClose, At
  <2> QED
      BY <2>1, <2>2, ConsumerQuiet
<1>10. CASE WrTop
  <2>1. UNCHANGED <<packetCh, queue, left>> /\ (closeCh => closeCh')
      BY <1>10 DEF WrTop, packetVars, closeVars
  <2>2. pc'["consumer"] = pc["consumer"]
      BY <1>10 DEF WrTop, Goto, CallClose, At
  <2> QED
      BY <2>1, <2>2, ConsumerQuiet
<1>11. CASE WrTake
  <2>1. UNCHANGED <<packetCh, queue, left>> /\ (closeCh => closeCh')
      BY <1>11 DEF WrTake, packetVars, closeVars
  <2>2. pc'["consumer"] = pc["consumer"]
      BY <1>11 DEF WrTake, Goto, CallClose, At
  <2> QED
      BY <2>1, <2>2, ConsumerQuiet
<1>12. CASE WrEnd
  <2>1. UNCHANGED <<packetCh, queue, left>> /\ (closeCh => closeCh')
      BY <1>12 DEF WrEnd, packetVars, closeVars
  <2>2. pc'["consumer"] = pc["consumer"]
      BY <1>12 DEF WrEnd, Goto, CallClose, At
  <2> QED
      BY <2>1, <2>2, ConsumerQuiet
<1>13. CASE WrTick
  <2>1. UNCHANGED <<packetCh, queue, left>> /\ (closeCh => closeCh')
      BY <1>13 DEF WrTick, packetVars, closeVars
  <2>2. pc'["consumer"] = pc["consumer"]
      BY <1>13 DEF WrTick, Goto, CallClose, At
  <2> QED
      BY <2>1, <2>2, ConsumerQuiet
<1>14. CASE WrCheck
  <2>1. UNCHANGED <<packetCh, queue, left>> /\ (closeCh => closeCh')
      BY <1>14 DEF WrCheck, packetVars, closeVars
  <2>2. pc'["consumer"] = pc["consumer"]
      BY <1>14 DEF WrCheck, Goto, CallClose, At
  <2> QED
      BY <2>1, <2>2, ConsumerQuiet
<1>15. CASE WrWrite
  <2>1. UNCHANGED <<packetCh, queue, left>> /\ (closeCh => closeCh')
      BY <1>15 DEF WrWrite, packetVars, closeVars
  <2>2. pc'["consumer"] = pc["consumer"]
      BY <1>15 DEF WrWrite, Goto, CallClose, At
  <2> QED
      BY <2>1, <2>2, ConsumerQuiet
<1>16. CASE WrFail
  <2>1. UNCHANGED <<packetCh, queue, left>> /\ (closeCh => closeCh')
      BY <1>16 DEF WrFail, packetVars, closeVars
  <2>2. pc'["consumer"] = pc["consumer"]
      BY <1>16 DEF WrFail, Goto, CallClose, At
  <2> QED
      BY <2>1, <2>2, ConsumerQuiet
<1>17. CASE RdTop
  <2>1. UNCHANGED <<packetCh, queue, left>> /\ (closeCh => closeCh')
      BY <1>17 DEF RdTop, packetVars, closeVars
  <2>2. pc'["consumer"] = pc["consumer"]
      BY <1>17 DEF RdTop, Goto, CallClose, At
  <2> QED
      BY <2>1, <2>2, ConsumerQuiet
<1>18. CASE RdRead
  <2>1. UNCHANGED <<packetCh, queue, left>> /\ (closeCh => closeCh')
      BY <1>18 DEF RdRead, packetVars, closeVars
  <2>2. \E l \in {"rd_top", "rd_add"} : Goto("reader", l)
      BY <1>18 DEF RdRead
  <2>3. pc'["consumer"] = pc["consumer"]
      BY <2>2 DEF Goto
  <2> QED
      BY <2>1, <2>3, ConsumerQuiet
<1>19. CASE RdAdd
  <2>1. UNCHANGED <<packetCh, left, closeCh>>
      BY <1>19 DEF RdAdd, closeVars
  <2>2. \E l \in {"rd_top", "rd_add", "rd_read"} : Goto("reader", l)
      BY <1>19 DEF RdAdd
  <2>3. pc'["consumer"] = pc["consumer"]
      BY <2>2 DEF Goto
  <2>4. CASE UNCHANGED queue
      BY <2>1, <2>3, <2>4, ConsumerQuiet
  <2>5. CASE packetCh = "open" /\ queue' = Append(queue, Head(chunk))
    <3>1. Len(queue') = Len(queue) + 1
        BY <1>b, <2>5
    <3> QED
        BY <1>b, <2>1, <2>3, <2>5, <3>1 DEF ConsumerInv, At
  <2> QED
      BY <1>19, <2>4, <2>5 DEF RdAdd, AddPacket
<1>20. CASE RdAfter
  <2>1. UNCHANGED <<packetCh, queue, left>> /\ (closeCh => closeCh')
      BY <1>20 DEF RdAfter, packetVars, closeVars
  <2>2. pc'["consumer"] = pc["consumer"]
      BY <1>20 DEF RdAfter, Goto, CallClose, At
  <2> QED
      BY <2>1, <2>2, ConsumerQuiet
<1>21. CASE RdFail
  <2>1. UNCHANGED <<packetCh, queue, left>> /\ (closeCh => closeCh')
      BY <1>21 DEF RdFail, packetVars, closeVars
  <2>2. pc'["consumer"] = pc["consumer"]
      BY <1>21 DEF RdFail, Goto, CallClose, At
  <2> QED
      BY <2>1, <2>2, ConsumerQuiet
<1>22. CASE OnPacket
  <2>1. /\ packetCh = "nil" /\ packetCh' = "open" /\ pc'["consumer"] = "cs_top"
        /\ UNCHANGED <<queue, left, closeCh>>
      BY <1>22 DEF OnPacket, Goto, closeVars
  <2> QED
      BY <2>1 DEF ConsumerInv, At
<1>23. CASE CsTop
  <2>1. pc["consumer"] = "cs_top" /\ UNCHANGED <<packetCh, queue, closeCh>>
      BY <1>23 DEF CsTop, At, closeVars
  <2>2. CASE closeCh /\ pc'["consumer"] = "cs_drain" /\ left' = Len(queue)
      BY <1>b, <2>1, <2>2 DEF ConsumerInv, At
  <2>3. CASE pc'["consumer"] = "cs_recv" /\ UNCHANGED left
      BY <2>1, <2>3 DEF ConsumerInv, At
  <2> QED
      BY <1>23, <2>2, <2>3 DEF CsTop, Goto
<1>24. CASE CsTake
  <2>1. queue # <<>> /\ queue' = Tail(queue) /\ UNCHANGED <<packetCh, closeCh>>
      BY <1>24 DEF CsTake, closeVars
  <2>2. Len(queue') = Len(queue) - 1
      BY <1>b, <2>1
  <2>3. CASE pc["consumer"] = "cs_recv" /\ pc'["consumer"] = "cs_top" /\ UNCHANGED left
      BY <2>1, <2>3 DEF ConsumerInv, At
  <2>4. CASE pc["consumer"] = "cs_drain" /\ left > 0 /\ left' = left - 1 /\ UNCHANGED pc
      BY <1>b, <2>1, <2>2, <2>4 DEF ConsumerInv, At
  <2> QED
      BY <1>24, <2>3, <2>4 DEF CsTake, Goto, At
<1>25. CASE CsDrained
  <2>1. /\ pc["consumer"] = "cs_drain" /\ left = 0 /\ pc'["consumer"] = "cs_fin"
        /\ UNCHANGED <<packetCh, queue, left, closeCh>>
      BY <1>25 DEF CsDrained, Goto, At, packetVars, closeVars
  <2> QED
      BY <2>1 DEF ConsumerInv, At
<1>26. CASE CsFin
  <2>1. /\ pc["consumer"] = "cs_fin" /\ packetCh' = "closed" /\ pc'["consumer"] = "off"
        /\ UNCHANGED <<queue, left, closeCh>>
      BY <1>26 DEF CsFin, Goto, At, closeVars
  <2> QED
      BY <2>1 DEF ConsumerInv, At
<1> QED
    BY Steps, <1>1, <1>2, <1>3, <1>4, <1>5, <1>6, <1>7, <1>8, <1>9, <1>10, <1>11, <1>12, <1>13,
       <1>14, <1>15, <1>16, <1>17, <1>18, <1>19, <1>20, <1>21, <1>22, <1>23, <1>24, <1>25, <1>26

\* Nothing is written before the handshake.
LEMMA DialNext == TypeOK /\ PcOK /\ DialInv /\ Next => DialInv'
<1> SUFFICES ASSUME TypeOK, PcOK, DialInv, Next PROVE DialInv'
    OBVIOUS
<1>a. pc \in [Procs -> Labels] /\ pc["dialer"] \in {"dial", "write", "off"}
    BY DEF TypeOK, ControlTypes, PcOK
<1> USE <1>a, Goroutines DEF Goto, CallClose, CloseRet, At, closeVars, writeVars
<1>1. ASSUME NEW p \in Procs, CloseOnce(p) PROVE DialInv'
    BY <1>1 DEF CloseOnce, DialInv
<1>2. ASSUME NEW p \in Procs, CloseWrite(p) PROVE DialInv'
    BY <1>2 DEF CloseWrite, DialInv
<1>3. ASSUME NEW p \in Procs, CloseSock(p) PROVE DialInv'
    BY <1>3 DEF CloseSock, DialInv
<1>4. ASSUME NEW p \in Procs, CloseDispatch(p) PROVE DialInv'
    BY <1>4 DEF CloseDispatch, DialInv
<1>5. ASSUME NEW p \in Users, UserClose(p) PROVE DialInv'
    BY <1>5 DEF UserClose, DialInv
<1>6. ASSUME NEW p \in Users, UserWrite(p) PROVE DialInv'
    BY <1>6 DEF UserWrite, DialInv
<1>7. ASSUME NEW p \in Users, WriteSend(p) PROVE DialInv'
  <2>1. ready /\ UNCHANGED <<ready, pc["dialer"]>>
      BY <1>7 DEF WriteSend, Enqueue, DialInv
  <2> QED
      BY <2>1 DEF DialInv
<1>8. CASE DialCheck
    BY <1>8 DEF DialCheck, DialInv
<1>9. CASE DialSend
  <2>1. pc'["dialer"] = "off" /\ \A p \in Users : pc'[p] = pc[p]
      BY <1>9 DEF DialSend
  <2>2. (UNCHANGED <<ready, writeCh, accepted>>) \/ ready'
      BY <1>9 DEF DialSend
  <2> QED
      BY <2>1, <2>2 DEF DialInv
<1>10. CASE WrTop
    BY <1>10 DEF WrTop, DialInv
<1>11. CASE WrTake
    BY <1>11 DEF WrTake, DialInv
<1>12. CASE WrEnd
    BY <1>12 DEF WrEnd, DialInv
<1>13. CASE WrTick
    BY <1>13 DEF WrTick, DialInv
<1>14. CASE WrCheck
    BY <1>14 DEF WrCheck, DialInv
<1>15. CASE WrWrite
    BY <1>15 DEF WrWrite, DialInv
<1>16. CASE WrFail
    BY <1>16 DEF WrFail, DialInv
<1>17. CASE RdTop
    BY <1>17 DEF RdTop, DialInv
<1>18. CASE RdRead
  <2>1. \E l \in {"rd_top", "rd_add"} : Goto("reader", l)
      BY <1>18 DEF RdRead
  <2>2. UNCHANGED <<ready, writeCh, accepted>>
      BY <1>18 DEF RdRead
  <2> QED
      BY <2>1, <2>2 DEF DialInv
<1>19. CASE RdAdd
  <2>1. \E l \in {"rd_top", "rd_add", "rd_read"} : Goto("reader", l)
      BY <1>19 DEF RdAdd
  <2>2. UNCHANGED <<ready, writeCh, accepted>>
      BY <1>19 DEF RdAdd
  <2> QED
      BY <2>1, <2>2 DEF DialInv
<1>20. CASE RdAfter
    BY <1>20 DEF RdAfter, DialInv
<1>21. CASE RdFail
    BY <1>21 DEF RdFail, DialInv
<1>22. CASE OnPacket
    BY <1>22 DEF OnPacket, DialInv
<1>23. CASE CsTop
    BY <1>23 DEF CsTop, DialInv
<1>24. CASE CsTake
    BY <1>24 DEF CsTake, DialInv
<1>25. CASE CsDrained
    BY <1>25 DEF CsDrained, DialInv
<1>26. CASE CsFin
    BY <1>26 DEF CsFin, DialInv
<1> QED
    BY Steps, <1>1, <1>2, <1>3, <1>4, <1>5, <1>6, <1>7, <1>8, <1>9, <1>10, <1>11, <1>12, <1>13,
       <1>14, <1>15, <1>16, <1>17, <1>18, <1>19, <1>20, <1>21, <1>22, <1>23, <1>24, <1>25, <1>26

-----------------------------------------------------------------------------
\* A message at the end of the queue: it starts where the last one ended.
LEMMA WireEnqueue ==
    ASSUME WriteTypes, WireInv, NEW n \in Nat \ {0}, UNCHANGED <<cur, buf, out>>,
           pc'["writer"] = pc["writer"],
           writeCh' = Append(writeCh, Interval(accepted + 1, n)), accepted' = accepted + n
    PROVE  WireInv'
<1> DEFINE m == Interval(accepted + 1, n)
<1>1. m \in Seq(Nat) /\ Len(m) = n /\ \A i \in 1..n : m[i] = accepted + i
    BY IntervalFacts DEF WriteTypes
<1> HIDE DEF m
<1>2. /\ writeCh \in Seq(Seq(Nat)) /\ accepted \in Nat
      /\ cur \in Seq(Nat) /\ buf \in Seq(Nat) /\ out \in Seq(Nat)
    BY DEF WriteTypes
<1>3. /\ writeCh' \in Seq(Seq(Nat)) /\ Len(writeCh') = Len(writeCh) + 1
      /\ \A k \in 1..Len(writeCh) : writeCh'[k] = writeCh[k]
      /\ writeCh'[Len(writeCh) + 1] = m
    BY <1>1, <1>2, AppendFacts DEF m
<1>4. Follows(out, 0)' /\ Len(out') =< accepted'
    BY <1>2 DEF WireInv, Follows
<1> SUFFICES ASSUME OnTheWay PROVE OnTheWay'
    BY <1>4 DEF WireInv, Writing
<1>5. /\ Follows(cur, Len(out))' /\ Follows(buf, Len(out))'
      /\ IF pc'["writer"] \in {"wr_top", "wr_select"} THEN cur' = <<>> ELSE buf' = <<>>
    BY DEF OnTheWay, Follows
<1>6. Ahead' = Ahead /\ Ahead =< accepted /\ Ahead \in Nat
    BY <1>2 DEF OnTheWay, Ahead
<1>7. Ahead' =< accepted'
    BY <1>2, <1>6
<1>8. Len(writeCh') > 0
    BY <1>2, <1>3
<1>9. ASSUME NEW k \in 1..Len(writeCh') PROVE Queued(k)'
  <2>1. CASE k = Len(writeCh) + 1
    <3>1. writeCh'[k] = m /\ First(k)' = accepted
        BY <1>1, <1>2, <1>3, <2>1 DEF First
    <3>2. k = 1 => Ahead = accepted
        BY <1>2, <2>1 DEF OnTheWay
    <3> QED
        BY <1>1, <1>2, <1>3, <1>6, <2>1, <3>1, <3>2 DEF Queued, Follows
  <2>2. CASE k \in 1..Len(writeCh)
    <3>1. writeCh'[k] = writeCh[k] /\ First(k)' = First(k)
        BY <1>3, <2>2 DEF First
    <3>2. Queued(k)
        BY <2>2 DEF OnTheWay
    <3>3. writeCh[k] \in Seq(Nat) /\ Len(writeCh[k]) \in Nat /\ 1 \in DOMAIN writeCh[k] /\ First(k) \in Int
      <4>1. writeCh[k] \in Seq(Nat)
          BY <1>2, <2>2
      <4>2. Len(writeCh[k]) > 0
          BY <3>2 DEF Queued
      <4> QED
          BY <4>1, <4>2 DEF First
    <3>4. k = 1 => First(k)' = Ahead'
        BY <1>6, <3>1, <3>2 DEF Queued
    <3>5. First(k + 1)' = First(k) + Len(writeCh[k])
      <4>1. CASE k = Len(writeCh)
        <5>1. writeCh'[k + 1] = m
            BY <1>3, <4>1
        <5>2. m[1] = accepted + 1
            BY <1>1
        <5>3. First(k + 1)' = m[1] - 1
            BY <5>1 DEF First
        <5>4. First(k + 1)' = accepted
            BY <1>2, <5>2, <5>3
        <5> QED
            BY <3>2, <4>1, <5>4 DEF Queued
      <4>2. CASE k < Len(writeCh)
        <5>1. First(k + 1)' = First(k + 1)
            BY <1>2, <1>3, <2>2, <4>2 DEF First
        <5> QED
            BY <3>2, <4>2, <5>1 DEF Queued
      <4> QED
          BY <1>2, <2>2, <4>1, <4>2
    <3>6. First(k)' + Len(writeCh'[k]) =< accepted'
      <4>1. First(k) + Len(writeCh[k]) =< accepted
          BY <3>2 DEF Queued
      <4>2. First(k)' + Len(writeCh'[k]) = First(k) + Len(writeCh[k])
          BY <3>1
      <4>3. accepted' \in Nat /\ accepted =< accepted'
          BY <1>2
      <4> QED
          BY <1>2, <3>3, <4>1, <4>2, <4>3
    <3>7. k # Len(writeCh')
        BY <1>2, <1>3, <2>2
    <3>8. Len(writeCh'[k]) > 0 /\ Follows(writeCh'[k], First(k)')
        BY <3>1, <3>2 DEF Queued
    <3> QED
        BY <3>1, <3>4, <3>5, <3>6, <3>7, <3>8 DEF Queued, Follows
  <2>3. Len(writeCh) \in Nat /\ k \in 1..(Len(writeCh) + 1)
      BY <1>2, <1>3
  <2> QED
      BY <2>1, <2>2, <2>3
<1> QED
    BY <1>5, <1>7, <1>8, <1>9 DEF OnTheWay, Follows

\* The bytes in the writer's hands, those left over and those on the wire are numbered
\* without a gap.
LEMMA WireTake ==
    ASSUME TypeOK, WireInv, WrTake PROVE WireInv'
<1>1. /\ writeCh \in Seq(Seq(Nat)) /\ accepted \in Nat
      /\ cur \in Seq(Nat) /\ buf \in Seq(Nat) /\ out \in Seq(Nat)
    BY DEF TypeOK, WriteTypes
<1>2. /\ pc["writer"] = "wr_select" /\ writeCh # <<>>
      /\ cur' = buf \o Head(writeCh) /\ buf' = <<>> /\ writeCh' = Tail(writeCh)
      /\ UNCHANGED <<accepted, out>> /\ pc'["writer"] \in {"wr_check", "wr_write"}
    BY Goroutines DEF WrTake, At, Goto, TypeOK, ControlTypes
<1>3. OnTheWay /\ cur = <<>>
    BY <1>2 DEF WireInv, Writing, OnTheWay
<1> DEFINE m == writeCh[1]
<1>4. Len(writeCh) > 0 /\ Len(writeCh) \in Nat /\ m \in Seq(Nat) /\ Head(writeCh) = m
    BY <1>1, <1>2
<1>5. Queued(1)
    BY <1>3, <1>4 DEF OnTheWay
<1>6. /\ Len(m) > 0 /\ First(1) = Len(out) + Len(buf) /\ \A i \in 1..Len(m) : m[i] = First(1) + i
      /\ First(1) + Len(m) =< accepted
      /\ Len(writeCh) = 1 => First(1) + Len(m) = accepted
      /\ 1 < Len(writeCh) => First(2) = First(1) + Len(m)
    BY <1>1, <1>3, <1>4, <1>5 DEF Queued, Ahead, Follows
<1>7. \A i \in 1..Len(buf) : buf[i] = Len(out) + i
    BY <1>3 DEF OnTheWay, Follows
<1> HIDE DEF m
<1>8. /\ cur' \in Seq(Nat) /\ Len(cur') = Len(buf) + Len(m)
      /\ \A i \in 1..(Len(buf) + Len(m)) : cur'[i] = IF i =< Len(buf) THEN buf[i] ELSE m[i - Len(buf)]
    BY <1>1, <1>2, <1>4, ConcatFacts
<1>9. Follows(cur, Len(out))'
  <2> SUFFICES ASSUME NEW i \in 1..(Len(buf) + Len(m)) PROVE cur'[i] = Len(out) + i
      BY <1>2, <1>8 DEF Follows
  <2>1. Len(buf) \in Nat /\ Len(m) \in Nat /\ Len(out) \in Nat
      BY <1>1, <1>4
  <2>2. CASE i =< Len(buf)
    <3>1. i \in 1..Len(buf) /\ cur'[i] = buf[i]
        BY <1>8, <2>1, <2>2
    <3> QED
        BY <1>7, <3>1
  <2>3. CASE i > Len(buf)
    <3>1. i - Len(buf) \in 1..Len(m)
        BY <2>1, <2>3
    <3>2. cur'[i] = m[i - Len(buf)]
        BY <1>8, <2>1, <2>3
    <3>3. m[i - Len(buf)] = First(1) + (i - Len(buf)) /\ First(1) = Len(out) + Len(buf)
        BY <1>6, <3>1
    <3> QED
        BY <2>1, <3>2, <3>3
  <2> QED
      BY <2>1, <2>2, <2>3
<1>10. Ahead' = First(1) + Len(m)
  <2>1. Ahead' = Len(out) + (Len(buf) + Len(m)) + 0
      BY <1>2, <1>8 DEF Ahead
  <2>2. Len(buf) \in Nat /\ Len(m) \in Nat /\ Len(out) \in Nat /\ First(1) = Len(out) + Len(buf)
      BY <1>1, <1>4, <1>6
  <2> QED
      BY <2>1, <2>2
<1>11. /\ writeCh' \in Seq(Seq(Nat)) /\ Len(writeCh') = Len(writeCh) - 1
       /\ \A k \in 1..Len(writeCh') : writeCh'[k] = writeCh[k + 1]
    BY <1>1, <1>2
<1>12. ASSUME NEW k \in 1..Len(writeCh') PROVE Queued(k)'
  <2>1. k + 1 \in 1..Len(writeCh) /\ k \in Nat /\ k >= 1
      BY <1>4, <1>11
  <2>2. Queued(k + 1)
      BY <1>3, <2>1 DEF OnTheWay
  <2>3. writeCh'[k] = writeCh[k + 1] /\ First(k)' = First(k + 1)
      BY <1>11 DEF First
  <2>4. k = 1 => First(k)' = Ahead'
      BY <1>4, <1>6, <1>10, <2>1, <2>3
  <2>5. k = Len(writeCh') => First(k)' + Len(writeCh'[k]) = accepted'
      BY <1>2, <1>4, <1>11, <2>1, <2>2, <2>3 DEF Queued
  <2>6. k < Len(writeCh') => First(k + 1)' = First(k)' + Len(writeCh'[k])
    <3> SUFFICES ASSUME k < Len(writeCh') PROVE First(k + 1)' = First(k)' + Len(writeCh'[k])
        OBVIOUS
    <3>1. k + 1 < Len(writeCh) /\ k + 1 \in 1..Len(writeCh')
        BY <1>4, <1>11, <2>1
    <3>2. First(k + 1)' = First((k + 1) + 1)
        BY <1>11, <3>1 DEF First
    <3> QED
        BY <2>2, <2>3, <3>1, <3>2 DEF Queued
  <2>7. Len(writeCh'[k]) > 0 /\ Follows(writeCh'[k], First(k)') /\ First(k)' + Len(writeCh'[k]) =< accepted'
      BY <1>2, <2>2, <2>3 DEF Queued
  <2> QED
      BY <2>4, <2>5, <2>6, <2>7 DEF Queued, Follows
<1>13. writeCh' = <<>> => Ahead' = accepted'
  <2>1. writeCh' = <<>> => Len(writeCh) = 1
      BY <1>4, <1>11
  <2> QED
      BY <1>2, <1>6, <1>10, <2>1
<1>14. OnTheWay'
  <2>1. Ahead' =< accepted'
      BY <1>2, <1>6, <1>10
  <2>2. Follows(buf, Len(out))' /\ pc'["writer"] \notin {"wr_top", "wr_select"}
      BY <1>2 DEF Follows
  <2> QED
      BY <1>2, <1>9, <1>12, <1>13, <2>1, <2>2 DEF OnTheWay, Follows
<1>15. Follows(out, 0)' /\ Len(out') =< accepted'
    BY <1>2 DEF WireInv, Follows
<1> QED
    BY <1>14, <1>15 DEF WireInv

\* Any other step of the writer: the queue stays, and so does what is ahead of it.
LEMMA WireMove ==
    ASSUME OnTheWay, UNCHANGED <<writeCh, accepted>>, Ahead' = Ahead,
           Follows(cur, Len(out))', Follows(buf, Len(out))',
           IF pc'["writer"] \in {"wr_top", "wr_select"} THEN cur' = <<>> ELSE buf' = <<>>
    PROVE  OnTheWay'
<1>1. \A k \in 1..Len(writeCh') : Queued(k)'
    BY DEF OnTheWay, Queued, Follows, First
<1> QED
    BY <1>1 DEF OnTheWay, Follows

\* A step that moves no byte, and takes the writer at most to its end or on
\* between labels with the same bytes in its hands.
LEMMA WireQuiet ==
    ASSUME WireInv, UNCHANGED <<writeCh, accepted, cur, buf, out>>,
           \/ pc'["writer"] \notin Writing
           \/ pc'["writer"] = pc["writer"]
           \/ pc["writer"] = "wr_top" /\ pc'["writer"] = "wr_select"
           \/ pc["writer"] = "wr_check" /\ pc'["writer"] = "wr_write"
    PROVE  WireInv'
BY DEF WireInv, OnTheWay, Queued, Follows, Ahead, First, Writing

\* The socket takes the first n bytes of what the writer has.
LEMMA WireSplit ==
    ASSUME out \in Seq(Nat), cur \in Seq(Nat), NEW n \in 0..Len(cur),
           Follows(out, 0), Follows(cur, Len(out)), out' = out \o SubSeq(cur, 1, n)
    PROVE  /\ Follows(out, 0)' /\ Len(out') = Len(out) + n
           /\ Len(SubSeq(cur, n + 1, Len(cur))) = Len(cur) - n
           /\ \A i \in 1..(Len(cur) - n) : SubSeq(cur, n + 1, Len(cur))[i] = Len(out) + n + i
<1> DEFINE s == SubSeq(cur, 1, n)
           u == SubSeq(cur, n + 1, Len(cur))
<1>1. /\ s \in Seq(Nat) /\ Len(s) = n /\ \A i \in 1..n : s[i] = cur[i]
      /\ u \in Seq(Nat) /\ Len(u) = Len(cur) - n
      /\ \A i \in 1..(Len(cur) - n) : u[i] = cur[n + i]
    BY SubSeqFacts
<1>2. Len(out) \in Nat /\ Len(cur) \in Nat
    OBVIOUS
<1>3. \A i \in 1..Len(cur) : cur[i] = Len(out) + i
    BY DEF Follows
<1>4. \A i \in 1..Len(out) : out[i] = i
    BY <1>2 DEF Follows
<1>5. out' = out \o s
    OBVIOUS
<1> HIDE DEF s, u
<1>6. /\ Len(out') = Len(out) + n
      /\ \A i \in 1..(Len(out) + n) : out'[i] = IF i =< Len(out) THEN out[i] ELSE s[i - Len(out)]
    BY <1>1, <1>5, ConcatFacts
<1>7. ASSUME NEW i \in 1..(Len(out) + n) PROVE out'[i] = i
  <2>1. CASE i =< Len(out)
      BY <1>2, <1>4, <1>6, <2>1
  <2>2. CASE i > Len(out)
    <3>1. i - Len(out) \in 1..n
        BY <1>2, <2>2
    <3>2. out'[i] = s[i - Len(out)] /\ s[i - Len(out)] = cur[i - Len(out)]
        BY <1>1, <1>2, <1>6, <2>2, <3>1
    <3>3. cur[i - Len(out)] = Len(out) + (i - Len(out))
        BY <1>2, <1>3, <3>1
    <3> QED
        BY <1>2, <3>2, <3>3
  <2> QED
      BY <1>2, <2>1, <2>2
<1>8. ASSUME NEW i \in 1..(Len(cur) - n) PROVE u[i] = Len(out) + n + i
    BY <1>1, <1>2, <1>3
<1> QED
    BY <1>1, <1>6, <1>7, <1>8 DEF Follows, u

\* The bytes stay in the order in which they were accepted.
LEMMA WireNext == TypeOK /\ PcOK /\ DialInv /\ WireInv /\ Next => WireInv'
<1> SUFFICES ASSUME TypeOK, PcOK, DialInv, WireInv, Next PROVE WireInv'
    OBVIOUS
<1>a. pc \in [Procs -> Labels]
    BY DEF TypeOK, ControlTypes
<1>b. /\ writeCh \in Seq(Seq(Nat)) /\ accepted \in Nat
      /\ cur \in Seq(Nat) /\ buf \in Seq(Nat) /\ out \in Seq(Nat)
    BY DEF TypeOK, WriteTypes
<1> USE <1>a, Goroutines
<1>1. ASSUME NEW p \in Procs, CloseOnce(p) PROVE WireInv'
  <2>1. UNCHANGED <<writeCh, accepted, cur, buf, out>>
      BY <1>1 DEF CloseOnce, writeVars, wireVars
  <2>2. pc'["writer"] = pc["writer"] \/ pc'["writer"] \notin Writing
      BY <1>1 DEF CloseOnce, Goto, CallClose, CloseRet, At, Writing
  <2> QED
      BY <2>1, <2>2, WireQuiet
<1>2. ASSUME NEW p \in Procs, CloseWrite(p) PROVE WireInv'
  <2>1. UNCHANGED <<writeCh, accepted, cur, buf, out>>
      BY <1>2 DEF CloseWrite, writeVars, wireVars
  <2>2. pc'["writer"] = pc["writer"] \/ pc'["writer"] \notin Writing
      BY <1>2 DEF CloseWrite, Goto, CallClose, CloseRet, At, Writing
  <2> QED
      BY <2>1, <2>2, WireQuiet
<1>3. ASSUME NEW p \in Procs, CloseSock(p) PROVE WireInv'
  <2>1. UNCHANGED <<writeCh, accepted, cur, buf, out>>
      BY <1>3 DEF CloseSock, writeVars, wireVars
  <2>2. pc'["writer"] = pc["writer"] \/ pc'["writer"] \notin Writing
      BY <1>3 DEF CloseSock, Goto, CallClose, CloseRet, At, Writing
  <2> QED
      BY <2>1, <2>2, WireQuiet
<1>4. ASSUME NEW p \in Procs, CloseDispatch(p) PROVE WireInv'
  <2>1. UNCHANGED <<writeCh, accepted, cur, buf, out>>
      BY <1>4 DEF CloseDispatch, writeVars, wireVars
  <2>2. pc'["writer"] = pc["writer"] \/ pc'["writer"] \notin Writing
      BY <1>4 DEF CloseDispatch, Goto, CallClose, CloseRet, At, Writing
  <2> QED
      BY <2>1, <2>2, WireQuiet
<1>5. ASSUME NEW p \in Users, UserClose(p) PROVE WireInv'
  <2>1. UNCHANGED <<writeCh, accepted, cur, buf, out>>
      BY <1>5 DEF UserClose, writeVars, wireVars
  <2>2. pc'["writer"] = pc["writer"] \/ pc'["writer"] \notin Writing
      BY <1>5 DEF UserClose, Goto, CallClose, CloseRet, At, Writing
  <2> QED
      BY <2>1, <2>2, WireQuiet
<1>6. ASSUME NEW p \in Users, UserWrite(p) PROVE WireInv'
  <2>1. UNCHANGED <<writeCh, accepted, cur, buf, out>>
      BY <1>6 DEF UserWrite, writeVars, wireVars
  <2>2. pc'["writer"] = pc["writer"] \/ pc'["writer"] \notin Writing
      BY <1>6 DEF UserWrite, Goto, CallClose, CloseRet, At, Writing
  <2> QED
      BY <2>1, <2>2, WireQuiet
<1>7. ASSUME NEW p \in Users, WriteSend(p) PROVE WireInv'
  <2>1. PICK n \in 1..MaxLen : Enqueue(n)
      BY <1>7 DEF WriteSend
  <2>2. n \in Nat \ {0}
      BY Constants
  <2>3. pc'["writer"] = pc["writer"] /\ UNCHANGED <<cur, buf, out>>
      BY <1>7, <2>1 DEF WriteSend, Enqueue, Goto, wireVars
  <2>4. CASE UNCHANGED <<writeCh, accepted>>
      BY <2>3, <2>4, WireQuiet
  <2>5. CASE writeCh' = Append(writeCh, Interval(accepted + 1, n)) /\ accepted' = accepted + n
      BY <2>2, <2>3, <2>5, WireEnqueue DEF TypeOK
  <2> QED
      BY <2>1, <2>4, <2>5 DEF Enqueue
<1>8. CASE DialCheck
  <2>1. UNCHANGED <<writeCh, accepted, cur, buf, out>>
      BY <1>8 DEF DialCheck, writeVars, wireVars
  <2>2. pc'["writer"] = pc["writer"] \/ pc'["writer"] \notin Writing
      BY <1>8 DEF DialCheck, Goto, CallClose, CloseRet, At, Writing
  <2> QED
      BY <2>1, <2>2, WireQuiet
<1>9. CASE DialSend
  <2>1. pc'["writer"] = pc["writer"] /\ UNCHANGED <<cur, buf, out>>
      BY <1>9 DEF DialSend, Goto, wireVars
  <2>2. CASE UNCHANGED <<writeCh, accepted>>
      BY <2>1, <2>2, WireQuiet
  <2>3. CASE writeCh' = <<Interval(1, HandshakeLen)>> /\ accepted' = HandshakeLen
    <3>1. writeCh = <<>> /\ accepted = 0
        BY <1>9 DEF DialSend, At, DialInv
    <3>2. HandshakeLen \in Nat \ {0} /\ accepted + 1 = 1 /\ accepted + HandshakeLen = HandshakeLen
        BY <3>1, Constants
    <3>3. writeCh' = Append(writeCh, Interval(accepted + 1, HandshakeLen))
        BY <2>3, <3>1, <3>2
    <3> QED
        BY <2>1, <2>3, <3>2, <3>3, WireEnqueue DEF TypeOK
  <2> QED
      BY <1>9, <2>2, <2>3 DEF DialSend
<1>10. CASE WrTop
  <2>1. UNCHANGED <<writeCh, accepted, cur, buf, out>>
      BY <1>10 DEF WrTop, writeVars, wireVars
  <2>2. pc["writer"] = "wr_top" /\ pc'["writer"] \in {"off", "wr_select"}
      BY <1>10 DEF WrTop, Goto, CallClose, CloseRet, At, Writing
  <2> QED
      BY <2>1, <2>2, WireQuiet DEF Writing
<1>11. CASE WrTake
    BY <1>11, WireTake
<1>12. CASE WrEnd
  <2>1. UNCHANGED <<writeCh, accepted, cur, buf, out>>
      BY <1>12 DEF WrEnd, writeVars, wireVars
  <2>2. pc'["writer"] = pc["writer"] \/ pc'["writer"] \notin Writing
      BY <1>12 DEF WrEnd, Goto, CallClose, CloseRet, At, Writing
  <2> QED
      BY <2>1, <2>2, WireQuiet
<1>13. CASE WrTick
  <2>1. /\ pc["writer"] = "wr_select" /\ cur' = buf /\ buf' = <<>> /\ UNCHANGED <<writeCh, accepted, out>>
        /\ IF buf = <<>> THEN pc'["writer"] = "wr_top" ELSE pc'["writer"] = "wr_write"
      BY <1>13 DEF WrTick, At, Goto, writeVars
  <2>2. OnTheWay /\ cur = <<>>
      BY <2>1 DEF WireInv, OnTheWay, Writing
  <2>3. Ahead' = Ahead
      BY <1>b, <2>1, <2>2 DEF Ahead
  <2>4. Follows(cur, Len(out))' /\ Follows(buf, Len(out))'
      BY <2>1, <2>2 DEF OnTheWay, Follows
  <2>5. OnTheWay'
      BY <2>1, <2>2, <2>3, <2>4, WireMove
  <2> QED
      BY <2>1, <2>5 DEF WireInv, Follows
<1>14. CASE WrCheck
  <2>1. UNCHANGED <<writeCh, accepted, cur, buf, out>>
      BY <1>14 DEF WrCheck, writeVars, wireVars
  <2>2. pc["writer"] = "wr_check" /\ pc'["writer"] \in {"off", "wr_write"}
      BY <1>14 DEF WrCheck, Goto, CallClose, CloseRet, At, Writing
  <2> QED
      BY <2>1, <2>2, WireQuiet DEF Writing
<1>15. CASE WrWrite
  <2>1. /\ pc["writer"] = "wr_write" /\ cur' = <<>> /\ pc'["writer"] = "wr_top"
        /\ UNCHANGED <<writeCh, accepted>>
      BY <1>15 DEF WrWrite, At, Goto, writeVars
  <2>2. PICK n \in 1..Len(cur) : out' = out \o SubSeq(cur, 1, n) /\ buf' = SubSeq(cur, n + 1, Len(cur))
      BY <1>15 DEF WrWrite
  <2>3. OnTheWay /\ buf = <<>> /\ n \in 0..Len(cur)
      BY <1>b, <2>1 DEF WireInv, OnTheWay, Writing
  <2>4. /\ Follows(out, 0)' /\ Len(out') = Len(out) + n
        /\ Len(buf') = Len(cur) - n /\ \A i \in 1..(Len(cur) - n) : buf'[i] = Len(out) + n + i
      BY <1>b, <2>2, <2>3, WireSplit DEF WireInv, OnTheWay
  <2>5. Ahead' = Ahead /\ Ahead =< accepted
      BY <1>b, <2>1, <2>3, <2>4 DEF Ahead, OnTheWay
  <2>6. Follows(cur, Len(out))' /\ Follows(buf, Len(out))'
      BY <1>b, <2>1, <2>4 DEF Follows
  <2>7. OnTheWay'
      BY <2>1, <2>3, <2>5, <2>6, WireMove
  <2>8. Len(out') =< accepted'
      BY <1>b, <2>1, <2>3, <2>4, <2>5 DEF Ahead
  <2> QED
      BY <2>4, <2>7, <2>8 DEF WireInv
<1>16. CASE WrFail
  <2>1. /\ pc["writer"] = "wr_write" /\ pc'["writer"] \notin Writing
        /\ UNCHANGED <<writeCh, accepted>>
      BY <1>16 DEF WrFail, At, Goto, CallClose, CloseRet, writeVars, Writing
  <2>2. PICK n \in 0..(Len(cur) - 1) : out' = out \o SubSeq(cur, 1, n)
      BY <1>16 DEF WrFail
  <2>3. OnTheWay /\ n \in 0..Len(cur)
      BY <1>b, <2>1 DEF WireInv, Writing
  <2>4. Follows(out, 0)' /\ Len(out') = Len(out) + n
      BY <1>b, <2>2, <2>3, WireSplit DEF WireInv, OnTheWay
  <2>5. Len(out') =< accepted'
      BY <1>b, <2>1, <2>3, <2>4 DEF Ahead, OnTheWay
  <2> QED
      BY <2>1, <2>4, <2>5 DEF WireInv
<1>17. CASE RdTop
  <2>1. UNCHANGED <<writeCh, accepted, cur, buf, out>>
      BY <1>17 DEF RdTop, writeVars, wireVars
  <2>2. pc'["writer"] = pc["writer"] \/ pc'["writer"] \notin Writing
      BY <1>17 DEF RdTop, Goto, CallClose, CloseRet, At, Writing
  <2> QED
      BY <2>1, <2>2, WireQuiet
<1>18. CASE RdRead
  <2>1. UNCHANGED <<writeCh, accepted, cur, buf, out>>
      BY <1>18 DEF RdRead, writeVars, wireVars
  <2>2. \E l \in {"rd_top", "rd_add"} : Goto("reader", l)
      BY <1>18 DEF RdRead
  <2>3. pc'["writer"] = pc["writer"] \/ pc'["writer"] \notin Writing
      BY <2>2 DEF Goto
  <2> QED
      BY <2>1, <2>3, WireQuiet
<1>19. CASE RdAdd
  <2>1. UNCHANGED <<writeCh, accepted, cur, buf, out>>
      BY <1>19 DEF RdAdd, writeVars, wireVars
  <2>2. \E l \in {"rd_top", "rd_add", "rd_read"} : Goto("reader", l)
      BY <1>19 DEF RdAdd
  <2>3. pc'["writer"] = pc["writer"] \/ pc'["writer"] \notin Writing
      BY <2>2 DEF Goto
  <2> QED
      BY <2>1, <2>3, WireQuiet
<1>20. CASE RdAfter
  <2>1. UNCHANGED <<writeCh, accepted, cur, buf, out>>
      BY <1>20 DEF RdAfter, writeVars, wireVars
  <2>2. pc'["writer"] = pc["writer"] \/ pc'["writer"] \notin Writing
      BY <1>20 DEF RdAfter, Goto, CallClose, CloseRet, At, Writing
  <2> QED
      BY <2>1, <2>2, WireQuiet
<1>21. CASE RdFail
  <2>1. UNCHANGED <<writeCh, accepted, cur, buf, out>>
      BY <1>21 DEF RdFail, writeVars, wireVars
  <2>2. pc'["writer"] = pc["writer"] \/ pc'["writer"] \notin Writing
      BY <1>21 DEF RdFail, Goto, CallClose, CloseRet, At, Writing
  <2> QED
      BY <2>1, <2>2, WireQuiet
<1>22. CASE OnPacket
  <2>1. UNCHANGED <<writeCh, accepted, cur, buf, out>>
      BY <1>22 DEF OnPacket, writeVars, wireVars
  <2>2. pc'["writer"] = pc["writer"] \/ pc'["writer"] \notin Writing
      BY <1>22 DEF OnPacket, Goto, CallClose, CloseRet, At, Writing
  <2> QED
      BY <2>1, <2>2, WireQuiet
<1>23. CASE CsTop
  <2>1. UNCHANGED <<writeCh, accepted, cur, buf, out>>
      BY <1>23 DEF CsTop, writeVars, wireVars
  <2>2. pc'["writer"] = pc["writer"] \/ pc'["writer"] \notin Writing
      BY <1>23 DEF CsTop, Goto, CallClose, CloseRet, At, Writing
  <2> QED
      BY <2>1, <2>2, WireQuiet
<1>24. CASE CsTake
  <2>1. UNCHANGED <<writeCh, accepted, cur, buf, out>>
      BY <1>24 DEF CsTake, writeVars, wireVars
  <2>2. pc'["writer"] = pc["writer"] \/ pc'["writer"] \notin Writing
      BY <1>24 DEF CsTake, Goto, CallClose, CloseRet, At, Writing
  <2> QED
      BY <2>1, <2>2, WireQuiet
<1>25. CASE CsDrained
  <2>1. UNCHANGED <<writeCh, accepted, cur, buf, out>>
      BY <1>25 DEF CsDrained, writeVars, wireVars
  <2>2. pc'["writer"] = pc["writer"] \/ pc'["writer"] \notin Writing
      BY <1>25 DEF CsDrained, Goto, CallClose, CloseRet, At, Writing
  <2> QED
      BY <2>1, <2>2, WireQuiet
<1>26. CASE CsFin
  <2>1. UNCHANGED <<writeCh, accepted, cur, buf, out>>
      BY <1>26 DEF CsFin, writeVars, wireVars
  <2>2. pc'["writer"] = pc["writer"] \/ pc'["writer"] \notin Writing
      BY <1>26 DEF CsFin, Goto, CallClose, CloseRet, At, Writing
  <2> QED
      BY <2>1, <2>2, WireQuiet
<1> QED
    BY Steps, <1>1, <1>2, <1>3, <1>4, <1>5, <1>6, <1>7, <1>8, <1>9, <1>10, <1>11, <1>12, <1>13,
       <1>14, <1>15, <1>16, <1>17, <1>18, <1>19, <1>20, <1>21, <1>22, <1>23, <1>24, <1>25, <1>26

-----------------------------------------------------------------------------
\* A step that neither reads nor handles a packet nor changes what is kept.
LEMMA PacketQuiet ==
    ASSUME PacketInv, UNCHANGED <<chunk, arrived, dropped>>, Kept' = Kept,
           pc["reader"] = "rd_add" /\ chunk # <<>> => pc'["reader"] = "rd_add"
    PROVE  PacketInv'
<1>1. Handled' = Handled
    BY DEF Handled
<1> QED
    BY <1>1 DEF PacketInv, Follows

\* A read: the packets of the chunk are the ones that arrived last.
LEMMA PacketRead ==
    ASSUME PacketTypes, PacketInv, pc["reader"] # "rd_add", NEW n \in Nat,
           chunk' = Interval(arrived + 1, n), arrived' = arrived + n,
           UNCHANGED <<queue, delivered, dropped>>, pc'["reader"] # "rd_add" => n = 0
    PROVE  PacketInv'
<1>1. chunk = <<>> /\ arrived \in Nat /\ Handled = arrived
    BY DEF PacketInv, PacketTypes, Handled
<1> DEFINE s == Interval(arrived + 1, n)
<1>2. s \in Seq(Nat) /\ Len(s) = n /\ \A i \in 1..n : s[i] = arrived + i
    BY <1>1, IntervalFacts
<1>3. chunk' = s
    OBVIOUS
<1> HIDE DEF s
<1>4. Handled' = Handled
    BY <1>1, <1>2, <1>3 DEF Handled
<1>5. Handled' >= 0 /\ Follows(chunk, Handled)'
    BY <1>1, <1>2, <1>3, <1>4 DEF Follows
<1>6. Kept' = Kept
    BY DEF Kept
<1>7. pc'["reader"] # "rd_add" => chunk' = <<>>
    BY <1>2, <1>3
<1> QED
    BY <1>4, <1>5, <1>6, <1>7 DEF PacketInv

\* One packet is handled: it is the next one, and it is kept at the end or dropped.
LEMMA PacketAdd ==
    ASSUME PacketTypes, PacketInv, chunk # <<>>, chunk' = Tail(chunk), UNCHANGED <<arrived, delivered>>,
           \/ queue' = Append(queue, Head(chunk)) /\ UNCHANGED dropped
           \/ dropped' = dropped \cup {Head(chunk)} /\ UNCHANGED queue,
           pc'["reader"] # "rd_add" => chunk' = <<>>
    PROVE  PacketInv'
<1> DEFINE k == Head(chunk)
<1>1. /\ chunk \in Seq(Nat) /\ queue \in Seq(Nat) /\ delivered \in Seq(Nat) /\ arrived \in Nat
      /\ dropped \subseteq Nat
    BY DEF PacketTypes
<1>2. /\ Len(chunk) \in Nat /\ Len(chunk) > 0 /\ k = chunk[1] /\ k \in Nat
      /\ chunk' \in Seq(Nat) /\ Len(chunk') = Len(chunk) - 1
      /\ \A i \in 1..Len(chunk') : chunk'[i] = chunk[i + 1]
    BY <1>1
<1>3. Handled \in Nat /\ Handled' = Handled + 1 /\ k = Handled + 1
    BY <1>1, <1>2 DEF Handled, PacketInv, Follows
<1>4. Follows(chunk, Handled)'
  <2> SUFFICES ASSUME NEW i \in 1..Len(chunk') PROVE chunk'[i] = Handled' + i
      BY DEF Follows
  <2>1. i + 1 \in 1..Len(chunk) /\ i \in Nat
      BY <1>2
  <2>2. chunk[i + 1] = Handled + (i + 1)
      BY <2>1 DEF PacketInv, Follows
  <2> QED
      BY <1>2, <1>3, <2>1, <2>2
<1>5. Kept \in Seq(Nat) /\ Len(Kept) \in Nat
    BY <1>1, ConcatFacts DEF Kept
<1>6. k \notin dropped /\ \A i \in 1..Len(Kept) : Kept[i] \in 1..Handled /\ Kept[i] < k
    BY <1>3 DEF PacketInv
<1> HIDE DEF k
<1>7. CASE queue' = Append(queue, k) /\ UNCHANGED dropped
  <2>1. Kept' = Append(Kept, k)
      BY <1>1, <1>2, <1>7, AppendToConcat DEF Kept
  <2>2. /\ Len(Kept') = Len(Kept) + 1 /\ Kept'[Len(Kept) + 1] = k
        /\ \A i \in 1..Len(Kept) : Kept'[i] = Kept[i]
      BY <1>2, <1>5, <2>1, AppendFacts
  <2>3. ASSUME NEW i \in 1..Len(Kept'), NEW j \in 1..Len(Kept'), i < j PROVE Kept'[i] < Kept'[j]
    <3>1. i \in 1..Len(Kept) /\ Kept'[i] = Kept[i]
        BY <1>5, <2>2, <2>3
    <3>2. CASE j = Len(Kept) + 1
        BY <1>6, <2>2, <3>1, <3>2
    <3>3. CASE j \in 1..Len(Kept)
        BY <2>2, <2>3, <3>1, <3>3 DEF PacketInv
    <3> QED
        BY <1>5, <2>2, <3>2, <3>3
  <2>4. ASSUME NEW i \in 1..Len(Kept') PROVE Kept'[i] \in (1..Handled') \ dropped'
    <3>1. CASE i = Len(Kept) + 1
        BY <1>3, <1>6, <1>7, <2>2, <3>1
    <3>2. CASE i \in 1..Len(Kept)
      <4>1. Kept'[i] = Kept[i] /\ Kept[i] \in (1..Handled) \ dropped
          BY <2>2, <3>2 DEF PacketInv
      <4> QED
          BY <1>3, <1>7, <4>1
    <3> QED
        BY <1>5, <2>2, <3>1, <3>2
  <2>5. ASSUME NEW n \in (1..Handled') \ dropped' PROVE \E i \in 1..Len(Kept') : Kept'[i] = n
    <3>1. CASE n = k
        BY <1>5, <2>2, <3>1
    <3>2. CASE n # k
      <4>1. n \in (1..Handled) \ dropped
          BY <1>3, <1>7, <3>2
      <4>2. PICK i \in 1..Len(Kept) : Kept[i] = n
          BY <4>1 DEF PacketInv
      <4> QED
          BY <1>5, <2>2, <4>2
    <3> QED
        BY <3>1, <3>2
  <2>6. dropped' \subseteq 1..Handled'
      BY <1>3, <1>7 DEF PacketInv
  <2> QED
      BY <1>3, <1>4, <2>3, <2>4, <2>5, <2>6 DEF PacketInv
<1>8. CASE dropped' = dropped \cup {k} /\ UNCHANGED queue
  <2>1. Kept' = Kept
      BY <1>8 DEF Kept
  <2>2. \A i \in 1..Len(Kept) : Kept[i] \in (1..Handled') \ dropped'
      BY <1>3, <1>6, <1>8 DEF PacketInv
  <2>3. (1..Handled') \ dropped' \subseteq (1..Handled) \ dropped
      BY <1>3, <1>8
  <2>4. dropped' \subseteq 1..Handled'
      BY <1>3, <1>8 DEF PacketInv
  <2> QED
      BY <1>3, <1>4, <2>1, <2>2, <2>3, <2>4 DEF PacketInv
<1> QED
    BY <1>7, <1>8 DEF k

\* No packet is lost, repeated or overtaken.
LEMMA PacketNext == TypeOK /\ PcOK /\ PacketInv /\ Next => PacketInv'
<1> SUFFICES ASSUME TypeOK, PcOK, PacketInv, Next PROVE PacketInv'
    OBVIOUS
<1>a. pc \in [Procs -> Labels]
    BY DEF TypeOK, ControlTypes
<1> USE <1>a, Goroutines
<1>1. ASSUME NEW p \in Procs, CloseOnce(p) PROVE PacketInv'
  <2>1. UNCHANGED <<chunk, arrived, dropped, queue, delivered>>
      BY <1>1 DEF CloseOnce, packetVars
  <2>2. pc["reader"] = "rd_add" /\ chunk # <<>> => pc'["reader"] = "rd_add"
      BY <1>1 DEF CloseOnce, Goto, CallClose, At
  <2> QED
      BY <2>1, <2>2, PacketQuiet DEF Kept
<1>2. ASSUME NEW p \in Procs, CloseWrite(p) PROVE PacketInv'
  <2>1. UNCHANGED <<chunk, arrived, dropped, queue, delivered>>
      BY <1>2 DEF CloseWrite, packetVars
  <2>2. pc["reader"] = "rd_add" /\ chunk # <<>> => pc'["reader"] = "rd_add"
      BY <1>2 DEF CloseWrite, Goto, CallClose, At
  <2> QED
      BY <2>1, <2>2, PacketQuiet DEF Kept
<1>3. ASSUME NEW p \in Procs, CloseSock(p) PROVE PacketInv'
  <2>1. UNCHANGED <<chunk, arrived, dropped, queue, delivered>>
      BY <1>3 DEF CloseSock, packetVars
  <2>2. pc["reader"] = "rd_add" /\ chunk # <<>> => pc'["reader"] = "rd_add"
      BY <1>3 DEF CloseSock, Goto, CallClose, At
  <2> QED
      BY <2>1, <2>2, PacketQuiet DEF Kept
<1>4. ASSUME NEW p \in Procs, CloseDispatch(p) PROVE PacketInv'
  <2>1. UNCHANGED <<chunk, arrived, dropped, queue, delivered>>
      BY <1>4 DEF CloseDispatch, packetVars
  <2>2. pc["reader"] = "rd_add" /\ chunk # <<>> => pc'["reader"] = "rd_add"
      BY <1>4 DEF CloseDispatch, Goto, CallClose, At
  <2> QED
      BY <2>1, <2>2, PacketQuiet DEF Kept
<1>5. ASSUME NEW p \in Users, UserClose(p) PROVE PacketInv'
  <2>1. UNCHANGED <<chunk, arrived, dropped, queue, delivered>>
      BY <1>5 DEF UserClose, packetVars
  <2>2. pc["reader"] = "rd_add" /\ chunk # <<>> => pc'["reader"] = "rd_add"
      BY <1>5 DEF UserClose, Goto, CallClose, At
  <2> QED
      BY <2>1, <2>2, PacketQuiet DEF Kept
<1>6. ASSUME NEW p \in Users, UserWrite(p) PROVE PacketInv'
  <2>1. UNCHANGED <<chunk, arrived, dropped, queue, delivered>>
      BY <1>6 DEF UserWrite, packetVars
  <2>2. pc["reader"] = "rd_add" /\ chunk # <<>> => pc'["reader"] = "rd_add"
      BY <1>6 DEF UserWrite, Goto, CallClose, At
  <2> QED
      BY <2>1, <2>2, PacketQuiet DEF Kept
<1>7. ASSUME NEW p \in Users, WriteSend(p) PROVE PacketInv'
  <2>1. UNCHANGED <<chunk, arrived, dropped, queue, delivered>>
      BY <1>7 DEF WriteSend, Enqueue, packetVars
  <2>2. pc["reader"] = "rd_add" /\ chunk # <<>> => pc'["reader"] = "rd_add"
      BY <1>7 DEF WriteSend, Goto, CallClose, At
  <2> QED
      BY <2>1, <2>2, PacketQuiet DEF Kept
<1>8. CASE DialCheck
  <2>1. UNCHANGED <<chunk, arrived, dropped, queue, delivered>>
      BY <1>8 DEF DialCheck, packetVars
  <2>2. pc["reader"] = "rd_add" /\ chunk # <<>> => pc'["reader"] = "rd_add"
      BY <1>8 DEF DialCheck, Goto, CallClose, At
  <2> QED
      BY <2>1, <2>2, PacketQuiet DEF Kept
<1>9. CASE DialSend
  <2>1. UNCHANGED <<chunk, arrived, dropped, queue, delivered>>
      BY <1>9 DEF DialSend, packetVars
  <2>2. pc["reader"] = "rd_add" /\ chunk # <<>> => pc'["reader"] = "rd_add"
      BY <1>9 DEF DialSend, Goto, CallClose, At
  <2> QED
      BY <2>1, <2>2, PacketQuiet DEF Kept
<1>10. CASE WrTop
  <2>1. UNCHANGED <<chunk, arrived, dropped, queue, delivered>>
      BY <1>10 DEF WrTop, packetVars
  <2>2. pc["reader"] = "rd_add" /\ chunk # <<>> => pc'["reader"] = "rd_add"
      BY <1>10 DEF WrTop, Goto, CallClose, At
  <2> QED
      BY <2>1, <2>2, PacketQuiet DEF Kept
<1>11. CASE WrTake
  <2>1. UNCHANGED <<chunk, arrived, dropped, queue, delivered>>
      BY <1>11 DEF WrTake, packetVars
  <2>2. pc["reader"] = "rd_add" /\ chunk # <<>> => pc'["reader"] = "rd_add"
      BY <1>11 DEF WrTake, Goto, CallClose, At
  <2> QED
      BY <2>1, <2>2, PacketQuiet DEF Kept
<1>12. CASE WrEnd
  <2>1. UNCHANGED <<chunk, arrived, dropped, queue, delivered>>
      BY <1>12 DEF WrEnd, packetVars
  <2>2. pc["reader"] = "rd_add" /\ chunk # <<>> => pc'["reader"] = "rd_add"
      BY <1>12 DEF WrEnd, Goto, CallClose, At
  <2> QED
      BY <2>1, <2>2, PacketQuiet DEF Kept
<1>13. CASE WrTick
  <2>1. UNCHANGED <<chunk, arrived, dropped, queue, delivered>>
      BY <1>13 DEF WrTick, packetVars
  <2>2. pc["reader"] = "rd_add" /\ chunk # <<>> => pc'["reader"] = "rd_add"
      BY <1>13 DEF WrTick, Goto, CallClose, At
  <2> QED
      BY <2>1, <2>2, PacketQuiet DEF Kept
<1>14. CASE WrCheck
  <2>1. UNCHANGED <<chunk, arrived, dropped, queue, delivered>>
      BY <1>14 DEF WrCheck, packetVars
  <2>2. pc["reader"] = "rd_add" /\ chunk # <<>> => pc'["reader"] = "rd_add"
      BY <1>14 DEF WrCheck, Goto, CallClose, At
  <2> QED
      BY <2>1, <2>2, PacketQuiet DEF Kept
<1>15. CASE WrWrite
  <2>1. UNCHANGED <<chunk, arrived, dropped, queue, delivered>>
      BY <1>15 DEF WrWrite, packetVars
  <2>2. pc["reader"] = "rd_add" /\ chunk # <<>> => pc'["reader"] = "rd_add"
      BY <1>15 DEF WrWrite, Goto, CallClose, At
  <2> QED
      BY <2>1, <2>2, PacketQuiet DEF Kept
<1>16. CASE WrFail
  <2>1. UNCHANGED <<chunk, arrived, dropped, queue, delivered>>
      BY <1>16 DEF WrFail, packetVars
  <2>2. pc["reader"] = "rd_add" /\ chunk # <<>> => pc'["reader"] = "rd_add"
      BY <1>16 DEF WrFail, Goto, CallClose, At
  <2> QED
      BY <2>1, <2>2, PacketQuiet DEF Kept
<1>17. CASE RdTop
  <2>1. UNCHANGED <<chunk, arrived, dropped, queue, delivered>>
      BY <1>17 DEF RdTop, packetVars
  <2>2. pc["reader"] = "rd_add" /\ chunk # <<>> => pc'["reader"] = "rd_add"
      BY <1>17 DEF RdTop, Goto, CallClose, At
  <2> QED
      BY <2>1, <2>2, PacketQuiet DEF Kept
<1>18. CASE RdRead
  <2>1. PICK r \in Reads : /\ chunk' = Interval(arrived + 1, r[1]) /\ arrived' = arrived + r[1]
                            /\ Goto("reader", IF r = <<0, "none">> THEN "rd_top" ELSE "rd_add")
      BY <1>18 DEF RdRead
  <2>2. r[1] \in Nat
      BY ReadFacts
  <2>3. /\ pc["reader"] # "rd_add" /\ UNCHANGED <<queue, delivered, dropped>>
        /\ pc'["reader"] # "rd_add" => r[1] = 0
      BY <1>18, <2>1 DEF RdRead, At, Goto
  <2> QED
      BY <2>1, <2>2, <2>3, PacketRead DEF TypeOK
<1>19. CASE RdAdd
  <2>1. /\ chunk # <<>> /\ chunk' = Tail(chunk) /\ UNCHANGED <<arrived, delivered>>
        /\ pc'["reader"] # "rd_add" => chunk' = <<>>
      BY <1>19 DEF RdAdd, Goto
  <2>2. \/ queue' = Append(queue, Head(chunk)) /\ UNCHANGED dropped
        \/ dropped' = dropped \cup {Head(chunk)} /\ UNCHANGED queue
      BY <1>19 DEF RdAdd, AddPacket
  <2> QED
      BY <2>1, <2>2, PacketAdd DEF TypeOK
<1>20. CASE RdAfter
  <2>1. UNCHANGED <<chunk, arrived, dropped, queue, delivered>>
      BY <1>20 DEF RdAfter, packetVars
  <2>2. pc["reader"] = "rd_add" /\ chunk # <<>> => pc'["reader"] = "rd_add"
      BY <1>20 DEF RdAfter, Goto, CallClose, At
  <2> QED
      BY <2>1, <2>2, PacketQuiet DEF Kept
<1>21. CASE RdFail
  <2>1. UNCHANGED <<chunk, arrived, dropped, queue, delivered>>
      BY <1>21 DEF RdFail, packetVars
  <2>2. pc["reader"] = "rd_add" /\ chunk # <<>> => pc'["reader"] = "rd_add"
      BY <1>21 DEF RdFail, Goto, CallClose, At
  <2> QED
      BY <2>1, <2>2, PacketQuiet DEF Kept
<1>22. CASE OnPacket
  <2>1. UNCHANGED <<chunk, arrived, dropped, queue, delivered>>
      BY <1>22 DEF OnPacket, packetVars
  <2>2. pc["reader"] = "rd_add" /\ chunk # <<>> => pc'["reader"] = "rd_add"
      BY <1>22 DEF OnPacket, Goto, CallClose, At
  <2> QED
      BY <2>1, <2>2, PacketQuiet DEF Kept
<1>23. CASE CsTop
  <2>1. UNCHANGED <<chunk, arrived, dropped, queue, delivered>>
      BY <1>23 DEF CsTop, packetVars
  <2>2. pc["reader"] = "rd_add" /\ chunk # <<>> => pc'["reader"] = "rd_add"
      BY <1>23 DEF CsTop, Goto, CallClose, At
  <2> QED
      BY <2>1, <2>2, PacketQuiet DEF Kept
<1>24. CASE CsTake
  <2>1. /\ queue # <<>> /\ queue' = Tail(queue) /\ delivered' = Append(delivered, Head(queue))
        /\ UNCHANGED <<chunk, arrived, dropped>> /\ pc'["reader"] = pc["reader"]
      BY <1>24 DEF CsTake, Goto
  <2>2. queue \in Seq(Nat) /\ delivered \in Seq(Nat)
      BY DEF TypeOK, PacketTypes
  <2>3. Kept' = Kept
      BY <2>1, <2>2, MoveHead DEF Kept
  <2> QED
      BY <2>1, <2>3, PacketQuiet
<1>25. CASE CsDrained
  <2>1. UNCHANGED <<chunk, arrived, dropped, queue, delivered>>
      BY <1>25 DEF CsDrained, packetVars
  <2>2. pc["reader"] = "rd_add" /\ chunk # <<>> => pc'["reader"] = "rd_add"
      BY <1>25 DEF CsDrained, Goto, CallClose, At
  <2> QED
      BY <2>1, <2>2, PacketQuiet DEF Kept
<1>26. CASE CsFin
  <2>1. UNCHANGED <<chunk, arrived, dropped, queue, delivered>>
      BY <1>26 DEF CsFin, packetVars
  <2>2. pc["reader"] = "rd_add" /\ chunk # <<>> => pc'["reader"] = "rd_add"
      BY <1>26 DEF CsFin, Goto, CallClose, At
  <2> QED
      BY <2>1, <2>2, PacketQuiet DEF Kept
<1> QED
    BY Steps, <1>1, <1>2, <1>3, <1>4, <1>5, <1>6, <1>7, <1>8, <1>9, <1>10, <1>11, <1>12, <1>13,
       <1>14, <1>15, <1>16, <1>17, <1>18, <1>19, <1>20, <1>21, <1>22, <1>23, <1>24, <1>25, <1>26

\* A step of another goroutine that leaves the packets alone.
LEMMA LastReadQuiet ==
    ASSUME LastReadInv, UNCHANGED <<transport, chunk, arrived, queue, left>>,
           pc'["reader"] = "rd_read" => pc["reader"] = "rd_read" \/ left = -1
    PROVE  LastReadInv'
BY DEF LastReadInv, At

\* Only packets of the last read can be left behind.
LEMMA LastReadNext == TypeOK /\ ConsumerInv /\ PacketInv /\ LastReadInv /\ Next => LastReadInv'
<1> SUFFICES ASSUME TypeOK, ConsumerInv, PacketInv, LastReadInv, Next PROVE LastReadInv'
    OBVIOUS
<1>a. pc \in [Procs -> Labels] /\ UNCHANGED transport
    BY DEF TypeOK, ControlTypes, Next
<1>b. /\ queue \in Seq(Nat) /\ left \in Nat \cup {-1} /\ arrived \in Nat /\ chunk \in Seq(Nat)
      /\ MaxChunk \in Nat
    BY Constants DEF TypeOK, PacketTypes
<1> USE <1>a, Goroutines
<1>1. ASSUME NEW p \in Procs, CloseOnce(p) PROVE LastReadInv'
  <2>1. UNCHANGED <<chunk, arrived, queue, left>>
      BY <1>1 DEF CloseOnce, packetVars
  <2>2. pc'["reader"] = "rd_read" => pc["reader"] = "rd_read"
      BY <1>1 DEF CloseOnce, Goto, CallClose, CloseRet, At
  <2> QED
      BY <2>1, <2>2, LastReadQuiet
<1>2. ASSUME NEW p \in Procs, CloseWrite(p) PROVE LastReadInv'
  <2>1. UNCHANGED <<chunk, arrived, queue, left>>
      BY <1>2 DEF CloseWrite, packetVars
  <2>2. pc'["reader"] = "rd_read" => pc["reader"] = "rd_read"
      BY <1>2 DEF CloseWrite, Goto, CallClose, CloseRet, At
  <2> QED
      BY <2>1, <2>2, LastReadQuiet
<1>3. ASSUME NEW p \in Procs, CloseSock(p) PROVE LastReadInv'
  <2>1. UNCHANGED <<chunk, arrived, queue, left>>
      BY <1>3 DEF CloseSock, packetVars
  <2>2. pc'["reader"] = "rd_read" => pc["reader"] = "rd_read"
      BY <1>3 DEF CloseSock, Goto, CallClose, CloseRet, At
  <2> QED
      BY <2>1, <2>2, LastReadQuiet
<1>4. ASSUME NEW p \in Procs, CloseDispatch(p) PROVE LastReadInv'
  <2>1. UNCHANGED <<chunk, arrived, queue, left>>
      BY <1>4 DEF CloseDispatch, packetVars
  <2>2. pc'["reader"] = "rd_read" => pc["reader"] = "rd_read"
      BY <1>4 DEF CloseDispatch, Goto, CallClose, CloseRet, At
  <2> QED
      BY <2>1, <2>2, LastReadQuiet
<1>5. ASSUME NEW p \in Users, UserClose(p) PROVE LastReadInv'
  <2>1. UNCHANGED <<chunk, arrived, queue, left>>
      BY <1>5 DEF UserClose, packetVars
  <2>2. pc'["reader"] = "rd_read" => pc["reader"] = "rd_read"
      BY <1>5 DEF UserClose, Goto, CallClose, CloseRet, At
  <2> QED
      BY <2>1, <2>2, LastReadQuiet
<1>6. ASSUME NEW p \in Users, UserWrite(p) PROVE LastReadInv'
  <2>1. UNCHANGED <<chunk, arrived, queue, left>>
      BY <1>6 DEF UserWrite, packetVars
  <2>2. pc'["reader"] = "rd_read" => pc["reader"] = "rd_read"
      BY <1>6 DEF UserWrite, Goto, CallClose, CloseRet, At
  <2> QED
      BY <2>1, <2>2, LastReadQuiet
<1>7. ASSUME NEW p \in Users, WriteSend(p) PROVE LastReadInv'
  <2>1. UNCHANGED <<chunk, arrived, queue, left>>
      BY <1>7 DEF WriteSend, Enqueue, packetVars
  <2>2. pc'["reader"] = "rd_read" => pc["reader"] = "rd_read"
      BY <1>7 DEF WriteSend, Goto, CallClose, CloseRet, At
  <2> QED
      BY <2>1, <2>2, LastReadQuiet
<1>8. CASE DialCheck
  <2>1. UNCHANGED <<chunk, arrived, queue, left>>
      BY <1>8 DEF DialCheck, packetVars
  <2>2. pc'["reader"] = "rd_read" => pc["reader"] = "rd_read"
      BY <1>8 DEF DialCheck, Goto, CallClose, CloseRet, At
  <2> QED
      BY <2>1, <2>2, LastReadQuiet
<1>9. CASE DialSend
  <2>1. UNCHANGED <<chunk, arrived, queue, left>>
      BY <1>9 DEF DialSend, packetVars
  <2>2. pc'["reader"] = "rd_read" => pc["reader"] = "rd_read"
      BY <1>9 DEF DialSend, Goto, CallClose, CloseRet, At
  <2> QED
      BY <2>1, <2>2, LastReadQuiet
<1>10. CASE WrTop
  <2>1. UNCHANGED <<chunk, arrived, queue, left>>
      BY <1>10 DEF WrTop, packetVars
  <2>2. pc'["reader"] = "rd_read" => pc["reader"] = "rd_read"
      BY <1>10 DEF WrTop, Goto, CallClose, CloseRet, At
  <2> QED
      BY <2>1, <2>2, LastReadQuiet
<1>11. CASE WrTake
  <2>1. UNCHANGED <<chunk, arrived, queue, left>>
      BY <1>11 DEF WrTake, packetVars
  <2>2. pc'["reader"] = "rd_read" => pc["reader"] = "rd_read"
      BY <1>11 DEF WrTake, Goto, CallClose, CloseRet, At
  <2> QED
      BY <2>1, <2>2, LastReadQuiet
<1>12. CASE WrEnd
  <2>1. UNCHANGED <<chunk, arrived, queue, left>>
      BY <1>12 DEF WrEnd, packetVars
  <2>2. pc'["reader"] = "rd_read" => pc["reader"] = "rd_read"
      BY <1>12 DEF WrEnd, Goto, CallClose, CloseRet, At
  <2> QED
      BY <2>1, <2>2, LastReadQuiet
<1>13. CASE WrTick
  <2>1. UNCHANGED <<chunk, arrived, queue, left>>
      BY <1>13 DEF WrTick, packetVars
  <2>2. pc'["reader"] = "rd_read" => pc["reader"] = "rd_read"
      BY <1>13 DEF WrTick, Goto, CallClose, CloseRet, At
  <2> QED
      BY <2>1, <2>2, LastReadQuiet
<1>14. CASE WrCheck
  <2>1. UNCHANGED <<chunk, arrived, queue, left>>
      BY <1>14 DEF WrCheck, packetVars
  <2>2. pc'["reader"] = "rd_read" => pc["reader"] = "rd_read"
      BY <1>14 DEF WrCheck, Goto, CallClose, CloseRet, At
  <2> QED
      BY <2>1, <2>2, LastReadQuiet
<1>15. CASE WrWrite
  <2>1. UNCHANGED <<chunk, arrived, queue, left>>
      BY <1>15 DEF WrWrite, packetVars
  <2>2. pc'["reader"] = "rd_read" => pc["reader"] = "rd_read"
      BY <1>15 DEF WrWrite, Goto, CallClose, CloseRet, At
  <2> QED
      BY <2>1, <2>2, LastReadQuiet
<1>16. CASE WrFail
  <2>1. UNCHANGED <<chunk, arrived, queue, left>>
      BY <1>16 DEF WrFail, packetVars
  <2>2. pc'["reader"] = "rd_read" => pc["reader"] = "rd_read"
      BY <1>16 DEF WrFail, Goto, CallClose, CloseRet, At
  <2> QED
      BY <2>1, <2>2, LastReadQuiet
<1>17. CASE RdTop
  <2>1. UNCHANGED <<chunk, arrived, queue, left>>
      BY <1>17 DEF RdTop, packetVars
  <2>2. pc'["reader"] = "rd_read" => left = -1
      BY <1>17 DEF RdTop, Goto, At, ConsumerInv
  <2> QED
      BY <2>1, <2>2, LastReadQuiet
<1>18. CASE RdRead
  <2> SUFFICES ASSUME transport = "tcp" PROVE LastReadInv'
      BY DEF LastReadInv
  <2>1. PICK r \in Reads : /\ chunk' = Interval(arrived + 1, r[1])
                            /\ Goto("reader", IF r = <<0, "none">> THEN "rd_top" ELSE "rd_add")
      BY <1>18 DEF RdRead
  <2>2. r[1] \in Nat /\ r[1] =< MaxChunk
      BY ReadFacts
  <2>3. Len(chunk') =< MaxChunk
      BY <1>b, <2>1, <2>2, IntervalFacts
  <2>4. pc["reader"] = "rd_read" /\ pc'["reader"] # "rd_read" /\ UNCHANGED <<queue, left>>
      BY <1>18, <2>1 DEF RdRead, At, Goto
  <2>5. left >= 0 => Len(queue) = left
      BY <2>4 DEF LastReadInv, At
  <2> QED
      BY <1>b, <2>3, <2>4, <2>5 DEF LastReadInv, At
<1>19. CASE RdAdd
  <2> SUFFICES ASSUME transport = "tcp" PROVE LastReadInv'
      BY DEF LastReadInv
  <2>1. /\ chunk # <<>> /\ chunk' = Tail(chunk) /\ UNCHANGED <<arrived, left>>
        /\ pc'["reader"] # "rd_read"
      BY <1>19 DEF RdAdd, Goto
  <2>2. Len(chunk') =< MaxChunk
      BY <1>b, <2>1, Constants DEF LastReadInv
  <2>3. CASE UNCHANGED queue
      BY <2>1, <2>2, <2>3 DEF LastReadInv, At
  <2>4. CASE queue' = Append(queue, Head(chunk))
    <3>1. Head(chunk) = chunk[1] /\ Len(chunk) \in Nat /\ Len(chunk) > 0 /\ Len(chunk) =< MaxChunk
        BY <1>b, <2>1 DEF LastReadInv
    <3>2. chunk[1] = arrived - Len(chunk) + 1
        BY <1>b, <3>1 DEF PacketInv, Follows, Handled
    <3>3. Head(chunk) \in Nat /\ Head(chunk) > arrived - MaxChunk
        BY <1>b, <3>1, <3>2, Constants
    <3>4. /\ Len(queue') = Len(queue) + 1 /\ queue'[Len(queue) + 1] = Head(chunk)
          /\ \A i \in 1..Len(queue) : queue'[i] = queue[i]
        BY <1>b, <2>4, <3>3, AppendFacts
    <3>5. ASSUME left >= 0, NEW i \in (left + 1)..Len(queue') PROVE queue'[i] > arrived - MaxChunk
      <4>1. i \in 1..Len(queue) \/ i = Len(queue) + 1
          BY <1>b, <3>4, <3>5
      <4>2. CASE i = Len(queue) + 1
          BY <3>3, <3>4, <4>2
      <4>3. CASE i \in 1..Len(queue)
          BY <1>b, <3>4, <3>5, <4>3 DEF LastReadInv
      <4> QED
          BY <4>1, <4>2, <4>3
    <3> QED
        BY <2>1, <2>2, <3>5 DEF LastReadInv, At
  <2> QED
      BY <1>19, <2>3, <2>4 DEF RdAdd, AddPacket
<1>20. CASE RdAfter
  <2>1. UNCHANGED <<chunk, arrived, queue, left>>
      BY <1>20 DEF RdAfter, packetVars
  <2>2. pc'["reader"] = "rd_read" => pc["reader"] = "rd_read"
      BY <1>20 DEF RdAfter, Goto, CallClose, CloseRet, At
  <2> QED
      BY <2>1, <2>2, LastReadQuiet
<1>21. CASE RdFail
  <2>1. UNCHANGED <<chunk, arrived, queue, left>>
      BY <1>21 DEF RdFail, packetVars
  <2>2. pc'["reader"] = "rd_read" => pc["reader"] = "rd_read"
      BY <1>21 DEF RdFail, Goto, CallClose, CloseRet, At
  <2> QED
      BY <2>1, <2>2, LastReadQuiet
<1>22. CASE OnPacket
  <2>1. UNCHANGED <<chunk, arrived, queue, left>>
      BY <1>22 DEF OnPacket, packetVars
  <2>2. pc'["reader"] = "rd_read" => pc["reader"] = "rd_read"
      BY <1>22 DEF OnPacket, Goto, CallClose, CloseRet, At
  <2> QED
      BY <2>1, <2>2, LastReadQuiet
<1>23. CASE CsTop
  <2>1. UNCHANGED <<chunk, arrived, queue>> /\ pc'["reader"] = pc["reader"]
      BY <1>23 DEF CsTop, Goto
  <2>2. CASE UNCHANGED left
      BY <2>1, <2>2, LastReadQuiet
  <2>3. CASE left' = Len(queue)
      BY <1>b, <2>1, <2>3 DEF LastReadInv, At
  <2> QED
      BY <1>23, <2>2, <2>3 DEF CsTop
<1>24. CASE CsTake
  <2>1. /\ queue # <<>> /\ queue' = Tail(queue) /\ UNCHANGED <<chunk, arrived>>
        /\ pc'["reader"] = pc["reader"]
      BY <1>24 DEF CsTake, Goto
  <2>2. /\ Len(queue) \in Nat /\ Len(queue') = Len(queue) - 1
        /\ \A i \in 1..Len(queue') : queue'[i] = queue[i + 1]
      BY <1>b, <2>1
  <2>3. CASE left = -1 /\ UNCHANGED left
      BY <2>1, <2>3 DEF LastReadInv, At
  <2>4. CASE left > 0 /\ left' = left - 1
    <3> SUFFICES ASSUME transport = "tcp" PROVE LastReadInv'
        BY DEF LastReadInv
    <3>1. ASSUME NEW i \in (left' + 1)..Len(queue') PROVE queue'[i] > arrived - MaxChunk
      <4>1. i \in 1..Len(queue') /\ i + 1 \in (left + 1)..Len(queue)
          BY <1>b, <2>2, <2>4
      <4>2. queue[i + 1] > arrived - MaxChunk
          BY <1>b, <2>4, <4>1 DEF LastReadInv
      <4> QED
          BY <2>2, <4>1, <4>2
    <3>2. pc["reader"] = "rd_read" => Len(queue') = left'
        BY <1>b, <2>2, <2>4 DEF LastReadInv, At
    <3> QED
        BY <2>1, <3>1, <3>2 DEF LastReadInv, At
  <2> QED
      BY <1>24, <2>3, <2>4 DEF CsTake, At, ConsumerInv
<1>25. CASE CsDrained
  <2>1. UNCHANGED <<chunk, arrived, queue, left>>
      BY <1>25 DEF CsDrained, packetVars
  <2>2. pc'["reader"] = "rd_read" => pc["reader"] = "rd_read"
      BY <1>25 DEF CsDrained, Goto, CallClose, CloseRet, At
  <2> QED
      BY <2>1, <2>2, LastReadQuiet
<1>26. CASE CsFin
  <2>1. UNCHANGED <<chunk, arrived, queue, left>>
      BY <1>26 DEF CsFin, packetVars
  <2>2. pc'["reader"] = "rd_read" => pc["reader"] = "rd_read"
      BY <1>26 DEF CsFin, Goto, CallClose, CloseRet, At
  <2> QED
      BY <2>1, <2>2, LastReadQuiet
<1> QED
    BY Steps, <1>1, <1>2, <1>3, <1>4, <1>5, <1>6, <1>7, <1>8, <1>9, <1>10, <1>11, <1>12, <1>13,
       <1>14, <1>15, <1>16, <1>17, <1>18, <1>19, <1>20, <1>21, <1>22, <1>23, <1>24, <1>25, <1>26

-----------------------------------------------------------------------------
LEMMA NextInv == ConnInvariant /\ [Next]_vars => ConnInvariant'
<1> SUFFICES ASSUME ConnInvariant, [Next]_vars PROVE ConnInvariant'
    OBVIOUS
<1> USE DEF ConnInvariant
<1>1. CASE Next
    BY <1>1, TypeNext, PcNext, CloseNext, ConsumerNext, DialNext, WireNext, PacketNext, LastReadNext
<1>2. CASE UNCHANGED vars
  <2>1. /\ UNCHANGED <<transport, pc, ready, closeCh, once, sock, dispatched, writeCh, writeClosed, accepted>>
        /\ UNCHANGED <<cur, buf, out, packetCh, queue, arrived, chunk, after, dropped, left, delivered, panic>>
      BY <1>2 DEF vars, closeVars, writeVars, wireVars, packetVars
  <2>2. TypeOK'
      BY <2>1 DEF TypeOK, ControlTypes, WriteTypes, PacketTypes
  <2>3. PcOK'
      BY <2>1 DEF PcOK
  <2>4. CloseInv'
      BY <2>1 DEF CloseInv, CloseState, CloseBody, At
  <2>5. ConsumerInv'
      BY <2>1, ConsumerQuiet
  <2>6. DialInv'
      BY <2>1 DEF DialInv, At
  <2>7. WireInv'
      BY <2>1, WireQuiet
  <2>8. PacketInv'
      BY <2>1, PacketQuiet DEF Kept
  <2>9. LastReadInv'
      BY <2>1, LastReadQuiet
  <2> QED
      BY <2>2, <2>3, <2>4, <2>5, <2>6, <2>7, <2>8, <2>9
<1> QED
    BY <1>1, <1>2

\* Whatever goroutines use a connection and however their steps fall: where each of
\* them is, what Close has done, which bytes and packets are where, and which of them
\* can be left behind, is what ConnInvariant says.  The other theorems follow from it.
THEOREM Invariant == Spec => []ConnInvariant
BY InitInv, NextInv, PTL DEF Spec

\* Every variable of a connection has its type, and neither writeCh nor packetCh ever
\* holds more than its size.
THEOREM TypeCorrect == Spec => []TypeOK
<1>1. ConnInvariant => TypeOK
    BY DEF ConnInvariant
<1> QED
    BY <1>1, Invariant, PTL

\* Close, called by any number of goroutines at once, runs the callbacks at most once,
\* after the socket and writeCh are closed, and closes no channel twice.
THEOREM ClosesOnceTheorem == Spec => []ClosesOnce
<1>1. ConnInvariant => ClosesOnce
    BY DEF ConnInvariant, CloseInv, CloseState, ClosesOnce
<1> QED
    BY <1>1, Invariant, PTL

\* addPacket and the consumer of OnPacket lose, repeat and reorder nothing: what was
\* delivered, then the queue, then what is still to be handled, are the packets that
\* arrived without the dropped ones, in the order of arrival.
THEOREM PacketsAccountedTheorem == Spec => []PacketsAccounted
<1>1. ASSUME ConnInvariant PROVE PacketsAccounted
  <2> DEFINE K == Kept
             kept == delivered \o queue \o chunk
  <2>1. /\ chunk \in Seq(Nat) /\ queue \in Seq(Nat) /\ delivered \in Seq(Nat) /\ arrived \in Nat
        /\ dropped \subseteq Nat
      BY <1>1 DEF ConnInvariant, TypeOK, PacketTypes
  <2>2. K \in Seq(Nat) /\ Len(K) \in Nat /\ Len(chunk) \in Nat
      BY <2>1, ConcatFacts DEF Kept
  <2>3. kept = K \o chunk
      BY DEF Kept
  <2>4. /\ Handled \in Nat /\ arrived = Handled + Len(chunk)
        /\ \A i \in 1..Len(chunk) : chunk[i] = Handled + i
        /\ \A i, j \in 1..Len(K) : i < j => K[i] < K[j]
        /\ \A i \in 1..Len(K) : K[i] \in (1..Handled) \ dropped
        /\ \A k \in (1..Handled) \ dropped : \E i \in 1..Len(K) : K[i] = k
        /\ dropped \subseteq 1..Handled
      BY <1>1, <2>1, <2>2 DEF ConnInvariant, PacketInv, Follows, Handled
  <2> HIDE DEF K
  <2>5. /\ kept \in Seq(Nat) /\ Len(kept) = Len(K) + Len(chunk)
        /\ \A i \in 1..(Len(K) + Len(chunk)) :
              kept[i] = IF i =< Len(K) THEN K[i] ELSE chunk[i - Len(K)]
      BY <2>1, <2>2, <2>3, ConcatFacts
  <2>6. DOMAIN kept = 1..(Len(K) + Len(chunk))
      BY <2>5
  <2> HIDE DEF kept
  <2>7. ASSUME NEW i \in 1..(Len(K) + Len(chunk)), i > Len(K)
        PROVE  i - Len(K) \in 1..Len(chunk) /\ kept[i] = Handled + (i - Len(K))
    <3>1. i - Len(K) \in 1..Len(chunk)
        BY <2>2, <2>7
    <3>2. kept[i] = IF i =< Len(K) THEN K[i] ELSE chunk[i - Len(K)]
        BY <2>5
    <3>3. ~(i =< Len(K))
        BY <2>2, <2>7
    <3>4. kept[i] = chunk[i - Len(K)]
        BY <3>2, <3>3
    <3> QED
        BY <2>4, <3>1, <3>4
  <2>8. ASSUME NEW i \in 1..(Len(K) + Len(chunk)), i =< Len(K)
        PROVE  i \in 1..Len(K) /\ kept[i] = K[i] /\ kept[i] \in (1..Handled) \ dropped
    <3>1. i \in 1..Len(K)
        BY <2>2, <2>8
    <3>2. kept[i] = K[i]
        BY <2>5, <2>8
    <3> QED
        BY <2>4, <3>1, <3>2
  <2>9. ASSUME NEW i \in 1..(Len(K) + Len(chunk)), NEW j \in 1..(Len(K) + Len(chunk)), i < j
        PROVE  kept[i] < kept[j]
    <3>1. CASE i =< Len(K) /\ j =< Len(K)
        BY <2>4, <2>8, <2>9, <3>1
    <3>2. CASE i =< Len(K) /\ j > Len(K)
        BY <2>2, <2>4, <2>7, <2>8, <3>2
    <3>3. CASE i > Len(K) /\ j > Len(K)
        BY <2>2, <2>4, <2>7, <2>9, <3>3
    <3> QED
        BY <2>2, <2>9, <3>1, <3>2, <3>3
  <2>10. ASSUME NEW i \in 1..(Len(K) + Len(chunk)) PROVE kept[i] \in (1..arrived) \ dropped
    <3>1. CASE i =< Len(K)
        BY <2>2, <2>4, <2>8, <3>1
    <3>2. CASE i > Len(K)
        BY <2>2, <2>4, <2>7, <3>2
    <3> QED
        BY <2>2, <3>1, <3>2
  <2>11. ASSUME NEW k \in (1..arrived) \ dropped
         PROVE  \E i \in 1..(Len(K) + Len(chunk)) : kept[i] = k
    <3>1. CASE k =< Handled
      <4>1. PICK i \in 1..Len(K) : K[i] = k
          BY <2>4, <3>1
      <4> QED
          BY <2>2, <2>8, <4>1
    <3>2. CASE k > Handled
      <4>1. Len(K) + (k - Handled) \in 1..(Len(K) + Len(chunk)) /\ Len(K) + (k - Handled) > Len(K)
          BY <2>2, <2>4, <3>2
      <4>2. kept[Len(K) + (k - Handled)] = k
          BY <2>2, <2>4, <2>7, <4>1
      <4> QED
          BY <4>1, <4>2
    <3> QED
        BY <2>4, <3>1, <3>2
  <2>12. {kept[i] : i \in DOMAIN kept} = (1..arrived) \ dropped
      BY <2>6, <2>10, <2>11
  <2> QED
      BY <2>6, <2>9, <2>12 DEF PacketsAccounted, kept
<1> QED
    BY <1>1, Invariant, PTL

\* Over TCP the consumer leaves behind only packets of the last read.
THEOREM LeavesOnlyLastReadTheorem == Spec => []LeavesOnlyLastRead
<1>1. ASSUME ConnInvariant PROVE LeavesOnlyLastRead
  <2> SUFFICES ASSUME transport = "tcp", packetCh = "closed", NEW i \in DOMAIN queue
               PROVE  queue[i] > arrived - MaxChunk
      BY DEF LeavesOnlyLastRead
  <2>1. left = 0 /\ queue \in Seq(Nat)
      BY <1>1 DEF ConnInvariant, ConsumerInv, TypeOK, PacketTypes
  <2>2. i \in (left + 1)..Len(queue)
      BY <2>1
  <2> QED
      BY <1>1, <2>1, <2>2 DEF ConnInvariant, LastReadInv
<1> QED
    BY <1>1, Invariant, PTL

-----------------------------------------------------------------------------
(* The connection implements ByteStream.                                     *)

\* When more bytes are on the wire, they are the next ones.
LEMMA TransmitFacts ==
    ASSUME out \in Seq(Nat), out' \in Seq(Nat), Follows(out, 0), Follows(out, 0)',
           accepted \in Nat, UNCHANGED accepted, Len(out) < Len(out'), Len(out') =< accepted
    PROVE  Stream!Transmit
<1> DEFINE n == Len(out') - Len(out)
           b == Stream!Bytes(Len(out) + 1, n)
<1>1. Len(out) \in Nat /\ Len(out') \in Nat /\ n \in Nat /\ n \in 1..(accepted - Len(out))
    OBVIOUS
<1>2. b \in Seq(Nat) /\ Len(b) = n /\ \A i \in 1..n : b[i] = Len(out) + i
    BY <1>1 DEF Stream!Bytes
<1>3. \A i \in 1..Len(out) : out[i] = i
    BY <1>1 DEF Follows
<1>4. \A i \in 1..Len(out') : out'[i] = i
    BY <1>1 DEF Follows
<1> HIDE DEF b
<1>5. /\ out \o b \in Seq(Nat) /\ Len(out \o b) = Len(out) + n
      /\ \A i \in 1..(Len(out) + n) : (out \o b)[i] = IF i =< Len(out) THEN out[i] ELSE b[i - Len(out)]
  <2>1. /\ out \o b \in Seq(Nat) /\ Len(out \o b) = Len(out) + Len(b)
        /\ \A i \in 1..(Len(out) + Len(b)) :
              (out \o b)[i] = IF i =< Len(out) THEN out[i] ELSE b[i - Len(out)]
      BY <1>2, ConcatFacts
  <2> QED
      BY <1>2, <2>1
<1>6. Len(out) + n = Len(out')
    BY <1>1
<1> HIDE DEF n
<1>7. ASSUME NEW i \in 1..Len(out') PROVE out'[i] = (out \o b)[i]
  <2>1. (out \o b)[i] = IF i =< Len(out) THEN out[i] ELSE b[i - Len(out)]
      BY <1>5, <1>6
  <2>2. CASE i =< Len(out)
      BY <1>1, <1>3, <1>4, <2>1, <2>2
  <2>3. CASE ~(i =< Len(out))
    <3>1. i - Len(out) \in 1..n
        BY <1>1, <1>6, <2>3
    <3>2. b[i - Len(out)] = Len(out) + (i - Len(out))
        BY <1>2, <3>1
    <3> QED
        BY <1>1, <1>4, <2>1, <2>3, <3>2
  <2> QED
      BY <2>2, <2>3
<1>8. out' = out \o b
    BY <1>5, <1>6, <1>7, SameSeq
<1>9. \E k \in 1..(accepted - Len(out)) : out' = out \o Stream!Bytes(Len(out) + 1, k)
    BY <1>1, <1>8 DEF b
<1> QED
    BY <1>9 DEF Stream!Transmit

LEMMA StreamStep ==
    ASSUME TypeOK, TypeOK', WireInv, WireInv', DialInv, Next
    PROVE  [Stream!Accept \/ Stream!Transmit]_<<accepted, out>>
<1>1. /\ out \in Seq(Nat) /\ out' \in Seq(Nat) /\ accepted \in Nat /\ accepted' \in Nat
      /\ Len(out) \in Nat /\ Len(out') \in Nat
    BY DEF TypeOK, WriteTypes
<1>2. ASSUME UNCHANGED accepted, Len(out) =< Len(out'), Len(out) = Len(out') => out' = out
      PROVE  [Stream!Accept \/ Stream!Transmit]_<<accepted, out>>
  <2>1. CASE out' = out
      BY <1>2, <2>1
  <2>2. CASE out' # out
    <3>1. Len(out) < Len(out') /\ Len(out') =< accepted
        BY <1>1, <1>2, <2>2 DEF WireInv
    <3>2. Stream!Transmit
        BY <1>1, <1>2, <3>1, TransmitFacts DEF WireInv
    <3> QED
        BY <3>2
  <2> QED
      BY <2>1, <2>2
<1>3. ASSUME NEW p \in Users, WriteSend(p)
      PROVE  [Stream!Accept \/ Stream!Transmit]_<<accepted, out>>
  <2>1. PICK n \in 1..MaxLen : Enqueue(n)
      BY <1>3 DEF WriteSend
  <2>2. UNCHANGED out /\ (UNCHANGED accepted \/ accepted' = accepted + n)
      BY <2>1 DEF Enqueue, wireVars
  <2>3. n > 0 /\ n \in Nat
      BY Constants
  <2>4. accepted' = accepted \/ accepted' > accepted
      BY <1>1, <2>2, <2>3
  <2> QED
      BY <2>2, <2>4 DEF Stream!Accept
<1>4. CASE DialSend
  <2>1. UNCHANGED out /\ (UNCHANGED accepted \/ accepted' = HandshakeLen)
      BY <1>4 DEF DialSend, wireVars
  <2>2. accepted = 0
      BY <1>4 DEF DialSend, DialInv, At
  <2>3. accepted' = accepted \/ accepted' > accepted
      BY <2>1, <2>2, Constants
  <2> QED
      BY <2>1, <2>3 DEF Stream!Accept
<1>5. CASE WrWrite
  <2>1. PICK n \in 1..Len(cur) : out' = out \o SubSeq(cur, 1, n)
      BY <1>5 DEF WrWrite
  <2>2. cur \in Seq(Nat) /\ n \in 0..Len(cur) /\ n > 0
      BY DEF TypeOK, WriteTypes
  <2>3. SubSeq(cur, 1, n) \in Seq(Nat) /\ Len(SubSeq(cur, 1, n)) = n
      BY <2>2, SubSeqFacts
  <2>4. Len(out') = Len(out) + n
      BY <1>1, <2>1, <2>3, ConcatFacts
  <2>5. Len(out) =< Len(out') /\ Len(out) # Len(out') /\ UNCHANGED accepted
      BY <1>1, <1>5, <2>2, <2>4 DEF WrWrite, writeVars
  <2> QED
      BY <1>2, <2>5
<1>6. CASE WrFail
  <2>1. PICK n \in 0..(Len(cur) - 1) : out' = out \o SubSeq(cur, 1, n)
      BY <1>6 DEF WrFail
  <2>2. cur \in Seq(Nat) /\ n \in 0..Len(cur)
      BY DEF TypeOK, WriteTypes
  <2>3. SubSeq(cur, 1, n) \in Seq(Nat) /\ Len(SubSeq(cur, 1, n)) = n
      BY <2>2, SubSeqFacts
  <2>4. /\ Len(out') = Len(out) + n
        /\ \A i \in 1..Len(out) : out'[i] = out[i]
      BY <1>1, <2>1, <2>3, ConcatFacts
  <2>5. Len(out) =< Len(out') /\ UNCHANGED accepted
      BY <1>1, <1>6, <2>2, <2>4 DEF WrFail, writeVars
  <2>6. Len(out) = Len(out') => out' = out
      BY <1>1, <2>4, SameSeq
  <2> QED
      BY <1>2, <2>5, <2>6
<1>7. UNCHANGED <<accepted, out>> => [Stream!Accept \/ Stream!Transmit]_<<accepted, out>>
    OBVIOUS
<1> QED
    BY Steps, <1>3, <1>4, <1>5, <1>6, <1>7
    DEF writeVars, wireVars, CloseOnce, CloseWrite, CloseSock, CloseDispatch, UserClose, UserWrite,
        DialCheck, WrTop, WrTake, WrEnd, WrTick, WrCheck, RdTop, RdRead, RdAdd, RdAfter, RdFail,
        OnPacket, CsTop, CsTake, CsDrained, CsFin

\* The bytes on the wire are the accepted ones in the order of acceptance: every step of
\* the write queue, the writing goroutine and the socket is one of ByteStream or none.
THEOREM StreamRefinement == Spec => ImplementsByteStream
<1>1. Init => Stream!Init
    BY DEF Init, Stream!Init
<1>2. ConnInvariant /\ ConnInvariant' /\ [Next]_vars => [Stream!Accept \/ Stream!Transmit]_<<accepted, out>>
  <2>1. ConnInvariant /\ ConnInvariant' /\ Next => [Stream!Accept \/ Stream!Transmit]_<<accepted, out>>
      BY StreamStep DEF ConnInvariant
  <2>2. UNCHANGED vars => UNCHANGED <<accepted, out>>
      BY DEF vars, writeVars, wireVars
  <2> QED
      BY <2>1, <2>2
<1> QED
    BY <1>1, <1>2, Invariant, PTL DEF Spec, ImplementsByteStream, Stream!Spec

-----------------------------------------------------------------------------
(* The connection implements ConnView.                                       *)

LEMMA FrontFacts ==
    ASSUME NEW q \in Seq(Nat), NEW m \in Nat
    PROVE  SubSeq(Append(q, m), 1, Len(q)) = q
<1> DEFINE a == Append(q, m)
<1>1. a \in Seq(Nat) /\ Len(a) = Len(q) + 1 /\ \A i \in 1..Len(q) : a[i] = q[i]
    BY AppendFacts
<1>2. Len(q) \in Nat
    OBVIOUS
<1> HIDE DEF a
<1>3. Len(q) \in 0..Len(a)
    BY <1>1, <1>2
<1>4. /\ SubSeq(a, 1, Len(q)) \in Seq(Nat) /\ Len(SubSeq(a, 1, Len(q))) = Len(q)
      /\ \A i \in 1..Len(q) : SubSeq(a, 1, Len(q))[i] = a[i]
    BY <1>1, <1>3, SubSeqFacts
<1>5. SubSeq(a, 1, Len(q)) = q
    BY <1>1, <1>4, SameSeq
<1> QED
    BY <1>5 DEF a

\* Every step of the connection is a step that ConnView allows, or none it can see.
LEMMA ViewStep == TypeOK /\ CloseInv /\ ConsumerInv /\ Next => [View!Next]_View!vars
<1> SUFFICES ASSUME TypeOK, CloseInv, ConsumerInv, Next PROVE [View!Next]_View!vars
    OBVIOUS
<1>0. UNCHANGED <<once, packetCh, queue, left>> => [View!Next]_View!vars
    BY DEF View!vars
<1>b. queue \in Seq(Nat) /\ chunk \in Seq(Nat)
    BY DEF TypeOK, PacketTypes
<1> USE DEF View!vars
<1>1. ASSUME NEW p \in Procs, CloseOnce(p) PROVE [View!Next]_View!vars
  <2>1. UNCHANGED <<packetCh, queue, left>>
      BY <1>1 DEF CloseOnce, packetVars
  <2>2. CASE once = "free" /\ once' = "busy"
      BY <2>1, <2>2 DEF View!BeginClose, View!Next
  <2>3. CASE UNCHANGED once
      BY <1>0, <2>1, <2>3
  <2> QED
      BY <1>1, <2>2, <2>3 DEF CloseOnce
<1>2. ASSUME NEW p \in Procs, CloseDispatch(p) PROVE [View!Next]_View!vars
  <2>1. once = "busy" /\ once' = "done" /\ UNCHANGED <<packetCh, queue, left>>
      BY <1>2 DEF CloseDispatch, At, CloseInv, CloseBody, Closing, packetVars
  <2> QED
      BY <2>1 DEF View!EndClose, View!Next
<1>3. CASE RdAdd
  <2>1. UNCHANGED <<once, packetCh, left>> /\ chunk # <<>>
      BY <1>3 DEF RdAdd, closeVars
  <2>2. CASE packetCh = "open" /\ Len(queue) < ReadQueueSize /\ queue' = Append(queue, Head(chunk))
    <3>1. Head(chunk) \in Nat
        BY <1>b, <2>1
    <3>2. Len(queue') = Len(queue) + 1 /\ SubSeq(queue', 1, Len(queue)) = queue
        BY <1>b, <2>2, <3>1, AppendFacts, FrontFacts
    <3> QED
        BY <2>1, <2>2, <3>2 DEF View!Put, View!Next
  <2>3. CASE UNCHANGED queue
      BY <1>0, <2>1, <2>3
  <2> QED
      BY <1>3, <2>2, <2>3 DEF RdAdd, AddPacket, Room
<1>4. CASE OnPacket
  <2>1. packetCh = "nil" /\ packetCh' = "open" /\ UNCHANGED <<once, queue, left>>
      BY <1>4 DEF OnPacket, closeVars
  <2> QED
      BY <2>1 DEF View!Listen, View!Next
<1>5. CASE CsTop
  <2>1. /\ packetCh = "open" /\ left = -1 /\ UNCHANGED <<once, packetCh, queue>>
      BY <1>5 DEF CsTop, At, ConsumerInv, closeVars
  <2>2. CASE closeCh /\ left' = Len(queue)
    <3>1. once # "free"
        BY <2>2 DEF CloseInv, CloseState
    <3> QED
        BY <2>1, <2>2, <3>1 DEF View!Settle, View!Next
  <2>3. CASE UNCHANGED left
      BY <1>0, <2>1, <2>3
  <2> QED
      BY <1>5, <2>2, <2>3 DEF CsTop
<1>6. CASE CsTake
  <2>1. packetCh = "open" /\ queue # <<>> /\ queue' = Tail(queue) /\ UNCHANGED <<once, packetCh>>
      BY <1>6 DEF CsTake, At, ConsumerInv, closeVars
  <2>2. (left = -1 /\ UNCHANGED left) \/ (left > 0 /\ left' = left - 1)
      BY <1>6 DEF CsTake, At, ConsumerInv
  <2> QED
      BY <2>1, <2>2 DEF View!Take, View!Next
<1>7. CASE CsFin
  <2>1. packetCh = "open" /\ left = 0 /\ packetCh' = "closed" /\ UNCHANGED <<once, queue, left>>
      BY <1>7 DEF CsFin, At, ConsumerInv, closeVars
  <2> QED
      BY <2>1 DEF View!Shut, View!Next
<1> QED
    BY Steps, <1>0, <1>1, <1>2, <1>3, <1>4, <1>5, <1>6, <1>7 DEF CloseWrite, CloseSock,
       UserClose, UserWrite, WriteSend, DialCheck, DialSend, WrTop, WrTake, WrEnd, WrTick,
       WrCheck, WrWrite, WrFail, RdTop, RdRead, RdAfter, RdFail, CsDrained, Enqueue, packetVars,
       closeVars

\* To the goroutine that takes its packets the connection, over either transport, is what
\* ConnView describes, and so what the connections of module Client are.
THEOREM ViewRefinement == Spec => ImplementsConnView
<1>1. Init => View!Init
    BY DEF Init, View!Init
<1>2. ConnInvariant /\ [Next]_vars => [View!Next]_View!vars
  <2>1. ConnInvariant /\ Next => [View!Next]_View!vars
      BY ViewStep DEF ConnInvariant
  <2>2. UNCHANGED vars => UNCHANGED View!vars
      BY DEF vars, closeVars, packetVars, View!vars
  <2> QED
      BY <2>1, <2>2
<1> QED
    BY <1>1, <1>2, Invariant, PTL DEF Spec, ImplementsConnView, View!Spec
=============================================================================
