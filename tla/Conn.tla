-------------------------------- MODULE Conn --------------------------------
(***************************************************************************)
(* One connection as ClientConn implements it over TCP (tcp_conn.go) and   *)
(* over a WebSocket (ws_conn.go): the write queue and the writing          *)
(* goroutine, the reading goroutine and packetCh, the consumer that        *)
(* OnPacket starts, and Close.                                             *)
(*                                                                         *)
(* Bytes are numbered in the order in which the write queue accepts them   *)
(* and packets in the order in which they arrive, so that order, loss and  *)
(* duplication can be seen.  Framing is not modelled here: a read returns  *)
(* whole packets.  WebSocket control frames bypass the write queue and are *)
(* not part of out.                                                        *)
(***************************************************************************)
EXTENDS Integers, Sequences, FiniteSets

CONSTANTS
    Transports,       \* those of "tcp" and "ws" that are considered
    Users,            \* goroutines of the client that call Write
    Closers,          \* those of them that may call Close
    WriteQueueSize,   \* dialOptions.WriteQueueSize
    ReadQueueSize,    \* dialOptions.ReadQueueSize
    HandshakeLen,     \* protocol.HandshakeLength
    MaxLen,           \* the longest message
    MaxBytes,         \* no message is written past this many bytes
    MaxChunk,         \* packets in one read of a TCP connection
    MaxPackets        \* packets the server sends

ASSUME ConnAssumption ==
    /\ Transports \subseteq {"tcp", "ws"}
    /\ Closers \subseteq Users
    /\ Users \cap {"dialer", "reader", "writer", "consumer"} = {}
    /\ {WriteQueueSize, ReadQueueSize, HandshakeLen, MaxLen, MaxChunk} \subseteq Nat \ {0}
    /\ {MaxBytes, MaxPackets} \subseteq Nat

VARIABLES
    transport,         \* how the connection was dialed
    pc,                \* where each goroutine is
    ready,             \* the dial function has returned the connection
    closeCh,           \* closeCh is closed
    once,              \* closeOnce: free, busy, done
    sock,              \* the socket is open
    dispatched,        \* how often DispatchClose has run
    writeCh,           \* the queued messages
    writeClosed,       \* writeCh is closed
    accepted,          \* bytes the queue has accepted
    cur,               \* what the writing goroutine hands to the socket
    buf,               \* what the socket did not take
    out,               \* bytes the socket took
    packetCh, queue,   \* nil, open or closed; its packets
    arrived,           \* packets that have arrived
    chunk, after,      \* packets of the last read still to be handled, and what follows them
    dropped,           \* packets addPacket dropped
    left,              \* packets the consumer still drains, -1 before the close
    delivered,         \* packets handed to the callback of OnPacket
    panic

writeVars  == <<writeCh, writeClosed, accepted>>
wireVars   == <<cur, buf, out>>
packetVars == <<packetCh, queue, arrived, chunk, after, dropped, left, delivered>>
closeVars  == <<closeCh, once, sock, dispatched>>
vars == <<transport, pc, ready, closeVars, writeVars, wireVars, packetVars, panic>>

Procs  == Users \cup {"dialer", "reader", "writer", "consumer"}
Labels == {"off", "idle", "dial", "write", "close_once", "close_write", "close_sock",
           "close_dispatch", "rd_top", "rd_read", "rd_add", "wr_top", "wr_select",
           "wr_check", "wr_write", "cs_top", "cs_recv", "cs_drain", "cs_fin"}

\* What may follow the packets of a read: nothing; data that does not unpack (TCP)
\* or the peer's close (WebSocket), which ends reading; data that does not unpack
\* (WebSocket), which is left out.
Afters == {"none", "fail", "skip"}

Interval(lo, n) == [i \in 1..n |-> lo + i - 1]
Room(q, size)   == Len(q) < size

ControlTypes ==
    /\ transport \in Transports
    /\ pc \in [Procs -> Labels]
    /\ ready \in BOOLEAN /\ closeCh \in BOOLEAN /\ sock \in BOOLEAN
    /\ once \in {"free", "busy", "done"} /\ dispatched \in Nat
    /\ panic \in {"none", "close_of_closed_channel", "send_on_closed_channel"}

WriteTypes ==
    /\ writeCh \in Seq(Seq(Nat)) /\ Len(writeCh) =< WriteQueueSize
    /\ writeClosed \in BOOLEAN /\ accepted \in Nat
    /\ cur \in Seq(Nat) /\ buf \in Seq(Nat) /\ out \in Seq(Nat)

PacketTypes ==
    /\ packetCh \in {"nil", "open", "closed"}
    /\ queue \in Seq(Nat) /\ Len(queue) =< ReadQueueSize
    /\ arrived \in Nat /\ dropped \in SUBSET Nat /\ delivered \in Seq(Nat)
    /\ chunk \in Seq(Nat) /\ after \in Afters
    /\ left \in Nat \cup {-1}

\* Every variable has its type and the queues stay within their sizes.
TypeOK == ControlTypes /\ WriteTypes /\ PacketTypes

\* The dial function has started the two goroutines.  Over TCP it still has to
\* write the handshake.
Init ==
    /\ transport \in Transports
    /\ pc = [p \in Procs |-> CASE p = "dialer" -> IF transport = "tcp" THEN "dial" ELSE "off"
                               [] p = "reader" -> "rd_top"
                               [] p = "writer" -> "wr_top"
                               [] p = "consumer" -> "off"
                               [] OTHER -> "idle"]
    /\ ready = (transport = "ws")
    /\ closeCh = FALSE /\ once = "free" /\ sock = TRUE /\ dispatched = 0
    /\ writeCh = <<>> /\ writeClosed = FALSE /\ accepted = 0
    /\ cur = <<>> /\ buf = <<>> /\ out = <<>>
    /\ packetCh = "nil" /\ queue = <<>> /\ arrived = 0 /\ chunk = <<>> /\ after = "none"
    /\ dropped = {} /\ left = -1 /\ delivered = <<>>
    /\ panic = "none"
-----------------------------------------------------------------------------
At(p, l)   == pc[p] = l
Goto(p, l) == pc' = [pc EXCEPT ![p] = l]
Panic(why) == panic' = why

\* close(ch), which panics if ch is closed already.
CloseChan(closed) == panic' = IF closed THEN "close_of_closed_channel" ELSE panic

(* Close.  Users go on, the other goroutines end.                            *)

CloseRet(p) == IF p \in Users THEN "idle" ELSE "off"

\* The call and its early return.
CallClose(p) == Goto(p, IF closeCh THEN CloseRet(p) ELSE "close_once")

\* Variant: nothing makes sure that the body runs once.
CloseTwice(p) ==
    /\ At(p, "close_once")
    /\ closeCh' = TRUE /\ CloseChan(closeCh)
    /\ Goto(p, "close_write")
    /\ UNCHANGED <<ready, once, sock, dispatched, writeVars, wireVars, packetVars>>

\* closeOnce.Do: one goroutine runs the body, the others wait for it to end.
CloseOnce(p) ==
    /\ At(p, "close_once")
    /\ \/ /\ once = "free" /\ once' = "busy"
          /\ closeCh' = TRUE /\ CloseChan(closeCh)
          /\ Goto(p, "close_write")
       \/ once = "done" /\ Goto(p, CloseRet(p)) /\ UNCHANGED <<once, closeCh, panic>>
    /\ UNCHANGED <<ready, sock, dispatched, writeVars, wireVars, packetVars>>

CloseWrite(p) ==
    /\ At(p, "close_write")
    /\ writeClosed' = TRUE /\ CloseChan(writeClosed)
    /\ Goto(p, "close_sock")
    /\ UNCHANGED <<ready, closeVars, writeCh, accepted, wireVars, packetVars>>

\* Variant: the socket is left open.
CloseKeepSock(p) ==
    /\ At(p, "close_sock")
    /\ Goto(p, "close_dispatch")
    /\ UNCHANGED <<ready, closeVars, writeVars, wireVars, packetVars, panic>>

CloseSock(p) ==
    /\ At(p, "close_sock")
    /\ sock' = FALSE
    /\ Goto(p, "close_dispatch")
    /\ UNCHANGED <<ready, closeCh, once, dispatched, writeVars, wireVars, packetVars, panic>>

\* The callbacks; what they do is in module Client.
CloseDispatch(p) ==
    /\ At(p, "close_dispatch")
    /\ dispatched' = dispatched + 1
    /\ once' = "done"
    /\ Goto(p, CloseRet(p))
    /\ UNCHANGED <<ready, closeCh, sock, writeVars, wireVars, packetVars, panic>>

UserClose(p) ==
    /\ At(p, "idle") /\ ready /\ p \in Closers
    /\ ~closeCh
    /\ CallClose(p)
    /\ UNCHANGED <<ready, closeVars, writeVars, wireVars, packetVars, panic>>
-----------------------------------------------------------------------------
(* Write                                                                     *)

\* select on writeCh: the next n bytes are accepted, or the queue is full.
Enqueue(n) ==
    /\ IF writeClosed
       THEN Panic("send_on_closed_channel") /\ UNCHANGED <<writeCh, accepted>>
       ELSE /\ IF Room(writeCh, WriteQueueSize)
               THEN /\ writeCh' = Append(writeCh, Interval(accepted + 1, n))
                    /\ accepted' = accepted + n
               ELSE UNCHANGED <<writeCh, accepted>>
            /\ UNCHANGED panic
    /\ UNCHANGED <<ready, closeVars, writeClosed, wireVars, packetVars>>

\* Write finds the connection open; otherwise it returns at once.
UserWrite(p) ==
    /\ At(p, "idle") /\ ready /\ ~closeCh
    /\ accepted < MaxBytes
    /\ Goto(p, "write")
    /\ UNCHANGED <<ready, closeVars, writeVars, wireVars, packetVars, panic>>

\* The connection may have been closed since.
WriteSend(p) ==
    /\ At(p, "write")
    /\ \E n \in 1..MaxLen : Enqueue(n)
    /\ Goto(p, "idle")

\* dialTCPConn: the handshake.  If the connection is closed already the dial
\* fails, and Close, which finds it closed, returns at once.
DialCheck ==
    /\ At("dialer", "dial")
    /\ Goto("dialer", IF closeCh THEN "off" ELSE "write")
    /\ UNCHANGED <<ready, closeVars, writeVars, wireVars, packetVars, panic>>

DialSend ==
    /\ At("dialer", "write")
    /\ IF writeClosed
       THEN Panic("send_on_closed_channel") /\ UNCHANGED <<ready, writeCh, accepted>>
       ELSE /\ ready' = TRUE
            /\ writeCh' = <<Interval(1, HandshakeLen)>>
            /\ accepted' = HandshakeLen
            /\ UNCHANGED panic
    /\ Goto("dialer", "off")
    /\ UNCHANGED <<closeVars, writeClosed, wireVars, packetVars>>
-----------------------------------------------------------------------------
(* writing                                                                   *)

\* The top of the loop.  Over TCP closed() is asked here, over a WebSocket
\* after a message was taken.
WrTop ==
    /\ At("writer", "wr_top")
    /\ Goto("writer", IF transport = "tcp" /\ closeCh THEN "off" ELSE "wr_select")
    /\ UNCHANGED <<ready, closeVars, writeVars, wireVars, packetVars, panic>>

\* Variant: the leftover comes after the message.
WrTakeSwapped ==
    /\ At("writer", "wr_select") /\ writeCh # <<>>
    /\ cur' = Head(writeCh) \o buf /\ buf' = <<>>
    /\ writeCh' = Tail(writeCh)
    /\ Goto("writer", IF transport = "ws" THEN "wr_check" ELSE "wr_write")
    /\ UNCHANGED <<ready, closeVars, writeClosed, accepted, out, packetVars, panic>>

\* A message is taken; over TCP what the socket left of earlier ones goes first.
WrTake ==
    /\ At("writer", "wr_select") /\ writeCh # <<>>
    /\ cur' = buf \o Head(writeCh) /\ buf' = <<>>
    /\ writeCh' = Tail(writeCh)
    /\ Goto("writer", IF transport = "ws" THEN "wr_check" ELSE "wr_write")
    /\ UNCHANGED <<ready, closeVars, writeClosed, accepted, out, packetVars, panic>>

\* The queue is closed and empty.
WrEnd ==
    /\ At("writer", "wr_select") /\ writeCh = <<>> /\ writeClosed
    /\ Goto("writer", "off")
    /\ UNCHANGED <<ready, closeVars, writeVars, wireVars, packetVars, panic>>

\* Variant: the ticker does nothing.
WrTickIdle ==
    /\ At("writer", "wr_select") /\ transport = "tcp"
    /\ Goto("writer", "wr_top")
    /\ UNCHANGED <<ready, closeVars, writeVars, wireVars, packetVars, panic>>

\* The ticker: what is left over is tried again.
WrTick ==
    /\ At("writer", "wr_select") /\ transport = "tcp"
    /\ cur' = buf /\ buf' = <<>>
    /\ Goto("writer", IF buf = <<>> THEN "wr_top" ELSE "wr_write")
    /\ UNCHANGED <<ready, closeVars, writeVars, out, packetVars, panic>>

WrCheck ==
    /\ At("writer", "wr_check")
    /\ Goto("writer", IF closeCh THEN "off" ELSE "wr_write")
    /\ UNCHANGED <<ready, closeVars, writeVars, wireVars, packetVars, panic>>

\* The socket takes the first n bytes without an error.  Over TCP it may take
\* only some; over a WebSocket it takes the message.
WrWrite ==
    /\ At("writer", "wr_write") /\ sock
    /\ \E n \in 1..Len(cur) :
          /\ transport = "ws" => n = Len(cur)
          /\ out' = out \o SubSeq(cur, 1, n)
          /\ buf' = SubSeq(cur, n + 1, Len(cur))
    /\ cur' = <<>>
    /\ Goto("writer", "wr_top")
    /\ UNCHANGED <<ready, closeVars, writeVars, packetVars, panic>>

\* The socket fails after n bytes.
WrFail ==
    /\ At("writer", "wr_write")
    /\ \E n \in 0..(Len(cur) - 1) :
          /\ ~sock => n = 0
          /\ out' = out \o SubSeq(cur, 1, n)
    /\ cur' = <<>>
    /\ CallClose("writer")
    /\ UNCHANGED <<ready, closeVars, writeVars, buf, packetVars, panic>>
-----------------------------------------------------------------------------
(* reading                                                                   *)

\* Variant: the reader does not ask whether the connection is closed.
RdTopOn ==
    /\ At("reader", "rd_top")
    /\ Goto("reader", "rd_read")
    /\ UNCHANGED <<ready, closeVars, writeVars, wireVars, packetVars, panic>>

RdTop ==
    /\ At("reader", "rd_top")
    /\ Goto("reader", IF closeCh THEN "off" ELSE "rd_read")
    /\ UNCHANGED <<ready, closeVars, writeVars, wireVars, packetVars, panic>>

\* What one read of the socket yields, a number of packets and what follows them:
\* over TCP several packets; over a WebSocket a message, a ping or a pong, or the
\* peer's close, which becomes a packet before the read fails.
Reads ==
    IF transport = "tcp" THEN (0..MaxChunk) \X {"none", "fail"}
                         ELSE {<<0, "skip">>, <<1, "none">>, <<1, "fail">>}

RdRead ==
    /\ At("reader", "rd_read") /\ sock
    /\ \E r \in Reads :
          /\ arrived + r[1] =< MaxPackets
          /\ chunk' = Interval(arrived + 1, r[1]) /\ after' = r[2]
          /\ arrived' = arrived + r[1]
          /\ Goto("reader", IF r = <<0, "none">> THEN "rd_top" ELSE "rd_add")
    /\ UNCHANGED <<ready, closeVars, writeVars, wireVars, packetCh, queue, dropped, left,
                   delivered, panic>>

\* Variant: the channel has no limit.
AddPacketUnbounded(k) ==
    IF packetCh = "open"
    THEN queue' = Append(queue, k) /\ UNCHANGED <<dropped, panic>>
    ELSE /\ dropped' = dropped \cup {k}
         /\ IF packetCh = "closed" THEN Panic("send_on_closed_channel") ELSE UNCHANGED panic
         /\ UNCHANGED queue

\* addPacket: into packetCh if somebody has asked for packets and there is room.
AddPacket(k) ==
    IF packetCh = "open" /\ Room(queue, ReadQueueSize)
    THEN queue' = Append(queue, k) /\ UNCHANGED <<dropped, panic>>
    ELSE /\ dropped' = dropped \cup {k}
         /\ IF packetCh = "closed" THEN Panic("send_on_closed_channel") ELSE UNCHANGED panic
         /\ UNCHANGED queue

\* One packet of what was read.  The handlers of WebSocket control frames run
\* inside NextReader, which reads on without asking closed().
RdAdd ==
    /\ At("reader", "rd_add") /\ chunk # <<>>
    /\ chunk' = Tail(chunk)
    /\ AddPacket(Head(chunk))
    /\ \/ Goto("reader", IF chunk' = <<>> /\ after = "none" THEN "rd_top" ELSE "rd_add")
       \/ transport = "ws" /\ chunk' = <<>> /\ after = "none" /\ Goto("reader", "rd_read")
    /\ UNCHANGED <<ready, closeVars, writeVars, wireVars, packetCh, arrived, after, left,
                   delivered>>

\* What followed the packets.
RdAfter ==
    /\ At("reader", "rd_add") /\ chunk = <<>>
    /\ after' = "none"
    /\ IF after = "fail" THEN CallClose("reader") ELSE Goto("reader", "rd_top")
    /\ UNCHANGED <<ready, closeVars, writeVars, wireVars, packetCh, queue, arrived, chunk,
                   dropped, left, delivered, panic>>

\* The read fails: always once the socket is closed, and whenever the network does.
RdFail ==
    /\ At("reader", "rd_read")
    /\ CallClose("reader")
    /\ UNCHANGED <<ready, closeVars, writeVars, wireVars, packetVars, panic>>
-----------------------------------------------------------------------------
(* OnPacket and the consumer it starts                                       *)

OnPacket ==
    /\ ready /\ packetCh = "nil"
    /\ packetCh' = "open"
    /\ Goto("consumer", "cs_top")
    /\ UNCHANGED <<ready, closeVars, writeVars, wireVars, queue, arrived, chunk, after, dropped,
                   left, delivered, panic>>

\* Variant: one packet too many is counted.
CsTopMore ==
    /\ At("consumer", "cs_top")
    /\ IF closeCh
       THEN Goto("consumer", "cs_drain") /\ left' = Len(queue) + 1
       ELSE Goto("consumer", "cs_recv") /\ UNCHANGED left
    /\ UNCHANGED <<ready, closeVars, writeVars, wireVars, packetCh, queue, arrived, chunk,
                   after, dropped, delivered, panic>>

\* After the close only what is queued now is consumed.
CsTop ==
    /\ At("consumer", "cs_top")
    /\ IF closeCh
       THEN Goto("consumer", "cs_drain") /\ left' = Len(queue)
       ELSE Goto("consumer", "cs_recv") /\ UNCHANGED left
    /\ UNCHANGED <<ready, closeVars, writeVars, wireVars, packetCh, queue, arrived, chunk,
                   after, dropped, delivered, panic>>

\* Variant: the packet stays in the channel.
CsTakePeek ==
    /\ queue # <<>>
    /\ \/ At("consumer", "cs_recv") /\ Goto("consumer", "cs_top") /\ UNCHANGED left
       \/ At("consumer", "cs_drain") /\ left > 0 /\ left' = left - 1 /\ UNCHANGED pc
    /\ delivered' = Append(delivered, Head(queue))
    /\ UNCHANGED <<ready, closeVars, writeVars, wireVars, packetCh, queue, arrived, chunk,
                   after, dropped, panic>>

CsTake ==
    /\ queue # <<>>
    /\ \/ At("consumer", "cs_recv") /\ Goto("consumer", "cs_top") /\ UNCHANGED left
       \/ At("consumer", "cs_drain") /\ left > 0 /\ left' = left - 1 /\ UNCHANGED pc
    /\ queue' = Tail(queue)
    /\ delivered' = Append(delivered, Head(queue))
    /\ UNCHANGED <<ready, closeVars, writeVars, wireVars, packetCh, arrived, chunk, after, dropped,
                   panic>>

\* fn(nil, errConnClosed)
CsDrained ==
    /\ At("consumer", "cs_drain") /\ left = 0
    /\ Goto("consumer", "cs_fin")
    /\ UNCHANGED <<ready, closeVars, writeVars, wireVars, packetVars, panic>>

\* The deferred close(packetCh).
CsFin ==
    /\ At("consumer", "cs_fin")
    /\ packetCh' = "closed" /\ CloseChan(packetCh = "closed")
    /\ Goto("consumer", "off")
    /\ UNCHANGED <<ready, closeVars, writeVars, wireVars, queue, arrived, chunk, after, dropped,
                   left, delivered>>
-----------------------------------------------------------------------------
CloseStep(p) == CloseOnce(p) \/ CloseWrite(p) \/ CloseSock(p) \/ CloseDispatch(p)
WrStep == WrTop \/ WrTake \/ WrEnd \/ WrTick \/ WrCheck \/ WrWrite \/ (~sock /\ WrFail)
RdStep == RdTop \/ RdAdd \/ RdAfter \/ (~sock /\ RdFail)
CsStep == CsTop \/ CsTake \/ CsDrained \/ CsFin

\* What goroutine p does by itself.
Step(p) ==
    \/ CloseStep(p)
    \/ p \in Users /\ WriteSend(p)
    \/ p = "dialer" /\ (DialCheck \/ DialSend)
    \/ p = "writer" /\ WrStep
    \/ p = "reader" /\ RdStep
    \/ p = "consumer" /\ CsStep

\* What the client and the network make the connection do.
Environment ==
    \/ \E p \in Users : UserWrite(p) \/ UserClose(p)
    \/ OnPacket
    \/ RdRead
    \/ sock /\ (RdFail \/ WrFail)

Next ==
    /\ panic = "none"
    /\ Environment \/ \E p \in Procs : Step(p)
    /\ UNCHANGED transport

Spec == Init /\ [][Next]_vars

\* The Go scheduler runs every runnable goroutine, and select takes a message
\* that is there in the end, however often the ticker fires.
Running(A) == panic = "none" /\ A /\ UNCHANGED transport
Fairness ==
    /\ \A p \in Procs : WF_vars(Running(Step(p)))
    /\ SF_vars(Running(WrTake))

FairSpec == Spec /\ Fairness
-----------------------------------------------------------------------------
Stream == INSTANCE ByteStream WITH sent <- out

\* The bytes on the wire are the accepted messages in the order of acceptance,
\* whatever the socket takes at a time and whenever the connection is closed.
ImplementsByteStream == Stream!Spec

\* Every packet that arrived is delivered, queued, about to be queued, or was
\* dropped, exactly one of them, and the first three in the order of arrival.
PacketsAccounted ==
    LET kept == delivered \o queue \o chunk
    IN  /\ \A i, j \in DOMAIN kept : i < j => kept[i] < kept[j]
        /\ {kept[i] : i \in DOMAIN kept} = (1..arrived) \ dropped

\* Whoever closes, however many at once: the callbacks run at most once, no
\* channel is closed twice, and the socket is closed before they run.
ClosesOnce ==
    /\ panic # "close_of_closed_channel"
    /\ dispatched =< 1
    /\ dispatched = 1 => ~sock /\ writeClosed /\ closeCh

View == INSTANCE ConnView WITH
    Size <- ReadQueueSize, ch <- packetCh,
    state <- IF once = "free" THEN "open" ELSE IF once = "busy" THEN "closing" ELSE "closed"

\* To the goroutine that takes its packets the connection is what ConnView
\* describes, over either transport, and so are the connections of module Client.
ImplementsConnView == View!Spec

\* "consume all packet": over TCP the consumer leaves behind only packets of the
\* last read, one that was made or handled while the connection was being closed.
LeavesOnlyLastRead ==
    transport = "tcp" /\ packetCh = "closed" =>
        \A i \in DOMAIN queue : queue[i] > arrived - MaxChunk

\* After a close both goroutines of the connection end and the callbacks run.
CloseEnds ==
    closeCh ~> \/ At("reader", "off") /\ At("writer", "off") /\ dispatched = 1
               \/ panic # "none"

\* After a close the consumer ends too, unless it waits for a packet that does not
\* come: it does not see the close there, and then it waits for good.
ConsumerEndsOrWaits ==
    closeCh ~> \/ At("consumer", "off") \/ panic # "none"
               \/ At("consumer", "cs_recv") /\ queue = <<>>

\* What was accepted is sent, unless the connection is closed.
AcceptedIsSent ==
    (Len(out) < accepted) ~> (Len(out) = accepted \/ closeCh \/ panic # "none")
=============================================================================
