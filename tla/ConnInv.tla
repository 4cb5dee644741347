------------------------------ MODULE ConnInv ------------------------------
(***************************************************************************)
(* The inductive invariant of module Conn, as a conjunction of named       *)
(* parts.                                                                  *)
(***************************************************************************)
EXTENDS Conn

Closing == {"close_write", "close_sock", "close_dispatch"}
Writing == {"wr_top", "wr_select", "wr_check", "wr_write"}

\* Which goroutine can be where.
PcOK ==
    /\ \A p \in Users : pc[p] \in {"idle", "write", "close_once"} \cup Closing
    /\ pc["dialer"] \in {"dial", "write", "off"}
    /\ pc["reader"] \in {"rd_top", "rd_read", "rd_add", "close_once", "off"} \cup Closing
    /\ pc["writer"] \in Writing \cup {"close_once", "off"} \cup Closing
    /\ pc["consumer"] \in {"cs_top", "cs_recv", "cs_drain", "cs_fin", "off"}

\* How far Close has come, and what it has done by then.
CloseState ==
    /\ closeCh => once # "free"
    /\ ~closeCh => once = "free"
    /\ once = "free" => ~writeClosed
    /\ once = "done" => writeClosed /\ ~sock
    /\ dispatched = IF once = "done" THEN 1 ELSE 0
    /\ panic # "close_of_closed_channel"

\* One goroutine at a time runs the body of Close, and has done what its label says.
CloseBody ==
    /\ \A p \in Procs :
          /\ pc[p] \in Closing => once = "busy"
          /\ At(p, "close_write") => ~writeClosed
          /\ At(p, "close_sock") => writeClosed
          /\ At(p, "close_dispatch") => writeClosed /\ ~sock
    /\ \A p, q \in Procs : pc[p] \in Closing /\ pc[q] \in Closing => p = q

CloseInv == CloseState /\ CloseBody

\* The consumer lives as long as packetCh is open, and counts down what it found
\* after the close.
ConsumerInv ==
    /\ packetCh = "open" <=> pc["consumer"] # "off"
    /\ packetCh = "nil" => queue = <<>> /\ left = -1
    /\ packetCh = "closed" => left = 0
    /\ pc["consumer"] \in {"cs_top", "cs_recv"} => left = -1
    /\ At("consumer", "cs_drain") => left \in 0..Len(queue)
    /\ At("consumer", "cs_fin") => left = 0
    /\ left # -1 => closeCh

\* s holds the numbers that come after n.
Follows(s, n) == \A i \in 1..Len(s) : s[i] = n + i

\* Nothing is written before the handshake.
DialInv ==
    /\ pc["dialer"] # "off" => ~ready
    /\ ~ready => accepted = 0 /\ writeCh = <<>> /\ \A p \in Users : ~At(p, "write")

Ahead    == Len(out) + Len(cur) + Len(buf)
First(k) == writeCh[k][1] - 1

\* The k-th queued message is not empty and continues the one before it.
Queued(k) ==
    /\ Len(writeCh[k]) > 0 /\ Follows(writeCh[k], First(k))
    /\ First(k) + Len(writeCh[k]) =< accepted
    /\ k = 1 => First(k) = Ahead
    /\ k = Len(writeCh) => First(k) + Len(writeCh[k]) = accepted
    /\ k < Len(writeCh) => First(k + 1) = First(k) + Len(writeCh[k])

\* What is on its way: in the writer's hands or left over, then in the queue.
OnTheWay ==
    /\ Follows(cur, Len(out)) /\ Follows(buf, Len(out))
    /\ IF pc["writer"] \in {"wr_top", "wr_select"} THEN cur = <<>> ELSE buf = <<>>
    /\ Ahead =< accepted
    /\ writeCh = <<>> => Ahead = accepted
    /\ \A k \in 1..Len(writeCh) : Queued(k)

\* What is on the wire is what was accepted first, and as long as the writer runs
\* the rest of what was accepted is on its way.
WireInv ==
    /\ Follows(out, 0) /\ Len(out) =< accepted
    /\ pc["writer"] \in Writing => OnTheWay

Kept    == delivered \o queue
Handled == arrived - Len(chunk)

\* Packets are handled in the order of arrival, and each is kept or dropped.
PacketInv ==
    /\ pc["reader"] # "rd_add" => chunk = <<>>
    /\ Handled >= 0 /\ Follows(chunk, Handled)
    /\ \A i, j \in 1..Len(Kept) : i < j => Kept[i] < Kept[j]
    /\ \A i \in 1..Len(Kept) : Kept[i] \in (1..Handled) \ dropped
    /\ \A k \in (1..Handled) \ dropped : \E i \in 1..Len(Kept) : Kept[i] = k
    /\ dropped \subseteq 1..Handled

\* Over TCP, what is in the queue beyond what the consumer will take came with the
\* last read; a reader that is still to read has added nothing.
LastReadInv ==
    transport = "tcp" =>
        /\ Len(chunk) =< MaxChunk
        /\ left >= 0 => \A i \in (left + 1)..Len(queue) : queue[i] > arrived - MaxChunk
        /\ left >= 0 /\ At("reader", "rd_read") => Len(queue) = left

\* Everything a step of the connection keeps.
ConnInvariant ==
    /\ TypeOK /\ PcOK /\ CloseInv /\ ConsumerInv /\ DialInv /\ WireInv /\ PacketInv /\ LastReadInv
=============================================================================
