------------------------------ MODULE ConnView ------------------------------
(***************************************************************************)
(* What ClientConn promises the goroutine that takes its packets: they     *)
(* come out in the order they went in, one at a time, never more than Size *)
(* of them waiting; once the connection is closed those that wait at some  *)
(* later moment are still handed over, then the channel is closed, and     *)
(* nothing more goes in or comes out.                                      *)
(***************************************************************************)
EXTENDS Integers, Sequences

CONSTANT Size

VARIABLES
    state,    \* open, closing (its callbacks run) or closed
    ch,       \* packetCh: nil, open or closed
    queue,    \* its packets
    left      \* how many are still handed over, -1 until that is settled

vars == <<state, ch, queue, left>>

Init == state = "open" /\ ch = "nil" /\ queue = <<>> /\ left = -1

BeginClose == state = "open" /\ state' = "closing" /\ UNCHANGED <<ch, queue, left>>
EndClose   == state = "closing" /\ state' = "closed" /\ UNCHANGED <<ch, queue, left>>

\* OnPacket
Listen == ch = "nil" /\ ch' = "open" /\ UNCHANGED <<state, queue, left>>

\* addPacket, which does not wait for room and does not ask whether the connection is open.
Put ==
    /\ ch = "open" /\ Len(queue) < Size
    /\ Len(queue') = Len(queue) + 1 /\ SubSeq(queue', 1, Len(queue)) = queue
    /\ UNCHANGED <<state, ch, left>>

\* The consumer finds the connection closed.
Settle == state # "open" /\ ch = "open" /\ left = -1 /\ left' = Len(queue) /\ UNCHANGED <<state, ch, queue>>

Take ==
    /\ ch = "open" /\ queue # <<>> /\ queue' = Tail(queue)
    /\ \/ left = -1 /\ UNCHANGED left
       \/ left > 0 /\ left' = left - 1
    /\ UNCHANGED <<state, ch>>

Shut == ch = "open" /\ left = 0 /\ ch' = "closed" /\ UNCHANGED <<state, queue, left>>

Next == BeginClose \/ EndClose \/ Listen \/ Put \/ Settle \/ Take \/ Shut

Spec == Init /\ [][Next]_vars
=============================================================================
