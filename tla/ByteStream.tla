----------------------------- MODULE ByteStream -----------------------------
(***************************************************************************)
(* What a connection promises about the bytes it is given: those it sends  *)
(* are the ones it accepted, in the order in which it accepted them, none  *)
(* twice and none left out.  Bytes are numbered as they are accepted.      *)
(***************************************************************************)
EXTENDS Naturals, Sequences

VARIABLES accepted,   \* how many bytes have been accepted
          sent        \* the bytes put on the wire

Bytes(lo, n) == [i \in 1..n |-> lo + i - 1]

Init == accepted = 0 /\ sent = <<>>

Accept == accepted' > accepted /\ UNCHANGED sent

Transmit ==
    /\ \E n \in 1..(accepted - Len(sent)) : sent' = sent \o Bytes(Len(sent) + 1, n)
    /\ UNCHANGED accepted

Spec == Init /\ [][Accept \/ Transmit]_<<accepted, sent>>
=============================================================================
