------------------------------ MODULE FrameFit ------------------------------
(***************************************************************************)
(* Which packets survive the wire, and what a whole frame is.              *)
(***************************************************************************)
EXTENDS Frame

\* Bytes of a marshalled string, and of an entry: one without a key is left out.
StringLen(s) == Len(s) + (IF Len(s) =< max7BitLength THEN 1 ELSE 2)
EntryLen(e)  == IF e.key = <<>> THEN 0 ELSE StringLen(e.key) + StringLen(e.val)

\* Sizes(values)[i]: bytes of the first i entries.
Sizes(values) ==
    LET f[i \in 0..Len(values)] == IF i = 0 THEN 0 ELSE f[i - 1] + EntryLen(values[i])
    IN  f

Entries == [key : Seq(Nat), val : Seq(Nat)]

\* How many of values fit into max bytes, and what the other side reads of the first k.
Fits(values, max, k) ==
    /\ k \in 0..Len(values) /\ Sizes(values)[k] =< max
    /\ \A l \in 0..Len(values) : Sizes(values)[l] =< max => l =< k
ReadOf(values, k) == {values[j] : j \in {j \in 1..k : values[j].key # <<>>}}

\* The values of a map as Set leaves it: no key is in capitals or there twice, no
\* string is too long.
KeysFit(values) ==
    /\ values \in Seq(Entries)
    /\ \A i \in DOMAIN values :
          /\ ToLower(values[i].key) = values[i].key
          /\ Len(values[i].key) =< max15BitLength /\ Len(values[i].val) =< max15BitLength
    /\ \A i, j \in DOMAIN values : values[i].key = values[j].key => i = j

ValuesFit(values) == KeysFit(values) /\ Sizes(values)[Len(values)] =< MaxMetadataLength

PacketRecord ==
    [Type : {Request, Response, Push}, Gzip : {FALSE}, Verify : BOOLEAN, CmdCode : Nat,
     RequestId : Nat, Timeout : Nat, StatusCode : Nat, Nonce : Seq(Nat), Signature : Seq(Nat),
     Body : Seq(Nat), Values : Seq(Entries)]

\* Packets whose fields fit into their places, but for the command, which is cut to
\* a byte; an id has 32 bits.  With version 2 a packet may be signed or have values,
\* not both.
Packable(v, p) ==
    /\ p \in PacketRecord
    /\ p.RequestId \div 65536 < 65536 /\ p.Timeout < 65536
    /\ p.Verify => Len(p.Nonce) = NonceLength /\ Len(p.Signature) = SignatureLength
    /\ Len(p.Body) + 2 =< MaxBodyLength
    /\ v = 2 => ValuesFit(p.Values) /\ (p.Verify => p.Values = <<>>)
-----------------------------------------------------------------------------
\* The header of frame f, after its first byte and as a whole, and its length.
First(f)      == UnpackFirst(ZeroHeader, f[1])
HeadLen(v, f) == HeaderLen(v, First(f).Type)
Header(v, f)  == UnpackRest(v, First(f), SubSeq(f, 2, HeadLen(v, f)))

\* f is a frame of version v, whole, with packet x in it.
GoodFrame(v, f, x) ==
    /\ f \in Seq(Nat) /\ ~IsUnknownPacket(First(f).Type)
    /\ HeadLen(v, f) \in Nat \ {0} /\ Need(Header(v, f)) \in Nat
    /\ Header(v, f).MetadataLength + Header(v, f).BodyLength \in Nat
    /\ Len(f) = HeadLen(v, f) + Need(Header(v, f))
    /\ Assemble(v, Header(v, f), Drop(f, HeadLen(v, f))) = {x}
=============================================================================
