--------------------------- MODULE MCFrameReader ---------------------------
EXTENDS FrameReaderInv

Packet(t, body, verify, values) ==
    [Type |-> t, Gzip |-> FALSE, Verify |-> verify, CmdCode |-> 242, RequestId |-> 66051,
     Timeout |-> 515, StatusCode |-> 7, Nonce |-> [i \in 1..NonceLength |-> i],
     Signature |-> [i \in 1..SignatureLength |-> 100 + i], Body |-> body, Values |-> values]

\* Packets of any kind, empty and long enough to be compressed.
PlainPackets == {Packet(t, b, v, <<>>) : t \in {Request, Response, Push},
                                         b \in {<<>>, <<2, 32, 33>>}, v \in BOOLEAN}

Entry(k, v) == [key |-> k, val |-> v]
Short == <<Entry(<<97>>, <<>>), Entry(<<98, 99>>, <<5>>)>>
Long  == <<Entry(<<97>>, [i \in 1..128 |-> 9]), Entry(<<98>>, <<5>>)>>

\* Version 2 with values, one of them with a length of two bytes; signed packets have
\* none.
ValuePackets == {Packet(Request, <<1>>, FALSE, Short), Packet(Push, <<2, 32, 33>>, FALSE, Short),
                 Packet(Response, <<>>, TRUE, <<>>), Packet(Push, <<>>, FALSE, <<>>),
                 Packet(Response, <<1, 2>>, FALSE, Long)}

AllPackets(v) == IF v = 1 THEN PlainPackets ELSE ValuePackets

Tails == {<<0>>, <<255, 1>>}
=============================================================================
