----------------------------- MODULE MCExchange -----------------------------
EXTENDS ExchangeInv

Hs(v, c, p, r) == [Version |-> v, Codec |-> c, Platform |-> p, Reserve |-> r]

\* Known and unknown versions and codecs, and fields wider than four bits.
AllHandshakes ==
    {Hs(1, 1, 9, 0), Hs(2, 2, 9, 3), Hs(1, 0, 3, 0), Hs(2, 17, 25, 1), Hs(3, 1, 9, 0)}

Names(ns, v) == [i \in DOMAIN ns |-> [name |-> ns[i], value |-> v]]
Given == <<"Timeout", "KeepaliveTimeout", "ReadBufferSize", "WriteQueueSize", "MinGzipSize">>
Other == <<"AuthTimeout", "Keepalive", "ReadQueueSize", "MaxReconnect">>

\* Some are given twice and then, like the rest, a useless value.
SomeOptions ==
    {Names(Given, 1) \o Names(Given, 2) \o Names(Given \o Other, 0) \o Names(Given \o Other, -1)}

Entry(k, v) == [key |-> k, val |-> v]
Req(c, b, md, t) == [Cmd |-> c, Body |-> b, Metadata |-> md, Timeout |-> t]

\* An auth with an empty key; keys that collide; commands that lose a bit; a close.
SomeRequests ==
    {Req(2, 1, {Entry(<<>>, <<3>>)}, 5),
     Req(10, 0, {Entry(<<65>>, <<1>>), Entry(<<97>>, <<2, 2>>), Entry(<<98>>, <<>>)}, 0),
     Req(257, 2, {}, 0), Req(256, 2, {}, 0), Req(0, 1, {}, 0)}
=============================================================================
