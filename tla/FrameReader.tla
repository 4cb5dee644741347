----------------------------- MODULE FrameReader -----------------------------
(***************************************************************************)
(* The receiving end of a TCP connection: reading and readPacket of        *)
(* tcp_conn.go and the resumable Unpack of go/v1/v1.go and go/v2/v2.go,    *)
(* which keeps a half-read header in the connection's Context.  The peer   *)
(* packs one packet after the other, the network cuts the bytes as it      *)
(* likes.                                                                  *)
(***************************************************************************)
EXTENDS Frame

CONSTANTS
    Packets(_),    \* packets the peer may send, by version
    MaxPackets,    \* how many it sends
    MinGzipSize,   \* the peer's pack option
    Garbage        \* byte sequences that may follow them

VARIABLES
    version,       \* 1 or 2: what the handshake settled
    sent,          \* the packets the peer packed
    wire,          \* their frames, one after the other, and the garbage
    ends,          \* where each frame ends
    garbled,       \* the peer has sent garbage
    read,          \* how many of these bytes have been read
    buf,           \* read and not yet unpacked: the ring buffer
    hdr,           \* the Context's header; ZeroHeader if there is none
    pc,            \* read, unpack or, after an error, off
    got            \* the packets passed to addPacket

peerVars == <<version, sent, wire, ends, garbled>>
vars == <<peerVars, read, buf, hdr, pc, got>>

Init ==
    /\ version \in {1, 2}
    /\ sent = <<>> /\ wire = <<>> /\ ends = <<>> /\ garbled = FALSE
    /\ read = 0 /\ buf = <<>> /\ hdr = ZeroHeader /\ pc = "read" /\ got = <<>>

\* The peer writes a packet.
Send(p) ==
    /\ ~garbled /\ Len(sent) < MaxPackets
    /\ \E f \in Pack(version, p, MinGzipSize) :
          /\ wire' = wire \o f
          /\ ends' = Append(ends, Len(wire) + Len(f))
    /\ sent' = Append(sent, p)
    /\ UNCHANGED <<version, garbled, read, buf, hdr, pc, got>>

SendGarbage(g) ==
    /\ ~garbled
    /\ wire' = wire \o g /\ garbled' = TRUE
    /\ UNCHANGED <<version, sent, ends, read, buf, hdr, pc, got>>

\* One Read of the socket.  Bytes of a frame that was cut come first.
Read ==
    /\ pc = "read"
    /\ \E n \in 1..(Len(wire) - read) :
          /\ buf' = buf \o SubSeq(wire, read + 1, read + n)
          /\ read' = read + n
    /\ pc' = "unpack"
    /\ UNCHANGED <<peerVars, hdr, got>>

\* Variant: a resumed header starts with a first byte again.
HeaderUnpackAgain(v, h, b) ==
    IF b = <<>> THEN [state |-> "wait", h |-> h, buf |-> b]
    ELSE LET h1 == UnpackFirst(h, Head(b))
             b1 == Tail(b)
             n  == HeaderLen(v, h1.Type) - 1
         IN  IF IsUnknownPacket(h1.Type) THEN [state |-> "error", h |-> h1, buf |-> b1]
             ELSE IF Len(b1) < n THEN [state |-> "wait", h |-> h1, buf |-> b1]
             ELSE [state |-> "done", h |-> UnpackRest(v, h1, Take(b1, n)), buf |-> Drop(b1, n)]

\* Header.Unpack: the first byte is taken once, the rest when all of it is there.
HeaderUnpack(v, h, b) ==
    IF b = <<>> THEN [state |-> "wait", h |-> h, buf |-> b]
    ELSE LET h1 == IF h.BeginUnpack THEN h ELSE UnpackFirst(h, Head(b))
             b1 == IF h.BeginUnpack THEN b ELSE Tail(b)
             n  == HeaderLen(v, h1.Type) - 1
         IN  IF IsUnknownPacket(h1.Type) THEN [state |-> "error", h |-> h1, buf |-> b1]
             ELSE IF Len(b1) < n THEN [state |-> "wait", h |-> h1, buf |-> b1]
             ELSE [state |-> "done", h |-> UnpackRest(v, h1, Take(b1, n)), buf |-> Drop(b1, n)]

\* The header at the head of buf, of which hdr may be known already.
BufferedHeader ==
    IF hdr.IsUnpacked THEN [state |-> "done", h |-> hdr, buf |-> buf]
                      ELSE HeaderUnpack(version, hdr, buf)

\* One call of Unpack by readPacket: more data is needed, the frame is invalid
\* (readPacket returns and the connection is closed), or there is a packet.
Unpack ==
    LET u == BufferedHeader
        n == Need(u.h)
        packet == Assemble(version, u.h, Take(u.buf, n))
        waits  == u.state = "wait" \/ (u.state = "done" /\ Len(u.buf) < n)
    IN  /\ pc = "unpack"
        /\ \/ waits /\ pc' = "read" /\ hdr' = u.h /\ buf' = u.buf /\ UNCHANGED got
           \/ /\ ~waits /\ (u.state = "error" \/ packet = {})
              /\ pc' = "off" /\ hdr' = ZeroHeader /\ buf' = u.buf /\ UNCHANGED got
           \/ /\ ~waits /\ u.state = "done"
              /\ \E p \in packet : got' = Append(got, p)
              /\ hdr' = ZeroHeader /\ buf' = Drop(u.buf, n) /\ UNCHANGED pc
        /\ UNCHANGED <<peerVars, read>>

Next ==
    \/ \E p \in Packets(version) : Send(p)
    \/ \E g \in Garbage : SendGarbage(g)
    \/ Read \/ Unpack

Spec == Init /\ [][Next]_vars
-----------------------------------------------------------------------------
\* What the receiver should see of p.
Expected(v, p) == Received(v, p, MinGzipSize)

\* Where the i-th frame begins, and its bytes.
Start(i)   == IF i = 1 THEN 0 ELSE ends[i - 1]
FrameOf(i) == SubSeq(wire, Start(i) + 1, ends[i])

\* However the stream is cut, whenever the reader waits for more it has passed on
\* exactly the packets whose frames have arrived, with what the peer put in them.
ChunkingInvisible ==
    pc = "read" =>
        /\ DOMAIN got = {i \in DOMAIN sent : ends[i] =< read}
        /\ \A i \in DOMAIN got : got[i] = Expected(version, sent[i])

\* The reader gives a connection up only for bytes that are no frame, and not
\* before it has passed on every packet.
FailsOnGarbage == pc = "off" => Len(got) = Len(sent) /\ read >= Start(Len(sent) + 1) + 1

\* A frame that is there as a whole, as over a WebSocket, unpacks to its packet.
WholeFrames == \A i \in DOMAIN sent : UnpackBytes(version, FrameOf(i)) = {Expected(version, sent[i])}
=============================================================================
