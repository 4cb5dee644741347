-------------------------------- MODULE Frame --------------------------------
(***************************************************************************)
(* The frames of protocol versions 1 and 2 (go/v1, go/v2) and the metadata *)
(* values of version 2 (go/metadata.go), byte by byte: packing, and        *)
(* unpacking from a complete frame.  FrameReader unpacks from a stream.    *)
(*                                                                         *)
(* A byte is a number, v a version.  A nonce is its 8 bytes.  Values is    *)
(* the sequence in which Go's range happens to visit the map.  Operators   *)
(* that can fail return a set: empty for an error, otherwise the result    *)
(* alone.                                                                  *)
(***************************************************************************)
EXTENDS Integers, Sequences

Byte  == 0..255
Bytes == Seq(Byte)

\* PacketType
Unknown  == 0
Request  == 1
Response == 2
Push     == 3
IsUnknownPacket(t) == t \notin {Request, Response, Push}

NonceLength       == 8
SignatureLength   == 16
MaxBodyLength     == 16777215     \* 2^24 - 1
MaxMetadataLength == 65535        \* 2^16 - 1

\* encoding/binary's big endian, and the shifts for three bytes.
ByteOf(n, unit) == (n \div unit) % 256
PutUint16(n) == <<ByteOf(n, 256), ByteOf(n, 1)>>
PutUint24(n) == <<ByteOf(n, 65536), ByteOf(n, 256), ByteOf(n, 1)>>
PutUint32(n) == <<ByteOf(n, 16777216), ByteOf(n, 65536), ByteOf(n, 256), ByteOf(n, 1)>>
Uint16(s) == s[1] * 256 + s[2]
Uint24(s) == s[1] * 65536 + s[2] * 256 + s[3]
Uint32(s) == s[1] * 16777216 + s[2] * 65536 + s[3] * 256 + s[4]

\* copy(dst[at:], src), at counted from 0: what does not fit is cut off.
CopyAt(dst, at, src) ==
    [i \in 1..Len(dst) |-> IF i > at /\ i =< at + Len(src) THEN src[i - at] ELSE dst[i]]
Zeroes(n)  == [i \in 1..n |-> 0]
Drop(s, n) == SubSeq(s, n + 1, Len(s))
Take(s, n) == SubSeq(s, 1, IF n < Len(s) THEN n ELSE Len(s))

\* gzip, as a conversion that can be undone and recognised.
Magic         == <<31, 139>>
Compress(b)   == Magic \o b
Decompress(b) == IF Len(b) >= 2 /\ Take(b, 2) = Magic THEN {Drop(b, 2)} ELSE {}
-----------------------------------------------------------------------------
(* Metadata values                                                           *)

max7BitLength  == 127      \* 2^7 - 1
max15BitLength == 32767    \* 2^15 - 1

\* Variant: the bound of the short form is off by one.
marshalStringWide(s) ==
    IF Len(s) =< max7BitLength + 1 THEN {<<Len(s)>> \o s}
    ELSE IF Len(s) =< max15BitLength
         THEN {<<128 + (Len(s) \div 256), Len(s) % 256>> \o s}
         ELSE {}

marshalString(s) ==
    IF Len(s) =< max7BitLength THEN {<<Len(s)>> \o s}
    ELSE IF Len(s) =< max15BitLength
         THEN {<<128 + (Len(s) \div 256), Len(s) % 256>> \o s}
         ELSE {}

\* Length of the string at the head of data, and of the length itself.
unmarshalStringLength(data) ==
    IF data = <<>> THEN {[len |-> 0, size |-> 1]}
    ELSE IF data[1] < 128 THEN {[len |-> data[1], size |-> 1]}
    ELSE IF Len(data) < 2 THEN {}
    ELSE LET l == (data[1] - 128) * 256 + data[2]
         IN  IF l =< max7BitLength THEN {} ELSE {[len |-> l, size |-> 2]}

\* getString of UnmarshalValues: the string and what follows it.
getString(data) ==
    {[str |-> SubSeq(data, l.size + 1, l.size + l.len), rest |-> Drop(data, l.size + l.len)] :
        l \in {l \in unmarshalStringLength(data) : l.len =< Len(data) - l.size}}

ToLower(s) == [i \in DOMAIN s |-> IF s[i] \in 65..90 THEN s[i] + 32 ELSE s[i]]

\* A marshalled entry: empty if it is not written.
marshalEntry(e) ==
    IF e.key = <<>> THEN {} ELSE {k \o v : k \in marshalString(e.key), v \in marshalString(e.val)}

\* Variant: an entry that does not fit is skipped.
AddEntrySkip(r, e, max) ==
    IF \E kv \in marshalEntry(e) : Len(kv) + Len(r.data) =< max
    THEN [r EXCEPT !.data = @ \o (CHOOSE kv \in marshalEntry(e) : TRUE)]
    ELSE r

\* One round of MarshalValues: an entry that is empty or too long is skipped, the
\* first that does not fit into max bytes ends the marshalling.
AddEntry(r, e, max) ==
    IF r.full \/ marshalEntry(e) = {} THEN r
    ELSE LET kv == CHOOSE x \in marshalEntry(e) : TRUE
         IN  IF Len(kv) + Len(r.data) > max THEN [r EXCEPT !.full = TRUE]
                                            ELSE [data |-> r.data \o kv, full |-> FALSE]

MarshalValues(values, max) ==
    LET f[i \in 0..Len(values)] ==
            IF i = 0 THEN [data |-> <<>>, full |-> FALSE] ELSE AddEntry(f[i - 1], values[i], max)
    IN  f[Len(values)].data

\* One round of UnmarshalValues: of two entries with the same key the later one stays.
TakeEntry(r) ==
    UNION {{[rest |-> v.rest,
             values |-> {e \in r.values : e.key # ToLower(k.str)}
                          \cup {[key |-> ToLower(k.str), val |-> v.str]}] :
                v \in getString(k.rest)} : k \in getString(r.rest)}

\* The map, as its set of entries.  An entry takes at least two bytes, which bounds
\* the loop.
UnmarshalValues(data) ==
    LET Rounds == Len(data) \div 2 + 1
        f[i \in 0..Rounds] ==
            IF i = 0 THEN {[rest |-> data, values |-> {}]}
            ELSE UNION {IF r.rest = <<>> THEN {r} ELSE TakeEntry(r) : r \in f[i - 1]}
    IN  IF data = <<>> THEN {{}} ELSE IF Len(data) < 2 THEN {} ELSE {r.values : r \in f[Rounds]}
-----------------------------------------------------------------------------
(* Headers.  A header is a record with the fields of v1.Header and           *)
(* MetadataLength, which is 0 in version 1.                                  *)

ZeroHeader ==
    [Type |-> Unknown, Verify |-> 0, Gzip |-> 0, CmdCode |-> 0, RequestId |-> 0,
     Timeout |-> 0, StatusCode |-> 0, MetadataLength |-> 0, BodyLength |-> 0,
     BeginUnpack |-> FALSE, IsUnpacked |-> FALSE]

\* Bytes of the header in version 1 and what version 2 adds.
HeaderLenV1(t) == CASE t = Request -> 11 [] t = Response -> 10 [] OTHER -> 5
HeaderLenV2(t) == HeaderLenV1(t) + 2
HeaderLen(v, t) == IF v = 1 THEN HeaderLenV1(t) ELSE HeaderLenV2(t)

\* type:4, verify:1, gzip:1, reserve:2
FirstByte(h) == (h.Type % 16) + 16 * (h.Verify % 2) + 32 * (h.Gzip % 2)

\* Everything before the lengths.
HeaderStart(h) ==
    <<FirstByte(h), h.CmdCode>>
        \o (IF h.Type \in {Request, Response} THEN PutUint32(h.RequestId) ELSE <<>>)
        \o (IF h.Type = Request THEN PutUint16(h.Timeout) ELSE <<>>)
        \o (IF h.Type = Response THEN <<h.StatusCode>> ELSE <<>>)

HeaderPackV1(h) ==
    IF IsUnknownPacket(h.Type) \/ h.BodyLength > MaxBodyLength THEN {}
    ELSE {HeaderStart(h) \o PutUint24(h.BodyLength)}

HeaderPackV2(h) ==
    IF IsUnknownPacket(h.Type) \/ h.BodyLength > MaxBodyLength THEN {}
    ELSE {HeaderStart(h) \o PutUint16(h.MetadataLength) \o PutUint24(h.BodyLength)}

\* The first byte of a frame into h.
UnpackFirst(h, b) ==
    [Type |-> b % 16, Verify |-> (b \div 16) % 2, Gzip |-> (b \div 32) % 2,
     CmdCode |-> h.CmdCode, RequestId |-> h.RequestId, Timeout |-> h.Timeout,
     StatusCode |-> h.StatusCode, MetadataLength |-> h.MetadataLength,
     BodyLength |-> h.BodyLength, BeginUnpack |-> TRUE, IsUnpacked |-> h.IsUnpacked]

\* What version 2 has between the version 1 fields.
MetadataLengthAt(v, bs, at) == IF v = 2 THEN Uint16(SubSeq(bs, at + 1, at + 2)) ELSE 0

\* The rest of a header, bs, into h.
UnpackRest(v, h, bs) ==
    LET at == CASE h.Type = Request -> 7 [] h.Type = Response -> 6 [] OTHER -> 1
    IN  [Type |-> h.Type, Verify |-> h.Verify, Gzip |-> h.Gzip, CmdCode |-> bs[1],
         RequestId |-> IF h.Type \in {Request, Response} THEN Uint32(SubSeq(bs, 2, 5))
                                                          ELSE h.RequestId,
         Timeout |-> IF h.Type = Request THEN Uint16(SubSeq(bs, 6, 7)) ELSE h.Timeout,
         StatusCode |-> IF h.Type = Response THEN bs[6] ELSE h.StatusCode,
         MetadataLength |-> MetadataLengthAt(v, bs, at),
         BodyLength |-> Uint24(Drop(bs, Len(bs) - 3)),
         BeginUnpack |-> h.BeginUnpack, IsUnpacked |-> TRUE]
-----------------------------------------------------------------------------
(* Packets.  Values is a sequence of entries in a packet to be packed and a  *)
(* set of entries in one that was unpacked.                                  *)

\* headerFromMetadata, with the lengths Pack sets.
headerFromMetadata(p, metadataLength) ==
    [Type |-> p.Type, Verify |-> IF p.Verify THEN 1 ELSE 0, Gzip |-> IF p.Gzip THEN 1 ELSE 0,
     CmdCode |-> p.CmdCode % 256, RequestId |-> p.RequestId, Timeout |-> p.Timeout,
     StatusCode |-> p.StatusCode, MetadataLength |-> metadataLength,
     BodyLength |-> Len(p.Body), BeginUnpack |-> FALSE, IsUnpacked |-> FALSE]

\* Pack's compression: the packet as it is packed.
Zipped(p, minGzipSize) ==
    IF minGzipSize # 0 /\ Len(p.Body) >= minGzipSize
    THEN [p EXCEPT !.Body = Compress(@), !.Gzip = TRUE]
    ELSE p

SignedLen(p) == IF p.Verify THEN NonceLength + SignatureLength ELSE 0

\* The nonce and the signature, written at offset at.
Sign(data, at, p) ==
    IF p.Verify THEN CopyAt(CopyAt(data, at, p.Nonce), at + NonceLength, p.Signature) ELSE data

PackV1(p, minGzipSize) ==
    LET q == Zipped(p, minGzipSize)
    IN  {Sign(hd \o q.Body \o Zeroes(SignedLen(q)), Len(hd) + Len(q.Body), q) :
            hd \in HeaderPackV1(headerFromMetadata(q, 0))}

\* Here too the nonce goes to the offset header + body, whatever the metadata.
PackV2(p, minGzipSize) ==
    LET q  == Zipped(p, minGzipSize)
        md == MarshalValues(q.Values, MaxMetadataLength)
    IN  {Sign(hd \o md \o q.Body \o Zeroes(SignedLen(q)), Len(hd) + Len(q.Body), q) :
            hd \in HeaderPackV2(headerFromMetadata(q, Len(md)))}

Pack(v, p, minGzipSize) == IF v = 1 THEN PackV1(p, minGzipSize) ELSE PackV2(p, minGzipSize)

\* Header.Metadata and the parts of the frame make a packet.
PacketOf(h, values, body, nonce, signature) ==
    [Type |-> h.Type, Gzip |-> h.Gzip = 1, Verify |-> h.Verify = 1, CmdCode |-> h.CmdCode,
     RequestId |-> h.RequestId, Timeout |-> h.Timeout, StatusCode |-> h.StatusCode,
     Nonce |-> nonce, Signature |-> signature, Body |-> body, Values |-> values]

\* Bytes of the frame behind its header.
Need(h) == h.MetadataLength + h.BodyLength
             + (IF h.Verify = 1 THEN NonceLength + SignatureLength ELSE 0)

\* Values are unmarshalled in version 2 only.
ValuesOf(v, md) == IF v = 2 THEN UnmarshalValues(md) ELSE {{}}
BodyOf(h, b) == IF h.Gzip = 1 THEN Decompress(b) ELSE {b}

\* The packet of header h and the data that follows it, which holds at least
\* the metadata and the body; everything behind the nonce is the signature.
Assemble(v, h, data) ==
    LET idx == h.MetadataLength + h.BodyLength
    IN  {PacketOf(h, vs, b,
                  IF h.Verify = 1 THEN SubSeq(data, idx + 1, idx + NonceLength)
                                  ELSE Zeroes(NonceLength),
                  IF h.Verify = 1 THEN Drop(data, idx + NonceLength) ELSE <<>>) :
            vs \in ValuesOf(v, Take(data, h.MetadataLength)),
            b \in BodyOf(h, SubSeq(data, h.MetadataLength + 1, idx))}

HeaderUnpackBytes(v, frame) ==
    LET h == UnpackFirst(ZeroHeader, frame[1])
    IN  IF frame = <<>> \/ IsUnknownPacket(h.Type) \/ Len(frame) < HeaderLen(v, h.Type) THEN {}
        ELSE {UnpackRest(v, h, SubSeq(frame, 2, HeaderLen(v, h.Type)))}

\* A frame that is there as a whole, and perhaps more than it.
UnpackBytes(v, frame) ==
    UNION {LET data == Drop(frame, HeaderLen(v, h.Type))
               idx  == h.MetadataLength + h.BodyLength
           IN  IF \/ Len(data) < idx
                  \/ h.Verify = 1 /\ Len(data) < idx + NonceLength + SignatureLength
               THEN {}
               ELSE Assemble(v, h, data) :
           h \in HeaderUnpackBytes(v, frame)}
-----------------------------------------------------------------------------
\* What the receiver should see of packet p, packed with this minGzipSize.
Received(v, p, minGzipSize) ==
    [Type |-> p.Type, Gzip |-> minGzipSize # 0 /\ Len(p.Body) >= minGzipSize,
     Verify |-> p.Verify, CmdCode |-> p.CmdCode % 256,
     RequestId |-> IF p.Type = Push THEN 0 ELSE p.RequestId,
     Timeout |-> IF p.Type = Request THEN p.Timeout ELSE 0,
     StatusCode |-> IF p.Type = Response THEN p.StatusCode ELSE 0,
     Nonce |-> IF p.Verify THEN p.Nonce ELSE Zeroes(NonceLength),
     Signature |-> IF p.Verify THEN p.Signature ELSE <<>>,
     Body |-> p.Body,
     Values |-> IF v = 2 THEN {p.Values[i] : i \in {i \in DOMAIN p.Values : p.Values[i].key # <<>>}}
                         ELSE {}]
=============================================================================
