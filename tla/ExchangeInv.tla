----------------------------- MODULE ExchangeInv -----------------------------
(***************************************************************************)
(* What is assumed of the two sides' calls, and the inductive invariant of *)
(* Exchange.                                                               *)
(*                                                                         *)
(* v is the version of a frame, s the scheme, c the codec of its sender,   *)
(* and as and an stand for asked and answered.                             *)
(***************************************************************************)
EXTENDS Exchange

HandshakeRecord == [Version : Byte, Codec : Byte, Platform : Byte, Reserve : Byte]

OptionNames    == DOMAIN DefaultOptions
OptionRecord   == [name : OptionNames, value : Int]
OptionList(os) == os \in Seq(OptionRecord)

\* What Do may be asked for: metadata whose values fit, whatever their order.  A
\* heartbeat is keepalive's.
RequestFits(r) ==
    /\ r \in [Cmd : Nat \ {Heartbeat}, Body : Nat, Metadata : SUBSET Entries, Timeout : Int]
    /\ IsFiniteSet(r.Metadata)
    /\ \A e \in r.Metadata : Len(e.key) =< max15BitLength /\ Len(e.val) =< max15BitLength
    /\ \A order \in SetToSeqs(r.Metadata) : \A vs \in SetToSeqs(SetMetadata(order)) :
          Sizes(vs)[Len(vs)] =< MaxMetadataLength

\* The fields of a handshake are bytes, ids do not come near 32 bits, and the server
\* pushes commands that are not the connection's own.
ASSUME ExchangeAssumption ==
    /\ \A h \in Handshakes : h \in HandshakeRecord
    /\ \A os \in OptionLists : OptionList(os)
    /\ \A r \in Requests : RequestFits(r)
    /\ \A c \in PushCmds : c \in Byte /\ c > Reconnect
    /\ Statuses \subseteq Byte /\ Messages \subseteq Nat
    /\ MaxActs \in Nat /\ MaxActs \div 65536 < 65536
    /\ MaxCut \in Nat
-----------------------------------------------------------------------------
ContextRecord == [Version : Nat, Codec : Nat, Platform : Nat, lastId : Nat]
Frames        == [kind : {"data", "ping", "pong", "close"}, data : Seq(Nat)]
PingRecord    == [id : Nat, body : Seq(Nat)]
PushRecord    == [cmd : Nat, body : Seq(Nat)]
CallRecord    == [sub : Nat, cmd : Nat, body : Seq(Nat)]
AskedRecord   == [id : Nat, cmd : Nat, body : Nat, metadata : SUBSET Entries,
                  values : Seq(Entries), timeout : Int]
AnswerRecord  == [id : Nat, status : Nat, body : Nat]
Outcomes      == [kind : {"pending", "failed", "timeout"}]
                   \cup [kind : {"ok"}, status : Nat, body : SUBSET Nat]
                   \cup [kind : {"error"}, err : [status : Nat, code : Nat]]

\* Frames, pings, calls and requests are what they seem to be.
ShapesInv ==
    /\ up \in Seq(Frames) /\ down \in Seq(Frames)
    /\ pings \in Seq(PingRecord) /\ ponged \in Seq(PingRecord)
    /\ pinged \in Seq(Nat) /\ beats \in Seq(Nat)
    /\ pushed \in Seq(PushRecord) /\ seen \in Seq(CallRecord)
    /\ subs \in [SubCmds -> Seq(Nat)]
    /\ asked \in Seq(AskedRecord) /\ answered \in SUBSET AnswerRecord
    /\ outcome \in Seq(Outcomes) /\ Len(outcome) = Len(asked)

\* The contexts are what the handshake made them, and nothing is sent before.
DialInv ==
    /\ cctx \in ContextRecord /\ sctx \in ContextRecord
    /\ phase \in {"new", "failed", "open", "closed", "panic"}
    /\ Dialed =>
          /\ scheme \in connDialers /\ hs \in Handshakes /\ hs.Version \in manager
          /\ cctx.Version = hs.Version /\ cctx.Codec = hs.Codec /\ cctx.Platform = hs.Platform
          /\ sctx.Version = hs.Version
          /\ sctx.Codec = Announced(scheme, hs).Codec
          /\ sctx.Platform = Announced(scheme, hs).Platform
    /\ scheme \in connDialers => opts \in OptionLists /\ dopts = newDialOptions(opts)
    /\ ~Dialed =>
          /\ up = <<>> /\ down = <<>> /\ asked = <<>> /\ pinged = <<>> /\ pings = <<>>
          /\ ponged = <<>> /\ beats = <<>> /\ pushed = <<>> /\ seen = <<>>
          /\ heard = {} /\ answered = {} /\ recvs = {}
          /\ cctx.lastId = 0 /\ sctx.lastId = 0

\* Requests have ids of their own, given out by the client; one that passes for a ping
\* has no answer.
IdsInv ==
    /\ \A i \in DOMAIN asked : 0 < asked[i].id /\ asked[i].id =< cctx.lastId
    /\ \A i, j \in DOMAIN asked : asked[i].id = asked[j].id => i = j
    /\ \A r \in answered : \E i \in DOMAIN asked :
          r.id = asked[i].id /\ asked[i].cmd % 256 # Heartbeat
    /\ \A n \in recvs : \E i \in DOMAIN asked : n = asked[i].id

\* The values of a request: each entry of the map with its key lowered, no key twice.
ValuesOK(a) ==
    /\ ValuesFit(a.values)
    /\ \A j \in DOMAIN a.values : \E e \in a.metadata : a.values[j] = Lowered(e)
    /\ \A e \in a.metadata : \E j \in DOMAIN a.values : a.values[j].key = ToLower(e.key)
ValuesInv == \A i \in DOMAIN asked : ValuesOK(asked[i])
-----------------------------------------------------------------------------
IdFits(n)   == n \in Nat /\ n =< MaxActs
BodyFits(b) == b \in Seq(Nat) /\ Len(b) \in {0, 2}

\* A frame with one packet in it, or with a body.
Whole(v, f) ==
    /\ f \in Frames
    /\ f.kind # "data" => BodyFits(f.data)
    /\ f.kind = "data" =>
          /\ UnpackBytes(v, f.data) = {PacketIn(v, f)}
          /\ IdFits(PacketIn(v, f).RequestId) /\ BodyFits(PacketIn(v, f).Body)
          /\ PacketIn(v, f).CmdCode \in Nat

\* The values that go with a request.
ValuesSent(v, a) == IF v = 2 THEN ReadOf(a.values, Len(a.values)) ELSE {}

\* p is request a as it is sent.
IsAsked(v, c, a, p) ==
    /\ p.Type = Request /\ p.CmdCode = a.cmd % 256 /\ p.RequestId = a.id
    /\ p.Body \in marshal(c, a.body) /\ p.Values = ValuesSent(v, a)

\* p is answer r to request a.
IsAnswer(c, a, r, p) ==
    /\ p.Type = Response /\ p.CmdCode = a.cmd % 256 /\ p.CmdCode # Heartbeat
    /\ p.RequestId = a.id /\ r.id = a.id
    /\ p.StatusCode = r.status /\ p.Body \in marshal(c, r.body)

\* What the client sends: requests, pings and pongs, over a WebSocket also closes.
UpOK(v, s, c, as, f) ==
    /\ Whole(v, f)
    /\ f.kind # "data" => s # "tcp"
    /\ f.kind = "data" =>
          LET p == PacketIn(v, f)
          IN  \/ \E i \in DOMAIN as : IsAsked(v, c, as[i], p)
              \/ IsPing(p) /\ s = "tcp"
              \/ IsPong(p) /\ s = "tcp"

\* What the server sends: answers, pongs, pings, pushes and closes.
DownOK(v, s, c, as, an, f) ==
    /\ Whole(v, f)
    /\ f.kind # "data" => s # "tcp"
    /\ f.kind = "data" =>
          LET p == PacketIn(v, f)
          IN  \/ \E i \in DOMAIN as, r \in an : IsAnswer(c, as[i], r, p)
              \/ IsPong(p)
              \/ IsPing(p) /\ s = "tcp"
              \/ p.Type = Push /\ (p.CmdCode > Reconnect \/ IsClose(p))

FramesInv ==
    /\ \A i \in DOMAIN up : UpOK(cctx.Version, scheme, cctx.Codec, asked, up[i])
    /\ \A i \in DOMAIN down : DownOK(cctx.Version, scheme, sctx.Codec, asked, answered, down[i])

\* What the server read is a request.
HeardInv ==
    \A h \in heard : \E i \in DOMAIN asked :
        /\ h.id = asked[i].id /\ h.cmd = asked[i].cmd % 256
        /\ \E b \in marshal(cctx.Codec, asked[i].body) : h.body = unmarshal(sctx.Codec, b)
        /\ h.values = ValuesSent(cctx.Version, asked[i])
-----------------------------------------------------------------------------
(* What the frames on their way carry, in order                              *)

\* A ping of the server or its pong.
PingOf(v, f) ==
    IF f.kind = "ping" THEN <<[id |-> 0, body |-> f.data]>>
    ELSE IF f.kind = "data" /\ IsPing(PacketIn(v, f))
         THEN <<[id |-> PacketIn(v, f).RequestId, body |-> PacketIn(v, f).Body]>> ELSE <<>>
PongOf(v, f) ==
    IF f.kind = "pong" THEN <<[id |-> 0, body |-> f.data]>>
    ELSE IF f.kind = "data" /\ IsPong(PacketIn(v, f))
         THEN <<[id |-> PacketIn(v, f).RequestId, body |-> PacketIn(v, f).Body]>> ELSE <<>>

PongsIn(v, fs) == FlattenSeq([i \in DOMAIN fs |-> PongOf(v, fs[i])])
PingsIn(v, fs) == FlattenSeq([i \in DOMAIN fs |-> PingOf(v, fs[i])])

\* The pongs the server got, those under way and the pings that will be answered are
\* the server's pings.
PingsInv == (ponged \o PongsIn(cctx.Version, up)) \o PingsIn(cctx.Version, down) = pings

\* Only requests, pings and, over a WebSocket, pongs take an id.
CountInv ==
    /\ Acts =< MaxActs
    /\ cctx.lastId + Len(PingsIn(cctx.Version, down)) =< Len(asked) + Len(pinged) + Len(pings)
    /\ sctx.lastId =< Len(pings)

\* The id handlePong will get for a ping of the client or for its answer.
BeatUp(v, f) ==
    IF f.kind = "ping" THEN <<onPong(f.data).RequestId>>
    ELSE IF f.kind = "data" /\ IsPing(PacketIn(v, f)) THEN <<PacketIn(v, f).RequestId>> ELSE <<>>
BeatDown(v, f) ==
    IF f.kind = "pong" THEN <<onPong(f.data).RequestId>>
    ELSE IF f.kind = "data" /\ IsPong(PacketIn(v, f)) THEN <<PacketIn(v, f).RequestId>> ELSE <<>>

BeatsUp(v, fs)   == FlattenSeq([i \in DOMAIN fs |-> BeatUp(v, fs[i])])
BeatsDown(v, fs) == FlattenSeq([i \in DOMAIN fs |-> BeatDown(v, fs[i])])

\* The pongs handled, those under way and those that the pings under way will get.
AllBeats == (beats \o BeatsDown(cctx.Version, down)) \o BeatsUp(cctx.Version, up)

\* The ids of the client's pings and of the requests that pass for one.
PingIds(ps, as) ==
    {ps[j] : j \in DOMAIN ps} \cup {as[j].id :
        j \in {j \in DOMAIN as : as[j].cmd % 256 = Heartbeat}}
BeatsOK(bs, ids, s, c) ==
    \A i \in DOMAIN bs :
        \/ bs[i] \in ids /\ \A j \in DOMAIN bs : bs[i] = bs[j] => i = j
        \/ bs[i] = 0 /\ s # "tcp" /\ c # CodecProtobuf
BeatsInv ==
    /\ \A n \in PingIds(pinged, asked) : 0 < n /\ n =< cctx.lastId
    /\ BeatsOK(AllBeats, PingIds(pinged, asked), scheme, cctx.Codec)
-----------------------------------------------------------------------------
\* A request waits as long as it has a receiver.
OutcomeInv ==
    \A i \in DOMAIN asked : outcome[i].kind = "pending" <=> asked[i].id \in recvs

\* An answer is on its way or was handed on.
AnswerInv ==
    phase = "open" =>
        \A i \in DOMAIN asked : \A r \in answered :
            r.id = asked[i].id /\ asked[i].id \in recvs /\ asked[i].cmd % 256 # Close =>
                \E k \in DOMAIN down :
                    /\ down[k].kind = "data" /\ PacketIn(cctx.Version, down[k]).Type = Response
                    /\ PacketIn(cctx.Version, down[k]).RequestId = r.id
                    /\ PacketIn(cctx.Version, down[k]).CmdCode = asked[i].cmd % 256

\* The outcome of a request is an answer to it.
OutcomeOK(agree, an, a, o) ==
    /\ o.kind = "ok" =>
          \E r \in an : /\ r.id = a.id /\ r.status = StatusSuccess
                        /\ agree /\ o.body # {} => o.body = {r.body}
    /\ o.kind = "error" =>
          \E r \in an : /\ r.id = a.id /\ r.status = o.err.status
                        /\ agree => o.err.code \in {r.body, UnknownError}
ResultInv == \A i \in DOMAIN asked : OutcomeOK(Agree, answered, asked[i], outcome[i])

ExchangeInvariant ==
    /\ ShapesInv /\ DialInv /\ IdsInv /\ ValuesInv /\ FramesInv /\ HeardInv /\ PingsInv
    /\ CountInv /\ BeatsInv /\ OutcomeInv /\ AnswerInv /\ ResultInv
    /\ PushesReachSubscribers /\ PanicsForCodec
=============================================================================
