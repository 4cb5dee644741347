------------------------------ MODULE Exchange ------------------------------
(***************************************************************************)
(* One connection end to end: Dial with its options, the dialer and        *)
(* protocol registries, the handshake and the contexts it leaves on both   *)
(* sides, and then the packets of requests, answers, pushes, heartbeats    *)
(* and closes, from their constructors over the frames (module Frame) to   *)
(* the handlers of the client.                                             *)
(*                                                                         *)
(* Frames arrive whole and in order, and Do writes and registers at once:  *)
(* goroutines, queues and lost connections are in Client and Conn, cut     *)
(* streams in FrameReader.  The server is any that uses this library.      *)
(*                                                                         *)
(* A message is a number; encoded it is the codec's number and its own.    *)
(* Nil encodes to nothing.                                                 *)
(***************************************************************************)
EXTENDS FrameFit, FiniteSets, SequencesExt

CONSTANTS
    Schemes, Handshakes, OptionLists,    \* what Dial may be called with
    Requests,                            \* what Do may be called with
    SubCmds,                             \* what Subscribe may be called with
    PushCmds, Statuses, Messages,        \* what the server sends
    MaxActs,                             \* requests, pings and pushes of both sides
    MaxSubs,                             \* subscribers of a command
    MaxCut                               \* sizes of the metadata section CutsCleanly looks at

VARIABLES
    scheme, hs, opts, dopts,  \* arguments of Dial and the options it made of them
    phase,                    \* new, failed, open, closed, panic
    cctx, sctx,               \* the Context of the client and of the server
    up, down,                 \* frames on their way to the server and to the client
    recvs,                    \* request ids with a receiver
    subs,                     \* subscribers by command, numbered as they come
    asked, outcome,           \* the requests and what became of them
    heard, answered,          \* requests as the server read them, and its answers
    pings, ponged,            \* pings of the server and the pongs it got
    pinged, beats,            \* ids of the client's pings and of the pongs handlePong got
    pushed, seen              \* pushes and closes of the server, and calls of subscribers

dialVars   == <<scheme, hs, opts, dopts, subs>>
askVars    == <<recvs, asked, outcome>>
serverVars == <<sctx, heard, answered, pings, ponged, pushed>>
clientVars == <<pinged, beats, seen>>
vars == <<dialVars, phase, cctx, up, down, askVars, serverVars, clientVars>>

\* control.Command
Close     == 0
Heartbeat == 1
Auth      == 2
Reconnect == 3

CodecProtobuf   == 1
CodecJSON       == 2
PlatformOpenapi == 9
StatusSuccess   == 0
Nil             == 0
UnknownError    == 500
-----------------------------------------------------------------------------
(* Options, registries, handshake                                            *)

\* Durations in seconds; AuthTokenGetter is in Client.
DefaultOptions ==
    [Timeout |-> 5, AuthTimeout |-> 10, KeepaliveTimeout |-> 120, Keepalive |-> 60,
     ReadBufferSize |-> 4096, ReadQueueSize |-> 16, WriteQueueSize |-> 16,
     MinGzipSize |-> 1024, MaxReconnect |-> 0]

\* Variant: an option sets what it is given.
SetOptionAlways(o, opt) == [o EXCEPT ![opt.name] = opt.value]

\* A setter ignores what is not positive; a buffer is given in KB.
SetOption(o, opt) ==
    IF opt.value > 0
    THEN [o EXCEPT ![opt.name] = IF opt.name = "ReadBufferSize" THEN opt.value * 1024
                                                               ELSE opt.value]
    ELSE o

newDialOptions(os) ==
    LET f[i \in 0..Len(os)] == IF i = 0 THEN DefaultOptions ELSE SetOption(f[i - 1], os[i])
    IN  f[Len(os)]

defaultRequestTimeout == 10
newRequestOptions(timeout) == IF timeout > 0 THEN timeout ELSE defaultRequestTimeout

connDialers == {"tcp", "ws", "wss"}
manager     == {1, 2}

\* Bitwise or of two bytes.
BitOf(x, unit) == (x \div unit) % 2
BitOr(x, y) ==
    LET bit(unit) == IF BitOf(x, unit) = 1 \/ BitOf(y, unit) = 1 THEN unit ELSE 0
    IN  bit(1) + bit(2) + bit(4) + bit(8) + bit(16) + bit(32) + bit(64) + bit(128)

\* Variant: the codec is put where the version ends in three bits.
HandshakePackNarrow(h) ==
    <<BitOr(h.Version, (h.Codec * 8) % 256), BitOr(h.Platform, (h.Reserve * 16) % 256)>>

\* Two bytes; what exceeds four bits is shifted out or, unshifted, mixed in.
HandshakePack(h) ==
    <<BitOr(h.Version, (h.Codec * 16) % 256), BitOr(h.Platform, (h.Reserve * 16) % 256)>>

HandshakeUnpack(data) ==
    [Version |-> data[1] % 16, Codec |-> data[1] \div 16,
     Platform |-> data[2] % 16, Reserve |-> data[2] \div 16]

\* NewContext and what the two sides fill in.  The version is always known here.
ContextOf(h) == [Version |-> h.Version, Codec |-> h.Codec, Platform |-> h.Platform, lastId |-> 0]

\* What the server knows: the handshake, or the query of the WebSocket's URL.
Announced(s, h) ==
    IF s = "tcp" THEN HandshakeUnpack(HandshakePack(h))
    ELSE [Version |-> h.Version, Codec |-> CodecProtobuf, Platform |-> PlatformOpenapi]

\* Variant: every request gets the same id.
NextReqIdSame(ctx) == 1
\* A uint32 that never comes near its end here.
NextReqId(ctx) == ctx.lastId + 1
-----------------------------------------------------------------------------
(* Packets                                                                   *)

\* Variant: a message is always encoded as JSON.
marshalAsJSON(codec, m) == IF m = Nil THEN {<<>>} ELSE {<<CodecJSON, m>>}

\* Variant: JSON is not known.
marshalNoJSON(codec, m) ==
    IF m = Nil THEN {<<>>} ELSE IF codec = CodecProtobuf THEN {<<codec, m>>} ELSE {}

\* The body of a packet with message m; fails for a codec that is unknown.
marshal(codec, m) ==
    IF m = Nil THEN {<<>>}
    ELSE IF codec \in {CodecProtobuf, CodecJSON} THEN {<<codec, m>>} ELSE {}

\* Nothing is a message in protobuf and none in JSON, and neither codec reads
\* what the other wrote.
unmarshal(codec, body) ==
    IF codec \notin {CodecProtobuf, CodecJSON} THEN {}
    ELSE IF body = <<>> THEN IF codec = CodecProtobuf THEN {Nil} ELSE {}
    ELSE IF body[1] = codec THEN {body[2]} ELSE {}

NewPacketWith(t, cmd, body, id, status, values) ==
    [Type |-> t, Gzip |-> FALSE, Verify |-> FALSE, CmdCode |-> cmd, RequestId |-> id,
     Timeout |-> 0, StatusCode |-> status, Nonce |-> Zeroes(NonceLength),
     Signature |-> <<>>, Body |-> body, Values |-> values]
NewPacket(t, cmd, body, id, status) == NewPacketWith(t, cmd, body, id, status, <<>>)

IsControl(p) == p.CmdCode =< Reconnect
IsClose(p)   == p.CmdCode = Close
IsPing(p)    == p.CmdCode = Heartbeat /\ p.Type = Request
IsPong(p)    == p.CmdCode = Heartbeat /\ p.Type = Response

Lowered(e) == [key |-> ToLower(e.key), val |-> e.val]

\* Metadata.Set: what is too long is left out, and a key is lowered.
Set(values, e) ==
    IF Len(e.key) =< max15BitLength /\ Len(e.val) =< max15BitLength
    THEN {x \in values : x.key # ToLower(e.key)} \cup {Lowered(e)}
    ELSE values

\* SetMetadata for the entries of a map, in the order in which range visits them.
SetMetadata(entries) ==
    LET f[i \in 0..Len(entries)] == IF i = 0 THEN {} ELSE Set(f[i - 1], entries[i])
    IN  f[Len(entries)]

\* Variant: a status that is not success is none of Do's business.
ErrNone(p, codec) == {}

\* Packet.Err: none, or the status and the code of the error.
Err(p, codec) ==
    IF p.Type # Response \/ p.StatusCode = StatusSuccess THEN {}
    ELSE LET e == unmarshal(codec, p.Body)
         IN  {[status |-> p.StatusCode,
               code |-> IF e = {} THEN UnknownError ELSE CHOOSE m \in e : TRUE]}

Frame(kind, data) == [kind |-> kind, data |-> data]

\* Variant: every connection needs its pings answered.
NeedHandleControlAlways == TRUE
NeedHandleControl == scheme = "tcp"

\* The frames of ClientConn.Write: a WebSocket has control frames for pings and closes.
Written(p) ==
    IF scheme # "tcp" /\ IsPing(p) THEN {Frame("ping", p.Body)}
    ELSE IF scheme # "tcp" /\ IsClose(p) THEN {Frame("close", p.Body)}
    ELSE {Frame("data", d) : d \in Pack(cctx.Version, p, dopts.MinGzipSize)}
-----------------------------------------------------------------------------
(* The client's calls                                                        *)

Init ==
    /\ scheme = "none" /\ hs = ContextOf([Version |-> 0, Codec |-> 0, Platform |-> 0])
    /\ opts = <<>> /\ dopts = DefaultOptions
    /\ phase = "new" /\ cctx = hs /\ sctx = hs
    /\ up = <<>> /\ down = <<>> /\ recvs = {} /\ subs = [c \in SubCmds |-> <<>>]
    /\ asked = <<>> /\ outcome = <<>> /\ heard = {} /\ answered = {}
    /\ pings = <<>> /\ ponged = <<>> /\ pinged = <<>> /\ beats = <<>>
    /\ pushed = <<>> /\ seen = <<>>

Acts == Len(asked) + Len(pinged) + Len(pings) + Len(pushed)

Subscribe(cmd) ==
    /\ phase = "new" /\ Len(subs[cmd]) < MaxSubs
    /\ subs' = [subs EXCEPT ![cmd] = Append(@, Len(@) + 1)]
    /\ UNCHANGED <<scheme, hs, opts, dopts, phase, cctx, up, down, askVars, serverVars, clientVars>>

Dial(s, h, os) ==
    /\ phase = "new"
    /\ scheme' = s /\ hs' = h /\ opts' = os
    /\ dopts' = IF s \in connDialers THEN newDialOptions(os) ELSE dopts
    /\ IF s \in connDialers /\ h.Version \in manager
       THEN phase' = "open" /\ cctx' = ContextOf(h) /\ sctx' = ContextOf(Announced(s, h))
       ELSE phase' = "failed" /\ UNCHANGED <<cctx, sctx>>
    /\ UNCHANGED <<subs, up, down, askVars, heard, answered, pings, ponged, pushed, clientVars>>

Pending == [kind |-> "pending"]

\* Do up to recv.  The request takes an id even if its body cannot be encoded.
\* order is how range visits Metadata, sent how MarshalValues visits the result.
Do(r) ==
    LET id == NextReqId(cctx)
    IN  /\ phase = "open" /\ Acts < MaxActs
        /\ cctx' = [cctx EXCEPT !.lastId = id]
        /\ \E order \in SetToSeqs(r.Metadata) :
           \E sent \in SetToSeqs(SetMetadata(order)) :
              /\ asked' = Append(asked, [id |-> id, cmd |-> r.Cmd, body |-> r.Body,
                                         metadata |-> r.Metadata, values |-> sent,
                                         timeout |-> newRequestOptions(r.Timeout)])
              /\ \/ /\ marshal(cctx.Codec, r.Body) = {}
                    /\ outcome' = Append(outcome, [kind |-> "failed"])
                    /\ UNCHANGED <<up, recvs>>
                 \/ \E b \in marshal(cctx.Codec, r.Body) :
                    \E f \in Written(NewPacketWith(Request, r.Cmd, b, id, 0, sent)) :
                       /\ up' = Append(up, f)
                       /\ recvs' = recvs \cup {id}
                       /\ outcome' = Append(outcome, Pending)
        /\ UNCHANGED <<dialVars, phase, down, serverVars, clientVars>>

\* recv gives up.
DoTimeout(i) ==
    /\ outcome[i] = Pending
    /\ outcome' = [outcome EXCEPT ![i] = [kind |-> "timeout"]]
    /\ recvs' = recvs \ {asked[i].id}
    /\ UNCHANGED <<dialVars, phase, cctx, up, down, asked, serverVars, clientVars>>

\* A keepalive ping; if it cannot be made the connection is given up.
Ping ==
    LET id == NextReqId(cctx)
    IN  /\ phase = "open" /\ Acts < MaxActs
        /\ cctx' = [cctx EXCEPT !.lastId = id]
        /\ pinged' = Append(pinged, id)
        /\ \/ marshal(cctx.Codec, id) = {} /\ phase' = "closed" /\ UNCHANGED up
           \/ \E b \in marshal(cctx.Codec, id) :
              \E f \in Written(NewPacket(Request, Heartbeat, b, id, 0)) :
                 up' = Append(up, f) /\ UNCHANGED phase
        /\ UNCHANGED <<dialVars, down, askVars, serverVars, beats, seen>>
-----------------------------------------------------------------------------
(* The server                                                                *)

Reply(f) == down' = Append(down, f)
Sent(p)  == {Frame("data", d) : d \in Pack(sctx.Version, p, dopts.MinGzipSize)}

\* A request: it is answered with any status and message.
Answer(p) ==
    /\ p.Type = Request /\ ~IsPing(p)
    /\ heard' = heard \cup {[id |-> p.RequestId, cmd |-> p.CmdCode, values |-> p.Values,
                             body |-> unmarshal(sctx.Codec, p.Body)]}
    /\ \E st \in Statuses, m \in Messages : \E b \in marshal(sctx.Codec, m) :
          /\ answered' = answered \cup {[id |-> p.RequestId, status |-> st, body |-> m]}
          /\ \E f \in Sent(NewPacket(Response, p.CmdCode, b, p.RequestId, st)) : Reply(f)
    /\ UNCHANGED ponged

\* A ping is answered with its id and body.
AnswerPing(p) ==
    /\ IsPing(p)
    /\ \E f \in Sent(NewPacket(Response, Heartbeat, p.Body, p.RequestId, 0)) : Reply(f)
    /\ UNCHANGED <<heard, answered, ponged>>

GetPong(id, body) ==
    /\ ponged' = Append(ponged, [id |-> id, body |-> body])
    /\ UNCHANGED <<down, heard, answered>>

\* The next frame of the client.  A close frame is answered with one.
Serve ==
    /\ phase = "open" /\ up # <<>> /\ up' = Tail(up)
    /\ LET f == Head(up)
       IN  \/ /\ f.kind = "data"
              /\ \E p \in UnpackBytes(sctx.Version, f.data) :
                    Answer(p) \/ AnswerPing(p) \/ (IsPong(p) /\ GetPong(p.RequestId, p.Body))
           \/ f.kind = "ping" /\ Reply(Frame("pong", f.data)) /\ UNCHANGED <<heard, answered, ponged>>
           \/ f.kind = "pong" /\ GetPong(0, f.data)
           \/ f.kind = "close" /\ Reply(f) /\ UNCHANGED <<heard, answered, ponged>>
    /\ UNCHANGED <<dialVars, phase, cctx, askVars, sctx, pings, pushed, clientVars>>

ServerPing ==
    /\ phase = "open" /\ Acts < MaxActs
    /\ \E m \in Messages \ {Nil} : \E b \in marshal(sctx.Codec, m) :
          IF scheme = "tcp"
          THEN \E f \in Sent(NewPacket(Request, Heartbeat, b, NextReqId(sctx), 0)) :
                  /\ Reply(f)
                  /\ pings' = Append(pings, [id |-> NextReqId(sctx), body |-> b])
                  /\ sctx' = [sctx EXCEPT !.lastId = NextReqId(sctx)]
          ELSE /\ Reply(Frame("ping", b))
               /\ pings' = Append(pings, [id |-> 0, body |-> b])
               /\ UNCHANGED sctx
    /\ UNCHANGED <<dialVars, phase, cctx, up, askVars, heard, answered, ponged, pushed, clientVars>>

ServerPush(cmd) ==
    /\ phase = "open" /\ Acts < MaxActs
    /\ \E m \in Messages : \E b \in marshal(sctx.Codec, m) :
       \E f \in Sent(NewPacket(Push, cmd, b, 0, 0)) :
          Reply(f) /\ pushed' = Append(pushed, [cmd |-> cmd, body |-> b])
    /\ UNCHANGED <<dialVars, phase, cctx, up, askVars, sctx, heard, answered, pings, ponged,
                   clientVars>>

ServerClose ==
    /\ phase = "open" /\ Acts < MaxActs
    /\ pushed' = Append(pushed, [cmd |-> Close, body |-> <<>>])
    /\ IF scheme = "tcp" THEN \E f \in Sent(NewPacket(Push, Close, <<>>, 0, 0)) : Reply(f)
                         ELSE Reply(Frame("close", <<>>))
    /\ UNCHANGED <<dialVars, phase, cctx, up, askVars, sctx, heard, answered, pings, ponged,
                   clientVars>>
-----------------------------------------------------------------------------
(* The client's handlers                                                     *)

\* Variant: only the first subscriber hears of a push.
handlePushFirst(p) ==
    /\ seen' = IF p.CmdCode \in SubCmds /\ subs[p.CmdCode] # <<>>
               THEN Append(seen, [sub |-> subs[p.CmdCode][1], cmd |-> p.CmdCode, body |-> p.Body])
               ELSE seen
    /\ UNCHANGED <<up, phase, recvs, outcome, beats>>

\* The subscribers of the command, in order.
handlePush(p) ==
    /\ seen' = IF p.CmdCode \in SubCmds
               THEN seen \o [i \in DOMAIN subs[p.CmdCode] |->
                               [sub |-> subs[p.CmdCode][i], cmd |-> p.CmdCode, body |-> p.Body]]
               ELSE seen
    /\ UNCHANGED <<up, phase, recvs, outcome, beats>>

\* A ping: answered with its body and its id where the connection, which has
\* written already, does not do it.
handlePing(p, already) ==
    /\ IF NeedHandleControl
       THEN \E f \in Written(NewPacket(Response, Heartbeat, p.Body, p.RequestId, StatusSuccess)) :
               up' = Append(already, f)
       ELSE up' = already
    /\ UNCHANGED <<phase, recvs, outcome, beats, seen>>

handlePong(p) ==
    /\ beats' = Append(beats, p.RequestId)
    /\ UNCHANGED <<up, phase, recvs, outcome, seen>>

\* closeByServer; the reconnect that follows is in Client.
closeByServer ==
    /\ phase' = "closed"
    /\ UNCHANGED <<up, recvs, outcome, beats, seen>>

\* The rest of Do: the error, or the packet for the caller to unmarshal.
Result(p) ==
    IF Err(p, cctx.Codec) = {}
    THEN [kind |-> "ok", status |-> p.StatusCode, body |-> unmarshal(cctx.Codec, p.Body)]
    ELSE [kind |-> "error", err |-> CHOOSE e \in Err(p, cctx.Codec) : TRUE]

handleResponse(p) ==
    /\ recvs' = recvs \ {p.RequestId}
    /\ outcome' = [i \in DOMAIN outcome |->
                     IF asked[i].id = p.RequestId /\ p.RequestId \in recvs
                     THEN Result(p) ELSE outcome[i]]
    /\ UNCHANGED <<up, phase, beats, seen>>

handleControl(p) ==
    \/ IsPing(p) /\ handlePing(p, up)
    \/ IsPong(p) /\ handlePong(p)
    \/ IsClose(p) /\ closeByServer
    \/ p.CmdCode \in {Auth, Reconnect} /\ handleResponse(p)

onPacket(p) ==
    \/ IsControl(p) /\ handleControl(p)
    \/ ~IsControl(p) /\ p.Type = Push /\ handlePush(p)
    \/ ~IsControl(p) /\ p.Type = Response /\ handleResponse(p)

\* Variant: the pong's id is left at zero.
onPongPlain(data) == NewPacket(Response, Heartbeat, data, 0, 0)

\* A pong frame as a packet, which onPacket hands to handlePong: it carries the id
\* its body has, if the body reads as a protobuf Heartbeat.
onPong(data) ==
    LET beat == unmarshal(CodecProtobuf, data)
    IN  NewPacket(Response, Heartbeat, data, IF beat = {} THEN 0 ELSE CHOOSE m \in beat : TRUE, 0)

\* The ping is answered with a control frame; its packet takes a request id.
onPing(data) ==
    /\ cctx' = [cctx EXCEPT !.lastId = NextReqId(cctx)]
    /\ handlePing(NewPacket(Request, Heartbeat, data, NextReqId(cctx), 0),
                  Append(up, Frame("pong", data)))

\* MustNewPush panics if there is no codec for the reason.
onClose ==
    IF marshal(cctx.Codec, 1) = {}
    THEN phase' = "panic" /\ UNCHANGED <<up, recvs, outcome, beats, seen>>
    ELSE closeByServer

\* The next frame of the server.
Receive ==
    /\ phase = "open" /\ down # <<>> /\ down' = Tail(down)
    /\ LET f == Head(down)
       IN  \/ /\ f.kind = "data" /\ \E p \in UnpackBytes(cctx.Version, f.data) : onPacket(p)
              /\ UNCHANGED cctx
           \/ f.kind = "pong" /\ handlePong(onPong(f.data)) /\ UNCHANGED cctx
           \/ f.kind = "ping" /\ onPing(f.data)
           \/ f.kind = "close" /\ onClose /\ UNCHANGED cctx
    /\ UNCHANGED <<dialVars, asked, pinged, serverVars>>

Next ==
    \/ \E c \in SubCmds : Subscribe(c)
    \/ \E s \in Schemes, h \in Handshakes, os \in OptionLists : Dial(s, h, os)
    \/ \E r \in Requests : Do(r)
    \/ \E i \in DOMAIN asked : DoTimeout(i)
    \/ Ping \/ Serve \/ ServerPing \/ ServerClose \/ Receive
    \/ \E c \in PushCmds : ServerPush(c)

Spec == Init /\ [][Next]_vars
-----------------------------------------------------------------------------
Dialed == phase \notin {"new", "failed"}
Agree  == Dialed /\ cctx.Codec = sctx.Codec

\* Both sides mean the same version, codec and platform exactly if the handshake
\* fits into its nibbles or, over a WebSocket, is what its URL always says.
SidesAgree ==
    Dialed =>
        /\ cctx.Version = sctx.Version
        /\ (cctx.Codec = sctx.Codec /\ cctx.Platform = sctx.Platform)
              <=> IF scheme = "tcp" THEN hs.Codec < 16 /\ hs.Platform < 16
                  ELSE hs.Codec = CodecProtobuf /\ hs.Platform = PlatformOpenapi

\* The last positive value given for an option counts, else its default, so that no
\* queue, interval or timeout is ever empty.
OptionsTaken ==
    scheme \in connDialers =>
        \A o \in DOMAIN dopts :
            LET given == {i \in DOMAIN opts : opts[i].name = o /\ opts[i].value > 0}
                unit  == IF o = "ReadBufferSize" THEN 1024 ELSE 1
            IN  /\ dopts[o] = IF given = {} THEN DefaultOptions[o]
                              ELSE unit * opts[CHOOSE i \in given : \A j \in given : j =< i].value
                /\ dopts[o] > 0 \/ o = "MaxReconnect"

\* What the server reads is a request that was made: its id, the low byte of its
\* command, its message, and in version 2 its metadata, every key but the empty one
\* once and lowered, with one of the values it was given.
RequestUnderstood ==
    \A h \in heard : \E i \in DOMAIN asked :
        LET a == asked[i]
        IN  /\ h.id = a.id /\ h.cmd = a.cmd % 256
            /\ Agree /\ h.body # {} => h.body = {a.body}
            /\ Agree /\ h.body = {} => cctx.Codec # CodecProtobuf /\ a.body = Nil
            /\ h.values \subseteq {Lowered(e) : e \in a.metadata}
            /\ {e.key : e \in h.values} =
                  {ToLower(e.key) : e \in {e \in a.metadata : cctx.Version = 2 /\ e.key # <<>>}}
            /\ Cardinality({e.key : e \in h.values}) = Cardinality(h.values)

\* Responses that have not been received.
UnderWay == {p.RequestId : p \in UNION {UnpackBytes(cctx.Version, down[i].data) :
                i \in {i \in DOMAIN down : down[i].kind = "data"}}}

\* An outcome is the server's answer to that request and no other's: its error if
\* the status is not success, else its message; and whatever answer was received
\* has an outcome, except where the low byte of the command is a close or heartbeat.
AnswersReachAsker ==
    \A i \in DOMAIN asked :
        LET mine == {r \in answered : r.id = asked[i].id}
            o    == outcome[i]
        IN  /\ o.kind = "ok" => \E r \in mine : r.status = StatusSuccess /\ (Agree /\ o.body # {} => o.body = {r.body})
            /\ o.kind = "error" => \E r \in mine : /\ r.status = o.err.status
                                                   /\ Agree => o.err.code \in {r.body, UnknownError}
            /\ o.kind = "pending" /\ mine # {} /\ phase = "open" =>
                  asked[i].id \in UnderWay \/ asked[i].cmd % 256 \in {Close, Heartbeat}

\* The server's pings are answered once each, in order, with their id and body,
\* whichever layer answers them.
PingsAnsweredOnce == IsPrefix(ponged, pings)

\* A pong the client gets has the id of a ping, or of a request that passed for one,
\* and no two have the same, unless the codec is JSON over a WebSocket, where the id
\* is lost.
PongsKeepIds ==
    LET Ids == {pinged[i] : i \in DOMAIN pinged}
                 \cup {a.id : a \in {asked[i] : i \in {i \in DOMAIN asked : asked[i].cmd % 256 = Heartbeat}}}
    IN  \A i \in DOMAIN beats :
            \/ beats[i] \in Ids /\ \A j \in DOMAIN beats : beats[i] = beats[j] => i = j
            \/ beats[i] = 0 /\ scheme # "tcp" /\ cctx.Codec # CodecProtobuf

\* The packet in a frame of version v; the calls of the subscribers ss that a push
\* makes, and those that a frame of the server will.
PacketIn(v, f) == CHOOSE p \in UnpackBytes(v, f.data) : TRUE
Calls(ss, cmd, body) ==
    IF cmd \in SubCmds /\ cmd > Reconnect
    THEN [i \in DOMAIN ss[cmd] |-> [sub |-> ss[cmd][i], cmd |-> cmd, body |-> body]]
    ELSE <<>>
CallsOf(ss, v, f) ==
    IF f.kind = "data" /\ PacketIn(v, f).Type = Push
    THEN Calls(ss, PacketIn(v, f).CmdCode, PacketIn(v, f).Body) ELSE <<>>

CallsIn(ss, v, fs) == FlattenSeq([i \in DOMAIN fs |-> CallsOf(ss, v, fs[i])])
AllCalls(ss, ps)   == FlattenSeq([i \in DOMAIN ps |-> Calls(ss, ps[i].cmd, ps[i].body)])

\* Every push is passed to every subscriber of its command, in the order of the
\* pushes and of the subscriptions, with the bytes the server sent: the calls made and
\* those of the frames still on their way are the calls of all pushes.
PushesReachSubscribers == seen \o CallsIn(subs, cctx.Version, down) = AllCalls(subs, pushed)

\* The process ends only if a WebSocket without a known codec is closed.
PanicsForCodec ==
    phase = "panic" => scheme # "tcp" /\ hs.Codec \notin {CodecProtobuf, CodecJSON}

\* However small the metadata section and whatever the order of the values, the
\* other side reads whole entries: those before the first that does not fit.
CutsCleanly ==
    \A i \in DOMAIN asked : \A max \in 0..MaxCut :
        LET vs == asked[i].values
        IN  \E k \in 0..Len(vs) :
               Fits(vs, max, k) /\ UnmarshalValues(MarshalValues(vs, max)) = {ReadOf(vs, k)}
=============================================================================
