--------------------------- MODULE ExchangeProofs ---------------------------
(***************************************************************************)
(* Exchange keeps ExchangeInvariant, and so its properties.                *)
(*                                                                         *)
(* First each action, as far as the invariant is concerned: what it adds   *)
(* to the frames on their way and takes from them (DoSays to ReceiveSays). *)
(* Then each part of the invariant over these steps.                       *)
(***************************************************************************)
EXTENDS ExchangeFacts

-----------------------------------------------------------------------------
(* Steps                                                                     *)

UpFrames(v, s, c, as)       == {f \in Frames : UpOK(v, s, c, as, f)}
DownFrames(v, s, c, as, an) == {f \in Frames : DownOK(v, s, c, as, an, f)}

\* What Dial leaves.
LEMMA DialedFacts ==
    ASSUME DialInv, Dialed
    PROVE  /\ cctx.Version \in {1, 2} /\ sctx.Version = cctx.Version
           /\ cctx.Codec \in Nat /\ sctx.Codec \in Nat /\ cctx.lastId \in Nat /\ sctx.lastId \in Nat
           /\ dopts.MinGzipSize \in Nat /\ scheme \in connDialers
<1>1. /\ cctx \in ContextRecord /\ sctx \in ContextRecord
      /\ scheme \in connDialers /\ hs.Version \in manager
      /\ cctx.Version = hs.Version /\ sctx.Version = hs.Version
      /\ opts \in OptionLists /\ dopts = newDialOptions(opts)
    BY DEF DialInv
<1>2. OptionList(opts)
    BY <1>1, ExchangeAssumption
<1>3. dopts \in [OptionNames -> Int] /\ "MinGzipSize" \in OptionNames
    BY <1>1, <1>2, OptionsFacts, DefaultFacts
<1>4. dopts["MinGzipSize"] > 0
    BY <1>1, <1>2, <1>3, OptionsTake
<1>5. dopts.MinGzipSize \in Nat
    BY <1>3, <1>4
<1> QED
    BY <1>1, <1>5 DEF ContextRecord, manager

\* The steps after Dial, and what all of them keep.
Later ==
    \/ \E r \in Requests : Do(r)
    \/ \E i \in DOMAIN asked : DoTimeout(i)
    \/ Ping \/ Serve \/ ServerPing \/ ServerClose \/ Receive
    \/ \E c \in PushCmds : ServerPush(c)

SameContext(c, d) ==
    /\ d \in ContextRecord /\ d.Version = c.Version /\ d.Codec = c.Codec
    /\ d.Platform = c.Platform /\ c.lastId =< d.lastId

Static ==
    /\ Dialed /\ Dialed' /\ UNCHANGED dialVars
    /\ SameContext(cctx, cctx') /\ SameContext(sctx, sctx')

\* A context stays the same but for its id.
LEMMA SameFacts ==
    ASSUME NEW c \in ContextRecord
    PROVE  /\ SameContext(c, c)
           /\ \A n \in Nat : c.lastId =< n => SameContext(c, [c EXCEPT !.lastId = n])
           /\ c.lastId \in Nat
<1>1. c.lastId \in Nat
    BY DEF ContextRecord
<1>2. SameContext(c, c)
    BY <1>1 DEF SameContext
<1>3. ASSUME NEW n \in Nat, c.lastId =< n PROVE SameContext(c, [c EXCEPT !.lastId = n])
  <2> DEFINE d == [c EXCEPT !.lastId = n]
  <2>1. /\ d \in ContextRecord /\ d.Version = c.Version /\ d.Codec = c.Codec
        /\ d.Platform = c.Platform /\ d.lastId = n
      BY DEF ContextRecord
  <2> HIDE DEF d
  <2>2. SameContext(c, d)
      BY <1>3, <2>1 DEF SameContext
  <2> QED
      BY <2>2 DEF d
<1> QED
    BY <1>1, <1>2, <1>3

\* Id by id.
LEMMA NextSame ==
    ASSUME NEW c \in ContextRecord, NEW d, d = [c EXCEPT !.lastId = NextReqId(c)]
    PROVE  SameContext(c, d) /\ d.lastId = c.lastId + 1
<1>1. c.lastId \in Nat /\ NextReqId(c) = c.lastId + 1
    BY SameFacts DEF NextReqId
<1>2. c.lastId + 1 \in Nat /\ c.lastId =< c.lastId + 1
    BY <1>1
<1>3. SameContext(c, d)
    BY <1>1, <1>2, SameFacts
<1>4. d.lastId = c.lastId + 1
    BY <1>1 DEF ContextRecord
<1> QED
    BY <1>3, <1>4

\* No step after Dial changes what was dialed.
LEMMA LaterStatic ==
    ASSUME ShapesInv, DialInv, Later
    PROVE  Static /\ phase' \in {"open", "closed", "panic"}
<1>1. /\ cctx \in ContextRecord /\ sctx \in ContextRecord
      /\ ~Dialed => asked = <<>>
      /\ phase \in {"new", "failed", "open", "closed", "panic"}
    BY DEF DialInv
<1>2. SameContext(cctx, cctx) /\ SameContext(sctx, sctx)
    BY <1>1, SameFacts
<1>3. phase = "open" => Dialed
    BY DEF Dialed
<1>4. phase' \in {"open", "closed", "panic"} => Dialed'
    BY DEF Dialed
<1>5. ASSUME NEW r \in Requests, Do(r)
      PROVE  Static /\ phase' \in {"open", "closed", "panic"}
  <2>1. /\ phase = "open" /\ phase' = phase /\ sctx' = sctx /\ UNCHANGED dialVars
        /\ cctx' = [cctx EXCEPT !.lastId = NextReqId(cctx)]
      BY <1>5 DEF Do, serverVars
  <2>2. SameContext(cctx, cctx')
      BY <1>1, <2>1, NextSame
  <2> QED
      BY <1>2, <1>3, <1>4, <2>1, <2>2 DEF Static
<1>6. ASSUME NEW i \in DOMAIN asked, DoTimeout(i)
      PROVE  Static /\ phase' \in {"open", "closed", "panic"}
  <2>1. UNCHANGED <<phase, cctx, sctx, dialVars>>
      BY <1>6 DEF DoTimeout, serverVars
  <2>2. Dialed
      BY <1>1, <1>6
  <2>3. phase \in {"open", "closed", "panic"}
      BY <1>1, <2>2 DEF Dialed
  <2> QED
      BY <1>2, <1>4, <2>1, <2>2, <2>3 DEF Static
<1>7. CASE Ping
  <2>1. /\ phase = "open" /\ phase' \in {"open", "closed"} /\ sctx' = sctx /\ UNCHANGED dialVars
        /\ cctx' = [cctx EXCEPT !.lastId = NextReqId(cctx)]
      BY <1>7 DEF Ping, serverVars
  <2>2. SameContext(cctx, cctx')
      BY <1>1, <2>1, NextSame
  <2> QED
      BY <1>2, <1>3, <1>4, <2>1, <2>2 DEF Static
<1>8. CASE Serve
  <2>1. phase = "open" /\ UNCHANGED <<phase, cctx, sctx, dialVars>>
      BY <1>8 DEF Serve
  <2> QED
      BY <1>2, <1>3, <1>4, <2>1 DEF Static
<1>9. CASE ServerPing
  <2>1. /\ phase = "open" /\ UNCHANGED <<phase, cctx, dialVars>>
        /\ sctx' = sctx \/ sctx' = [sctx EXCEPT !.lastId = NextReqId(sctx)]
      BY <1>9 DEF ServerPing
  <2>2. SameContext(sctx, sctx')
      BY <1>1, <1>2, <2>1, NextSame
  <2> QED
      BY <1>2, <1>3, <1>4, <2>1, <2>2 DEF Static
<1>10. CASE ServerClose
  <2>1. phase = "open" /\ UNCHANGED <<phase, cctx, sctx, dialVars>>
      BY <1>10 DEF ServerClose
  <2> QED
      BY <1>2, <1>3, <1>4, <2>1 DEF Static
<1>11. ASSUME NEW c \in PushCmds, ServerPush(c)
       PROVE  Static /\ phase' \in {"open", "closed", "panic"}
  <2>1. phase = "open" /\ UNCHANGED <<phase, cctx, sctx, dialVars>>
      BY <1>11 DEF ServerPush
  <2> QED
      BY <1>2, <1>3, <1>4, <2>1 DEF Static
<1>12. CASE Receive
  <2>1. /\ phase = "open" /\ sctx' = sctx /\ UNCHANGED dialVars
        /\ cctx' = cctx \/ cctx' = [cctx EXCEPT !.lastId = NextReqId(cctx)]
      BY <1>12 DEF Receive, onPing, serverVars
  <2>2. SameContext(cctx, cctx')
      BY <1>1, <1>2, <2>1, NextSame
  <2>3. phase' \in {phase, "closed", "panic"}
    <3> DEFINE f == Head(down)
    <3>1. \/ \E p : onPacket(p)
          \/ handlePong(onPong(f.data))
          \/ onPing(f.data)
          \/ onClose
        BY <1>12 DEF Receive
    <3>2. ASSUME NEW p, onPacket(p) PROVE phase' \in {phase, "closed", "panic"}
        BY <3>2 DEF onPacket, handleControl, handlePing, handlePong, closeByServer,
                    handleResponse, handlePush
    <3>3. handlePong(onPong(f.data)) => phase' = phase
        BY DEF handlePong
    <3>4. onPing(f.data) => phase' = phase
        BY DEF onPing, handlePing
    <3>5. onClose => phase' \in {"closed", "panic"}
        BY DEF onClose, closeByServer
    <3> QED
        BY <3>1, <3>2, <3>3, <3>4, <3>5
  <2> QED
      BY <1>2, <1>3, <1>4, <2>1, <2>2, <2>3 DEF Static
<1> QED
    BY <1>5, <1>6, <1>7, <1>8, <1>9, <1>10, <1>11, <1>12 DEF Later

\* The frames on their way.
LEMMA FramesAre ==
    ASSUME ShapesInv, FramesInv
    PROVE  /\ up \in Seq(UpFrames(cctx.Version, scheme, cctx.Codec, asked))
           /\ down \in Seq(DownFrames(cctx.Version, scheme, sctx.Codec, asked, answered))
           /\ up \in Seq(WholeFrames(cctx.Version)) /\ down \in Seq(WholeFrames(cctx.Version))
<1> DEFINE U == UpFrames(cctx.Version, scheme, cctx.Codec, asked)
           D == DownFrames(cctx.Version, scheme, sctx.Codec, asked, answered)
           W == WholeFrames(cctx.Version)
<1>1. /\ up \in Seq(Frames) /\ down \in Seq(Frames)
      /\ \A i \in DOMAIN up : UpOK(cctx.Version, scheme, cctx.Codec, asked, up[i])
      /\ \A i \in DOMAIN down : DownOK(cctx.Version, scheme, sctx.Codec, asked, answered, down[i])
    BY DEF ShapesInv, FramesInv
<1>2. /\ \A i \in DOMAIN up : up[i] \in Frames
      /\ \A i \in DOMAIN down : down[i] \in Frames
    BY <1>1
<1>3. \A i \in DOMAIN up : up[i] \in U /\ up[i] \in W
    BY <1>1, <1>2 DEF UpFrames, UpOK, WholeFrames
<1>4. \A i \in DOMAIN down : down[i] \in D /\ down[i] \in W
    BY <1>1, <1>2 DEF DownFrames, DownOK, WholeFrames
<1> HIDE DEF U, D, W
<1>5. up \in Seq(U) /\ up \in Seq(W)
    BY <1>1, <1>3
<1>6. down \in Seq(D) /\ down \in Seq(W)
    BY <1>1, <1>4
<1> QED
    BY <1>5, <1>6 DEF U, D, W

\* A frame of the WebSocket's own.
LEMMA ControlPieces ==
    ASSUME NEW v, NEW kind \in {"ping", "pong", "close"}, NEW body, BodyFits(body)
    PROVE  LET f == Frame(kind, body)
           IN  /\ f \in WholeFrames(v) /\ f.kind = kind /\ f.data = body
               /\ PingOf(v, f) = IF kind = "ping" THEN <<[id |-> 0, body |-> body]>> ELSE <<>>
               /\ PongOf(v, f) = IF kind = "pong" THEN <<[id |-> 0, body |-> body]>> ELSE <<>>
               /\ BeatUp(v, f) = IF kind = "ping" THEN <<onPong(body).RequestId>> ELSE <<>>
               /\ BeatDown(v, f) = IF kind = "pong" THEN <<onPong(body).RequestId>> ELSE <<>>
               /\ \A ss : CallsOf(ss, v, f) = <<>>
<1> DEFINE f == Frame(kind, body)
<1>1. f.kind = kind /\ f.data = body /\ kind # "data"
    BY DEF Frame
<1>2. f \in Frames
    BY DEF Frame, Frames, BodyFits
<1> HIDE DEF f
<1>3. f \in WholeFrames(v)
    BY <1>1, <1>2 DEF WholeFrames, Whole
<1>4. PingOf(v, f) = IF kind = "ping" THEN <<[id |-> 0, body |-> body]>> ELSE <<>>
    BY <1>1 DEF PingOf
<1>5. PongOf(v, f) = IF kind = "pong" THEN <<[id |-> 0, body |-> body]>> ELSE <<>>
    BY <1>1 DEF PongOf
<1>6. BeatUp(v, f) = IF kind = "ping" THEN <<onPong(body).RequestId>> ELSE <<>>
    BY <1>1 DEF BeatUp
<1>7. BeatDown(v, f) = IF kind = "pong" THEN <<onPong(body).RequestId>> ELSE <<>>
    BY <1>1 DEF BeatDown
<1>8. \A ss : CallsOf(ss, v, f) = <<>>
    BY <1>1 DEF CallsOf
<1> QED
    BY <1>1, <1>3, <1>4, <1>5, <1>6, <1>7, <1>8 DEF f

\* The next ids fit as long as there is something left to do.
LEMMA NextIdsFit ==
    ASSUME ShapesInv, DialInv, FramesInv, CountInv, Dialed, Acts < MaxActs
    PROVE  IdFits(cctx.lastId + 1) /\ IdFits(sctx.lastId + 1)
<1> DEFINE a == Len(asked)
           b == Len(pinged)
           c == Len(pings)
           d == Len(pushed)
           e == Len(PingsIn(cctx.Version, down))
           m == cctx.lastId
           n == sctx.lastId
<1>1. a \in Nat /\ b \in Nat /\ c \in Nat /\ d \in Nat
    BY DEF ShapesInv
<1>2. e \in Nat
  <2>1. down \in Seq(WholeFrames(cctx.Version))
      BY FramesAre
  <2>2. PingsIn(cctx.Version, down) \in Seq(PingRecord)
      BY <2>1, PingsFacts
  <2> QED
      BY <2>2
<1>3. m \in Nat /\ n \in Nat
    BY DialedFacts
<1>4. a + b + c + d < MaxActs /\ m + e =< a + b + c /\ n =< c
    BY DEF CountInv, Acts
<1>5. MaxActs \in Nat
    BY ExchangeAssumption
<1> HIDE DEF a, b, c, d, e, m, n
<1>6. m + 1 \in Nat /\ m + 1 =< MaxActs /\ n + 1 \in Nat /\ n + 1 =< MaxActs
    BY <1>1, <1>2, <1>3, <1>4, <1>5
<1> QED
    BY <1>6 DEF IdFits, m, n

\* Request a is made.
Asks(a) ==
    /\ asked' = Append(asked, a) /\ a \in AskedRecord /\ ValuesOK(a)
    /\ a.id = cctx.lastId + 1 /\ cctx'.lastId = a.id

\* It is sent, or its message cannot be encoded.
AskSent(a, f) ==
    /\ f \in UpFrames(cctx.Version, scheme, cctx.Codec, Append(asked, a))
    /\ up' = Append(up, f) /\ recvs' = recvs \cup {a.id} /\ outcome' = Append(outcome, Pending)
    /\ PongOf(cctx.Version, f) = <<>>
    /\ BeatUp(cctx.Version, f) = IF a.cmd % 256 = Heartbeat THEN <<a.id>> ELSE <<>>
AskFailed == UNCHANGED <<up, recvs>> /\ outcome' = Append(outcome, [kind |-> "failed"])

\* The frame of a request.
LEMMA AskedFrame ==
    ASSUME ShapesInv, DialInv, Dialed, NEW a \in AskedRecord, ValuesOK(a), IdFits(a.id),
           a.cmd # Heartbeat, NEW b \in marshal(cctx.Codec, a.body),
           NEW f \in Written(NewPacketWith(Request, a.cmd, b, a.id, 0, a.values))
    PROVE  /\ f \in UpFrames(cctx.Version, scheme, cctx.Codec, Append(asked, a))
           /\ PongOf(cctx.Version, f) = <<>>
           /\ BeatUp(cctx.Version, f) = IF a.cmd % 256 = Heartbeat THEN <<a.id>> ELSE <<>>
<1> DEFINE p == NewPacketWith(Request, a.cmd, b, a.id, 0, a.values)
           v == cctx.Version
           as == Append(asked, a)
           n == Len(asked) + 1
<1>1. /\ v \in {1, 2} /\ cctx.Codec \in Nat /\ dopts.MinGzipSize \in Nat
      /\ a.cmd \in Nat /\ a.body \in Nat
    BY DialedFacts DEF AskedRecord
<1>2. BodyFits(b)
    BY <1>1, EncodedFacts
<1>3. ~IsPing(p) /\ (IsClose(p) <=> a.cmd = Close) /\ p.Body = b
    BY DEF IsPing, IsClose, NewPacketWith
<1>4. n \in DOMAIN as /\ as[n] = a
    BY DEF ShapesInv
<1> HIDE DEF as, n
<1>5. CASE scheme # "tcp" /\ IsClose(p)
  <2>1. f = Frame("close", b)
      BY <1>3, <1>5 DEF Written
  <2>2. /\ f \in WholeFrames(v) /\ f.kind = "close"
        /\ PongOf(v, f) = <<>> /\ BeatUp(v, f) = <<>>
      BY <1>2, <2>1, ControlPieces
  <2>3. UpOK(v, scheme, cctx.Codec, as, f)
      BY <1>5, <2>2 DEF UpOK, WholeFrames
  <2>4. a.cmd % 256 # Heartbeat
      BY <1>3, <1>5 DEF Close, Heartbeat
  <2> QED
      BY <2>2, <2>3, <2>4 DEF UpFrames, WholeFrames, as
<1>6. CASE ~(scheme # "tcp" /\ IsClose(p))
  <2>1. f \in {Frame("data", d) : d \in Pack(v, p, dopts.MinGzipSize)}
      BY <1>3, <1>6 DEF Written
  <2>2. IsSent(v, dopts.MinGzipSize, Request, a.cmd, b, a.id, 0, a.values)
    <3>1. 0 \in Nat /\ Request \in {Request, Response, Push} /\ ValuesFit(a.values)
        BY DEF ValuesOK
    <3> QED
        BY <1>1, <1>2, <3>1, PacketSent
  <2>3. Carries(v, f, Request, a.cmd % 256, b, a.id, 0,
                IF v = 2 THEN ReadOf(a.values, Len(a.values)) ELSE {})
      BY <2>1, <2>2 DEF IsSent
  <2> DEFINE k == a.cmd % 256
             vals == IF v = 2 THEN ReadOf(a.values, Len(a.values)) ELSE {}
  <2>4. k \in Nat /\ Request # Response /\ Request # Push /\ Request \in {Request, Response, Push}
      BY <1>1 DEF Request, Response, Push
  <2>5. vals = ValuesSent(v, a)
      BY DEF ValuesSent
  <2> HIDE DEF k, vals
  <2>6. Carries(v, f, Request, k, b, a.id, 0, vals)
      BY <2>3 DEF k, vals
  <2>7. /\ PongOf(v, f) = <<>> /\ BeatUp(v, f) = IF k = Heartbeat THEN <<a.id>> ELSE <<>>
        /\ f \in WholeFrames(v) /\ f.kind = "data"
      BY <2>4, <2>6, CarriedPieces
  <2>8. IsAsked(v, cctx.Codec, a, PacketIn(v, f))
      BY <2>4, <2>5, <2>6 DEF IsAsked, Carries, k
  <2>9. UpOK(v, scheme, cctx.Codec, as, f)
      BY <1>4, <2>7, <2>8 DEF UpOK, WholeFrames
  <2> QED
      BY <2>7, <2>9 DEF UpFrames, WholeFrames, as, k
<1> QED
    BY <1>5, <1>6

\* What Do adds.
LEMMA DoFacts ==
    ASSUME ShapesInv, DialInv, FramesInv, CountInv, NEW r \in Requests, Do(r)
    PROVE  \E a : Asks(a) /\ (AskFailed \/ \E f : AskSent(a, f))
<1> DEFINE id == NextReqId(cctx)
           A(vs) == [id |-> id, cmd |-> r.Cmd, body |-> r.Body, metadata |-> r.Metadata,
                     values |-> vs, timeout |-> newRequestOptions(r.Timeout)]
<1>1. PICK order \in SetToSeqs(r.Metadata) : \E vs \in SetToSeqs(SetMetadata(order)) :
         /\ asked' = Append(asked, A(vs))
         /\ \/ AskFailed
            \/ \E b \in marshal(cctx.Codec, r.Body) :
               \E f \in Written(NewPacketWith(Request, r.Cmd, b, id, 0, vs)) :
                  up' = Append(up, f) /\ recvs' = recvs \cup {id} /\
                      outcome' = Append(outcome, Pending)
    BY DEF Do, AskFailed
<1>2. PICK vs \in SetToSeqs(SetMetadata(order)) :
         /\ asked' = Append(asked, A(vs))
         /\ \/ AskFailed
            \/ \E b \in marshal(cctx.Codec, r.Body) :
               \E f \in Written(NewPacketWith(Request, r.Cmd, b, id, 0, vs)) :
                  up' = Append(up, f) /\ recvs' = recvs \cup {id} /\
                      outcome' = Append(outcome, Pending)
    BY <1>1
<1>3. /\ phase = "open" /\ Acts < MaxActs /\ cctx' = [cctx EXCEPT !.lastId = id]
    BY DEF Do
<1>4. Dialed /\ cctx \in ContextRecord
    BY <1>3 DEF Dialed, DialInv
<1>5. cctx'.lastId = cctx.lastId + 1 /\ id = cctx.lastId + 1
    BY <1>3, <1>4, NextSame DEF NextReqId
<1>6. IdFits(id)
    BY <1>3, <1>4, <1>5, NextIdsFit
<1>7. RequestFits(r)
    BY ExchangeAssumption
<1>8. /\ r.Cmd \in Nat /\ r.Cmd # Heartbeat /\ r.Body \in Nat /\ r.Timeout \in Int
      /\ r.Metadata \in SUBSET Entries
    BY <1>7 DEF RequestFits
<1> DEFINE a == A(vs)
<1>9. a.metadata = r.Metadata /\ a.values = vs /\ a.id = id /\ a.cmd = r.Cmd /\ a.body = r.Body
    OBVIOUS
<1>10. vs \in Seq(Entries) /\ ValuesOK(a)
    BY <1>7, <1>9, RequestValues
<1>11. newRequestOptions(r.Timeout) \in Int
    BY <1>8 DEF newRequestOptions, defaultRequestTimeout
<1>12. a \in AskedRecord
    BY <1>6, <1>8, <1>10, <1>11 DEF AskedRecord, IdFits
<1> HIDE DEF A, id, a
<1>13. Asks(a)
    BY <1>2, <1>5, <1>9, <1>10, <1>12 DEF Asks, a
<1>14. CASE AskFailed
    BY <1>13, <1>14
<1>15. ASSUME NEW b \in marshal(cctx.Codec, r.Body),
              NEW f \in Written(NewPacketWith(Request, r.Cmd, b, id, 0, vs)),
              up' = Append(up, f), recvs' = recvs \cup {id}, outcome' = Append(outcome, Pending)
       PROVE  AskSent(a, f)
  <2>1. /\ b \in marshal(cctx.Codec, a.body) /\ a.cmd # Heartbeat /\ IdFits(a.id)
        /\ f \in Written(NewPacketWith(Request, a.cmd, b, a.id, 0, a.values))
      BY <1>6, <1>8, <1>9
  <2>2. /\ f \in UpFrames(cctx.Version, scheme, cctx.Codec, Append(asked, a))
        /\ PongOf(cctx.Version, f) = <<>>
        /\ BeatUp(cctx.Version, f) = IF a.cmd % 256 = Heartbeat THEN <<a.id>> ELSE <<>>
      BY <1>4, <1>10, <1>12, <2>1, AskedFrame DEF a
  <2> QED
      BY <1>9, <1>15, <2>2 DEF AskSent
<1> QED
    BY <1>2, <1>13, <1>14, <1>15

\* A frame of the client that is not a request: PongOf and BeatUp of it.
UpAdds(f, pongs, beat) ==
    /\ f \in UpFrames(cctx.Version, scheme, cctx.Codec, asked) /\ up' = Append(up, f)
    /\ PongOf(cctx.Version, f) = pongs /\ BeatUp(cctx.Version, f) = beat

\* A control packet over TCP.
LEMMA ControlSent ==
    ASSUME DialInv, Dialed, scheme = "tcp", NEW t \in {Request, Response},
           NEW b, BodyFits(b), NEW id, IdFits(id),
           NEW f \in Written(NewPacket(t, Heartbeat, b, id, 0))
    PROVE  /\ f \in UpFrames(cctx.Version, scheme, cctx.Codec, asked)
           /\ PongOf(cctx.Version, f) = IF t = Response THEN <<[id |-> id, body |-> b]>> ELSE <<>>
           /\ BeatUp(cctx.Version, f) = IF t = Request THEN <<id>> ELSE <<>>
<1> DEFINE v == cctx.Version
           p == NewPacket(t, Heartbeat, b, id, 0)
<1>1. v \in {1, 2} /\ dopts.MinGzipSize \in Nat
    BY DialedFacts
<1>2. f \in {Frame("data", d) : d \in Pack(v, p, dopts.MinGzipSize)}
    BY DEF Written
<1>3. Heartbeat \in Byte /\ Heartbeat \in Nat /\ 0 \in Nat /\ t \in {Request, Response, Push}
    BY DEF Heartbeat, Byte
<1>4. PICK g : /\ {Frame("data", d) : d \in Pack(v, p, dopts.MinGzipSize)} = {g}
               /\ Carries(v, g, t, Heartbeat, b, id, 0, {})
  <2>1. IsPlain(v, dopts.MinGzipSize, t, Heartbeat, b, id, 0)
      BY <1>1, <1>3, PlainSent
  <2> QED
      BY <2>1 DEF IsPlain
<1>5. f = g /\ Carries(v, f, t, Heartbeat, b, id, 0, {})
    BY <1>2, <1>4
<1>6. Request # Response /\ Request # Push /\ Response # Push
    BY DEF Request, Response, Push
<1>7. /\ PongOf(v, f) = IF t = Response THEN <<[id |-> id, body |-> b]>> ELSE <<>>
      /\ BeatUp(v, f) = IF t = Request THEN <<id>> ELSE <<>>
      /\ f \in WholeFrames(v) /\ f.kind = "data"
    BY <1>3, <1>5, CarriedPieces
<1>8. IsPing(PacketIn(v, f)) \/ IsPong(PacketIn(v, f))
    BY <1>5, <1>6 DEF Carries, IsPing, IsPong
<1>9. UpOK(v, scheme, cctx.Codec, asked, f)
    BY <1>7, <1>8 DEF UpOK, WholeFrames
<1> QED
    BY <1>7, <1>9 DEF UpFrames, WholeFrames

\* A control frame over a WebSocket.
LEMMA ControlUp ==
    ASSUME scheme # "tcp", NEW kind \in {"ping", "pong", "close"}, NEW b, BodyFits(b),
           NEW v, NEW c, NEW as, NEW an
    PROVE  /\ Frame(kind, b) \in UpFrames(v, scheme, c, as)
           /\ Frame(kind, b) \in DownFrames(v, scheme, c, as, an)
<1> DEFINE f == Frame(kind, b)
<1>1. f \in WholeFrames(v) /\ f.kind = kind /\ kind # "data"
    BY ControlPieces
<1> HIDE DEF f
<1>2. UpOK(v, scheme, c, as, f) /\ DownOK(v, scheme, c, as, an, f)
    BY <1>1 DEF UpOK, DownOK, WholeFrames
<1> QED
    BY <1>1, <1>2 DEF UpFrames, DownFrames, WholeFrames, f

PingStep ==
    /\ pinged' = Append(pinged, cctx.lastId + 1) /\ cctx'.lastId = cctx.lastId + 1
    /\ \/ phase' = "closed" /\ up' = up
       \/ phase' = phase /\ \E f : UpAdds(f, <<>>, <<cctx.lastId + 1>>)
       \/ /\ phase' = phase /\ scheme # "tcp" /\ cctx.Codec # CodecProtobuf
          /\ \E f : UpAdds(f, <<>>, <<0>>)

\* What Ping adds.
LEMMA PingFacts ==
    ASSUME ShapesInv, DialInv, FramesInv, CountInv, Ping
    PROVE  PingStep
<1> DEFINE id == NextReqId(cctx)
           v  == cctx.Version
<1>1. /\ phase = "open" /\ Acts < MaxActs /\ cctx' = [cctx EXCEPT !.lastId = id]
      /\ pinged' = Append(pinged, id)
      /\ \/ phase' = "closed" /\ up' = up
         \/ /\ phase' = phase
            /\ \E b \in marshal(cctx.Codec, id) :
               \E f \in Written(NewPacket(Request, Heartbeat, b, id, 0)) : up' = Append(up, f)
    BY DEF Ping
<1>2. Dialed /\ cctx \in ContextRecord
    BY <1>1 DEF Dialed, DialInv
<1>3. cctx'.lastId = cctx.lastId + 1 /\ id = cctx.lastId + 1
    BY <1>1, <1>2, NextSame DEF NextReqId
<1>4. IdFits(id)
    BY <1>1, <1>2, <1>3, NextIdsFit
<1>5. id \in Nat /\ id > 0 /\ cctx.Codec \in Nat
  <2>1. cctx.lastId \in Nat /\ cctx.Codec \in Nat
      BY <1>2, DialedFacts
  <2> QED
      BY <1>3, <2>1
<1> HIDE DEF id
<1>6. ASSUME NEW b \in marshal(cctx.Codec, id),
             NEW f \in Written(NewPacket(Request, Heartbeat, b, id, 0)), up' = Append(up, f)
      PROVE  \/ UpAdds(f, <<>>, <<id>>)
             \/ scheme # "tcp" /\ cctx.Codec # CodecProtobuf /\ UpAdds(f, <<>>, <<0>>)
  <2>1. BodyFits(b)
      BY <1>5, EncodedFacts
  <2>2. Request # Response
      BY DEF Request, Response
  <2>3. CASE scheme = "tcp"
    <3>1. /\ f \in UpFrames(v, scheme, cctx.Codec, asked)
          /\ PongOf(v, f) = <<>> /\ BeatUp(v, f) = <<id>>
        BY <1>2, <1>4, <2>1, <2>2, <2>3, ControlSent
    <3> QED
        BY <1>6, <3>1 DEF UpAdds
  <2>4. CASE scheme # "tcp"
    <3> DEFINE p == NewPacket(Request, Heartbeat, b, id, 0)
    <3>1. IsPing(p) /\ p.Body = b
        BY DEF IsPing, NewPacket, NewPacketWith
    <3>2. f = Frame("ping", b)
        BY <2>4, <3>1 DEF Written
    <3>3. PongOf(v, f) = <<>> /\ BeatUp(v, f) = <<onPong(b).RequestId>>
      <4>1. "ping" \in {"ping", "pong", "close"}
          OBVIOUS
      <4> HIDE DEF v
      <4>2. /\ PongOf(v, Frame("ping", b)) = <<>>
            /\ BeatUp(v, Frame("ping", b)) = <<onPong(b).RequestId>>
          BY <2>1, <4>1, ControlPieces, SMTT(30)
      <4> QED
          BY <3>2, <4>2
    <3>4. f \in UpFrames(v, scheme, cctx.Codec, asked)
        BY <2>1, <2>4, <3>2, ControlUp
    <3>5. onPong(b).RequestId = IF cctx.Codec = CodecProtobuf THEN id ELSE 0
        BY <1>5, PongIdFacts
    <3> QED
        BY <1>6, <2>4, <3>3, <3>4, <3>5 DEF UpAdds
  <2> QED
      BY <2>3, <2>4
<1> QED
    BY <1>1, <1>3, <1>6 DEF PingStep

\* A frame of the server: PingOf and BeatDown of it, and no calls.
DownAdds(d, an, ping, beat) ==
    /\ d \in DownFrames(cctx.Version, scheme, sctx.Codec, asked, an) /\ down' = Append(down, d)
    /\ PingOf(cctx.Version, d) = ping /\ BeatDown(cctx.Version, d) = beat
Quiet(d) == \A ss : CallsOf(ss, cctx.Version, d) = <<>>

\* The server reads h, which is request a.
Hears(a, h) ==
    /\ h.id = a.id /\ h.cmd = a.cmd % 256
    /\ \E b \in marshal(cctx.Codec, a.body) : h.body = unmarshal(sctx.Codec, b)
    /\ h.values = ValuesSent(cctx.Version, a)

\* The response in frame d is for request a.
ResponseTo(v, d, a) ==
    /\ d.kind = "data" /\ PacketIn(v, d).Type = Response
    /\ PacketIn(v, d).RequestId = a.id /\ PacketIn(v, d).CmdCode = a.cmd % 256

Answers(a, h, r, d) ==
    /\ heard' = heard \cup {h} /\ Hears(a, h)
    /\ answered' = answered \cup {r} /\ r \in AnswerRecord /\ r.id = a.id /\ a.cmd % 256 # Heartbeat
    /\ DownAdds(d, answered \cup {r}, <<>>, <<>>) /\ Quiet(d) /\ ResponseTo(cctx.Version, d, a)

ServeStep ==
    /\ up # <<>> /\ up' = Tail(up) /\ ponged' = ponged \o PongOf(cctx.Version, up[1])
    /\ \/ BeatUp(cctx.Version, up[1]) = <<>> /\ UNCHANGED <<down, heard, answered>>
       \/ /\ \E d : DownAdds(d, answered, <<>>, BeatUp(cctx.Version, up[1])) /\ Quiet(d)
          /\ UNCHANGED <<heard, answered>>
       \/ /\ BeatUp(cctx.Version, up[1]) = <<>>
          /\ \E j \in DOMAIN asked : \E h, r, d : Answers(asked[j], h, r, d)

\* A packet of the server.
LEMMA ServerSent ==
    ASSUME DialInv, Dialed, NEW t \in {Request, Response, Push}, NEW cmd \in Byte,
           NEW b, BodyFits(b), NEW id, IdFits(id), NEW status \in Nat,
           NEW d \in Sent(NewPacket(t, cmd, b, id, status))
    PROVE  Carries(cctx.Version, d, t, cmd, b, id, status, {})
<1> DEFINE v == cctx.Version
           min == dopts.MinGzipSize
<1>1. v \in {1, 2} /\ min \in Nat /\ sctx.Version = v
    BY DialedFacts
<1> HIDE DEF v, min
<1>2. IsPlain(v, min, t, cmd, b, id, status)
    BY <1>1, PlainSent
<1>3. d \in {Frame("data", e) : e \in Pack(v, NewPacket(t, cmd, b, id, status), min)}
    BY <1>1 DEF Sent, min
<1>4. Carries(v, d, t, cmd, b, id, status, {})
    BY <1>2, <1>3 DEF IsPlain
<1> QED
    BY <1>4 DEF v

\* Which is one the client may get.
LEMMA ServerFrame ==
    ASSUME NEW v, NEW s, NEW c, NEW as, NEW an, NEW d, d.kind = "data", d \in WholeFrames(v),
           \/ \E i \in DOMAIN as, r \in an : IsAnswer(c, as[i], r, PacketIn(v, d))
           \/ IsPong(PacketIn(v, d))
           \/ IsPing(PacketIn(v, d)) /\ s = "tcp"
           \/ /\ PacketIn(v, d).Type = Push
              /\ PacketIn(v, d).CmdCode > Reconnect \/ IsClose(PacketIn(v, d))
    PROVE  d \in DownFrames(v, s, c, as, an)
<1>1. DownOK(v, s, c, as, an, d)
    BY DEF DownOK, WholeFrames
<1> QED
    BY <1>1 DEF DownFrames, WholeFrames

\* What the answer to a request adds.
LEMMA AnswerFacts ==
    ASSUME ShapesInv, DialInv, Dialed, NEW f \in UpFrames(cctx.Version, scheme, cctx.Codec, asked),
           f.kind = "data", Answer(PacketIn(cctx.Version, f))
    PROVE  /\ PongOf(cctx.Version, f) = <<>> /\ BeatUp(cctx.Version, f) = <<>>
           /\ \E j \in DOMAIN asked : \E h, r, d : Answers(asked[j], h, r, d)
<1> DEFINE v == cctx.Version
           p == PacketIn(v, f)
<1>1. /\ UpOK(v, scheme, cctx.Codec, asked, f) /\ Whole(v, f)
    BY DEF UpFrames, UpOK
<1>2. /\ p.Type = Request /\ ~IsPing(p) /\ ~IsPong(p)
    BY DEF Answer, IsPong, Request, Response
<1>3. PongOf(v, f) = <<>> /\ BeatUp(v, f) = <<>>
    BY <1>2 DEF PongOf, BeatUp
<1>4. PICK j \in DOMAIN asked : IsAsked(v, cctx.Codec, asked[j], p)
    BY <1>1, <1>2 DEF UpOK
<1> DEFINE a == asked[j]
           h == [id |-> p.RequestId, cmd |-> p.CmdCode, values |-> p.Values,
                 body |-> unmarshal(sctx.Codec, p.Body)]
           R(st, m) == [id |-> p.RequestId, status |-> st, body |-> m]
<1>5. PICK st \in Statuses, m \in Messages : \E b \in marshal(sctx.Codec, m) :
          /\ answered' = answered \cup {R(st, m)}
          /\ \E d \in Sent(NewPacket(Response, p.CmdCode, b, p.RequestId, st)) : Reply(d)
    BY DEF Answer
<1>6. PICK b \in marshal(sctx.Codec, m) :
          /\ answered' = answered \cup {R(st, m)}
          /\ \E d \in Sent(NewPacket(Response, p.CmdCode, b, p.RequestId, st)) : Reply(d)
    BY <1>5
<1>7. PICK d \in Sent(NewPacket(Response, p.CmdCode, b, p.RequestId, st)) : Reply(d)
    BY <1>6
<1>8. heard' = heard \cup {h}
    BY DEF Answer
<1> DEFINE r == R(st, m)
<1>9. r.id = p.RequestId /\ r.status = st /\ r.body = m
    OBVIOUS
<1>10. answered' = answered \cup {r}
    BY <1>6
<1>11. a \in AskedRecord
    BY DEF ShapesInv
<1>12. /\ p.CmdCode = a.cmd % 256 /\ p.RequestId = a.id /\ p.Body \in marshal(cctx.Codec, a.body)
       /\ p.Values = ValuesSent(v, a) /\ a.cmd \in Nat /\ a.id \in Nat
    BY <1>4, <1>11 DEF IsAsked, AskedRecord
<1>13. Hears(a, h)
    BY <1>12 DEF Hears
<1>14. p.CmdCode # Heartbeat /\ p.CmdCode \in Byte
  <2>1. p.CmdCode # Heartbeat
      BY <1>2 DEF IsPing
  <2>2. a.cmd % 256 \in 0..255
      BY <1>12
  <2> QED
      BY <1>12, <2>1, <2>2 DEF Byte
<1>15. st \in Nat /\ m \in Nat /\ sctx.Codec \in Nat
    BY ExchangeAssumption, DialedFacts DEF Byte
<1>16. r \in AnswerRecord
    BY <1>9, <1>12, <1>15 DEF AnswerRecord
<1>17. BodyFits(b) /\ IdFits(p.RequestId)
    BY <1>1, <1>15, EncodedFacts DEF Whole
<1> HIDE DEF p, a, r, h, R
<1>18. Carries(v, d, Response, p.CmdCode, b, p.RequestId, st, {})
    BY <1>7, <1>14, <1>15, <1>17, ServerSent
<1>19. Response # Request /\ Response # Push /\ Response \in {Request, Response, Push}
    BY DEF Request, Response, Push
<1>20. /\ PingOf(v, d) = <<>> /\ BeatDown(v, d) = <<>> /\ \A ss : CallsOf(ss, v, d) = <<>>
       /\ d \in WholeFrames(v) /\ d.kind = "data"
  <2>1. p.CmdCode \in Nat
      BY <1>14 DEF Byte
  <2> QED
      BY <1>14, <1>18, <1>19, <2>1, CarriedPieces
<1>21. IsAnswer(sctx.Codec, a, r, PacketIn(v, d)) /\ ResponseTo(v, d, a)
    BY <1>9, <1>12, <1>14, <1>18, <1>19 DEF IsAnswer, ResponseTo, Carries
<1>22. d \in DownFrames(v, scheme, sctx.Codec, asked, answered \cup {r})
  <2>1. \E i \in DOMAIN asked, x \in answered \cup {r} :
           IsAnswer(sctx.Codec, asked[i], x, PacketIn(v, d))
      BY <1>21 DEF a
  <2> QED
      BY <1>20, <2>1, ServerFrame
<1>23. DownAdds(d, answered \cup {r}, <<>>, <<>>) /\ Quiet(d)
    BY <1>7, <1>20, <1>22 DEF DownAdds, Quiet, Reply
<1>24. Answers(a, h, r, d)
    BY <1>8, <1>9, <1>10, <1>12, <1>13, <1>14, <1>16, <1>21, <1>23 DEF Answers
<1> QED
    BY <1>3, <1>24 DEF a

\* What the answer to a ping adds.
LEMMA AnswerPingFacts ==
    ASSUME DialInv, Dialed, NEW f \in UpFrames(cctx.Version, scheme, cctx.Codec, asked),
           f.kind = "data", AnswerPing(PacketIn(cctx.Version, f))
    PROVE  /\ PongOf(cctx.Version, f) = <<>> /\ UNCHANGED <<heard, answered>>
           /\ \E d : DownAdds(d, answered, <<>>, BeatUp(cctx.Version, f)) /\ Quiet(d)
<1> DEFINE v == cctx.Version
           p == PacketIn(v, f)
<1>1. Whole(v, f)
    BY DEF UpFrames, UpOK
<1>2. /\ IsPing(p) /\ ~IsPong(p)
    BY DEF AnswerPing, IsPong, IsPing, Request, Response
<1>3. PongOf(v, f) = <<>> /\ BeatUp(v, f) = <<p.RequestId>>
    BY <1>2 DEF PongOf, BeatUp
<1>4. PICK d \in Sent(NewPacket(Response, Heartbeat, p.Body, p.RequestId, 0)) : Reply(d)
    BY DEF AnswerPing
<1>5. BodyFits(p.Body) /\ IdFits(p.RequestId)
    BY <1>1 DEF Whole
<1> DEFINE b == p.Body
           id == p.RequestId
<1> HIDE DEF p, b, id
<1>6. Heartbeat \in Byte /\ Heartbeat \in Nat /\ 0 \in Nat
    BY DEF Heartbeat, Byte
<1>7. Response # Request /\ Response # Push /\ Response \in {Request, Response, Push}
    BY DEF Request, Response, Push
<1>8. Carries(v, d, Response, Heartbeat, b, id, 0, {})
  <2>1. d \in Sent(NewPacket(Response, Heartbeat, b, id, 0)) /\ BodyFits(b) /\ IdFits(id)
      BY <1>4, <1>5 DEF b, id
  <2> QED
      BY <1>6, <1>7, <2>1, ServerSent
<1>9. /\ PingOf(v, d) = <<>> /\ BeatDown(v, d) = <<id>> /\ \A ss : CallsOf(ss, v, d) = <<>>
      /\ d \in WholeFrames(v) /\ d.kind = "data"
    BY <1>6, <1>7, <1>8, CarriedPieces
<1>10. IsPong(PacketIn(v, d))
    BY <1>8 DEF Carries, IsPong
<1>11. d \in DownFrames(v, scheme, sctx.Codec, asked, answered)
    BY <1>9, <1>10, ServerFrame
<1>12. DownAdds(d, answered, <<>>, <<id>>) /\ Quiet(d)
    BY <1>4, <1>9, <1>11 DEF DownAdds, Quiet, Reply
<1>13. UNCHANGED <<heard, answered>>
    BY DEF AnswerPing
<1> QED
    BY <1>3, <1>12, <1>13 DEF id

\* What Serve takes and adds.
LEMMA ServeFacts ==
    ASSUME ShapesInv, DialInv, FramesInv, Serve
    PROVE  ServeStep
<1> DEFINE v == cctx.Version
           f == up[1]
<1>1. Dialed /\ up # <<>> /\ up' = Tail(up)
    BY DEF Serve, Dialed
<1>2. /\ up \in Seq(UpFrames(v, scheme, cctx.Codec, asked)) /\ sctx.Version = v
    BY <1>1, FramesAre, DialedFacts
<1>3. f \in UpFrames(v, scheme, cctx.Codec, asked) /\ Head(up) = f
    BY <1>1, <1>2
<1>4. UpOK(v, scheme, cctx.Codec, asked, f) /\ Whole(v, f) /\ f \in Frames
    BY <1>3 DEF UpFrames, UpOK
<1>5. ponged \in Seq(PingRecord) /\ \A x \in PingRecord : Append(ponged, x) = ponged \o <<x>>
    BY DEF ShapesInv
<1>6. ponged \o <<>> = ponged
    BY <1>5
<1>7. f \in WholeFrames(v)
    BY <1>4 DEF WholeFrames
<1>8. \/ /\ f.kind = "data"
         /\ \E p \in UnpackBytes(sctx.Version, f.data) :
               Answer(p) \/ AnswerPing(p) \/ (IsPong(p) /\ GetPong(p.RequestId, p.Body))
      \/ f.kind = "ping" /\ Reply(Frame("pong", f.data)) /\ UNCHANGED <<heard, answered, ponged>>
      \/ f.kind = "pong" /\ GetPong(0, f.data)
      \/ f.kind = "close" /\ Reply(f) /\ UNCHANGED <<heard, answered, ponged>>
    BY <1>3 DEF Serve
<1> HIDE DEF f
<1>9. CASE f.kind = "data"
  <2> DEFINE p == PacketIn(v, f)
  <2>1. UnpackBytes(v, f.data) = {p}
      BY <1>4, <1>9 DEF Whole
  <2>2. Answer(p) \/ AnswerPing(p) \/ (IsPong(p) /\ GetPong(p.RequestId, p.Body))
      BY <1>2, <1>8, <1>9, <2>1
  <2>3. CASE Answer(p)
    <3>1. ponged' = ponged
        BY <2>3 DEF Answer
    <3>2. /\ PongOf(v, f) = <<>> /\ BeatUp(v, f) = <<>>
          /\ \E j \in DOMAIN asked : \E h, r, d : Answers(asked[j], h, r, d)
        BY <1>1, <1>3, <1>9, <2>3, AnswerFacts
    <3> QED
        BY <1>1, <1>6, <3>1, <3>2 DEF ServeStep, f
  <2>4. CASE AnswerPing(p)
    <3>1. ponged' = ponged
        BY <2>4 DEF AnswerPing
    <3>2. /\ PongOf(v, f) = <<>> /\ UNCHANGED <<heard, answered>>
          /\ \E d : DownAdds(d, answered, <<>>, BeatUp(v, f)) /\ Quiet(d)
        BY <1>1, <1>3, <1>9, <2>4, AnswerPingFacts
    <3> QED
        BY <1>1, <1>6, <3>1, <3>2 DEF ServeStep, f
  <2>5. CASE IsPong(p) /\ GetPong(p.RequestId, p.Body)
    <3>1. ~IsPing(p) /\ BeatUp(v, f) = <<>>
        BY <1>9, <2>5 DEF IsPing, IsPong, Request, Response, BeatUp
    <3> DEFINE x == [id |-> p.RequestId, body |-> p.Body]
    <3>2. PongOf(v, f) = <<x>>
        BY <1>9, <2>5 DEF PongOf
    <3>3. /\ ponged' = Append(ponged, x) /\ UNCHANGED <<down, heard, answered>>
        BY <2>5 DEF GetPong
    <3>4. x \in PingRecord
        BY <1>4, <1>9 DEF Whole, IdFits, BodyFits, PingRecord
    <3> QED
        BY <1>1, <1>5, <3>1, <3>2, <3>3, <3>4 DEF ServeStep, f
  <2> QED
      BY <2>2, <2>3, <2>4, <2>5
<1>10. CASE f.kind # "data"
  <2> DEFINE b == f.data
  <2>1. BodyFits(b) /\ scheme # "tcp" /\ b \in Seq(Nat)
      BY <1>4, <1>10 DEF UpOK, Whole, BodyFits
  <2>2. CASE f.kind = "ping"
    <3> DEFINE d == Frame("pong", b)
    <3>1. PongOf(v, f) = <<>> /\ BeatUp(v, f) = <<onPong(b).RequestId>>
        BY <2>2 DEF PongOf, BeatUp
    <3>2. down' = Append(down, d) /\ UNCHANGED <<heard, answered, ponged>>
        BY <1>8, <2>2 DEF Reply
    <3>3. d \in DownFrames(v, scheme, sctx.Codec, asked, answered)
        BY <2>1, ControlUp
    <3>4. /\ PingOf(v, d) = <<>> /\ BeatDown(v, d) = <<onPong(b).RequestId>>
          /\ \A ss : CallsOf(ss, v, d) = <<>>
      <4>1. d.kind = "pong" /\ d.data = b
          BY DEF Frame
      <4> QED
          BY <4>1 DEF PingOf, BeatDown, CallsOf
    <3>5. DownAdds(d, answered, <<>>, BeatUp(v, f)) /\ Quiet(d)
        BY <3>1, <3>2, <3>3, <3>4 DEF DownAdds, Quiet
    <3> QED
        BY <1>1, <1>6, <3>1, <3>2, <3>5 DEF ServeStep, f
  <2>3. CASE f.kind = "pong"
    <3> DEFINE x == [id |-> 0, body |-> b]
    <3>1. PongOf(v, f) = <<x>> /\ BeatUp(v, f) = <<>>
        BY <2>3 DEF PongOf, BeatUp
    <3>2. ponged' = Append(ponged, x) /\ UNCHANGED <<down, heard, answered>>
        BY <1>8, <2>3 DEF GetPong
    <3>3. x \in PingRecord
        BY <2>1 DEF PingRecord
    <3> QED
        BY <1>1, <1>5, <3>1, <3>2, <3>3 DEF ServeStep, f
  <2>4. CASE f.kind = "close"
    <3>1. /\ PongOf(v, f) = <<>> /\ BeatUp(v, f) = <<>> /\ PingOf(v, f) = <<>>
          /\ BeatDown(v, f) = <<>> /\ \A ss : CallsOf(ss, v, f) = <<>>
        BY <2>4 DEF PongOf, BeatUp, PingOf, BeatDown, CallsOf
    <3>2. down' = Append(down, f) /\ UNCHANGED <<heard, answered, ponged>>
        BY <1>8, <2>4 DEF Reply
    <3>3. f \in DownFrames(v, scheme, sctx.Codec, asked, answered)
        BY <1>4, <1>10, <2>1 DEF DownFrames, DownOK
    <3>4. DownAdds(f, answered, <<>>, BeatUp(v, f)) /\ Quiet(f)
        BY <3>1, <3>2, <3>3 DEF DownAdds, Quiet
    <3> QED
        BY <1>1, <1>6, <3>1, <3>2, <3>4 DEF ServeStep, f
  <2> QED
      BY <1>8, <1>10, <2>2, <2>3, <2>4
<1> QED
    BY <1>9, <1>10

ServerPingStep ==
    /\ \E d : \E x \in PingRecord :
          DownAdds(d, answered, <<x>>, <<>>) /\ Quiet(d) /\ pings' = Append(pings, x)
    /\ sctx'.lastId =< sctx.lastId + 1

PushStep ==
    \E d : \E x \in PushRecord :
       /\ DownAdds(d, answered, <<>>, <<>>) /\ pushed' = Append(pushed, x)
       /\ \A ss : CallsOf(ss, cctx.Version, d) = Calls(ss, x.cmd, x.body)

\* What ServerPing adds.
LEMMA ServerPingFacts ==
    ASSUME ShapesInv, DialInv, FramesInv, CountInv, ServerPing
    PROVE  ServerPingStep
<1> DEFINE v == cctx.Version
           id == NextReqId(sctx)
<1>1. phase = "open" /\ Acts < MaxActs
    BY DEF ServerPing
<1>2. Dialed /\ sctx \in ContextRecord
    BY <1>1 DEF Dialed, DialInv
<1>3. id = sctx.lastId + 1 /\ sctx.lastId \in Nat /\ sctx.Codec \in Nat
    BY <1>2, DialedFacts DEF NextReqId
<1>4. IdFits(id)
    BY <1>1, <1>2, <1>3, NextIdsFit
<1>5. PICK m \in Messages \ {Nil} : \E b \in marshal(sctx.Codec, m) :
          IF scheme = "tcp"
          THEN \E d \in Sent(NewPacket(Request, Heartbeat, b, id, 0)) :
                  /\ Reply(d) /\ pings' = Append(pings, [id |-> id, body |-> b])
                  /\ sctx' = [sctx EXCEPT !.lastId = id]
          ELSE /\ Reply(Frame("ping", b)) /\ pings' = Append(pings, [id |-> 0, body |-> b])
               /\ UNCHANGED sctx
    BY DEF ServerPing
<1>6. PICK b \in marshal(sctx.Codec, m) :
          IF scheme = "tcp"
          THEN \E d \in Sent(NewPacket(Request, Heartbeat, b, id, 0)) :
                  /\ Reply(d) /\ pings' = Append(pings, [id |-> id, body |-> b])
                  /\ sctx' = [sctx EXCEPT !.lastId = id]
          ELSE /\ Reply(Frame("ping", b)) /\ pings' = Append(pings, [id |-> 0, body |-> b])
               /\ UNCHANGED sctx
    BY <1>5
<1>7. m \in Nat
    BY ExchangeAssumption
<1>8. BodyFits(b) /\ b \in Seq(Nat)
    BY <1>3, <1>7, EncodedFacts DEF BodyFits
<1>9. CASE scheme = "tcp"
  <2>1. PICK d \in Sent(NewPacket(Request, Heartbeat, b, id, 0)) :
             /\ Reply(d) /\ pings' = Append(pings, [id |-> id, body |-> b])
             /\ sctx' = [sctx EXCEPT !.lastId = id]
      BY <1>6, <1>9
  <2>2. sctx'.lastId =< sctx.lastId + 1
    <3>1. sctx'.lastId = sctx.lastId + 1
        BY <1>2, <2>1, NextSame
    <3> QED
        BY <1>3, <3>1
  <2> DEFINE x == [id |-> id, body |-> b]
  <2>3. x \in PingRecord
      BY <1>4, <1>8 DEF PingRecord, IdFits
  <2> HIDE DEF id
  <2>4. Heartbeat \in Byte /\ Heartbeat \in Nat /\ 0 \in Nat
      BY DEF Heartbeat, Byte
  <2>5. Request # Response /\ Request # Push /\ Request \in {Request, Response, Push}
      BY DEF Request, Response, Push
  <2>6. Carries(v, d, Request, Heartbeat, b, id, 0, {})
      BY <1>2, <1>4, <1>8, <2>1, <2>4, <2>5, ServerSent
  <2>7. /\ PingOf(v, d) = <<x>> /\ BeatDown(v, d) = <<>> /\ \A ss : CallsOf(ss, v, d) = <<>>
        /\ d \in WholeFrames(v) /\ d.kind = "data"
      BY <2>4, <2>5, <2>6, CarriedPieces
  <2>8. IsPing(PacketIn(v, d))
      BY <2>6 DEF Carries, IsPing
  <2>9. d \in DownFrames(v, scheme, sctx.Codec, asked, answered)
      BY <1>9, <2>7, <2>8, ServerFrame
  <2>10. DownAdds(d, answered, <<x>>, <<>>) /\ Quiet(d)
      BY <2>1, <2>7, <2>9 DEF DownAdds, Quiet, Reply
  <2> QED
      BY <2>1, <2>2, <2>3, <2>10 DEF ServerPingStep
<1>10. CASE scheme # "tcp"
  <2> DEFINE d == Frame("ping", b)
             x == [id |-> 0, body |-> b]
  <2>1. down' = Append(down, d) /\ pings' = Append(pings, x) /\ sctx' = sctx
      BY <1>6, <1>10 DEF Reply
  <2>2. x \in PingRecord
      BY <1>8 DEF PingRecord
  <2>3. d.kind = "ping" /\ d.data = b
      BY DEF Frame
  <2>4. PingOf(v, d) = <<x>> /\ BeatDown(v, d) = <<>> /\ \A ss : CallsOf(ss, v, d) = <<>>
      BY <2>3 DEF PingOf, BeatDown, CallsOf
  <2>5. d \in DownFrames(v, scheme, sctx.Codec, asked, answered)
      BY <1>8, <1>10, ControlUp
  <2>6. DownAdds(d, answered, <<x>>, <<>>) /\ Quiet(d)
      BY <2>1, <2>4, <2>5 DEF DownAdds, Quiet
  <2>7. sctx'.lastId =< sctx.lastId + 1
      BY <1>3, <2>1
  <2> QED
      BY <2>1, <2>2, <2>6, <2>7 DEF ServerPingStep
<1> QED
    BY <1>9, <1>10

\* A push in a frame.
LEMMA PushSent ==
    ASSUME DialInv, Dialed, NEW cmd \in Byte, cmd > Reconnect \/ cmd = Close,
           NEW b, BodyFits(b), NEW d \in Sent(NewPacket(Push, cmd, b, 0, 0)), Reply(d),
           pushed' = Append(pushed, [cmd |-> cmd, body |-> b])
    PROVE  PushStep
<1> DEFINE v == cctx.Version
           x == [cmd |-> cmd, body |-> b]
<1>1. x \in PushRecord /\ x.cmd = cmd /\ x.body = b /\ cmd \in Nat
  <2>1. cmd \in Nat /\ b \in Seq(Nat)
      BY DEF BodyFits, Byte
  <2> QED
      BY <2>1 DEF PushRecord
<1>2. 0 \in Nat /\ IdFits(0)
  <2>1. MaxActs \in Nat
      BY ExchangeAssumption
  <2> QED
      BY <2>1 DEF IdFits
<1>3. Push # Response /\ Push # Request /\ Push \in {Request, Response, Push}
    BY DEF Request, Response, Push
<1>4. Carries(v, d, Push, cmd, b, 0, 0, {})
    BY <1>2, <1>3, ServerSent
<1> HIDE DEF x
<1>5. /\ PingOf(v, d) = <<>> /\ BeatDown(v, d) = <<>>
      /\ \A ss : CallsOf(ss, v, d) = Calls(ss, cmd, b)
      /\ d \in WholeFrames(v) /\ d.kind = "data"
    BY <1>1, <1>3, <1>4, CarriedPieces
<1>6. /\ PacketIn(v, d).Type = Push
      /\ PacketIn(v, d).CmdCode > Reconnect \/ IsClose(PacketIn(v, d))
    BY <1>4 DEF Carries, IsClose
<1>7. d \in DownFrames(v, scheme, sctx.Codec, asked, answered)
    BY <1>5, <1>6, ServerFrame
<1>8. DownAdds(d, answered, <<>>, <<>>)
    BY <1>5, <1>7 DEF DownAdds, Reply
<1>9. pushed' = Append(pushed, x)
    BY DEF x
<1>10. \A ss : CallsOf(ss, v, d) = Calls(ss, x.cmd, x.body)
    BY <1>1, <1>5
<1> QED
    BY <1>1, <1>8, <1>9, <1>10 DEF PushStep

\* What ServerPush adds.
LEMMA ServerPushFacts ==
    ASSUME DialInv, NEW cmd \in PushCmds, ServerPush(cmd)
    PROVE  PushStep
<1>1. Dialed
    BY DEF ServerPush, Dialed
<1>2. PICK m \in Messages : \E b \in marshal(sctx.Codec, m) :
      \E d \in Sent(NewPacket(Push, cmd, b, 0, 0)) :
         Reply(d) /\ pushed' = Append(pushed, [cmd |-> cmd, body |-> b])
    BY DEF ServerPush
<1>3. PICK b \in marshal(sctx.Codec, m) :
      \E d \in Sent(NewPacket(Push, cmd, b, 0, 0)) :
         Reply(d) /\ pushed' = Append(pushed, [cmd |-> cmd, body |-> b])
    BY <1>2
<1>4. PICK d \in Sent(NewPacket(Push, cmd, b, 0, 0)) :
         Reply(d) /\ pushed' = Append(pushed, [cmd |-> cmd, body |-> b])
    BY <1>3
<1>5. cmd \in Byte /\ cmd > Reconnect /\ m \in Nat /\ sctx.Codec \in Nat
    BY <1>1, ExchangeAssumption, DialedFacts
<1>6. BodyFits(b)
    BY <1>5, EncodedFacts
<1> QED
    BY <1>1, <1>4, <1>5, <1>6, PushSent

\* What ServerClose adds.
LEMMA ServerCloseFacts ==
    ASSUME DialInv, ServerClose
    PROVE  PushStep
<1> DEFINE v == cctx.Version
           x == [cmd |-> Close, body |-> <<>>]
<1>1. Dialed /\ pushed' = Append(pushed, x)
    BY DEF ServerClose, Dialed
<1>2. BodyFits(<<>>) /\ Close \in Byte /\ <<>> \in Seq(Nat) /\ Close \in Nat
  <2>1. <<>> \in Seq(Nat) /\ Len(<<>>) = 0
      OBVIOUS
  <2> QED
      BY <2>1 DEF BodyFits, Close, Byte
<1>3. CASE scheme = "tcp"
  <2>1. PICK d \in Sent(NewPacket(Push, Close, <<>>, 0, 0)) : Reply(d)
      BY <1>3 DEF ServerClose
  <2> QED
      BY <1>1, <1>2, <2>1, PushSent
<1>4. CASE scheme # "tcp"
  <2> DEFINE d == Frame("close", <<>>)
  <2>1. down' = Append(down, d)
      BY <1>4 DEF ServerClose, Reply
  <2>2. d.kind = "close"
      BY DEF Frame
  <2>3. PingOf(v, d) = <<>> /\ BeatDown(v, d) = <<>> /\ \A ss : CallsOf(ss, v, d) = <<>>
      BY <2>2 DEF PingOf, BeatDown, CallsOf
  <2>4. d \in DownFrames(v, scheme, sctx.Codec, asked, answered)
      BY <1>2, <1>4, ControlUp
  <2>5. DownAdds(d, answered, <<>>, <<>>)
      BY <2>1, <2>3, <2>4 DEF DownAdds
  <2>6. \A ss : Calls(ss, x.cmd, x.body) = <<>>
      BY DEF Calls, Close, Reconnect
  <2>7. x \in PushRecord
      BY <1>2 DEF PushRecord
  <2> QED
      BY <1>1, <2>3, <2>5, <2>6, <2>7 DEF PushStep
<1> QED
    BY <1>3, <1>4

\* A response for handleResponse.
Handled(v, g) ==
    /\ g.kind = "data" /\ PacketIn(v, g).Type = Response
    /\ PacketIn(v, g).CmdCode # Heartbeat /\ PacketIn(v, g).CmdCode # Close

\* What the client does with frame g, but for the response in it.
Handles(g) ==
    /\ beats' = beats \o BeatDown(cctx.Version, g) /\ seen' = seen \o CallsOf(subs, cctx.Version, g)
    /\ cctx'.lastId =< cctx.lastId + Len(PingOf(cctx.Version, g))
    /\ phase' = "panic" => scheme # "tcp" /\ cctx.Codec \notin {CodecProtobuf, CodecJSON}
    /\ \/ up' = up /\ PingOf(cctx.Version, g) = <<>>
       \/ \E f : UpAdds(f, PingOf(cctx.Version, g), <<>>)

Responds(g) ==
    \/ UNCHANGED <<recvs, outcome>> /\ (phase' = "open" => ~Handled(cctx.Version, g))
    \/ \E j \in DOMAIN asked : \E r \in answered :
          /\ g.kind = "data" /\ IsAnswer(sctx.Codec, asked[j], r, PacketIn(cctx.Version, g))
          /\ handleResponse(PacketIn(cctx.Version, g))

ReceiveStep == down # <<>> /\ down' = Tail(down) /\ Handles(down[1]) /\ Responds(down[1])

\* A packet without a ping and without a pong.
LEMMA PlainHandled ==
    ASSUME NEW g, beats \in Seq(Nat), cctx.lastId \in Nat, phase' # "panic",
           UNCHANGED <<beats, up, cctx>>,
           PingOf(cctx.Version, g) = <<>>, BeatDown(cctx.Version, g) = <<>>,
           seen' = seen \o CallsOf(subs, cctx.Version, g)
    PROVE  Handles(g)
<1>1. beats \o <<>> = beats /\ cctx.lastId =< cctx.lastId + Len(<<>>)
    OBVIOUS
<1> QED
    BY <1>1 DEF Handles

\* What onPacket does with a packet of the server.
LEMMA PacketHandled ==
    ASSUME ShapesInv, DialInv, Dialed,
           NEW g \in DownFrames(cctx.Version, scheme, sctx.Codec, asked, answered),
           g.kind = "data", onPacket(PacketIn(cctx.Version, g)), UNCHANGED cctx, phase = "open"
    PROVE  Handles(g) /\ Responds(g)
<1> DEFINE v == cctx.Version
           p == PacketIn(v, g)
<1>1. DownOK(v, scheme, sctx.Codec, asked, answered, g) /\ Whole(v, g)
    BY DEF DownFrames, DownOK
<1>2. /\ BodyFits(p.Body) /\ IdFits(p.RequestId) /\ p.CmdCode \in Nat /\ p.RequestId \in Nat
      /\ p.Body \in Seq(Nat)
    BY <1>1 DEF Whole, BodyFits, IdFits
<1>3. \/ \E i \in DOMAIN asked, r \in answered : IsAnswer(sctx.Codec, asked[i], r, p)
      \/ IsPong(p)
      \/ IsPing(p) /\ scheme = "tcp"
      \/ p.Type = Push /\ (p.CmdCode > Reconnect \/ IsClose(p))
    BY <1>1 DEF DownOK
<1>4. /\ PingOf(v, g) = IF IsPing(p) THEN <<[id |-> p.RequestId, body |-> p.Body]>> ELSE <<>>
      /\ BeatDown(v, g) = IF IsPong(p) THEN <<p.RequestId>> ELSE <<>>
      /\ CallsOf(subs, v, g) = IF p.Type = Push THEN Calls(subs, p.CmdCode, p.Body) ELSE <<>>
    BY DEF PingOf, BeatDown, CallsOf
<1>5. Handled(v, g) <=> p.Type = Response /\ p.CmdCode # Heartbeat /\ p.CmdCode # Close
    BY DEF Handled
<1>6. /\ \/ IsControl(p) /\ IsPing(p) /\ handlePing(p, up)
         \/ IsControl(p) /\ IsPong(p) /\ handlePong(p)
         \/ IsControl(p) /\ IsClose(p) /\ closeByServer
         \/ IsControl(p) /\ p.CmdCode \in {Auth, Reconnect} /\ handleResponse(p)
         \/ ~IsControl(p) /\ p.Type = Push /\ handlePush(p)
         \/ ~IsControl(p) /\ p.Type = Response /\ handleResponse(p)
    BY DEF onPacket, handleControl
<1> HIDE DEF p
<1>7. /\ seen \in Seq(CallRecord) /\ beats \in Seq(Nat) /\ seen \o <<>> = seen
      /\ beats \o <<>> = beats /\ \A n \in Nat : Append(beats, n) = beats \o <<n>>
    BY DEF ShapesInv
<1>8. cctx.lastId \in Nat
    BY DialedFacts
<1>9. Request # Response /\ Request # Push /\ Response # Push
    BY DEF Request, Response, Push
<1>10. /\ IsPing(p) <=> p.CmdCode = Heartbeat /\ p.Type = Request
       /\ IsPong(p) <=> p.CmdCode = Heartbeat /\ p.Type = Response
       /\ IsClose(p) <=> p.CmdCode = Close
       /\ IsControl(p) <=> p.CmdCode =< Reconnect
    BY DEF IsPing, IsPong, IsClose, IsControl
<1>11. Close # Heartbeat /\ Close =< Reconnect /\ Heartbeat =< Reconnect /\ Reconnect \in Nat
       /\ Auth =< Reconnect /\ Auth # Heartbeat /\ Reconnect # Heartbeat /\ Auth # Close
       /\ Reconnect # Close
    BY DEF Close, Heartbeat, Auth, Reconnect
<1>12. CASE IsPing(p) /\ handlePing(p, up)
  <2> DEFINE x == [id |-> p.RequestId, body |-> p.Body]
  <2>1. scheme = "tcp" /\ PingOf(v, g) = <<x>> /\ BeatDown(v, g) = <<>> /\
            CallsOf(subs, v, g) = <<>>
    <3>1. scheme = "tcp"
        BY <1>3, <1>9, <1>10, <1>11, <1>12 DEF IsAnswer
    <3> QED
        BY <1>4, <1>9, <1>10, <1>12, <3>1
  <2>2. UNCHANGED <<phase, recvs, outcome, beats, seen>>
      BY <1>12 DEF handlePing
  <2>3. PICK f \in Written(NewPacket(Response, Heartbeat, p.Body, p.RequestId, 0)) :
            up' = Append(up, f)
      BY <1>12, <2>1 DEF handlePing, NeedHandleControl, StatusSuccess
  <2>4. /\ f \in UpFrames(v, scheme, cctx.Codec, asked)
        /\ PongOf(v, f) = <<x>> /\ BeatUp(v, f) = <<>>
      BY <1>2, <1>9, <2>1, <2>3, ControlSent
  <2>5. UpAdds(f, PingOf(v, g), <<>>)
      BY <2>1, <2>3, <2>4 DEF UpAdds
  <2>6. cctx'.lastId =< cctx.lastId + Len(PingOf(v, g))
    <3>1. Len(<<x>>) = 1
        OBVIOUS
    <3> QED
        BY <1>8, <2>1, <3>1
  <2>7. Handles(g)
      BY <1>7, <2>1, <2>2, <2>5, <2>6 DEF Handles
  <2>8. Responds(g)
      BY <1>5, <1>9, <1>10, <1>12, <2>2 DEF Responds
  <2> QED
      BY <2>7, <2>8
<1>13. CASE IsPong(p) /\ handlePong(p)
  <2>1. PingOf(v, g) = <<>> /\ BeatDown(v, g) = <<p.RequestId>> /\ CallsOf(subs, v, g) = <<>>
      BY <1>4, <1>9, <1>10, <1>13
  <2>2. beats' = Append(beats, p.RequestId) /\ UNCHANGED <<up, phase, recvs, outcome, seen>>
      BY <1>13 DEF handlePong
  <2>3. beats' = beats \o BeatDown(v, g) /\ seen' = seen \o CallsOf(subs, v, g)
      BY <1>2, <1>7, <2>1, <2>2
  <2>4. cctx'.lastId =< cctx.lastId + Len(PingOf(v, g))
    <3>1. Len(<<>>) = 0
        OBVIOUS
    <3> QED
        BY <1>8, <2>1, <3>1
  <2>5. Handles(g)
      BY <2>1, <2>2, <2>3, <2>4 DEF Handles
  <2>6. Responds(g)
      BY <1>5, <1>10, <1>13, <2>2 DEF Responds
  <2> QED
      BY <2>5, <2>6
<1>14. CASE IsClose(p) /\ closeByServer
  <2>1. PingOf(v, g) = <<>> /\ BeatDown(v, g) = <<>> /\ CallsOf(subs, v, g) = <<>>
    <3>1. Calls(subs, Close, p.Body) = <<>>
        BY <1>11 DEF Calls, Close, Reconnect
    <3> QED
        BY <1>4, <1>10, <1>11, <1>14, <3>1
  <2>2. phase' = "closed" /\ UNCHANGED <<up, recvs, outcome, beats, seen>>
      BY <1>14 DEF closeByServer
  <2>3. Handles(g)
    <3>1. phase' # "panic" /\ seen' = seen \o CallsOf(subs, v, g)
        BY <1>7, <2>1, <2>2
    <3> QED
        BY <1>7, <1>8, <2>1, <2>2, <3>1, PlainHandled
  <2>4. Responds(g)
      BY <2>2 DEF Responds
  <2> QED
      BY <2>3, <2>4
<1>15. CASE /\ handleResponse(p)
            /\ p.CmdCode \in {Auth, Reconnect} \/ (~IsControl(p) /\ p.Type = Response)
  <2>1. PICK i \in DOMAIN asked, r \in answered : IsAnswer(sctx.Codec, asked[i], r, p)
    <3>1. CASE p.CmdCode \in {Auth, Reconnect}
      <4>1. p.CmdCode # Heartbeat /\ p.CmdCode # Close
          BY <1>11, <3>1
      <4>2. ~(p.CmdCode > Reconnect)
          BY <3>1 DEF Auth, Reconnect
      <4> QED
          BY <1>3, <1>10, <4>1, <4>2, Zenon
    <3>2. CASE ~IsControl(p) /\ p.Type = Response
        BY <1>3, <1>9, <1>10, <1>11, <3>2
    <3> QED
        BY <1>15, <3>1, <3>2
  <2>2. p.Type = Response /\ p.CmdCode # Heartbeat
      BY <2>1 DEF IsAnswer
  <2>3. PingOf(v, g) = <<>> /\ BeatDown(v, g) = <<>> /\ CallsOf(subs, v, g) = <<>>
      BY <1>4, <1>9, <1>10, <2>2
  <2>4. UNCHANGED <<up, phase, beats, seen>>
      BY <1>15 DEF handleResponse
  <2>5. Handles(g)
    <3>1. phase' # "panic" /\ seen' = seen \o CallsOf(subs, v, g)
        BY <1>7, <2>3, <2>4
    <3> QED
        BY <1>7, <1>8, <2>3, <2>4, <3>1, PlainHandled
  <2>6. Responds(g)
      BY <1>15, <2>1 DEF Responds, p
  <2> QED
      BY <2>5, <2>6
<1>16. CASE ~IsControl(p) /\ p.Type = Push /\ handlePush(p)
  <2>1. PingOf(v, g) = <<>> /\ BeatDown(v, g) = <<>>
      BY <1>4, <1>9, <1>10, <1>16
  <2>2. UNCHANGED <<up, phase, recvs, outcome, beats>>
      BY <1>16 DEF handlePush
  <2>3. p.CmdCode > Reconnect
      BY <1>2, <1>10, <1>11, <1>16
  <2>4. seen' = seen \o CallsOf(subs, v, g)
    <3>1. CASE p.CmdCode \in SubCmds
      <4>1. Calls(subs, p.CmdCode, p.Body) =
               [i \in DOMAIN subs[p.CmdCode] |->
                  [sub |-> subs[p.CmdCode][i], cmd |-> p.CmdCode, body |-> p.Body]]
          BY <2>3, <3>1 DEF Calls
      <4>2. CallsOf(subs, v, g) = Calls(subs, p.CmdCode, p.Body)
          BY <1>4, <1>16
      <4>3. seen' = seen \o [i \in DOMAIN subs[p.CmdCode] |->
                  [sub |-> subs[p.CmdCode][i], cmd |-> p.CmdCode, body |-> p.Body]]
          BY <1>16, <3>1 DEF handlePush
      <4> QED
          BY <4>1, <4>2, <4>3
    <3>2. CASE p.CmdCode \notin SubCmds
      <4>1. Calls(subs, p.CmdCode, p.Body) = <<>>
          BY <3>2 DEF Calls
      <4>2. seen' = seen
          BY <1>16, <3>2 DEF handlePush
      <4> QED
          BY <1>4, <1>7, <1>16, <4>1, <4>2
    <3> QED
        BY <3>1, <3>2
  <2>5. Handles(g)
    <3>1. phase' # "panic"
        BY <2>2
    <3> QED
        BY <1>7, <1>8, <2>1, <2>2, <2>4, <3>1, PlainHandled
  <2>6. Responds(g)
      BY <1>5, <1>9, <1>16, <2>2 DEF Responds
  <2> QED
      BY <2>5, <2>6
<1> QED
    BY <1>6, <1>12, <1>13, <1>14, <1>15, <1>16

\* What is done with a control frame of the server.
LEMMA ControlHandled ==
    ASSUME ShapesInv, DialInv, Dialed,
           NEW g \in DownFrames(cctx.Version, scheme, sctx.Codec, asked, answered),
           phase = "open",
           \/ g.kind = "pong" /\ handlePong(onPong(g.data)) /\ UNCHANGED cctx
           \/ g.kind = "ping" /\ onPing(g.data)
           \/ g.kind = "close" /\ onClose /\ UNCHANGED cctx
    PROVE  Handles(g) /\ Responds(g)
<1> DEFINE v == cctx.Version
           b == g.data
<1>1. DownOK(v, scheme, sctx.Codec, asked, answered, g) /\ Whole(v, g) /\ g.kind # "data"
    BY DEF DownFrames, DownOK
<1>2. BodyFits(b) /\ scheme # "tcp"
    BY <1>1 DEF DownOK, Whole
<1>3. /\ seen \in Seq(CallRecord) /\ beats \in Seq(Nat) /\ seen \o <<>> = seen
      /\ beats \o <<>> = beats /\ \A n \in Nat : Append(beats, n) = beats \o <<n>>
    BY DEF ShapesInv
<1>4. cctx.lastId \in Nat /\ cctx.Codec \in Nat /\ cctx \in ContextRecord
    BY DialedFacts DEF DialInv
<1>5. CallsOf(subs, v, g) = <<>> /\ ~Handled(v, g)
    BY <1>1 DEF CallsOf, Handled
<1>6. CASE g.kind = "pong"
  <2> DEFINE n == onPong(b).RequestId
  <2>1. PingOf(v, g) = <<>> /\ BeatDown(v, g) = <<n>>
      BY <1>6 DEF PingOf, BeatDown
  <2>2. /\ beats' = Append(beats, n) /\ UNCHANGED <<up, phase, recvs, outcome, seen>>
        /\ UNCHANGED cctx
      BY <1>6 DEF handlePong
  <2>3. n \in Nat
    <3>1. g \in WholeFrames(v)
        BY <1>1 DEF WholeFrames, DownFrames
    <3>2. BeatDown(v, g) \in Seq(Nat)
        BY <3>1, PieceTypes
    <3> HIDE DEF n
    <3>3. <<n>> \in Seq(Nat)
        BY <2>1, <3>2
    <3>4. <<n>>[1] \in Nat
        BY <3>3
    <3> QED
        BY <3>4
  <2> HIDE DEF n
  <2>4. beats' = beats \o BeatDown(v, g) /\ seen' = seen \o CallsOf(subs, v, g)
      BY <1>3, <1>5, <2>1, <2>2, <2>3
  <2>5. cctx'.lastId =< cctx.lastId + Len(PingOf(v, g))
    <3>1. Len(<<>>) = 0
        OBVIOUS
    <3> QED
        BY <1>4, <2>1, <2>2, <3>1
  <2>6. Handles(g)
      BY <2>1, <2>2, <2>4, <2>5 DEF Handles
  <2> QED
      BY <1>5, <2>2, <2>6 DEF Responds
<1>7. CASE g.kind = "ping"
  <2> DEFINE f == Frame("pong", b)
             x == [id |-> 0, body |-> b]
  <2>1. PingOf(v, g) = <<x>> /\ BeatDown(v, g) = <<>>
      BY <1>7 DEF PingOf, BeatDown
  <2>2. /\ cctx' = [cctx EXCEPT !.lastId = NextReqId(cctx)] /\ up' = Append(up, f)
        /\ UNCHANGED <<phase, recvs, outcome, beats, seen>>
      BY <1>2, <1>7 DEF onPing, handlePing, NeedHandleControl
  <2>3. f \in UpFrames(v, scheme, cctx.Codec, asked)
      BY <1>2, ControlUp
  <2>4. PongOf(v, f) = <<x>> /\ BeatUp(v, f) = <<>>
    <3>1. f.kind = "pong" /\ f.data = b
        BY DEF Frame
    <3> QED
        BY <3>1 DEF PongOf, BeatUp
  <2>5. UpAdds(f, PingOf(v, g), <<>>)
      BY <2>1, <2>2, <2>3, <2>4 DEF UpAdds
  <2>6. cctx'.lastId =< cctx.lastId + Len(PingOf(v, g))
    <3>1. Len(<<x>>) = 1
        OBVIOUS
    <3>2. cctx'.lastId = cctx.lastId + 1
        BY <1>4, <2>2, NextSame
    <3> QED
        BY <1>4, <2>1, <3>1, <3>2
  <2>7. Handles(g)
      BY <1>3, <1>5, <2>1, <2>2, <2>5, <2>6 DEF Handles
  <2> QED
      BY <1>5, <2>2, <2>7 DEF Responds
<1>8. CASE g.kind = "close"
  <2>1. PingOf(v, g) = <<>> /\ BeatDown(v, g) = <<>>
      BY <1>8 DEF PingOf, BeatDown
  <2>2. /\ UNCHANGED <<up, recvs, outcome, beats, seen, cctx>>
        /\ phase' = "panic" => marshal(cctx.Codec, 1) = {}
      BY <1>8 DEF onClose, closeByServer
  <2>3. phase' = "panic" => cctx.Codec \notin {CodecProtobuf, CodecJSON}
      BY <2>2 DEF marshal, Nil
  <2>4. cctx'.lastId =< cctx.lastId + Len(PingOf(v, g))
    <3>1. Len(<<>>) = 0
        OBVIOUS
    <3> QED
        BY <1>4, <2>1, <2>2, <3>1
  <2>5. Handles(g)
      BY <1>2, <1>3, <1>5, <2>1, <2>2, <2>3, <2>4 DEF Handles
  <2> QED
      BY <1>5, <2>2, <2>5 DEF Responds
<1> QED
    BY <1>6, <1>7, <1>8

\* What Receive takes and adds.
LEMMA ReceiveFacts ==
    ASSUME ShapesInv, DialInv, FramesInv, Receive
    PROVE  ReceiveStep
<1> DEFINE v == cctx.Version
           g == down[1]
<1>1. Dialed /\ phase = "open" /\ down # <<>> /\ down' = Tail(down)
    BY DEF Receive, Dialed
<1>2. down \in Seq(DownFrames(v, scheme, sctx.Codec, asked, answered))
    BY FramesAre
<1>3. g \in DownFrames(v, scheme, sctx.Codec, asked, answered) /\ Head(down) = g
    BY <1>1, <1>2
<1>4. \/ /\ g.kind = "data" /\ \E p \in UnpackBytes(v, g.data) : onPacket(p)
         /\ UNCHANGED cctx
      \/ g.kind = "pong" /\ handlePong(onPong(g.data)) /\ UNCHANGED cctx
      \/ g.kind = "ping" /\ onPing(g.data)
      \/ g.kind = "close" /\ onClose /\ UNCHANGED cctx
    BY <1>3 DEF Receive
<1> HIDE DEF g
<1>5. CASE g.kind = "data"
  <2>1. UnpackBytes(v, g.data) = {PacketIn(v, g)}
      BY <1>3, <1>5 DEF DownFrames, DownOK, Whole
  <2>2. onPacket(PacketIn(v, g)) /\ UNCHANGED cctx
      BY <1>4, <1>5, <2>1
  <2> QED
      BY <1>1, <1>3, <1>5, <2>2, PacketHandled DEF ReceiveStep, g
<1>6. CASE g.kind # "data"
  <2>1. Handles(g) /\ Responds(g)
      BY <1>1, <1>3, <1>4, <1>6, ControlHandled
  <2> QED
      BY <1>1, <2>1 DEF ReceiveStep, g
<1> QED
    BY <1>5, <1>6

-----------------------------------------------------------------------------
(* What the steps do                                                         *)

DoSays ==
    /\ \E a : Asks(a) /\ (AskFailed \/ \E f : AskSent(a, f))
    /\ UNCHANGED <<phase, down, serverVars, clientVars>>
TimeoutSays ==
    /\ \E i \in DOMAIN asked : /\ outcome[i] = Pending
                               /\ outcome' = [outcome EXCEPT ![i] = [kind |-> "timeout"]]
                               /\ recvs' = recvs \ {asked[i].id}
    /\ UNCHANGED <<phase, cctx, up, down, asked, serverVars, clientVars>>
PingSays == PingStep /\ UNCHANGED <<down, askVars, serverVars, beats, seen>>
ServeSays == ServeStep /\ UNCHANGED <<phase, cctx, askVars, sctx, pings, pushed, clientVars>>
ServerPingSays ==
    /\ ServerPingStep
    /\ UNCHANGED <<phase, cctx, up, askVars, heard, answered, ponged, pushed, clientVars>>
PushSays ==
    PushStep /\ UNCHANGED <<phase, cctx, up, askVars, sctx, heard, answered, pings, ponged,
        clientVars>>
ReceiveSays == ReceiveStep /\ UNCHANGED <<asked, pinged, serverVars>> /\ phase = "open"

Says ==
    \/ DoSays \/ TimeoutSays \/ PingSays \/ ServeSays \/ ServerPingSays \/ PushSays \/ ReceiveSays

\* Each action is one of these steps and stays within the bound.
LEMMA LaterSays ==
    ASSUME ShapesInv, DialInv, FramesInv, CountInv, Later
    PROVE  Says /\ Acts' =< MaxActs
<1>1. ASSUME NEW r \in Requests, Do(r) PROVE DoSays
  <2>1. \E a : Asks(a) /\ (AskFailed \/ \E f : AskSent(a, f))
      BY <1>1, DoFacts
  <2> QED
      BY <1>1, <2>1 DEF Do, DoSays
<1>2. ASSUME NEW i \in DOMAIN asked, DoTimeout(i) PROVE TimeoutSays
    BY <1>2 DEF DoTimeout, TimeoutSays
<1>3. ASSUME Ping PROVE PingSays
  <2>1. PingStep
      BY <1>3, PingFacts
  <2> QED
      BY <1>3, <2>1 DEF Ping, PingSays
<1>4. ASSUME Serve PROVE ServeSays
  <2>1. ServeStep
      BY <1>4, ServeFacts
  <2> QED
      BY <1>4, <2>1 DEF Serve, ServeSays
<1>5. ASSUME ServerPing PROVE ServerPingSays
  <2>1. ServerPingStep
      BY <1>5, ServerPingFacts
  <2> QED
      BY <1>5, <2>1 DEF ServerPing, ServerPingSays
<1>6. ASSUME ServerClose PROVE PushSays
  <2>1. PushStep
      BY <1>6, ServerCloseFacts
  <2> QED
      BY <1>6, <2>1 DEF ServerClose, PushSays
<1>7. ASSUME Receive PROVE ReceiveSays
  <2>1. ReceiveStep
      BY <1>7, ReceiveFacts
  <2> QED
      BY <1>7, <2>1 DEF Receive, ReceiveSays
<1>8. ASSUME NEW c \in PushCmds, ServerPush(c) PROVE PushSays
  <2>1. PushStep
      BY <1>8, ServerPushFacts
  <2> QED
      BY <1>8, <2>1 DEF ServerPush, PushSays
<1>9. Says
    BY <1>1, <1>2, <1>3, <1>4, <1>5, <1>6, <1>7, <1>8 DEF Later, Says
<1>10. Acts' =< MaxActs
  <2> DEFINE a == Len(asked)
             b == Len(pinged)
             c == Len(pings)
             d == Len(pushed)
  <2>1. a \in Nat /\ b \in Nat /\ c \in Nat /\ d \in Nat /\ MaxActs \in Nat
      BY ExchangeAssumption DEF ShapesInv
  <2>2. Acts = a + b + c + d /\ Acts =< MaxActs
      BY DEF Acts, CountInv
  <2>3. \A x : /\ Len(Append(asked, x)) = a + 1 /\ Len(Append(pinged, x)) = b + 1
               /\ Len(Append(pings, x)) = c + 1 /\ Len(Append(pushed, x)) = d + 1
      BY DEF ShapesInv
  <2>4. Acts' = Len(asked') + Len(pinged') + Len(pings') + Len(pushed')
      BY DEF Acts
  <2>5. \/ Len(asked') = a /\ Len(pinged') = b /\ Len(pings') = c /\ Len(pushed') = d
        \/ /\ Acts < MaxActs
           /\ \/ Len(asked') = a + 1 /\ Len(pinged') = b /\ Len(pings') = c /\ Len(pushed') = d
              \/ Len(asked') = a /\ Len(pinged') = b + 1 /\ Len(pings') = c /\ Len(pushed') = d
              \/ Len(asked') = a /\ Len(pinged') = b /\ Len(pings') = c + 1 /\ Len(pushed') = d
              \/ Len(asked') = a /\ Len(pinged') = b /\ Len(pings') = c /\ Len(pushed') = d + 1
    <3>1. ASSUME NEW r \in Requests, Do(r)
          PROVE  /\ Acts < MaxActs /\ \E x : asked' = Append(asked, x)
                 /\ UNCHANGED <<pinged, pings, pushed>>
      <4>1. DoSays /\ Acts < MaxActs
          BY <1>1, <3>1 DEF Do
      <4> QED
          BY <4>1 DEF DoSays, Asks, serverVars, clientVars
    <3>2. ASSUME NEW i \in DOMAIN asked, DoTimeout(i)
          PROVE  UNCHANGED <<asked, pinged, pings, pushed>>
        BY <3>2 DEF DoTimeout, serverVars, clientVars
    <3>3. Ping => /\ Acts < MaxActs /\ \E x : pinged' = Append(pinged, x)
                  /\ UNCHANGED <<asked, pings, pushed>>
        BY DEF Ping, askVars, serverVars
    <3>4. Serve => UNCHANGED <<asked, pinged, pings, pushed>>
        BY DEF Serve, askVars, clientVars
    <3>5. ServerPing => /\ Acts < MaxActs /\ \E x : pings' = Append(pings, x)
                        /\ UNCHANGED <<asked, pinged, pushed>>
        BY DEF ServerPing, askVars, clientVars
    <3>6. ServerClose => /\ Acts < MaxActs /\ \E x : pushed' = Append(pushed, x)
                         /\ UNCHANGED <<asked, pinged, pings>>
        BY DEF ServerClose, askVars, clientVars
    <3>7. Receive => UNCHANGED <<asked, pinged, pings, pushed>>
        BY DEF Receive, serverVars
    <3>8. ASSUME NEW k \in PushCmds, ServerPush(k)
          PROVE  /\ Acts < MaxActs /\ \E x : pushed' = Append(pushed, x)
                 /\ UNCHANGED <<asked, pinged, pings>>
        BY <3>8 DEF ServerPush, askVars, clientVars
    <3> QED
        BY <2>3, <3>1, <3>2, <3>3, <3>4, <3>5, <3>6, <3>7, <3>8 DEF Later
  <2> HIDE DEF a, b, c, d
  <2> QED
      BY <2>1, <2>2, <2>4, <2>5
<1> QED
    BY <1>9, <1>10

\* What Do makes of an answer.
LEMMA ResultFacts ==
    ASSUME cctx.Codec \in Nat, NEW c \in Nat, NEW a, NEW an, NEW r \in an, r \in AnswerRecord,
           NEW p, IsAnswer(c, a, r, p), BodyFits(p.Body), NEW agree, agree => cctx.Codec = c
    PROVE  /\ Result(p) \in Outcomes /\ Result(p).kind # "pending"
           /\ OutcomeOK(agree, an, a, Result(p))
<1> DEFINE e == unmarshal(cctx.Codec, p.Body)
<1>1. /\ p.Type = Response /\ p.StatusCode = r.status /\ p.Body \in marshal(c, r.body)
      /\ r.id = a.id /\ r.status \in Nat /\ r.body \in Nat
    BY DEF IsAnswer, AnswerRecord
<1>2. e \in SUBSET Nat /\ (e = {} \/ \E m \in Nat : e = {m})
  <2>1. p.Body \in Seq(Nat) /\ (p.Body = <<>> \/ Len(p.Body) = 2)
      BY DEF BodyFits
  <2>2. CASE p.Body = <<>>
      BY <2>2 DEF unmarshal, Nil
  <2>3. CASE p.Body # <<>>
    <3>1. p.Body[2] \in Nat
        BY <2>1, <2>3
    <3> QED
        BY <2>3, <3>1 DEF unmarshal
  <2> QED
      BY <2>2, <2>3
<1>3. agree => e = {r.body} \/ e = {}
    BY <1>1, EncodedFacts
<1> HIDE DEF e
<1>4. CASE p.StatusCode = StatusSuccess
  <2>1. Err(p, cctx.Codec) = {}
      BY <1>4 DEF Err
  <2> DEFINE o == [kind |-> "ok", status |-> p.StatusCode, body |-> e]
  <2>2. Result(p) = o
      BY <2>1 DEF Result, e
  <2>3. o \in Outcomes
      BY <1>1, <1>2 DEF Outcomes
  <2>4. o.kind = "ok" /\ o.body = e
      OBVIOUS
  <2> HIDE DEF o
  <2>5. OutcomeOK(agree, an, a, o)
      BY <1>1, <1>3, <1>4, <2>4 DEF OutcomeOK
  <2> QED
      BY <2>2, <2>3, <2>4, <2>5
<1>5. CASE p.StatusCode # StatusSuccess
  <2> DEFINE k == IF e = {} THEN UnknownError ELSE CHOOSE m \in e : TRUE
             x == [status |-> p.StatusCode, code |-> k]
             o == [kind |-> "error", err |-> x]
  <2>1. Err(p, cctx.Codec) = {x}
      BY <1>1, <1>5 DEF Err, e
  <2>2. Result(p) = o
      BY <2>1 DEF Result
  <2>3. k \in Nat
      BY <1>2 DEF UnknownError
  <2>4. agree => k \in {r.body, UnknownError}
      BY <1>3
  <2> HIDE DEF k
  <2>5. o \in Outcomes
      BY <1>1, <2>3 DEF Outcomes
  <2>6. o.kind = "error" /\ o.err.status = p.StatusCode /\ o.err.code = k
      OBVIOUS
  <2> HIDE DEF o, x
  <2>7. OutcomeOK(agree, an, a, o)
      BY <1>1, <2>4, <2>6 DEF OutcomeOK
  <2> QED
      BY <2>2, <2>5, <2>6, <2>7
<1> QED
    BY <1>4, <1>5

-----------------------------------------------------------------------------
(* What they keep                                                            *)

\* A sequence with x at its end.
LEMMA AppendFacts ==
    ASSUME NEW T, NEW s \in Seq(T), NEW x \in T
    PROVE  /\ Append(s, x) \in Seq(T) /\ Len(Append(s, x)) = Len(s) + 1 /\ Len(s) \in Nat
           /\ Append(s, x) = s \o <<x>> /\ DOMAIN s = 1..Len(s)
           /\ DOMAIN Append(s, x) = 1..(Len(s) + 1)
           /\ \A i \in DOMAIN s : i \in DOMAIN Append(s, x) /\ Append(s, x)[i] = s[i]
           /\ \A i \in DOMAIN Append(s, x) :
                 (i \in DOMAIN s /\ Append(s, x)[i] = s[i]) \/
                     (i = Len(s) + 1 /\ Append(s, x)[i] = x)
           /\ Append(s, x)[Len(s) + 1] = x
OBVIOUS

\* A sequence without its head.
LEMMA TailFacts ==
    ASSUME NEW T, NEW s \in Seq(T), s # <<>>
    PROVE  /\ Tail(s) \in Seq(T) /\ s[1] \in T
           /\ \A i \in DOMAIN Tail(s) : i + 1 \in DOMAIN s /\ Tail(s)[i] = s[i + 1]
           /\ \A i \in DOMAIN s : i = 1 \/ (i - 1 \in DOMAIN Tail(s) /\ Tail(s)[i - 1] = s[i])
OBVIOUS

\* What is known of the state before a step.
LEMMA Before ==
    ASSUME ShapesInv, DialInv, FramesInv, Dialed
    PROVE  /\ cctx.Version \in {1, 2} /\ cctx.Codec \in Nat /\ sctx.Codec \in Nat
           /\ cctx.lastId \in Nat /\ sctx.lastId \in Nat
           /\ up \in Seq(WholeFrames(cctx.Version)) /\ down \in Seq(WholeFrames(cctx.Version))
           /\ Subscribers(subs)
    BY DialedFacts, FramesAre DEF ShapesInv, Subscribers

\* What is sent is whole.
LEMMA AddsWhole ==
    /\ \A v, s, c, as : \A f \in UpFrames(v, s, c, as) : f \in WholeFrames(v) /\ f \in Frames
    /\ \A v, s, c, as, an : \A f \in DownFrames(v, s, c, as, an) : f \in WholeFrames(v) /\
         f \in Frames
BY DEF UpFrames, DownFrames, UpOK, DownOK, WholeFrames

\* handleResponse ends the request with the id of the response, and no other.
LEMMA ResponseOutcome ==
    ASSUME ShapesInv, cctx.Codec \in Nat, sctx.Codec \in Nat,
           NEW j \in DOMAIN asked, NEW r \in answered, NEW p, BodyFits(p.Body),
           IsAnswer(sctx.Codec, asked[j], r, p), handleResponse(p),
           NEW agree, agree => cctx.Codec = sctx.Codec
    PROVE  /\ outcome' \in Seq(Outcomes) /\ Len(outcome') = Len(outcome)
           /\ DOMAIN outcome = DOMAIN asked
           /\ \A i \in DOMAIN asked :
                 \/ /\ asked[i].id = asked[j].id /\ asked[i].id \in recvs
                    /\ OutcomeOK(agree, answered, asked[j], outcome'[i])
                    /\ outcome'[i].kind # "pending"
                 \/ /\ asked[i].id # asked[j].id \/ asked[i].id \notin recvs
                    /\ outcome'[i] = outcome[i]
<1> DEFINE n == Len(asked)
           id == p.RequestId
<1>1. /\ asked \in Seq(AskedRecord) /\ outcome \in Seq(Outcomes) /\ Len(outcome) = n
      /\ answered \in SUBSET AnswerRecord
    BY DEF ShapesInv
<1>2. /\ n \in Nat /\ DOMAIN asked = 1..n /\ DOMAIN outcome = 1..n
      /\ \A i \in 1..n : outcome[i] \in Outcomes
    BY <1>1
<1>3. /\ Result(p) \in Outcomes /\ Result(p).kind # "pending"
      /\ OutcomeOK(agree, answered, asked[j], Result(p))
    BY <1>1, ResultFacts
<1>4. id = asked[j].id
    BY DEF IsAnswer
<1>5. outcome' = [i \in 1..n |-> IF asked[i].id = id /\ id \in recvs THEN Result(p) ELSE outcome[i]]
    BY <1>2 DEF handleResponse
<1> HIDE DEF id, n
<1>6. outcome' \in [1..n -> Outcomes]
    BY <1>2, <1>3, <1>5
<1>7. outcome' \in Seq(Outcomes) /\ Len(outcome') = n
    BY <1>2, <1>6, FunctionsAreSeqs
<1>8. ASSUME NEW i \in 1..n
      PROVE  \/ /\ asked[i].id = asked[j].id /\ asked[i].id \in recvs
                /\ OutcomeOK(agree, answered, asked[j], outcome'[i])
                /\ outcome'[i].kind # "pending"
             \/ /\ asked[i].id # asked[j].id \/ asked[i].id \notin recvs
                /\ outcome'[i] = outcome[i]
  <2>1. CASE asked[i].id = id /\ id \in recvs
    <3>1. outcome'[i] = Result(p)
        BY <1>5, <2>1
    <3> QED
        BY <1>3, <1>4, <2>1, <3>1
  <2>2. CASE ~(asked[i].id = id /\ id \in recvs)
    <3>1. outcome'[i] = outcome[i]
        BY <1>5, <2>2
    <3> QED
        BY <1>4, <2>2, <3>1
  <2> QED
      BY <2>1, <2>2
<1> QED
    BY <1>1, <1>2, <1>7, <1>8

\* A step keeps ShapesInv.
LEMMA ShapesNext ==
    ASSUME ShapesInv, DialInv, FramesInv, Static, Says
    PROVE  ShapesInv'
<1> DEFINE v == cctx.Version
<1>1. /\ up \in Seq(Frames) /\ down \in Seq(Frames)
      /\ pings \in Seq(PingRecord) /\ ponged \in Seq(PingRecord)
      /\ pinged \in Seq(Nat) /\ beats \in Seq(Nat)
      /\ pushed \in Seq(PushRecord) /\ seen \in Seq(CallRecord)
      /\ subs \in [SubCmds -> Seq(Nat)]
      /\ asked \in Seq(AskedRecord) /\ answered \in SUBSET AnswerRecord
      /\ outcome \in Seq(Outcomes) /\ Len(outcome) = Len(asked)
    BY DEF ShapesInv
<1>2. Dialed /\ subs' = subs
    BY DEF Static, dialVars
<1>3. /\ v \in {1, 2} /\ cctx.Codec \in Nat /\ sctx.Codec \in Nat /\ cctx.lastId \in Nat
      /\ up \in Seq(WholeFrames(v)) /\ down \in Seq(WholeFrames(v)) /\ Subscribers(subs)
    BY <1>2, Before
<1>4. \A f, pongs, beat : UpAdds(f, pongs, beat) => up' \in Seq(Frames)
    BY <1>1, AddsWhole, AppendFacts DEF UpAdds
<1>5. \A d, an, ping, beat : DownAdds(d, an, ping, beat) => down' \in Seq(Frames)
    BY <1>1, AddsWhole, AppendFacts DEF DownAdds
<1>6. ASSUME DoSays PROVE ShapesInv'
  <2>1. PICK a : Asks(a) /\ (AskFailed \/ \E f : AskSent(a, f))
      BY <1>6 DEF DoSays
  <2>2. /\ asked' = Append(asked, a) /\ a \in AskedRecord
      BY <2>1 DEF Asks
  <2>3. asked' \in Seq(AskedRecord) /\ Len(asked') = Len(asked) + 1
      BY <1>1, <2>2, AppendFacts
  <2>4. \E o \in Outcomes : outcome' = Append(outcome, o)
    <3>1. Pending \in Outcomes /\ [kind |-> "failed"] \in Outcomes
        BY DEF Pending, Outcomes
    <3> QED
        BY <2>1, <3>1 DEF AskFailed, AskSent
  <2>5. outcome' \in Seq(Outcomes) /\ Len(outcome') = Len(outcome) + 1
      BY <1>1, <2>4, AppendFacts, SMTT(30)
  <2>6. up' \in Seq(Frames)
    <3>1. ASSUME NEW f, AskSent(a, f) PROVE up' \in Seq(Frames)
      <4>1. f \in Frames /\ up' = Append(up, f)
          BY <3>1, AddsWhole DEF AskSent
      <4> QED
          BY <1>1, <4>1, AppendFacts
    <3> QED
        BY <1>1, <2>1, <3>1 DEF AskFailed
  <2> QED
      BY <1>1, <1>2, <1>6, <2>3, <2>5, <2>6 DEF DoSays, ShapesInv, serverVars, clientVars
<1>7. ASSUME TimeoutSays PROVE ShapesInv'
  <2>1. PICK i \in DOMAIN asked : outcome' = [outcome EXCEPT ![i] = [kind |-> "timeout"]]
      BY <1>7 DEF TimeoutSays
  <2>2. [kind |-> "timeout"] \in Outcomes
      BY DEF Outcomes
  <2>3. outcome' \in Seq(Outcomes) /\ Len(outcome') = Len(outcome)
      BY <1>1, <2>1, <2>2
  <2> QED
      BY <1>1, <1>2, <1>7, <2>3 DEF TimeoutSays, ShapesInv, serverVars, clientVars
<1>8. ASSUME PingSays PROVE ShapesInv'
  <2>1. pinged' \in Seq(Nat)
    <3>1. cctx.lastId + 1 \in Nat
        BY <1>3
    <3> QED
        BY <1>1, <1>8, <3>1, AppendFacts DEF PingSays, PingStep
  <2>2. up' \in Seq(Frames)
      BY <1>1, <1>4, <1>8 DEF PingSays, PingStep
  <2> QED
      BY <1>1, <1>2, <1>8, <2>1, <2>2 DEF PingSays, ShapesInv, askVars, serverVars
<1>9. ASSUME ServeSays PROVE ShapesInv'
  <2>1. up # <<>> /\ up' = Tail(up) /\ ponged' = ponged \o PongOf(v, up[1])
      BY <1>9 DEF ServeSays, ServeStep
  <2>2. up' \in Seq(Frames) /\ up[1] \in WholeFrames(v)
      BY <1>1, <1>3, <2>1, TailFacts
  <2>3. ponged' \in Seq(PingRecord)
    <3>1. PongOf(v, up[1]) \in Seq(PingRecord)
        BY <2>2, PieceTypes
    <3> QED
        BY <1>1, <2>1, <3>1
  <2>4. down' \in Seq(Frames) /\ answered' \in SUBSET AnswerRecord
    <3>1. CASE UNCHANGED <<down, heard, answered>>
        BY <1>1, <3>1
    <3>2. ASSUME NEW d, DownAdds(d, answered, <<>>, BeatUp(v, up[1])), UNCHANGED <<heard, answered>>
          PROVE  down' \in Seq(Frames) /\ answered' \in SUBSET AnswerRecord
        BY <1>1, <1>5, <3>2
    <3>3. ASSUME NEW j \in DOMAIN asked, NEW h, NEW r, NEW d, Answers(asked[j], h, r, d)
          PROVE  down' \in Seq(Frames) /\ answered' \in SUBSET AnswerRecord
        BY <1>1, <1>5, <3>3 DEF Answers
    <3> QED
        BY <1>9, <3>1, <3>2, <3>3 DEF ServeSays, ServeStep
  <2> QED
      BY <1>1, <1>2, <1>9, <2>2, <2>3, <2>4 DEF ServeSays, ShapesInv, askVars, clientVars
<1>10. ASSUME ServerPingSays PROVE ShapesInv'
  <2>1. down' \in Seq(Frames)
      BY <1>5, <1>10 DEF ServerPingSays, ServerPingStep
  <2>2. pings' \in Seq(PingRecord)
      BY <1>1, <1>10, AppendFacts DEF ServerPingSays, ServerPingStep
  <2> QED
      BY <1>1, <1>2, <1>10, <2>1, <2>2 DEF ServerPingSays, ShapesInv, askVars, clientVars
<1>11. ASSUME PushSays PROVE ShapesInv'
  <2>1. down' \in Seq(Frames)
      BY <1>5, <1>11 DEF PushSays, PushStep
  <2>2. pushed' \in Seq(PushRecord)
      BY <1>1, <1>11, AppendFacts DEF PushSays, PushStep
  <2> QED
      BY <1>1, <1>2, <1>11, <2>1, <2>2 DEF PushSays, ShapesInv, askVars, clientVars
<1>12. ASSUME ReceiveSays PROVE ShapesInv'
  <2> DEFINE g == down[1]
  <2>1. down # <<>> /\ down' = Tail(down) /\ Handles(g) /\ Responds(g)
      BY <1>12 DEF ReceiveSays, ReceiveStep
  <2>2. down' \in Seq(Frames) /\ g \in WholeFrames(v)
      BY <1>1, <1>3, <2>1, TailFacts
  <2> HIDE DEF g
  <2>3. BeatDown(v, g) \in Seq(Nat) /\ CallsOf(subs, v, g) \in Seq(CallRecord)
      BY <1>3, <2>2, PieceTypes, CallPieceTypes
  <2>4. beats' \in Seq(Nat) /\ seen' \in Seq(CallRecord)
      BY <1>1, <2>1, <2>3 DEF Handles
  <2>5. up' \in Seq(Frames)
      BY <1>1, <1>4, <2>1 DEF Handles
  <2>6. outcome' \in Seq(Outcomes) /\ Len(outcome') = Len(outcome)
    <3>1. CASE UNCHANGED <<recvs, outcome>>
        BY <1>1, <3>1
    <3>2. ASSUME NEW j \in DOMAIN asked, NEW r \in answered, g.kind = "data",
                 IsAnswer(sctx.Codec, asked[j], r, PacketIn(v, g)), handleResponse(PacketIn(v, g))
          PROVE  outcome' \in Seq(Outcomes) /\ Len(outcome') = Len(outcome)
      <4>1. BodyFits(PacketIn(v, g).Body)
          BY <2>2, <3>2 DEF WholeFrames, Whole
      <4> QED
          BY <1>3, <3>2, <4>1, ResponseOutcome
    <3> QED
        BY <2>1, <3>1, <3>2 DEF Responds
  <2> QED
      BY <1>1, <1>2, <1>12, <2>2, <2>4, <2>5, <2>6 DEF ReceiveSays, ShapesInv, serverVars
<1> QED
    BY <1>6, <1>7, <1>8, <1>9, <1>10, <1>11, <1>12 DEF Says

\* A step keeps DialInv.
LEMMA DialNext ==
    ASSUME DialInv, Static, phase' \in {"open", "closed", "panic"}
    PROVE  DialInv'
<1>1. cctx' \in ContextRecord /\ sctx' \in ContextRecord
    BY DEF Static, SameContext
<1>2. /\ scheme' = scheme /\ hs' = hs /\ opts' = opts /\ dopts' = dopts
      /\ Dialed /\ Dialed'
    BY DEF Static, dialVars
<1>3. /\ cctx'.Version = cctx.Version /\ cctx'.Codec = cctx.Codec /\ cctx'.Platform = cctx.Platform
      /\ sctx'.Version = sctx.Version /\ sctx'.Codec = sctx.Codec /\ sctx'.Platform = sctx.Platform
    BY DEF Static, SameContext
<1>4. /\ scheme \in connDialers /\ hs \in Handshakes /\ hs.Version \in manager
      /\ cctx.Version = hs.Version /\ cctx.Codec = hs.Codec /\ cctx.Platform = hs.Platform
      /\ sctx.Version = hs.Version
      /\ sctx.Codec = Announced(scheme, hs).Codec
      /\ sctx.Platform = Announced(scheme, hs).Platform
      /\ scheme \in connDialers => opts \in OptionLists /\ dopts = newDialOptions(opts)
    BY <1>2 DEF DialInv
<1>5. /\ scheme' \in connDialers /\ hs' \in Handshakes /\ hs'.Version \in manager
      /\ cctx'.Version = hs'.Version /\ cctx'.Codec = hs'.Codec /\ cctx'.Platform = hs'.Platform
      /\ sctx'.Version = hs'.Version
      /\ sctx'.Codec = Announced(scheme', hs').Codec
      /\ sctx'.Platform = Announced(scheme', hs').Platform
      /\ opts' \in OptionLists /\ dopts' = newDialOptions(opts')
    BY <1>2, <1>3, <1>4
<1>6. DialInv' <=>
         /\ cctx' \in ContextRecord /\ sctx' \in ContextRecord
         /\ phase' \in {"new", "failed", "open", "closed", "panic"}
         /\ Dialed' =>
               /\ scheme' \in connDialers /\ hs' \in Handshakes /\ hs'.Version \in manager
               /\ cctx'.Version = hs'.Version /\ cctx'.Codec = hs'.Codec
               /\ cctx'.Platform = hs'.Platform /\ sctx'.Version = hs'.Version
               /\ sctx'.Codec = Announced(scheme', hs').Codec
               /\ sctx'.Platform = Announced(scheme', hs').Platform
         /\ scheme' \in connDialers => opts' \in OptionLists /\ dopts' = newDialOptions(opts')
         /\ ~Dialed' =>
               /\ up' = <<>> /\ down' = <<>> /\ asked' = <<>> /\ pinged' = <<>> /\ pings' = <<>>
               /\ ponged' = <<>> /\ beats' = <<>> /\ pushed' = <<>> /\ seen' = <<>>
               /\ heard' = {} /\ answered' = {} /\ recvs' = {}
               /\ cctx'.lastId = 0 /\ sctx'.lastId = 0
    BY DEF DialInv
<1> QED
    BY <1>1, <1>2, <1>5, <1>6

\* A step keeps PanicsForCodec.
LEMMA PanicsNext ==
    ASSUME DialInv, Static, Says, PanicsForCodec
    PROVE  PanicsForCodec'
<1>1. scheme' = scheme /\ hs' = hs /\ cctx.Codec = hs.Codec
    BY DEF Static, dialVars, DialInv
<1>2. \/ phase' = phase \/ phase' # "panic"
      \/ scheme # "tcp" /\ cctx.Codec \notin {CodecProtobuf, CodecJSON}
  <2>1. DoSays => phase' = phase
      BY DEF DoSays
  <2>2. TimeoutSays => phase' = phase
      BY DEF TimeoutSays
  <2>3. PingSays => phase' = phase \/ phase' # "panic"
      BY DEF PingSays, PingStep
  <2>4. ServeSays => phase' = phase
      BY DEF ServeSays
  <2>5. ServerPingSays => phase' = phase
      BY DEF ServerPingSays
  <2>6. PushSays => phase' = phase
      BY DEF PushSays
  <2>7. ReceiveSays => phase' # "panic" \/
            (scheme # "tcp" /\ cctx.Codec \notin {CodecProtobuf, CodecJSON})
      BY DEF ReceiveSays, ReceiveStep, Handles
  <2> QED
      BY <2>1, <2>2, <2>3, <2>4, <2>5, <2>6, <2>7 DEF Says
<1> QED
    BY <1>1, <1>2 DEF PanicsForCodec

\* Requests are only ever added.
LEMMA AskedNext ==
    ASSUME Says
    PROVE  asked' = asked \/ (DoSays /\ \E a : Asks(a))
<1>1. DoSays => \E a : Asks(a)
    BY DEF DoSays
<1>2. TimeoutSays \/ PingSays \/ ServeSays \/ ServerPingSays \/ PushSays \/ ReceiveSays
         => asked' = asked
    BY DEF TimeoutSays, PingSays, ServeSays, ServerPingSays, PushSays, ReceiveSays, askVars
<1> QED
    BY <1>1, <1>2 DEF Says

\* So they keep their place.
LEMMA AskedGrows ==
    ASSUME ShapesInv, Says
    PROVE  \A i \in DOMAIN asked : i \in DOMAIN asked' /\ asked'[i] = asked[i]
<1>1. asked \in Seq(AskedRecord)
    BY DEF ShapesInv
<1>2. ASSUME NEW a, Asks(a)
      PROVE  \A i \in DOMAIN asked : i \in DOMAIN asked' /\ asked'[i] = asked[i]
    BY <1>1, <1>2, AppendFacts DEF Asks
<1> QED
    BY <1>2, AskedNext

\* Answers too.
LEMMA AnsweredNext ==
    ASSUME Says
    PROVE  \/ answered' = answered
           \/ \E r : /\ answered' = answered \cup {r} /\ ServeSays
                     /\ \E j \in DOMAIN asked : \E h, d : Answers(asked[j], h, r, d)
<1>1. DoSays \/ TimeoutSays \/ PingSays \/ ServerPingSays \/ PushSays \/ ReceiveSays
         => answered' = answered
    BY DEF DoSays, TimeoutSays, PingSays, ServerPingSays, PushSays, ReceiveSays, serverVars
<1>2. ASSUME ServeSays
      PROVE  \/ answered' = answered
             \/ \E r : /\ answered' = answered \cup {r} /\ ServeSays
                       /\ \E j \in DOMAIN asked : \E h, d : Answers(asked[j], h, r, d)
  <2>1. \/ answered' = answered
        \/ \E j \in DOMAIN asked : \E h, r, d : Answers(asked[j], h, r, d)
      BY <1>2 DEF ServeSays, ServeStep
  <2>2. ASSUME NEW j \in DOMAIN asked, NEW h, NEW r, NEW d, Answers(asked[j], h, r, d)
        PROVE  answered' = answered \cup {r}
      BY <2>2 DEF Answers
  <2> QED
      BY <1>2, <2>1, <2>2
<1> QED
    BY <1>1, <1>2 DEF Says

\* Only Do adds a receiver.
LEMMA RecvsNext ==
    ASSUME Says
    PROVE  \/ recvs' \subseteq recvs
           \/ \E a : Asks(a) /\ recvs' = recvs \cup {a.id}
<1>1. ASSUME DoSays PROVE recvs' \subseteq recvs \/ \E a : Asks(a) /\ recvs' = recvs \cup {a.id}
  <2>1. PICK a : Asks(a) /\ (AskFailed \/ \E f : AskSent(a, f))
      BY <1>1 DEF DoSays
  <2> QED
      BY <2>1 DEF AskFailed, AskSent
<1>2. TimeoutSays => recvs' \subseteq recvs
    BY DEF TimeoutSays
<1>3. PingSays \/ ServeSays \/ ServerPingSays \/ PushSays => recvs' = recvs
    BY DEF PingSays, ServeSays, ServerPingSays, PushSays, askVars
<1>4. ReceiveSays => recvs' \subseteq recvs
    BY DEF ReceiveSays, ReceiveStep, Responds, handleResponse
<1> QED
    BY <1>1, <1>2, <1>3, <1>4 DEF Says

\* A step keeps IdsInv: ids are given out once, and answers have those of requests.
LEMMA IdsNext ==
    ASSUME ShapesInv, DialInv, FramesInv, IdsInv, Static, Says
    PROVE  IdsInv'
<1>1. /\ asked \in Seq(AskedRecord) /\ \A i \in DOMAIN asked : asked[i].id \in Nat
  <2>1. asked \in Seq(AskedRecord) /\ \A i \in DOMAIN asked : asked[i] \in AskedRecord
      BY DEF ShapesInv
  <2>2. \A a \in AskedRecord : a.id \in Nat
      BY DEF AskedRecord
  <2> QED
      BY <2>1, <2>2
<1>2. cctx.lastId \in Nat /\ cctx'.lastId \in Nat /\ cctx.lastId =< cctx'.lastId
    BY Before DEF Static, SameContext, ContextRecord
<1>3. /\ \A i \in DOMAIN asked : 0 < asked[i].id /\ asked[i].id =< cctx.lastId
      /\ \A i, j \in DOMAIN asked : asked[i].id = asked[j].id => i = j
      /\ \A r \in answered : \E i \in DOMAIN asked : r.id = asked[i].id /\
           asked[i].cmd % 256 # Heartbeat
      /\ \A n \in recvs : \E i \in DOMAIN asked : n = asked[i].id
    BY DEF IdsInv
<1>4. \A i \in DOMAIN asked : i \in DOMAIN asked' /\ asked'[i] = asked[i]
    BY AskedGrows
<1>5. ASSUME asked' # asked
      PROVE  \E a : /\ Asks(a)
                    /\ \A i \in DOMAIN asked' :
                          (i \in DOMAIN asked /\ asked'[i] = asked[i]) \/
                              (i = Len(asked) + 1 /\ asked'[i] = a)
    BY <1>1, <1>5, AskedNext, AppendFacts DEF Asks
<1>6. \A i \in DOMAIN asked' : 0 < asked'[i].id /\ asked'[i].id =< cctx'.lastId
  <2>1. CASE asked' = asked
      BY <1>1, <1>2, <1>3, <2>1
  <2>2. CASE asked' # asked
    <3>1. PICK a : /\ Asks(a)
                   /\ \A i \in DOMAIN asked' :
                        (i \in DOMAIN asked /\ asked'[i] = asked[i]) \/
                            (i = Len(asked) + 1 /\ asked'[i] = a)
        BY <1>5, <2>2
    <3>2. 0 < a.id /\ a.id =< cctx'.lastId
        BY <1>2, <3>1 DEF Asks
    <3> QED
        BY <1>1, <1>2, <1>3, <3>1, <3>2
  <2> QED
      BY <2>1, <2>2
<1>7. \A i, j \in DOMAIN asked' : asked'[i].id = asked'[j].id => i = j
  <2>1. CASE asked' = asked
      BY <1>3, <2>1
  <2>2. CASE asked' # asked
    <3>1. PICK a : /\ Asks(a)
                   /\ \A i \in DOMAIN asked' :
                        (i \in DOMAIN asked /\ asked'[i] = asked[i]) \/
                            (i = Len(asked) + 1 /\ asked'[i] = a)
        BY <1>5, <2>2
    <3>2. \A i \in DOMAIN asked : asked[i].id # a.id
        BY <1>1, <1>2, <1>3, <3>1 DEF Asks
    <3> QED
        BY <1>3, <3>1, <3>2
  <2> QED
      BY <2>1, <2>2
<1>8. \A r \in answered' : \E i \in DOMAIN asked' : r.id = asked'[i].id /\
          asked'[i].cmd % 256 # Heartbeat
  <2>1. CASE answered' = answered
      BY <1>3, <1>4, <2>1
  <2>2. ASSUME NEW x, answered' = answered \cup {x},
               \E j \in DOMAIN asked : \E h, d : Answers(asked[j], h, x, d)
        PROVE  \A r \in answered' : \E i \in DOMAIN asked' :
                  r.id = asked'[i].id /\ asked'[i].cmd % 256 # Heartbeat
    <3>1. \E i \in DOMAIN asked : x.id = asked[i].id /\ asked[i].cmd % 256 # Heartbeat
        BY <2>2 DEF Answers
    <3>2. \A r \in answered' : \E i \in DOMAIN asked : r.id = asked[i].id /\
              asked[i].cmd % 256 # Heartbeat
        BY <1>3, <2>2, <3>1
    <3> QED
        BY <1>4, <3>2
  <2> QED
      BY <2>1, <2>2, AnsweredNext
<1>9. \A n \in recvs' : \E i \in DOMAIN asked' : n = asked'[i].id
  <2>1. CASE recvs' \subseteq recvs
      BY <1>3, <1>4, <2>1
  <2>2. ASSUME NEW a, Asks(a), recvs' = recvs \cup {a.id}
        PROVE  \A n \in recvs' : \E i \in DOMAIN asked' : n = asked'[i].id
    <3>1. Len(asked) + 1 \in DOMAIN asked' /\ asked'[Len(asked) + 1] = a
        BY <1>1, <2>2, AppendFacts DEF Asks
    <3> QED
        BY <1>3, <1>4, <2>2, <3>1
  <2> QED
      BY <2>1, <2>2, RecvsNext
<1> QED
    BY <1>6, <1>7, <1>8, <1>9 DEF IdsInv

\* A step keeps ValuesInv.
LEMMA ValuesNext ==
    ASSUME ShapesInv, ValuesInv, Says
    PROVE  ValuesInv'
<1>1. asked \in Seq(AskedRecord) /\ \A i \in DOMAIN asked : ValuesOK(asked[i])
    BY DEF ShapesInv, ValuesInv
<1>2. CASE asked' = asked
    BY <1>1, <1>2 DEF ValuesInv
<1>3. ASSUME NEW a, Asks(a) PROVE ValuesInv'
  <2>1. /\ \A i \in DOMAIN asked' :
              (i \in DOMAIN asked /\ asked'[i] = asked[i]) \/ asked'[i] = a
        /\ ValuesOK(a)
      BY <1>1, <1>3, AppendFacts DEF Asks
  <2>2. \A i \in DOMAIN asked' : ValuesOK(asked'[i])
      BY <1>1, <2>1
  <2> QED
      BY <2>2 DEF ValuesInv
<1> QED
    BY <1>2, <1>3, AskedNext

\* A step keeps HeardInv.
LEMMA HeardNext ==
    ASSUME ShapesInv, HeardInv, Static, Says
    PROVE  HeardInv'
<1> DEFINE OK(h, a) == Hears(a, h)
<1>1. \A h \in heard : \E i \in DOMAIN asked : Hears(asked[i], h)
    BY DEF HeardInv, Hears
<1>2. \A i \in DOMAIN asked : i \in DOMAIN asked' /\ asked'[i] = asked[i]
    BY AskedGrows
<1>3. \A h \in heard' : \E i \in DOMAIN asked : Hears(asked[i], h)
  <2>1. DoSays \/ TimeoutSays \/ PingSays \/ ServerPingSays \/ PushSays \/ ReceiveSays
           => heard' = heard
      BY DEF DoSays, TimeoutSays, PingSays, ServerPingSays, PushSays, ReceiveSays, serverVars
  <2>2. ASSUME ServeSays
        PROVE  heard' = heard \/
            \E j \in DOMAIN asked : \E h : heard' = heard \cup {h} /\ Hears(asked[j], h)
    <3>1. ASSUME NEW j \in DOMAIN asked, NEW h, NEW r, NEW d, Answers(asked[j], h, r, d)
          PROVE  heard' = heard \cup {h} /\ Hears(asked[j], h)
        BY <3>1 DEF Answers
    <3> QED
        BY <2>2, <3>1 DEF ServeSays, ServeStep
  <2>3. CASE heard' = heard
      BY <1>1, <2>3
  <2>4. ASSUME NEW j \in DOMAIN asked, NEW x, heard' = heard \cup {x}, Hears(asked[j], x)
        PROVE  \A h \in heard' : \E i \in DOMAIN asked : Hears(asked[i], h)
      BY <1>1, <2>4
  <2> QED
      BY <2>1, <2>2, <2>3, <2>4 DEF Says
<1>4. ASSUME NEW h \in heard'
      PROVE  \E i \in DOMAIN asked' :
                /\ h.id = asked'[i].id /\ h.cmd = asked'[i].cmd % 256
                /\ \E b \in marshal(cctx.Codec, asked'[i].body) : h.body = unmarshal(sctx.Codec, b)
                /\ h.values = ValuesSent(cctx.Version, asked'[i])
  <2>1. PICK i \in DOMAIN asked : Hears(asked[i], h)
      BY <1>3
  <2>2. i \in DOMAIN asked' /\ asked'[i] = asked[i]
      BY <1>2
  <2> QED
      BY <2>1, <2>2 DEF Hears
<1>5. cctx'.Codec = cctx.Codec /\ sctx'.Codec = sctx.Codec /\ cctx'.Version = cctx.Version
    BY DEF Static, SameContext
<1> QED
    BY <1>4, <1>5 DEF HeardInv

\* With more requests, more frames may come from the client.
LEMMA UpGrows ==
    ASSUME NEW v, NEW s, NEW c, NEW as, NEW as2,
           \A i \in DOMAIN as : i \in DOMAIN as2 /\ as2[i] = as[i]
    PROVE  UpFrames(v, s, c, as) \subseteq UpFrames(v, s, c, as2)
<1> SUFFICES ASSUME NEW f \in Frames, UpOK(v, s, c, as, f) PROVE UpOK(v, s, c, as2, f)
    BY DEF UpFrames
<1>1. \A p : (\E i \in DOMAIN as : IsAsked(v, c, as[i], p)) =>
          \E i \in DOMAIN as2 : IsAsked(v, c, as2[i], p)
    OBVIOUS
<1> QED
    BY <1>1 DEF UpOK

\* With more requests and answers, more frames may come from the server.
LEMMA DownGrows ==
    ASSUME NEW v, NEW s, NEW c, NEW as, NEW as2, NEW an, NEW an2, an \subseteq an2,
           \A i \in DOMAIN as : i \in DOMAIN as2 /\ as2[i] = as[i]
    PROVE  DownFrames(v, s, c, as, an) \subseteq DownFrames(v, s, c, as2, an2)
<1> SUFFICES ASSUME NEW f \in Frames, DownOK(v, s, c, as, an, f) PROVE DownOK(v, s, c, as2, an2, f)
    BY DEF DownFrames
<1>1. \A p : (\E i \in DOMAIN as, r \in an : IsAnswer(c, as[i], r, p))
                => \E i \in DOMAIN as2, r \in an2 : IsAnswer(c, as2[i], r, p)
    OBVIOUS
<1> QED
    BY <1>1 DEF DownOK

\* A sequence over a set is one over any larger set.
LEMMA SeqGrows ==
    ASSUME NEW S, NEW T, S \subseteq T, NEW s \in Seq(S)
    PROVE  s \in Seq(T)
OBVIOUS

\* A step keeps FramesInv.
LEMMA FramesNext ==
    ASSUME ShapesInv, DialInv, FramesInv, Static, Says
    PROVE  FramesInv'
<1> DEFINE v == cctx.Version
           U(as) == UpFrames(v, scheme, cctx.Codec, as)
           D(as, an) == DownFrames(v, scheme, sctx.Codec, as, an)
<1>1. up \in Seq(U(asked)) /\ down \in Seq(D(asked, answered))
    BY FramesAre
<1>2. \A i \in DOMAIN asked : i \in DOMAIN asked' /\ asked'[i] = asked[i]
    BY AskedGrows
<1>3. answered \subseteq answered'
    BY AnsweredNext
<1>4. U(asked) \subseteq U(asked') /\ D(asked, answered) \subseteq D(asked', answered')
    BY <1>2, <1>3, UpGrows, DownGrows
<1> DEFINE Ups == U(asked')
           Downs == D(asked', answered')
<1>5. \A f, pongs, beat : UpAdds(f, pongs, beat) => f \in U(asked) /\ up' = Append(up, f)
    BY DEF UpAdds
<1>6. \A d, an, ping, beat : DownAdds(d, an, ping, beat) =>
          d \in D(asked, an) /\ down' = Append(down, d)
    BY DEF DownAdds
<1>7. ASSUME DoSays PROVE /\ up' = up \/ \E f \in Ups : up' = Append(up, f)
                          /\ down' = down
  <2>1. PICK a : Asks(a) /\ (AskFailed \/ \E f : AskSent(a, f))
      BY <1>7 DEF DoSays
  <2>2. asked' = Append(asked, a)
      BY <2>1 DEF Asks
  <2>3. ASSUME NEW f, AskSent(a, f) PROVE f \in Ups /\ up' = Append(up, f)
      BY <2>2, <2>3 DEF AskSent
  <2> QED
      BY <1>7, <2>1, <2>3 DEF DoSays, AskFailed
<1>8. ASSUME NEW d, NEW an, NEW ping, NEW beat, DownAdds(d, an, ping, beat), an = answered'
      PROVE  d \in Downs /\ down' = Append(down, d)
    BY <1>2, <1>6, <1>8, DownGrows
<1> HIDE DEF U, D, Ups, Downs
<1>9. up \in Seq(Ups) /\ down \in Seq(Downs)
    BY <1>1, <1>4, SeqGrows DEF Ups, Downs
<1>10. ASSUME TimeoutSays PROVE up' = up /\ down' = down
    BY <1>10 DEF TimeoutSays
<1>11. ASSUME PingSays PROVE /\ up' = up \/ \E f \in Ups : up' = Append(up, f)
                             /\ down' = down
    BY <1>4, <1>5, <1>11 DEF PingSays, PingStep, Ups
<1>12. ASSUME ServeSays PROVE /\ up # <<>> /\ up' = Tail(up)
                              /\ down' = down \/ \E d \in Downs : down' = Append(down, d)
  <2>1. \/ UNCHANGED <<down, heard, answered>>
        \/ /\ \E d : DownAdds(d, answered, <<>>, BeatUp(cctx.Version, up[1])) /\ Quiet(d)
           /\ UNCHANGED <<heard, answered>>
        \/ \E j \in DOMAIN asked : \E h, r, d : Answers(asked[j], h, r, d)
      BY <1>12 DEF ServeSays, ServeStep
  <2>2. ASSUME NEW j \in DOMAIN asked, NEW h, NEW r, NEW d, Answers(asked[j], h, r, d)
        PROVE  DownAdds(d, answered', <<>>, <<>>)
      BY <2>2 DEF Answers
  <2>3. down' = down \/ \E d \in Downs : down' = Append(down, d)
      BY <1>8, <2>1, <2>2
  <2> QED
      BY <1>12, <2>3 DEF ServeSays, ServeStep
<1>13. ASSUME ServerPingSays PROVE up' = up /\ \E d \in Downs : down' = Append(down, d)
  <2>1. answered' = answered /\ up' = up
      BY <1>13 DEF ServerPingSays
  <2> QED
      BY <1>8, <1>13, <2>1 DEF ServerPingSays, ServerPingStep
<1>14. ASSUME PushSays PROVE up' = up /\ \E d \in Downs : down' = Append(down, d)
  <2>1. answered' = answered /\ up' = up
      BY <1>14 DEF PushSays
  <2> QED
      BY <1>8, <1>14, <2>1 DEF PushSays, PushStep
<1>15. ASSUME ReceiveSays PROVE /\ down # <<>> /\ down' = Tail(down)
                                /\ up' = up \/ \E f \in Ups : up' = Append(up, f)
    BY <1>4, <1>5, <1>15 DEF ReceiveSays, ReceiveStep, Handles, Ups
<1>16. /\ up' = up \/ (up # <<>> /\ up' = Tail(up)) \/ \E f \in Ups : up' = Append(up, f)
       /\ down' = down \/ (down # <<>> /\ down' = Tail(down)) \/
            \E d \in Downs : down' = Append(down, d)
    BY <1>7, <1>10, <1>11, <1>12, <1>13, <1>14, <1>15 DEF Says
<1>17. up' \in Seq(Ups) /\ down' \in Seq(Downs)
  <2>1. \A f \in Ups : Append(up, f) \in Seq(Ups)
      BY <1>9, AppendFacts
  <2>2. \A d \in Downs : Append(down, d) \in Seq(Downs)
      BY <1>9, AppendFacts
  <2>3. up # <<>> => Tail(up) \in Seq(Ups)
      BY <1>9, TailFacts
  <2>4. down # <<>> => Tail(down) \in Seq(Downs)
      BY <1>9, TailFacts
  <2>5. up' \in Seq(Ups)
      BY <1>9, <1>16, <2>1, <2>3, Zenon
  <2>6. down' \in Seq(Downs)
      BY <1>9, <1>16, <2>2, <2>4, Zenon
  <2> QED
      BY <2>5, <2>6
<1>18. /\ \A i \in DOMAIN up' : UpOK(v, scheme, cctx.Codec, asked', up'[i])
       /\ \A i \in DOMAIN down' : DownOK(v, scheme, sctx.Codec, asked', answered', down'[i])
  <2>1. /\ \A i \in DOMAIN up' : up'[i] \in Ups
        /\ \A i \in DOMAIN down' : down'[i] \in Downs
      BY <1>17
  <2> QED
      BY <2>1 DEF Ups, Downs, U, D, UpFrames, DownFrames
<1>19. /\ cctx'.Version = v /\ scheme' = scheme /\ cctx'.Codec = cctx.Codec
       /\ sctx'.Codec = sctx.Codec
    BY DEF Static, SameContext, dialVars
<1> HIDE DEF v
<1> QED
    BY <1>18, <1>19 DEF FramesInv

\* Concatenation is associative.
LEMMA ConcatsAre ==
    ASSUME NEW S, NEW a \in Seq(S), NEW b \in Seq(S), NEW c \in Seq(S)
    PROVE  a \o (b \o c) = (a \o b) \o c
    BY ConcatLaws, SMTT(30)

\* A step keeps PingsInv: a ping becomes a pong, in its place.
LEMMA PingsNext ==
    ASSUME ShapesInv, DialInv, FramesInv, PingsInv, Static, Says
    PROVE  PingsInv'
<1> DEFINE v == cctx.Version
           P(fs) == PongsIn(v, fs)
           Q(fs) == PingsIn(v, fs)
           W == WholeFrames(v)
           R == Seq(PingRecord)
<1>1. up \in Seq(W) /\ down \in Seq(W)
    BY FramesAre
<1>2. ponged \in R /\ pings \in R
    BY DEF ShapesInv
<1>3. /\ P(up) \in R /\ \A f \in W : P(Append(up, f)) = P(up) \o PongOf(v, f)
      /\ up # <<>> => P(up) = PongOf(v, up[1]) \o P(Tail(up))
    BY <1>1, PongsFacts
<1>4. /\ Q(down) \in R /\ \A f \in W : Q(Append(down, f)) = Q(down) \o PingOf(v, f)
      /\ down # <<>> => Q(down) = PingOf(v, down[1]) \o Q(Tail(down))
    BY <1>1, PingsFacts
<1>5. /\ up # <<>> => Tail(up) \in Seq(W) /\ up[1] \in W
      /\ down # <<>> => Tail(down) \in Seq(W) /\ down[1] \in W
    BY <1>1
<1>6. /\ up # <<>> => P(Tail(up)) \in R /\ PongOf(v, up[1]) \in R
      /\ down # <<>> => Q(Tail(down)) \in R /\ PingOf(v, down[1]) \in R
    BY <1>5, PongsFacts, PingsFacts, PieceTypes
<1>7. (ponged \o P(up)) \o Q(down) = pings
    BY DEF PingsInv
<1>8. \A f, pongs, beat : UpAdds(f, pongs, beat) => P(up') = P(up) \o pongs
    BY <1>3, AddsWhole DEF UpAdds
<1>9. \A d, an, ping, beat : DownAdds(d, an, ping, beat) => Q(down') = Q(down) \o ping
    BY <1>4, AddsWhole DEF DownAdds
<1>10. ASSUME NEW a, NEW f, AskSent(a, f) PROVE P(up') = P(up) \o <<>>
    BY <1>3, <1>10, AddsWhole DEF AskSent
<1>11. \A r \in R : r \o <<>> = r /\ <<>> \o r = r
    OBVIOUS
<1> HIDE DEF P, Q, W, v, R
<1> SUFFICES (ponged' \o P(up')) \o Q(down') = pings'
  <2>1. cctx'.Version = v
      BY DEF Static, SameContext, v
  <2> QED
      BY <2>1 DEF PingsInv, P, Q
<1>12. ASSUME DoSays PROVE (ponged' \o P(up')) \o Q(down') = pings'
  <2>1. ponged' = ponged /\ pings' = pings /\ down' = down
      BY <1>12 DEF DoSays, serverVars
  <2>2. P(up') = P(up)
      BY <1>3, <1>10, <1>11, <1>12 DEF DoSays, AskFailed
  <2> QED
      BY <1>7, <2>1, <2>2
<1>13. ASSUME TimeoutSays PROVE (ponged' \o P(up')) \o Q(down') = pings'
  <2>1. ponged' = ponged /\ pings' = pings /\ down' = down /\ up' = up
      BY <1>13 DEF TimeoutSays, serverVars
  <2> QED
      BY <1>7, <2>1
<1>14. ASSUME PingSays PROVE (ponged' \o P(up')) \o Q(down') = pings'
  <2>1. ponged' = ponged /\ pings' = pings /\ down' = down
      BY <1>14 DEF PingSays, serverVars
  <2>2. P(up') = P(up)
      BY <1>3, <1>8, <1>11, <1>14 DEF PingSays, PingStep
  <2> QED
      BY <1>7, <2>1, <2>2
<1>15. ASSUME ServeSays PROVE (ponged' \o P(up')) \o Q(down') = pings'
  <2> DEFINE x == PongOf(v, up[1])
  <2>1. pings' = pings /\ up # <<>> /\ up' = Tail(up) /\ ponged' = ponged \o x
      BY <1>15 DEF ServeSays, ServeStep, v
  <2>2. Q(down') = Q(down)
    <3>1. \/ down' = down
          \/ \E d, an, beat : DownAdds(d, an, <<>>, beat)
        BY <1>15 DEF ServeSays, ServeStep, Answers
    <3>2. Q(down') = Q(down) \/ Q(down') = Q(down) \o <<>>
        BY <1>9, <3>1
    <3> QED
        BY <1>4, <1>11, <3>2
  <2>3. P(up) = x \o P(up') /\ x \in R /\ P(up') \in R
      BY <1>3, <1>6, <2>1
  <2> HIDE DEF x
  <2>4. ponged \o (x \o P(up')) = (ponged \o x) \o P(up')
      BY <1>2, <2>3, ConcatsAre, SMTT(30) DEF R
  <2> QED
      BY <1>7, <2>1, <2>2, <2>3, <2>4
<1>16. ASSUME ServerPingSays PROVE (ponged' \o P(up')) \o Q(down') = pings'
  <2>1. ponged' = ponged /\ up' = up
      BY <1>16 DEF ServerPingSays
  <2>2. PICK x \in PingRecord : Q(down') = Q(down) \o <<x>> /\ pings' = Append(pings, x)
      BY <1>9, <1>16 DEF ServerPingSays, ServerPingStep
  <2>3. pings' = pings \o <<x>> /\ <<x>> \in R
      BY <1>2, <2>2 DEF R
  <2>4. ponged \o P(up) \in R
      BY <1>2, <1>3 DEF R
  <2>5. (ponged \o P(up)) \o (Q(down) \o <<x>>) = ((ponged \o P(up)) \o Q(down)) \o <<x>>
      BY <1>4, <2>3, <2>4, ConcatLaws DEF R
  <2> QED
      BY <1>7, <2>1, <2>2, <2>3, <2>5
<1>17. ASSUME PushSays PROVE (ponged' \o P(up')) \o Q(down') = pings'
  <2>1. ponged' = ponged /\ up' = up /\ pings' = pings
      BY <1>17 DEF PushSays
  <2>2. Q(down') = Q(down)
    <3>1. \E d, an, beat : DownAdds(d, an, <<>>, beat)
        BY <1>17 DEF PushSays, PushStep
    <3>2. Q(down') = Q(down) \o <<>>
        BY <1>9, <3>1
    <3> QED
        BY <1>4, <1>11, <3>2
  <2> QED
      BY <1>7, <2>1, <2>2
<1>18. ASSUME ReceiveSays PROVE (ponged' \o P(up')) \o Q(down') = pings'
  <2> DEFINE x == PingOf(v, down[1])
  <2>1. /\ ponged' = ponged /\ pings' = pings /\ down # <<>> /\ down' = Tail(down)
        /\ (up' = up /\ x = <<>>) \/ \E f : UpAdds(f, x, <<>>)
      BY <1>18 DEF ReceiveSays, ReceiveStep, Handles, serverVars, v
  <2>2. P(up') = P(up) \o x
      BY <1>3, <1>8, <1>11, <2>1
  <2>3. Q(down) = x \o Q(down') /\ x \in R /\ Q(down') \in R
      BY <1>4, <1>6, <2>1
  <2> HIDE DEF x
  <2>4. (ponged \o (P(up) \o x)) \o Q(down') = (ponged \o P(up)) \o (x \o Q(down'))
    <3> DEFINE t == ponged \o P(up)
    <3>1. t \in R
        BY <1>2, <1>3 DEF R
    <3>2. ponged \o (P(up) \o x) = (ponged \o P(up)) \o x
      <4>1. ponged \in R /\ P(up) \in R /\ x \in R
          BY <1>2, <1>3, <2>3
      <4> QED
          BY <4>1, ConcatsAre DEF R
    <3> HIDE DEF t
    <3>3. t \o (x \o Q(down')) = (t \o x) \o Q(down')
        BY <2>3, <3>1, ConcatsAre DEF R
    <3> QED
        BY <3>2, <3>3 DEF t
  <2> QED
      BY <1>7, <2>1, <2>2, <2>3, <2>4
<1> QED
    BY <1>12, <1>13, <1>14, <1>15, <1>16, <1>17, <1>18 DEF Says

\* A step keeps PushesReachSubscribers: a push becomes calls, in its place.
LEMMA PushesNext ==
    ASSUME ShapesInv, DialInv, FramesInv, PushesReachSubscribers, Static, Says
    PROVE  PushesReachSubscribers'
<1> DEFINE v == cctx.Version
           C(fs) == CallsIn(subs, v, fs)
           A(ps) == AllCalls(subs, ps)
           W == WholeFrames(v)
           R == Seq(CallRecord)
<1>1. down \in Seq(W) /\ Subscribers(subs) /\ subs' = subs
    BY FramesAre DEF ShapesInv, Subscribers, Static, dialVars
<1>2. seen \in R /\ pushed \in Seq(PushRecord)
    BY DEF ShapesInv
<1>3. /\ C(down) \in R /\ \A f \in W : C(Append(down, f)) = C(down) \o CallsOf(subs, v, f)
      /\ down # <<>> => C(down) = CallsOf(subs, v, down[1]) \o C(Tail(down))
    BY <1>1, CallsFacts
<1>4. /\ A(pushed) \in R
      /\ \A p \in PushRecord : A(Append(pushed, p)) = A(pushed) \o Calls(subs, p.cmd, p.body)
    BY <1>1, <1>2, AllCallsFacts
<1>5. down # <<>> => C(Tail(down)) \in R /\ CallsOf(subs, v, down[1]) \in R
  <2>1. down # <<>> => Tail(down) \in Seq(W) /\ down[1] \in W
      BY <1>1
  <2> QED
      BY <1>1, <2>1, CallsFacts, CallPieceTypes
<1>6. seen \o C(down) = A(pushed)
    BY DEF PushesReachSubscribers
<1>7. \A d, an, ping, beat : DownAdds(d, an, ping, beat) =>
          C(down') = C(down) \o CallsOf(subs, v, d)
    BY <1>3, AddsWhole DEF DownAdds
<1>8. \A r \in R : r \o <<>> = r /\ <<>> \o r = r
    OBVIOUS
<1>9. \A d, an, ping, beat : DownAdds(d, an, ping, beat) /\ Quiet(d) => C(down') = C(down)
  <2>1. \A d : Quiet(d) => CallsOf(subs, v, d) = <<>>
      BY DEF Quiet
  <2> HIDE DEF C
  <2> QED
      BY <1>3, <1>7, <1>8, <2>1
<1>10. \A x \in PushRecord : Calls(subs, x.cmd, x.body) \in R
  <2>1. \A x \in PushRecord : x.cmd \in Nat /\ x.body \in Seq(Nat)
      BY DEF PushRecord
  <2> QED
      BY <1>1, <2>1, CallTypes
<1> HIDE DEF C, A, W, v, R
<1> SUFFICES seen' \o C(down') = A(pushed')
  <2>1. cctx'.Version = v
      BY DEF Static, SameContext, v
  <2> QED
      BY <1>1, <2>1 DEF PushesReachSubscribers, C, A
<1>11. ASSUME DoSays \/ TimeoutSays \/ PingSays PROVE seen' \o C(down') = A(pushed')
  <2>1. seen' = seen /\ down' = down /\ pushed' = pushed
      BY <1>11 DEF DoSays, TimeoutSays, PingSays, clientVars, serverVars
  <2> QED
      BY <1>6, <2>1
<1>12. ASSUME ServeSays PROVE seen' \o C(down') = A(pushed')
  <2>1. seen' = seen /\ pushed' = pushed
      BY <1>12 DEF ServeSays, clientVars
  <2>2. \/ down' = down
        \/ \E d, an, ping, beat : DownAdds(d, an, ping, beat) /\ Quiet(d)
      BY <1>12 DEF ServeSays, ServeStep, Answers
  <2> QED
      BY <1>6, <1>9, <2>1, <2>2
<1>13. ASSUME ServerPingSays PROVE seen' \o C(down') = A(pushed')
  <2>1. seen' = seen /\ pushed' = pushed
      BY <1>13 DEF ServerPingSays, clientVars
  <2>2. C(down') = C(down)
      BY <1>9, <1>13 DEF ServerPingSays, ServerPingStep
  <2> QED
      BY <1>6, <2>1, <2>2
<1>14. ASSUME PushSays PROVE seen' \o C(down') = A(pushed')
  <2>1. seen' = seen
      BY <1>14 DEF PushSays, clientVars
  <2>2. PICK d : \E x \in PushRecord :
           /\ DownAdds(d, answered, <<>>, <<>>) /\ pushed' = Append(pushed, x)
           /\ \A ss : CallsOf(ss, cctx.Version, d) = Calls(ss, x.cmd, x.body)
      BY <1>14 DEF PushSays, PushStep
  <2>5. PICK x \in PushRecord :
           /\ DownAdds(d, answered, <<>>, <<>>) /\ pushed' = Append(pushed, x)
           /\ \A ss : CallsOf(ss, cctx.Version, d) = Calls(ss, x.cmd, x.body)
      BY <2>2
  <2>6. CallsOf(subs, v, d) = Calls(subs, x.cmd, x.body)
      BY <2>5 DEF v
  <2> DEFINE k == Calls(subs, x.cmd, x.body)
  <2>3. C(down') = C(down) \o k /\ A(pushed') = A(pushed) \o k /\ k \in R
      BY <1>4, <1>7, <1>10, <2>5, <2>6
  <2> HIDE DEF k
  <2>4. seen \o (C(down) \o k) = (seen \o C(down)) \o k
      BY <1>2, <1>3, <2>3, ConcatsAre, SMTT(30) DEF R
  <2> QED
      BY <1>6, <2>1, <2>3, <2>4
<1>15. ASSUME ReceiveSays PROVE seen' \o C(down') = A(pushed')
  <2> DEFINE k == CallsOf(subs, v, down[1])
  <2>1. pushed' = pushed /\ seen' = seen \o k /\ down # <<>> /\ down' = Tail(down)
      BY <1>15 DEF ReceiveSays, ReceiveStep, Handles, serverVars, v
  <2>2. C(down) = k \o C(down') /\ C(down') \in R /\ k \in R
      BY <1>3, <1>5, <2>1
  <2> HIDE DEF k
  <2>3. (seen \o k) \o C(down') = seen \o (k \o C(down'))
      BY <1>2, <2>2, ConcatLaws DEF R
  <2> QED
      BY <1>6, <2>1, <2>2, <2>3
<1> QED
    BY <1>11, <1>12, <1>13, <1>14, <1>15 DEF Says

\* A step keeps CountInv.
LEMMA CountNext ==
    ASSUME ShapesInv, DialInv, FramesInv, CountInv, Static, Says, Acts' =< MaxActs
    PROVE  CountInv'
<1> DEFINE v == cctx.Version
           Q(fs) == PingsIn(v, fs)
           W == WholeFrames(v)
           R == Seq(PingRecord)
           a == Len(asked)
           b == Len(pinged)
           c == Len(pings)
           q == Len(Q(down))
           m == cctx.lastId
           n == sctx.lastId
<1>1. down \in Seq(W)
    BY FramesAre
<1>2. /\ Q(down) \in R /\ \A d \in W : Q(Append(down, d)) = Q(down) \o PingOf(v, d)
      /\ down # <<>> => Q(down) = PingOf(v, down[1]) \o Q(Tail(down))
    BY <1>1, PingsFacts
<1>3. /\ down # <<>> => Q(Tail(down)) \in R /\ PingOf(v, down[1]) \in R
  <2>1. down # <<>> => Tail(down) \in Seq(W) /\ down[1] \in W
      BY <1>1
  <2> QED
      BY <2>1, PingsFacts, PieceTypes
<1>4. a \in Nat /\ b \in Nat /\ c \in Nat
    BY DEF ShapesInv
<1>5. m \in Nat /\ n \in Nat
    BY Before DEF Static
<1>6. q \in Nat
    BY <1>2
<1>7. m + q =< a + b + c /\ n =< c
    BY DEF CountInv
<1>8. \A d, an, beat : DownAdds(d, an, <<>>, beat) => Len(Q(down')) = q
  <2>1. \A d, an, beat : DownAdds(d, an, <<>>, beat) => Q(down') = Q(down) \o <<>>
      BY <1>2, AddsWhole DEF DownAdds
  <2>2. Q(down) \o <<>> = Q(down)
      BY <1>2
  <2> HIDE DEF Q
  <2> QED
      BY <2>1, <2>2
<1>9. \A x : /\ Len(Append(asked, x)) = a + 1 /\ Len(Append(pinged, x)) = b + 1
             /\ Len(Append(pings, x)) = c + 1
    BY DEF ShapesInv
<1> HIDE DEF Q, W, v, R
<1> DEFINE OK(mm, qq, aa, bb, cc, nn) == mm + qq =< aa + bb + cc /\ nn =< cc
           Goal == OK(cctx'.lastId, Len(Q(down')), Len(asked'), Len(pinged'), Len(pings'),
               sctx'.lastId)
<1> SUFFICES Goal
  <2>1. cctx'.Version = v
      BY DEF Static, SameContext, v
  <2> QED
      BY <2>1 DEF CountInv, Q
<1>10. ASSUME DoSays PROVE Goal
  <2>1. /\ down' = down /\ sctx' = sctx /\ pings' = pings /\ pinged' = pinged
        /\ \E x : asked' = Append(asked, x) /\ cctx'.lastId = m + 1
      BY <1>10 DEF DoSays, Asks, serverVars, clientVars
  <2>2. Len(asked') = a + 1 /\ cctx'.lastId = m + 1
      BY <1>9, <2>1
  <2> HIDE DEF a, b, c, q, m, n
  <2>3. OK(m + 1, q, a + 1, b, c, n)
      BY <1>4, <1>5, <1>6, <1>7
  <2> QED
      BY <2>1, <2>2, <2>3 DEF b, c, q, n
<1>11. ASSUME TimeoutSays PROVE Goal
  <2>1. UNCHANGED <<down, sctx, cctx, pings, pinged, asked>>
      BY <1>11 DEF TimeoutSays, serverVars, clientVars
  <2> QED
      BY <1>7, <2>1
<1>12. ASSUME PingSays PROVE Goal
  <2>1. /\ down' = down /\ sctx' = sctx /\ pings' = pings /\ asked' = asked
        /\ \E x : pinged' = Append(pinged, x) /\ cctx'.lastId = m + 1
      BY <1>12 DEF PingSays, PingStep, serverVars, askVars
  <2>2. Len(pinged') = b + 1 /\ cctx'.lastId = m + 1
      BY <1>9, <2>1
  <2> HIDE DEF a, b, c, q, m, n
  <2>3. OK(m + 1, q, a, b + 1, c, n)
      BY <1>4, <1>5, <1>6, <1>7
  <2> QED
      BY <2>1, <2>2, <2>3 DEF a, c, q, n
<1>13. ASSUME ServeSays PROVE Goal
  <2>1. UNCHANGED <<sctx, cctx, pings, pinged, asked>>
      BY <1>13 DEF ServeSays, clientVars, askVars
  <2>2. down' = down \/ \E d, an, beat : DownAdds(d, an, <<>>, beat)
      BY <1>13 DEF ServeSays, ServeStep, Answers
  <2>3. Len(Q(down')) = q
      BY <1>8, <2>2
  <2> QED
      BY <1>7, <2>1, <2>3
<1>14. ASSUME ServerPingSays PROVE Goal
  <2>1. UNCHANGED <<cctx, pinged, asked>> /\ sctx'.lastId =< n + 1
      BY <1>14 DEF ServerPingSays, ServerPingStep, clientVars, askVars
  <2>2. PICK d : \E x \in PingRecord : DownAdds(d, answered, <<x>>, <<>>) /\
            pings' = Append(pings, x)
      BY <1>14 DEF ServerPingSays, ServerPingStep
  <2>3. PICK x \in PingRecord : DownAdds(d, answered, <<x>>, <<>>) /\ pings' = Append(pings, x)
      BY <2>2
  <2>4. Q(down') = Q(down) \o <<x>>
      BY <1>2, <2>3, AddsWhole DEF DownAdds, v, W
  <2>5. Len(Q(down')) = q + 1
      BY <1>2, <2>4 DEF R
  <2>6. Len(pings') = c + 1
      BY <1>9, <2>3
  <2>7. sctx'.lastId \in Nat
      BY DEF Static, SameContext, ContextRecord
  <2> DEFINE k == sctx'.lastId
  <2> HIDE DEF a, b, c, q, m, n, k
  <2>8. OK(m, q + 1, a, b, c + 1, k)
    <3>1. k \in Nat /\ k =< n + 1
        BY <2>1, <2>7 DEF k
    <3> QED
        BY <1>4, <1>5, <1>6, <1>7, <3>1
  <2> QED
      BY <2>1, <2>5, <2>6, <2>8 DEF a, b, m, k
<1>15. ASSUME PushSays PROVE Goal
  <2>1. UNCHANGED <<sctx, cctx, pings, pinged, asked>>
      BY <1>15 DEF PushSays, clientVars, askVars
  <2>2. \E d, an, beat : DownAdds(d, an, <<>>, beat)
      BY <1>15 DEF PushSays, PushStep
  <2>3. Len(Q(down')) = q
      BY <1>8, <2>2
  <2> QED
      BY <1>7, <2>1, <2>3
<1>16. ASSUME ReceiveSays PROVE Goal
  <2> DEFINE x == PingOf(v, down[1])
             k == cctx'.lastId
             y == Len(x)
             z == Len(Q(down'))
  <2>1. /\ UNCHANGED <<sctx, pings, pinged, asked>>
        /\ down # <<>> /\ down' = Tail(down) /\ k =< m + y
      BY <1>16 DEF ReceiveSays, ReceiveStep, Handles, serverVars, v
  <2>2. Q(down) = x \o Q(down') /\ x \in R /\ Q(down') \in R
      BY <1>2, <1>3, <2>1
  <2>3. k \in Nat
      BY DEF Static, SameContext, ContextRecord
  <2> HIDE DEF x
  <2>4. q = y + z /\ y \in Nat /\ z \in Nat
      BY <2>2 DEF R
  <2> HIDE DEF a, b, c, q, m, n, k, y, z
  <2>5. OK(k, z, a, b, c, n)
      BY <1>4, <1>5, <1>6, <1>7, <2>1, <2>3, <2>4
  <2> QED
      BY <2>1, <2>5 DEF a, b, c, n, k, z
<1> QED
    BY <1>10, <1>11, <1>12, <1>13, <1>14, <1>15, <1>16 DEF Says

\* BeatsOK stays when there are more ids.
LEMMA BeatsGrow ==
    ASSUME NEW bs, NEW ids, NEW ids2, ids \subseteq ids2, NEW s, NEW c, BeatsOK(bs, ids, s, c)
    PROVE  BeatsOK(bs, ids2, s, c)
BY DEF BeatsOK

\* A beat more: of an id that is new, or none.
LEMMA BeatsAppend ==
    ASSUME NEW bs \in Seq(Nat), NEW ids, NEW ids2, ids \subseteq ids2, NEW s, NEW c,
           BeatsOK(bs, ids, s, c), NEW m \in Nat, \A k \in ids : k \in Nat /\ 0 < k /\ k =< m,
           NEW n, (n = m + 1 /\ n \in ids2) \/ (n = 0 /\ s # "tcp" /\ c # CodecProtobuf)
    PROVE  BeatsOK(Append(bs, n), ids2, s, c)
<1> DEFINE cs == Append(bs, n)
           L == Len(bs) + 1
<1>1. /\ \A i \in DOMAIN cs : (i \in DOMAIN bs /\ cs[i] = bs[i]) \/ (i = L /\ cs[i] = n)
      /\ n \in Nat
  <2>1. n \in Nat
      OBVIOUS
  <2> QED
      BY <2>1, AppendFacts
<1>2. \A i \in DOMAIN bs : bs[i] \in Nat
    OBVIOUS
<1> HIDE DEF cs, L
<1>3. \A i \in DOMAIN bs : (bs[i] \in ids /\ bs[i] # n) \/
          (bs[i] = 0 /\ s # "tcp" /\ c # CodecProtobuf)
  <2>1. \A k \in ids : k # n
      OBVIOUS
  <2> QED
      BY <2>1 DEF BeatsOK
<1> SUFFICES ASSUME NEW i \in DOMAIN cs
             PROVE  \/ cs[i] \in ids2 /\ \A j \in DOMAIN cs : cs[i] = cs[j] => i = j
                    \/ cs[i] = 0 /\ s # "tcp" /\ c # CodecProtobuf
    BY DEF BeatsOK, cs
<1>4. CASE i \in DOMAIN bs /\ cs[i] = bs[i] /\ bs[i] \in ids
  <2>1. bs[i] # n
    <3>1. \A k \in ids : k # n
        OBVIOUS
    <3> QED
        BY <1>4, <3>1
  <2>2. bs[i] # 0
      BY <1>4
  <2>3. \A j \in DOMAIN bs : bs[i] = bs[j] => i = j
      BY <1>4, <2>2 DEF BeatsOK
  <2> QED
      BY <1>1, <1>4, <2>1, <2>3
<1>5. CASE i \in DOMAIN bs /\ cs[i] = bs[i] /\ bs[i] \notin ids
    BY <1>3, <1>5
<1>6. CASE i = L /\ cs[i] = n
  <2>1. CASE n = 0 /\ s # "tcp" /\ c # CodecProtobuf
      BY <1>6, <2>1
  <2>2. CASE n = m + 1 /\ n \in ids2
    <3>1. \A j \in DOMAIN bs : bs[j] # n
      <4>1. n # 0
          BY <2>2
      <4> QED
          BY <1>3, <4>1
    <3> QED
        BY <1>1, <1>6, <2>2, <3>1
  <2> QED
      BY <2>1, <2>2
<1> QED
    BY <1>1, <1>4, <1>5, <1>6

\* t is s with x at its end.
Grown(s, x, t) ==
    /\ \A j \in DOMAIN s : j \in DOMAIN t /\ t[j] = s[j]
    /\ \A j \in DOMAIN t : (j \in DOMAIN s /\ t[j] = s[j]) \/ t[j] = x
    /\ \E j \in DOMAIN t : t[j] = x
Within(s, T) == \A j \in DOMAIN s : s[j] \in T

\* Append adds x at the end.
LEMMA AppendGrows ==
    ASSUME NEW T, NEW s \in Seq(T), NEW x \in T
    PROVE  Grown(s, x, Append(s, x)) /\ Within(s, T)
<1>1. Within(s, T)
    BY DEF Within
<1>2. \A j \in DOMAIN s : j \in DOMAIN Append(s, x) /\ Append(s, x)[j] = s[j]
    OBVIOUS
<1>3. \A j \in DOMAIN Append(s, x) :
         (j \in DOMAIN s /\ Append(s, x)[j] = s[j]) \/ Append(s, x)[j] = x
    OBVIOUS
<1>4. Len(s) + 1 \in DOMAIN Append(s, x) /\ Append(s, x)[Len(s) + 1] = x
    OBVIOUS
<1> DEFINE t == Append(s, x)
           n == Len(s) + 1
<1> HIDE DEF t, n
<1>5. Grown(s, x, t)
    BY <1>2, <1>3, <1>4, Zenon DEF Grown, t, n
<1> QED
    BY <1>1, <1>5 DEF t

\* The members of a sequence are in its set.
LEMMA SeqWithin ==
    ASSUME NEW T, NEW s \in Seq(T)
    PROVE  Within(s, T)
BY DEF Within

\* PingIds when there is one more ping or request.
LEMMA PingIdsFacts ==
    ASSUME NEW ps \in Seq(Nat), NEW as \in Seq(AskedRecord)
    PROVE  /\ PingIds(ps, as) \subseteq Nat
           /\ \A n \in Nat : /\ PingIds(ps, as) \subseteq PingIds(Append(ps, n), as)
                             /\ n \in PingIds(Append(ps, n), as)
                             /\ PingIds(Append(ps, n), as) \subseteq PingIds(ps, as) \cup {n}
           /\ \A a \in AskedRecord :
                 /\ PingIds(ps, as) \subseteq PingIds(ps, Append(as, a))
                 /\ a.cmd % 256 = Heartbeat => a.id \in PingIds(ps, Append(as, a))
                 /\ PingIds(ps, Append(as, a)) \subseteq PingIds(ps, as) \cup {a.id}
<1>1. \A a \in AskedRecord : a.id \in Nat
    BY DEF AskedRecord
<1>2. \A i \in DOMAIN as : as[i] \in AskedRecord
    BY SeqWithin, Zenon DEF Within
<1>3. \A i \in DOMAIN ps : ps[i] \in Nat
    OBVIOUS
<1>4. \A p, q, x : x \in PingIds(p, q) <=>
                     \/ \E j \in DOMAIN p : x = p[j]
                     \/ \E j \in DOMAIN q : q[j].cmd % 256 = Heartbeat /\ x = q[j].id
    BY ZenonT(60) DEF PingIds
<1>5. PingIds(ps, as) \subseteq Nat
  <2> SUFFICES ASSUME NEW x \in PingIds(ps, as) PROVE x \in Nat
      OBVIOUS
  <2>1. \/ \E j \in DOMAIN ps : x = ps[j]
        \/ \E j \in DOMAIN as : as[j].cmd % 256 = Heartbeat /\ x = as[j].id
      BY DEF PingIds
  <2> QED
      BY <1>1, <1>2, <1>3, <2>1, Zenon
<1>6. ASSUME NEW n \in Nat
      PROVE  /\ PingIds(ps, as) \subseteq PingIds(Append(ps, n), as)
             /\ n \in PingIds(Append(ps, n), as)
             /\ PingIds(Append(ps, n), as) \subseteq PingIds(ps, as) \cup {n}
  <2> DEFINE qs == Append(ps, n)
  <2>1. Grown(ps, n, qs)
      BY AppendGrows, Zenon
  <2> HIDE DEF qs
  <2>2. ASSUME NEW x \in PingIds(ps, as) PROVE x \in PingIds(qs, as)
    <3>1. \/ \E j \in DOMAIN ps : x = ps[j]
          \/ \E j \in DOMAIN as : as[j].cmd % 256 = Heartbeat /\ x = as[j].id
        BY <2>2 DEF PingIds
    <3>2. \/ \E j \in DOMAIN qs : x = qs[j]
          \/ \E j \in DOMAIN as : as[j].cmd % 256 = Heartbeat /\ x = as[j].id
        BY <2>1, <3>1, Zenon DEF Grown
    <3> QED
        BY <1>4, <3>2, Zenon
  <2>3. n \in PingIds(qs, as)
    <3>1. \E j \in DOMAIN qs : n = qs[j]
        BY <2>1, Zenon DEF Grown
    <3> QED
        BY <1>4, <3>1, Zenon
  <2>4. ASSUME NEW x \in PingIds(qs, as) PROVE x \in PingIds(ps, as) \/ x = n
    <3>1. \/ \E j \in DOMAIN qs : x = qs[j]
          \/ \E j \in DOMAIN as : as[j].cmd % 256 = Heartbeat /\ x = as[j].id
        BY <2>4 DEF PingIds
    <3>2. \/ \E j \in DOMAIN ps : x = ps[j]
          \/ \E j \in DOMAIN as : as[j].cmd % 256 = Heartbeat /\ x = as[j].id
          \/ x = n
        BY <2>1, <3>1, Zenon DEF Grown
    <3> QED
        BY <1>4, <3>2, Zenon
  <2> QED
      BY <2>2, <2>3, <2>4 DEF qs
<1>7. ASSUME NEW a \in AskedRecord
      PROVE  /\ PingIds(ps, as) \subseteq PingIds(ps, Append(as, a))
             /\ a.cmd % 256 = Heartbeat => a.id \in PingIds(ps, Append(as, a))
             /\ PingIds(ps, Append(as, a)) \subseteq PingIds(ps, as) \cup {a.id}
  <2> DEFINE bs == Append(as, a)
  <2>1. Grown(as, a, bs)
      BY AppendGrows, Zenon
  <2> HIDE DEF bs
  <2>2. ASSUME NEW x \in PingIds(ps, as) PROVE x \in PingIds(ps, bs)
    <3>1. \/ \E j \in DOMAIN ps : x = ps[j]
          \/ \E j \in DOMAIN as : as[j].cmd % 256 = Heartbeat /\ x = as[j].id
        BY <2>2 DEF PingIds
    <3>2. \/ \E j \in DOMAIN ps : x = ps[j]
          \/ \E j \in DOMAIN bs : bs[j].cmd % 256 = Heartbeat /\ x = bs[j].id
        BY <2>1, <3>1, Zenon DEF Grown
    <3> QED
        BY <1>4, <3>2, Zenon
  <2>3. ASSUME a.cmd % 256 = Heartbeat PROVE a.id \in PingIds(ps, bs)
    <3>1. \E j \in DOMAIN bs : bs[j].cmd % 256 = Heartbeat /\ a.id = bs[j].id
        BY <2>1, <2>3, Zenon DEF Grown
    <3> QED
        BY <1>4, <3>1, Zenon
  <2>4. ASSUME NEW x \in PingIds(ps, bs) PROVE x \in PingIds(ps, as) \/ x = a.id
    <3>1. \/ \E j \in DOMAIN ps : x = ps[j]
          \/ \E j \in DOMAIN bs : bs[j].cmd % 256 = Heartbeat /\ x = bs[j].id
        BY <2>4 DEF PingIds
    <3>2. \/ \E j \in DOMAIN ps : x = ps[j]
          \/ \E j \in DOMAIN as : as[j].cmd % 256 = Heartbeat /\ x = as[j].id
          \/ x = a.id
        BY <2>1, <3>1, Zenon DEF Grown
    <3> QED
        BY <1>4, <3>2, Zenon
  <2> QED
      BY <2>2, <2>3, <2>4 DEF bs
<1> QED
    BY <1>5, <1>6, <1>7

\* How AllBeats grows.
LEMMA AllBeatsNext ==
    ASSUME ShapesInv, DialInv, FramesInv, Static, Says
    PROVE  /\ AllBeats \in Seq(Nat)
           /\ DoSays => \E a : /\ Asks(a)
                               /\ AllBeats' = AllBeats \/
                                  (a.cmd % 256 = Heartbeat /\ AllBeats' = Append(AllBeats, a.id))
           /\ PingSays => \/ AllBeats' = AllBeats
                          \/ AllBeats' = Append(AllBeats, cctx.lastId + 1)
                          \/ /\ scheme # "tcp" /\ cctx.Codec # CodecProtobuf
                             /\ AllBeats' = Append(AllBeats, 0)
           /\ DoSays \/ PingSays \/ AllBeats' = AllBeats
<1> DEFINE v == cctx.Version
           U(fs) == BeatsUp(v, fs)
           D(fs) == BeatsDown(v, fs)
           W == WholeFrames(v)
           R == Seq(Nat)
<1>1. up \in Seq(W) /\ down \in Seq(W)
    BY FramesAre
<1>2. beats \in R /\ cctx.lastId \in Nat
    BY Before DEF ShapesInv, Static
<1>3. /\ U(up) \in R /\ \A f \in W : U(Append(up, f)) = U(up) \o BeatUp(v, f)
      /\ up # <<>> => U(up) = BeatUp(v, up[1]) \o U(Tail(up))
    BY <1>1, BeatsUpFacts
<1>4. /\ D(down) \in R /\ \A f \in W : D(Append(down, f)) = D(down) \o BeatDown(v, f)
      /\ down # <<>> => D(down) = BeatDown(v, down[1]) \o D(Tail(down))
    BY <1>1, BeatsDownFacts
<1>5. /\ up # <<>> => Tail(up) \in Seq(W) /\ up[1] \in W
      /\ down # <<>> => Tail(down) \in Seq(W) /\ down[1] \in W
    BY <1>1
<1>6. /\ up # <<>> => U(Tail(up)) \in R /\ BeatUp(v, up[1]) \in R
      /\ down # <<>> => D(Tail(down)) \in R /\ BeatDown(v, down[1]) \in R
    BY <1>5, BeatsUpFacts, BeatsDownFacts, PieceTypes
<1>7. \A f, pongs, beat : UpAdds(f, pongs, beat) => U(up') = U(up) \o beat
    BY <1>3, AddsWhole DEF UpAdds
<1>8. \A d, an, ping, beat : DownAdds(d, an, ping, beat) => D(down') = D(down) \o beat
    BY <1>4, AddsWhole DEF DownAdds
<1>9. ASSUME NEW a, NEW f, AskSent(a, f)
      PROVE  U(up') = U(up) \o (IF a.cmd % 256 = Heartbeat THEN <<a.id>> ELSE <<>>)
    BY <1>3, <1>9, AddsWhole DEF AskSent
<1>10. \A r \in R : r \o <<>> = r /\ <<>> \o r = r
    OBVIOUS
<1>11. beats \o D(down) \in R
    BY <1>2, <1>4
<1>12. AllBeats = (beats \o D(down)) \o U(up)
    BY DEF AllBeats
<1>13. AllBeats' = (beats' \o D(down')) \o U(up')
  <2>1. cctx'.Version = v
      BY DEF Static, SameContext
  <2> QED
      BY <2>1 DEF AllBeats
<1>14. AllBeats \in R
    BY <1>3, <1>11, <1>12
<1> HIDE DEF U, D, W, v, R
<1>15. ASSUME NEW n \in Nat, beats' = beats, down' = down, U(up') = U(up) \o <<n>>
       PROVE  AllBeats' = Append(AllBeats, n)
  <2> DEFINE t == beats \o D(down)
  <2>1. t \in R /\ <<n>> \in R
      BY <1>11 DEF R
  <2> HIDE DEF t
  <2>2. t \o (U(up) \o <<n>>) = (t \o U(up)) \o <<n>>
      BY <1>3, <2>1, ConcatsAre DEF R
  <2>3. AllBeats' = AllBeats \o <<n>>
      BY <1>12, <1>13, <1>15, <2>2 DEF t
  <2> QED
      BY <1>14, <2>3, AppendFacts DEF R
<1>16. ASSUME beats' = beats, down' = down, U(up') = U(up) \/ U(up') = U(up) \o <<>>
       PROVE  AllBeats' = AllBeats
  <2>1. U(up') = U(up)
      BY <1>3, <1>10, <1>16
  <2> QED
      BY <1>12, <1>13, <1>16, <2>1
<1>17. ASSUME DoSays
       PROVE  \E a : /\ Asks(a)
                     /\ AllBeats' = AllBeats \/
                        (a.cmd % 256 = Heartbeat /\ AllBeats' = Append(AllBeats, a.id))
  <2>1. PICK a : Asks(a) /\ (AskFailed \/ \E f : AskSent(a, f))
      BY <1>17 DEF DoSays
  <2>2. beats' = beats /\ down' = down
      BY <1>17 DEF DoSays, clientVars
  <2>3. CASE AskFailed
      BY <1>16, <2>1, <2>2, <2>3 DEF AskFailed
  <2>4. ASSUME NEW f, AskSent(a, f)
        PROVE  AllBeats' = AllBeats \/
            (a.cmd % 256 = Heartbeat /\ AllBeats' = Append(AllBeats, a.id))
    <3>1. a.id \in Nat
        BY <2>1 DEF Asks, AskedRecord
    <3>2. CASE a.cmd % 256 = Heartbeat
        BY <1>9, <1>15, <2>2, <2>4, <3>1, <3>2
    <3>3. CASE a.cmd % 256 # Heartbeat
        BY <1>9, <1>16, <2>2, <2>4, <3>3
    <3> QED
        BY <3>2, <3>3
  <2> QED
      BY <2>1, <2>3, <2>4
<1>18. ASSUME PingSays
       PROVE  \/ AllBeats' = AllBeats
              \/ AllBeats' = Append(AllBeats, cctx.lastId + 1)
              \/ /\ scheme # "tcp" /\ cctx.Codec # CodecProtobuf
                 /\ AllBeats' = Append(AllBeats, 0)
  <2>1. beats' = beats /\ down' = down
      BY <1>18 DEF PingSays
  <2>2. \/ up' = up
        \/ \E f : UpAdds(f, <<>>, <<cctx.lastId + 1>>)
        \/ scheme # "tcp" /\ cctx.Codec # CodecProtobuf /\ \E f : UpAdds(f, <<>>, <<0>>)
      BY <1>18 DEF PingSays, PingStep
  <2>3. CASE up' = up
      BY <1>16, <2>1, <2>3
  <2>4. CASE \E f : UpAdds(f, <<>>, <<cctx.lastId + 1>>)
    <3> DEFINE n == cctx.lastId + 1
    <3>1. n \in Nat
        BY <1>2
    <3>2. \E f : UpAdds(f, <<>>, <<n>>)
        BY <2>4
    <3> HIDE DEF n
    <3>3. U(up') = U(up) \o <<n>>
        BY <1>7, <3>2
    <3>4. AllBeats' = Append(AllBeats, n)
        BY <1>15, <2>1, <3>1, <3>3
    <3> QED
        BY <3>4 DEF n
  <2>5. CASE scheme # "tcp" /\ cctx.Codec # CodecProtobuf /\ \E f : UpAdds(f, <<>>, <<0>>)
    <3>1. 0 \in Nat
        OBVIOUS
    <3> QED
        BY <1>7, <1>15, <2>1, <2>5, <3>1
  <2> QED
      BY <2>2, <2>3, <2>4, <2>5
<1>19. ASSUME TimeoutSays PROVE AllBeats' = AllBeats
  <2>1. UNCHANGED <<beats, down, up>>
      BY <1>19 DEF TimeoutSays, clientVars
  <2> QED
      BY <1>16, <2>1
<1>20. ASSUME ServeSays PROVE AllBeats' = AllBeats
  <2> DEFINE x == BeatUp(v, up[1])
  <2>1. beats' = beats /\ up # <<>> /\ up' = Tail(up)
      BY <1>20 DEF ServeSays, ServeStep, clientVars
  <2>2. D(down') = D(down) \o x
    <3>1. \/ x = <<>> /\ down' = down
          \/ \E d, an : DownAdds(d, an, <<>>, x)
      <4>1. ASSUME NEW j \in DOMAIN asked, NEW h, NEW r, NEW d, Answers(asked[j], h, r, d), x = <<>>
            PROVE  \E an : DownAdds(d, an, <<>>, x)
          BY <4>1 DEF Answers
      <4> QED
          BY <1>20, <4>1 DEF ServeSays, ServeStep, v
    <3> HIDE DEF x
    <3> QED
        BY <1>4, <1>8, <1>10, <3>1, ZenonT(60)
  <2>3. U(up) = x \o U(up') /\ x \in R /\ U(up') \in R
      BY <1>3, <1>6, <2>1
  <2> HIDE DEF x
  <2> DEFINE s == D(down)
             u == U(up')
  <2>4. (beats \o (s \o x)) \o u = (beats \o s) \o (x \o u)
    <3>1. s \in R /\ beats \in R /\ x \in R /\ u \in R
        BY <1>2, <1>4, <2>3
    <3> HIDE DEF s, u
    <3> DEFINE t == beats \o s
    <3>2. t \in R
        BY <3>1 DEF R
    <3>3. beats \o (s \o x) = (beats \o s) \o x
        BY <3>1, ConcatsAre, SMTT(30) DEF R
    <3> HIDE DEF t
    <3>4. t \o (x \o u) = (t \o x) \o u
        BY <3>1, <3>2, ConcatsAre, SMTT(30) DEF R
    <3> QED
        BY <3>3, <3>4 DEF t
  <2> QED
      BY <1>12, <1>13, <2>1, <2>2, <2>3, <2>4
<1>21. ASSUME ServerPingSays \/ PushSays PROVE AllBeats' = AllBeats
  <2>1. beats' = beats /\ up' = up
      BY <1>21 DEF ServerPingSays, PushSays, clientVars
  <2>2. \E d, an, ping : DownAdds(d, an, ping, <<>>)
      BY <1>21 DEF ServerPingSays, ServerPingStep, PushSays, PushStep
  <2>3. D(down') = D(down)
    <3>1. D(down') = D(down) \o <<>>
        BY <1>8, <2>2
    <3> QED
        BY <1>4, <1>10, <3>1
  <2> QED
      BY <1>12, <1>13, <2>1, <2>3
<1>22. ASSUME ReceiveSays PROVE AllBeats' = AllBeats
  <2> DEFINE x == BeatDown(v, down[1])
  <2>1. beats' = beats \o x /\ down # <<>> /\ down' = Tail(down)
      BY <1>22 DEF ReceiveSays, ReceiveStep, Handles, v
  <2>2. up' = up \/ \E f, pongs : UpAdds(f, pongs, <<>>)
      BY <1>22 DEF ReceiveSays, ReceiveStep, Handles
  <2>3. U(up') = U(up)
    <3>1. U(up') = U(up) \/ U(up') = U(up) \o <<>>
        BY <1>7, <2>2
    <3> QED
        BY <1>3, <1>10, <3>1
  <2>4. D(down) = x \o D(down') /\ x \in R /\ D(down') \in R
      BY <1>4, <1>6, <2>1
  <2> HIDE DEF x
  <2>5. beats \o (x \o D(down')) = (beats \o x) \o D(down')
    <3> DEFINE e == D(down')
    <3>1. beats \in R /\ x \in R /\ e \in R
        BY <1>2, <2>4
    <3> HIDE DEF e
    <3>2. beats \o (x \o e) = (beats \o x) \o e
        BY <3>1, SMTT(30) DEF R
    <3> QED
        BY <3>2 DEF e
  <2> QED
      BY <1>12, <1>13, <2>1, <2>3, <2>4, <2>5
<1>23. DoSays \/ PingSays \/ AllBeats' = AllBeats
    BY <1>19, <1>20, <1>21, <1>22 DEF Says
<1> QED
    BY <1>14, <1>17, <1>18, <1>23 DEF R

\* A step keeps BeatsInv: a new id is larger than all before it.
LEMMA BeatsNext ==
    ASSUME ShapesInv, DialInv, FramesInv, BeatsInv, Static, Says
    PROVE  BeatsInv'
<1> DEFINE ids == PingIds(pinged, asked)
           ids2 == PingIds(pinged', asked')
           m == cctx.lastId
           s == scheme
           c == cctx.Codec
<1>1. pinged \in Seq(Nat) /\ asked \in Seq(AskedRecord)
    BY DEF ShapesInv
<1>2. /\ m \in Nat /\ cctx'.lastId \in Nat /\ m =< cctx'.lastId
      /\ cctx'.Codec = c /\ scheme' = s
    BY Before DEF Static, SameContext, ContextRecord, dialVars
<1>3. ids \subseteq Nat /\ \A n \in ids : 0 < n /\ n =< m
    BY <1>1, PingIdsFacts DEF BeatsInv
<1>4. BeatsOK(AllBeats, ids, s, c) /\ AllBeats \in Seq(Nat)
    BY AllBeatsNext DEF BeatsInv
<1> SUFFICES /\ \A n \in ids2 : 0 < n /\ n =< cctx'.lastId
             /\ BeatsOK(AllBeats', ids2, s, c)
    BY <1>2 DEF BeatsInv
<1>5. ASSUME NEW a, Asks(a), pinged' = pinged,
             AllBeats' = AllBeats \/ (a.cmd % 256 = Heartbeat /\ AllBeats' = Append(AllBeats, a.id))
      PROVE  /\ \A n \in ids2 : 0 < n /\ n =< cctx'.lastId
             /\ BeatsOK(AllBeats', ids2, s, c)
  <2>1. a \in AskedRecord /\ asked' = Append(asked, a) /\ a.id = m + 1 /\ cctx'.lastId = a.id
      BY <1>5 DEF Asks
  <2>2. /\ ids \subseteq ids2 /\ ids2 \subseteq ids \cup {a.id}
        /\ a.cmd % 256 = Heartbeat => a.id \in ids2
      BY <1>1, <1>5, <2>1, PingIdsFacts
  <2> HIDE DEF ids, ids2, m
  <2>3. \A n \in ids2 : 0 < n /\ n =< cctx'.lastId
    <3>1. cctx'.lastId = m + 1 /\ a.id = m + 1
        BY <2>1
    <3>2. \A n \in ids2 : n \in ids \/ n = m + 1
        BY <2>2, <3>1
    <3>3. ASSUME NEW n \in ids2 PROVE 0 < n /\ n =< m + 1
      <4>1. (n \in Nat /\ 0 < n /\ n =< m) \/ n = m + 1
          BY <1>3, <3>2
      <4> QED
          BY <1>2, <4>1
    <3> QED
        BY <3>1, <3>3
  <2>4. BeatsOK(AllBeats', ids2, s, c)
    <3>1. CASE AllBeats' = AllBeats
        BY <1>4, <2>2, <3>1, BeatsGrow
    <3>2. CASE a.cmd % 256 = Heartbeat /\ AllBeats' = Append(AllBeats, a.id)
      <4>1. a.id = m + 1 /\ a.id \in ids2 /\ \A k \in ids : k \in Nat /\ 0 < k /\ k =< m
          BY <1>3, <2>1, <2>2, <3>2
      <4> DEFINE n == a.id
                 bs == AllBeats
      <4> HIDE DEF n, bs
      <4>2. BeatsOK(Append(bs, n), ids2, s, c)
        <5>1. /\ bs \in Seq(Nat) /\ BeatsOK(bs, ids, s, c) /\ n = m + 1 /\ n \in ids2
            BY <1>4, <4>1 DEF n, bs
        <5> QED
            BY <1>2, <2>2, <4>1, <5>1, BeatsAppend
      <4> QED
          BY <3>2, <4>2 DEF n, bs
    <3> QED
        BY <1>5, <3>1, <3>2
  <2> QED
      BY <2>3, <2>4
<1>6. ASSUME PingSays
      PROVE  /\ \A n \in ids2 : 0 < n /\ n =< cctx'.lastId
             /\ BeatsOK(AllBeats', ids2, s, c)
  <2>1. pinged' = Append(pinged, m + 1) /\ cctx'.lastId = m + 1 /\ asked' = asked /\ m + 1 \in Nat
      BY <1>2, <1>6 DEF PingSays, PingStep, askVars
  <2>2. ids \subseteq ids2 /\ ids2 \subseteq ids \cup {m + 1} /\ m + 1 \in ids2
      BY <1>1, <2>1, PingIdsFacts
  <2>3. \/ AllBeats' = AllBeats
        \/ AllBeats' = Append(AllBeats, m + 1)
        \/ s # "tcp" /\ c # CodecProtobuf /\ AllBeats' = Append(AllBeats, 0)
      BY <1>6, AllBeatsNext
  <2> HIDE DEF ids, ids2, m, s, c
  <2>4. \A n \in ids2 : 0 < n /\ n =< cctx'.lastId
      BY <1>2, <1>3, <2>1, <2>2
  <2>5. \A k \in ids : k \in Nat /\ 0 < k /\ k =< m
      BY <1>3
  <2> DEFINE bs == AllBeats
             bs2 == AllBeats'
  <2>6. /\ bs \in Seq(Nat) /\ BeatsOK(bs, ids, s, c)
        /\ \/ bs2 = bs \/ bs2 = Append(bs, m + 1)
           \/ s # "tcp" /\ c # CodecProtobuf /\ bs2 = Append(bs, 0)
      BY <1>4, <2>3
  <2> HIDE DEF bs, bs2
  <2>7. BeatsOK(bs2, ids2, s, c)
    <3>1. CASE bs2 = bs
        BY <2>2, <2>6, <3>1, BeatsGrow
    <3>2. CASE bs2 = Append(bs, m + 1)
        BY <1>2, <2>2, <2>5, <2>6, <3>2, BeatsAppend
    <3>3. CASE s # "tcp" /\ c # CodecProtobuf /\ bs2 = Append(bs, 0)
        BY <1>2, <2>2, <2>5, <2>6, <3>3, BeatsAppend
    <3> QED
        BY <2>6, <3>1, <3>2, <3>3
  <2> QED
      BY <2>4, <2>7 DEF bs2
<1>7. ASSUME pinged' = pinged, asked' = asked, AllBeats' = AllBeats
      PROVE  /\ \A n \in ids2 : 0 < n /\ n =< cctx'.lastId
             /\ BeatsOK(AllBeats', ids2, s, c)
  <2>1. ids2 = ids
      BY <1>7
  <2>2. BeatsOK(AllBeats', ids2, s, c)
      BY <1>4, <1>7, <2>1
  <2> HIDE DEF ids, ids2, m
  <2>3. \A n \in ids2 : 0 < n /\ n =< cctx'.lastId
      BY <1>2, <1>3, <2>1
  <2> QED
      BY <2>2, <2>3
<1>8. CASE DoSays
  <2>1. pinged' = pinged
      BY <1>8 DEF DoSays, clientVars
  <2>2. \E a : /\ Asks(a)
               /\ AllBeats' = AllBeats \/
                  (a.cmd % 256 = Heartbeat /\ AllBeats' = Append(AllBeats, a.id))
      BY <1>8, AllBeatsNext
  <2> QED
      BY <1>5, <2>1, <2>2
<1>9. CASE ~DoSays /\ ~PingSays
  <2>1. AllBeats' = AllBeats
      BY <1>9, AllBeatsNext
  <2>2. pinged' = pinged /\ asked' = asked
      BY <1>9 DEF Says, TimeoutSays, ServeSays, ServerPingSays, PushSays, ReceiveSays,
                  clientVars, askVars
  <2> QED
      BY <1>7, <2>1, <2>2
<1> QED
    BY <1>6, <1>8, <1>9

\* Two sequences of the same length, each with one more at its end.
LEMMA AppendBoth ==
    ASSUME NEW S, NEW T, NEW s \in Seq(S), NEW t \in Seq(T), Len(t) = Len(s), NEW x \in S,
        NEW y \in T
    PROVE  \A i \in DOMAIN Append(s, x) :
              \/ i \in DOMAIN s /\ Append(s, x)[i] = s[i] /\ Append(t, y)[i] = t[i]
              \/ Append(s, x)[i] = x /\ Append(t, y)[i] = y
OBVIOUS

\* What becomes of request i: as before, it ends, it is pending, or it failed.
Becomes(i) ==
    \/ /\ i \in DOMAIN asked /\ asked'[i] = asked[i] /\ outcome'[i] = outcome[i]
       /\ asked[i].id \in recvs' <=> asked[i].id \in recvs
    \/ /\ i \in DOMAIN asked /\ asked'[i] = asked[i]
       /\ outcome'[i].kind # "pending" /\ asked[i].id \notin recvs'
       /\ OutcomeOK(Agree, answered, asked[i], outcome'[i])
    \/ outcome'[i].kind = "pending" /\ asked'[i].id \in recvs'
    \/ outcome'[i].kind = "failed" /\ asked'[i].id \notin recvs'

\* What is known of the requests before a step.
LEMMA AskedFacts ==
    ASSUME ShapesInv, DialInv, FramesInv, IdsInv, Dialed
    PROVE  /\ asked \in Seq(AskedRecord) /\ outcome \in Seq(Outcomes) /\ Len(outcome) = Len(asked)
           /\ DOMAIN outcome = DOMAIN asked
           /\ \A i \in DOMAIN asked : asked[i].id =< cctx.lastId
           /\ \A i, j \in DOMAIN asked : asked[i].id = asked[j].id => i = j
           /\ \A n \in recvs : n =< cctx.lastId
           /\ \A r \in answered : r.id =< cctx.lastId
           /\ \A r \in answered : \A i \in DOMAIN asked :
                 r.id = asked[i].id => asked[i].cmd % 256 # Heartbeat
           /\ \A a : Asks(a) => \A n : n =< cctx.lastId => n # a.id
<1>1. /\ asked \in Seq(AskedRecord) /\ outcome \in Seq(Outcomes) /\ Len(outcome) = Len(asked)
      /\ DOMAIN outcome = DOMAIN asked
    BY DEF ShapesInv
<1>2. /\ \A i \in DOMAIN asked : asked[i].id =< cctx.lastId
      /\ \A i, j \in DOMAIN asked : asked[i].id = asked[j].id => i = j
    BY DEF IdsInv
<1>3. \A n \in recvs : \E i \in DOMAIN asked : n = asked[i].id
    BY DEF IdsInv
<1>4. \A r \in answered : \E i \in DOMAIN asked : r.id = asked[i].id /\
          asked[i].cmd % 256 # Heartbeat
    BY DEF IdsInv
<1>5. cctx.lastId \in Nat
    BY Before
<1>6. \A a : Asks(a) => \A n : n =< cctx.lastId => n # a.id
  <2> SUFFICES ASSUME NEW a, Asks(a), NEW n, n =< cctx.lastId, n = a.id PROVE FALSE
      OBVIOUS
  <2> QED
      BY <1>5 DEF Asks
<1>7. ASSUME NEW n \in recvs PROVE n =< cctx.lastId
  <2>1. PICK i \in DOMAIN asked : n = asked[i].id
      BY <1>3
  <2> QED
      BY <1>2, <2>1
<1>8. \A r \in answered : r.id =< cctx.lastId
    BY <1>2, <1>4, Zenon
<1>9. \A r \in answered : \A i \in DOMAIN asked : r.id = asked[i].id =>
          asked[i].cmd % 256 # Heartbeat
    BY <1>2, <1>4, ZenonT(60)
<1> QED
    BY <1>1, <1>2, <1>6, <1>7, <1>8, <1>9

\* A step does this to each request.
LEMMA OutcomesNext ==
    ASSUME ShapesInv, DialInv, FramesInv, IdsInv, Static, Says
    PROVE  \A i \in DOMAIN asked' : Becomes(i)
<1>1. /\ asked \in Seq(AskedRecord) /\ outcome \in Seq(Outcomes) /\ Len(outcome) = Len(asked)
      /\ DOMAIN outcome = DOMAIN asked
      /\ \A i, j \in DOMAIN asked : asked[i].id = asked[j].id => i = j
      /\ Dialed
    BY AskedFacts DEF Static
<1>2. \A i \in DOMAIN asked : asked[i].id =< cctx.lastId
    BY <1>1, AskedFacts
<1>3. ASSUME DoSays PROVE \A i \in DOMAIN asked' : Becomes(i)
  <2>1. PICK a : Asks(a) /\ (AskFailed \/ \E f : AskSent(a, f))
      BY <1>3 DEF DoSays
  <2>2. asked' = Append(asked, a) /\ a \in AskedRecord
      BY <2>1 DEF Asks
  <2>3. \A i \in DOMAIN asked : asked[i].id # a.id
      BY <1>1, <1>2, <2>1, AskedFacts
  <2>4. a.id \notin recvs
      BY <1>1, <2>1, AskedFacts
  <2>5. CASE AskFailed
    <3> DEFINE o == [kind |-> "failed"]
    <3>1. o \in Outcomes /\ o.kind = "failed"
        BY DEF Outcomes
    <3>2. outcome' = Append(outcome, o) /\ recvs' = recvs
        BY <2>5 DEF AskFailed
    <3> HIDE DEF o
    <3>3. \A i \in DOMAIN asked' : \/ i \in DOMAIN asked /\ asked'[i] = asked[i] /\
                                        outcome'[i] = outcome[i]
                                   \/ asked'[i] = a /\ outcome'[i] = o
        BY <1>1, <2>2, <3>1, <3>2, AppendBoth
    <3> QED
        BY <2>4, <3>1, <3>2, <3>3 DEF Becomes
  <2>6. ASSUME NEW f, AskSent(a, f) PROVE \A i \in DOMAIN asked' : Becomes(i)
    <3> DEFINE o == Pending
    <3>1. o \in Outcomes /\ o.kind = "pending"
        BY DEF Outcomes, Pending
    <3>2. outcome' = Append(outcome, o) /\ recvs' = recvs \cup {a.id}
        BY <2>6 DEF AskSent
    <3> HIDE DEF o
    <3>3. \A i \in DOMAIN asked' : \/ i \in DOMAIN asked /\ asked'[i] = asked[i] /\
                                        outcome'[i] = outcome[i]
                                   \/ asked'[i] = a /\ outcome'[i] = o
        BY <1>1, <2>2, <3>1, <3>2, AppendBoth
    <3>4. \A i \in DOMAIN asked : asked[i].id \in recvs' <=> asked[i].id \in recvs
        BY <2>3, <3>2
    <3> QED
        BY <3>1, <3>2, <3>3, <3>4 DEF Becomes
  <2> QED
      BY <2>1, <2>5, <2>6
<1>4. ASSUME TimeoutSays PROVE \A i \in DOMAIN asked' : Becomes(i)
  <2> DEFINE o == [kind |-> "timeout"]
  <2>1. o.kind = "timeout"
      OBVIOUS
  <2>2. PICK j \in DOMAIN asked : outcome' = [outcome EXCEPT ![j] = o] /\
            recvs' = recvs \ {asked[j].id}
      BY <1>4 DEF TimeoutSays
  <2> HIDE DEF o
  <2>3. asked' = asked
      BY <1>4 DEF TimeoutSays
  <2>4. outcome'[j] = o /\ \A i \in DOMAIN asked : i # j => outcome'[i] = outcome[i]
      BY <1>1, <2>2
  <2>5. OutcomeOK(Agree, answered, asked[j], o)
      BY <2>1 DEF OutcomeOK
  <2>6. ASSUME NEW i \in DOMAIN asked PROVE Becomes(i)
    <3>1. CASE i = j
        BY <2>1, <2>2, <2>3, <2>4, <2>5, <3>1 DEF Becomes
    <3>2. CASE i # j
        BY <1>1, <2>2, <2>3, <2>4, <3>2 DEF Becomes
    <3> QED
        BY <3>1, <3>2
  <2> QED
      BY <2>3, <2>6
<1>5. ASSUME UNCHANGED <<asked, outcome, recvs>> PROVE \A i \in DOMAIN asked' : Becomes(i)
    BY <1>5 DEF Becomes
<1>6. ASSUME ReceiveSays PROVE \A i \in DOMAIN asked' : Becomes(i)
  <2> DEFINE v == cctx.Version
             g == down[1]
             p == PacketIn(v, g)
  <2>1. asked' = asked /\ down # <<>>
      BY <1>6 DEF ReceiveSays, ReceiveStep
  <2>2. \/ UNCHANGED <<recvs, outcome>>
        \/ \E j \in DOMAIN asked : \E r \in answered :
              g.kind = "data" /\ IsAnswer(sctx.Codec, asked[j], r, p) /\ handleResponse(p)
      BY <1>6 DEF ReceiveSays, ReceiveStep, Responds
  <2>3. ASSUME NEW j \in DOMAIN asked, NEW r \in answered, g.kind = "data",
               IsAnswer(sctx.Codec, asked[j], r, p), handleResponse(p)
        PROVE  \A i \in DOMAIN asked' : Becomes(i)
    <3>1. g \in WholeFrames(v)
        BY <1>1, <2>1, Before
    <3>2. BodyFits(p.Body)
        BY <2>3, <3>1 DEF WholeFrames, Whole
    <3>3. cctx.Codec \in Nat /\ sctx.Codec \in Nat /\ (Agree => cctx.Codec = sctx.Codec)
        BY <1>1, Before DEF Agree
    <3>4. recvs' = recvs \ {asked[j].id}
        BY <2>3 DEF handleResponse, IsAnswer
    <3> HIDE DEF p, g
    <3>5. \A i \in DOMAIN asked :
             \/ /\ asked[i].id = asked[j].id /\ asked[i].id \in recvs
                /\ OutcomeOK(Agree, answered, asked[j], outcome'[i])
                /\ outcome'[i].kind # "pending"
             \/ /\ asked[i].id # asked[j].id \/ asked[i].id \notin recvs
                /\ outcome'[i] = outcome[i]
        BY <2>3, <3>2, <3>3, ResponseOutcome
    <3>6. ASSUME NEW i \in DOMAIN asked PROVE Becomes(i)
      <4>1. CASE asked[i].id = asked[j].id /\ asked[i].id \in recvs
        <5>1. i = j /\ asked[i].id \notin recvs'
            BY <1>1, <3>4, <4>1
        <5> QED
            BY <2>1, <3>5, <4>1, <5>1 DEF Becomes
      <4>2. CASE asked[i].id # asked[j].id \/ asked[i].id \notin recvs
          BY <2>1, <3>4, <3>5, <4>2 DEF Becomes
      <4> QED
          BY <4>1, <4>2
    <3> QED
        BY <2>1, <3>6
  <2> QED
      BY <1>5, <2>1, <2>2, <2>3
<1>7. PingSays \/ ServeSays \/ ServerPingSays \/ PushSays => UNCHANGED <<asked, outcome, recvs>>
    BY DEF PingSays, ServeSays, ServerPingSays, PushSays, askVars
<1> QED
    BY <1>3, <1>4, <1>5, <1>6, <1>7 DEF Says

\* A step keeps OutcomeInv.
LEMMA OutcomeNext ==
    ASSUME ShapesInv, DialInv, FramesInv, IdsInv, OutcomeInv, Static, Says
    PROVE  OutcomeInv'
<1>1. \A i \in DOMAIN asked : outcome[i].kind = "pending" <=> asked[i].id \in recvs
    BY DEF OutcomeInv
<1>2. ASSUME NEW i \in DOMAIN asked' PROVE outcome'[i].kind = "pending" <=> asked'[i].id \in recvs'
  <2>1. Becomes(i)
      BY OutcomesNext
  <2> QED
      BY <1>1, <2>1 DEF Becomes
<1> QED
    BY <1>2 DEF OutcomeInv

\* A step keeps ResultInv.
LEMMA ResultNext ==
    ASSUME ShapesInv, DialInv, FramesInv, IdsInv, ResultInv, Static, Says
    PROVE  ResultInv'
<1>1. \A i \in DOMAIN asked : OutcomeOK(Agree, answered, asked[i], outcome[i])
    BY DEF ResultInv
<1>2. answered \subseteq answered'
    BY AnsweredNext
<1>3. Agree' <=> Agree
    BY DEF Agree, Static, SameContext
<1>4. ASSUME NEW i \in DOMAIN asked' PROVE OutcomeOK(Agree', answered', asked'[i], outcome'[i])
  <2>1. Becomes(i)
      BY OutcomesNext
  <2>2. \/ OutcomeOK(Agree, answered, asked'[i], outcome'[i])
        \/ outcome'[i].kind \in {"pending", "failed"}
      BY <1>1, <2>1 DEF Becomes
  <2>3. CASE OutcomeOK(Agree, answered, asked'[i], outcome'[i])
      BY <1>2, <1>3, <2>3 DEF OutcomeOK
  <2>4. CASE outcome'[i].kind \in {"pending", "failed"}
      BY <2>4 DEF OutcomeOK
  <2> QED
      BY <2>2, <2>3, <2>4
<1> QED
    BY <1>4 DEF ResultInv

\* A step keeps AnswerInv: only handleResponse takes an answer off its way.
LEMMA AnswerNext ==
    ASSUME ShapesInv, DialInv, FramesInv, IdsInv, AnswerInv, Static, Says
    PROVE  AnswerInv'
<1> DEFINE v == cctx.Version
           Due(a, r, rs) == r.id = a.id /\ a.id \in rs /\ a.cmd % 256 # Close
           Comes(ds, a) == \E k \in DOMAIN ds : ResponseTo(v, ds[k], a)
<1>1. /\ Dialed /\ cctx'.Version = v
      /\ down \in Seq(Frames)
    BY DEF Static, SameContext, ShapesInv
<1>2. /\ \A i, j \in DOMAIN asked : asked[i].id = asked[j].id => i = j
      /\ \A i \in DOMAIN asked : asked[i].id =< cctx.lastId
      /\ \A r \in answered : r.id =< cctx.lastId
      /\ \A r \in answered : \A i \in DOMAIN asked : r.id = asked[i].id =>
           asked[i].cmd % 256 # Heartbeat
      /\ \A a : Asks(a) => \A n : n =< cctx.lastId => n # a.id
      /\ asked \in Seq(AskedRecord)
    BY <1>1, AskedFacts
<1>3. phase' = "open" => phase = "open"
    BY DEF Says, DoSays, TimeoutSays, PingSays, PingStep, ServeSays, ServerPingSays, PushSays,
        ReceiveSays
<1>4. phase = "open" => \A i \in DOMAIN asked : \A r \in answered :
         Due(asked[i], r, recvs) => Comes(down, asked[i])
    BY DEF AnswerInv, ResponseTo
<1>5. \A d \in Frames : /\ \A k \in DOMAIN down : k \in DOMAIN Append(down, d) /\
                             Append(down, d)[k] = down[k]
                        /\ \E k \in DOMAIN Append(down, d) : Append(down, d)[k] = d
  <2> TAKE d \in Frames
  <2>1. Grown(down, d, Append(down, d))
      BY <1>1, AppendGrows, Zenon
  <2> QED
      BY <2>1 DEF Grown
<1>6. ASSUME NEW d \in Frames, down' = Append(down, d)
      PROVE  \A a : Comes(down, a) \/ ResponseTo(v, d, a) => Comes(down', a)
    BY <1>5, <1>6, Zenon
<1>7. /\ \A f \in DownFrames(v, scheme, sctx.Codec, asked, answered) : f \in Frames
      /\ \A d, an, ping, beat : DownAdds(d, an, ping, beat) =>
           d \in Frames /\ down' = Append(down, d)
    BY AddsWhole DEF DownAdds
<1>8. SUFFICES ASSUME phase' = "open", NEW i \in DOMAIN asked', NEW r \in answered',
                      Due(asked'[i], r, recvs')
               PROVE  Comes(down', asked'[i])
    BY <1>1 DEF AnswerInv, ResponseTo
<1> HIDE DEF Due, Comes
<1>9. CASE i \in DOMAIN asked /\ asked'[i] = asked[i] /\ r \in answered
  <2>1. asked[i].id \in recvs
    <3>1. CASE recvs' \subseteq recvs
        BY <1>8, <1>9, <3>1 DEF Due
    <3>2. ASSUME NEW a, Asks(a), recvs' = recvs \cup {a.id} PROVE asked[i].id \in recvs
        BY <1>2, <1>8, <1>9, <3>2 DEF Due
    <3> QED
        BY <3>1, <3>2, RecvsNext
  <2>2. Comes(down, asked[i])
      BY <1>3, <1>4, <1>8, <1>9, <2>1 DEF Due
  <2>3. CASE ~ReceiveSays
    <3>1. down' = down \/ \E d \in Frames : down' = Append(down, d)
      <4>1. DoSays \/ TimeoutSays \/ PingSays => down' = down
          BY DEF DoSays, TimeoutSays, PingSays
      <4>2. ASSUME ServeSays PROVE down' = down \/ \E d \in Frames : down' = Append(down, d)
          BY <1>7, <4>2 DEF ServeSays, ServeStep, Answers
      <4>3. ASSUME ServerPingSays \/ PushSays PROVE \E d \in Frames : down' = Append(down, d)
          BY <1>7, <4>3 DEF ServerPingSays, ServerPingStep, PushSays, PushStep
      <4> QED
          BY <2>3, <4>1, <4>2, <4>3 DEF Says
    <3> QED
        BY <1>6, <1>9, <2>2, <3>1
  <2>4. CASE ReceiveSays
    <3> DEFINE g == down[1]
    <3>1. down # <<>> /\ down' = Tail(down) /\ Responds(g)
        BY <2>4 DEF ReceiveSays, ReceiveStep
    <3>2. \A k \in DOMAIN down : k = 1 \/ (k - 1 \in DOMAIN down' /\ down'[k - 1] = down[k])
        BY <1>1, <3>1, TailFacts
    <3>3. ~ResponseTo(v, g, asked[i])
      <4> SUFFICES ASSUME ResponseTo(v, g, asked[i]) PROVE FALSE
          OBVIOUS
      <4>1. /\ g.kind = "data" /\ PacketIn(v, g).Type = Response
            /\ PacketIn(v, g).RequestId = asked[i].id /\ PacketIn(v, g).CmdCode = asked[i].cmd % 256
          BY DEF ResponseTo
      <4>2. asked[i].cmd % 256 # Close /\ asked[i].cmd % 256 # Heartbeat /\ asked[i].id \in recvs'
          BY <1>2, <1>8, <1>9 DEF Due
      <4>3. Handled(v, g)
          BY <4>1, <4>2 DEF Handled
      <4>4. handleResponse(PacketIn(v, g))
          BY <1>8, <3>1, <4>3 DEF Responds
      <4> QED
          BY <4>1, <4>2, <4>4 DEF handleResponse
    <3>4. PICK k \in DOMAIN down : ResponseTo(v, down[k], asked[i])
        BY <2>2 DEF Comes
    <3>5. k # 1
        BY <3>3, <3>4
    <3>6. k - 1 \in DOMAIN down' /\ ResponseTo(v, down'[k - 1], asked[i])
        BY <3>2, <3>4, <3>5
    <3> QED
        BY <1>9, <3>6 DEF Comes
  <2> QED
      BY <2>3, <2>4
<1>10. CASE i \in DOMAIN asked /\ asked'[i] = asked[i] /\ r \notin answered
  <2>1. PICK j \in DOMAIN asked : \E h, d : Answers(asked[j], h, r, d)
    <3>1. PICK x : answered' = answered \cup {x} /\ \E j \in DOMAIN asked : \E h, d :
              Answers(asked[j], h, x, d)
        BY <1>8, <1>10, AnsweredNext
    <3>2. r = x
        BY <1>8, <1>10, <3>1
    <3> QED
        BY <3>1, <3>2
  <2>2. PICK h : \E d : Answers(asked[j], h, r, d)
      BY <2>1
  <2>3. PICK d : Answers(asked[j], h, r, d)
      BY <2>2
  <2>4. r.id = asked[j].id /\ ResponseTo(v, d, asked[j]) /\ \E an : DownAdds(d, an, <<>>, <<>>)
      BY <2>3 DEF Answers
  <2>5. i = j
      BY <1>2, <1>8, <1>10, <2>4 DEF Due
  <2>6. d \in Frames /\ down' = Append(down, d)
      BY <1>7, <2>4
  <2> QED
      BY <1>6, <1>10, <2>4, <2>5, <2>6
<1>11. CASE ~(i \in DOMAIN asked /\ asked'[i] = asked[i])
  <2>1. DoSays /\ \E a : Asks(a)
      BY <1>8, <1>11, AskedNext
  <2>2. PICK a : Asks(a)
      BY <2>1
  <2>3. asked'[i] = a
      BY <1>2, <1>8, <1>11, <2>2, AppendFacts DEF Asks
  <2>4. answered' = answered
      BY <2>1 DEF DoSays, serverVars
  <2> QED
      BY <1>2, <1>8, <2>2, <2>3, <2>4 DEF Due
<1> QED
    BY <1>9, <1>10, <1>11

-----------------------------------------------------------------------------
(* The invariant                                                             *)

\* Nothing was sent.
Empty ==
    /\ up = <<>> /\ down = <<>> /\ asked = <<>> /\ outcome = <<>> /\ pinged = <<>> /\ pings = <<>>
    /\ ponged = <<>> /\ beats = <<>> /\ pushed = <<>> /\ seen = <<>>
    /\ heard = {} /\ answered = {} /\ recvs = {}
    /\ cctx.lastId = 0 /\ sctx.lastId = 0
    /\ subs \in [SubCmds -> Seq(Nat)] /\ phase # "panic"

\* All of the invariant but DialInv.
Rest ==
    /\ ShapesInv /\ IdsInv /\ ValuesInv /\ FramesInv /\ HeardInv /\ PingsInv
    /\ CountInv /\ BeatsInv /\ OutcomeInv /\ AnswerInv /\ ResultInv
    /\ PushesReachSubscribers /\ PanicsForCodec

\* Then the invariant holds.
LEMMA EmptyRest == Empty => Rest
<1> SUFFICES ASSUME Empty PROVE Rest
    OBVIOUS
<1>1. /\ up = <<>> /\ down = <<>> /\ asked = <<>> /\ outcome = <<>> /\ pinged = <<>> /\ pings = <<>>
      /\ ponged = <<>> /\ beats = <<>> /\ pushed = <<>> /\ seen = <<>>
      /\ heard = {} /\ answered = {} /\ recvs = {}
      /\ cctx.lastId = 0 /\ sctx.lastId = 0
      /\ subs \in [SubCmds -> Seq(Nat)] /\ phase # "panic"
    BY DEF Empty
<1>2. \A v : /\ PongsIn(v, <<>>) = <<>> /\ PingsIn(v, <<>>) = <<>>
             /\ BeatsUp(v, <<>>) = <<>> /\ BeatsDown(v, <<>>) = <<>>
             /\ CallsIn(subs, v, <<>>) = <<>>
  <2> TAKE v
  <2>1. <<>> \in Seq(WholeFrames(v)) /\ Subscribers(subs)
      BY <1>1 DEF Subscribers
  <2>2. PongsIn(v, <<>>) = <<>> /\ PingsIn(v, <<>>) = <<>>
      BY <2>1, PongsFacts, PingsFacts
  <2>3. BeatsUp(v, <<>>) = <<>> /\ BeatsDown(v, <<>>) = <<>>
      BY <2>1, BeatsUpFacts, BeatsDownFacts
  <2>4. CallsIn(subs, v, <<>>) = <<>>
      BY <2>1, CallsFacts
  <2> QED
      BY <2>2, <2>3, <2>4
<1>3. AllCalls(subs, <<>>) = <<>>
  <2>1. <<>> \in Seq(PushRecord) /\ Subscribers(subs)
      BY <1>1 DEF Subscribers
  <2> QED
      BY <2>1, AllCallsFacts
<1>4. <<>> \o <<>> = <<>> /\ DOMAIN <<>> = {} /\ Len(<<>>) = 0
    OBVIOUS
<1>5. ShapesInv
    BY <1>1 DEF ShapesInv
<1>6. IdsInv /\ ValuesInv /\ FramesInv /\ HeardInv /\ OutcomeInv /\ AnswerInv /\ ResultInv
    BY <1>1, <1>4 DEF IdsInv, ValuesInv, FramesInv, HeardInv, OutcomeInv, AnswerInv, ResultInv
<1>7. PingsInv /\ PushesReachSubscribers /\ PanicsForCodec
    BY <1>1, <1>2, <1>3, <1>4 DEF PingsInv, PushesReachSubscribers, PanicsForCodec
<1>8. CountInv
  <2>1. MaxActs \in Nat
      BY ExchangeAssumption
  <2> QED
      BY <1>1, <1>2, <1>4, <2>1 DEF CountInv, Acts
<1>9. BeatsInv
  <2>1. AllBeats = <<>>
      BY <1>1, <1>2, <1>4 DEF AllBeats
  <2>2. PingIds(pinged, asked) = {}
      BY <1>1, <1>4 DEF PingIds
  <2> QED
      BY <1>4, <2>1, <2>2 DEF BeatsInv, BeatsOK
<1> QED
    BY <1>5, <1>6, <1>7, <1>8, <1>9 DEF Rest

\* Nothing was sent at first,
LEMMA InitEmpty == Init => Empty /\ DialInv
<1> SUFFICES ASSUME Init PROVE Empty /\ DialInv
    OBVIOUS
<1>1. /\ cctx \in ContextRecord /\ cctx = sctx /\ cctx.lastId = 0
    BY DEF Init, ContextOf, ContextRecord
<1>2. [c \in SubCmds |-> <<>>] \in [SubCmds -> Seq(Nat)]
    OBVIOUS
<1>3. Empty
    BY <1>1, <1>2 DEF Init, Empty
<1>4. "none" \notin connDialers
    BY DEF connDialers
<1>5. ~Dialed /\ scheme \notin connDialers /\ phase = "new"
    BY <1>4 DEF Init, Dialed
<1> QED
    BY <1>1, <1>3, <1>5 DEF DialInv, Empty

\* nor until Dial,
LEMMA NewEmpty ==
    ASSUME ShapesInv, DialInv, phase = "new"
    PROVE  Empty
<1>1. ~Dialed
    BY DEF Dialed
<1>2. asked = <<>> /\ outcome = <<>>
  <2>1. asked = <<>> /\ outcome \in Seq(Outcomes) /\ Len(outcome) = Len(asked)
      BY <1>1 DEF DialInv, ShapesInv
  <2> QED
      BY <2>1
<1> QED
    BY <1>1, <1>2 DEF DialInv, ShapesInv, Empty

\* so that Subscribe changes nothing,
LEMMA SubscribeEmpty ==
    ASSUME ShapesInv, DialInv, NEW cmd \in SubCmds, Subscribe(cmd)
    PROVE  Empty' /\ DialInv'
<1>1. Empty
    BY NewEmpty DEF Subscribe
<1>2. subs' \in [SubCmds -> Seq(Nat)]
  <2>1. subs \in [SubCmds -> Seq(Nat)] /\ subs' = [subs EXCEPT ![cmd] = Append(@, Len(@) + 1)]
      BY DEF ShapesInv, Subscribe
  <2>2. \A s \in Seq(Nat) : Append(s, Len(s) + 1) \in Seq(Nat)
      OBVIOUS
  <2> QED
      BY <2>1, <2>2
<1>3. UNCHANGED <<scheme, hs, opts, dopts, phase, cctx, up, down, askVars, serverVars, clientVars>>
    BY DEF Subscribe
<1>4. Empty'
    BY <1>1, <1>2, <1>3 DEF Empty, askVars, serverVars, clientVars
<1>5. Dialed' <=> Dialed
    BY <1>3 DEF Dialed
<1>6. DialInv'
    BY <1>3, <1>5 DEF DialInv, askVars, serverVars, clientVars
<1> QED
    BY <1>4, <1>6

\* The contexts that Dial makes.
LEMMA ContextFacts ==
    ASSUME NEW s \in connDialers, NEW h \in HandshakeRecord, h.Version \in manager
    PROVE  /\ ContextOf(h) \in ContextRecord /\ ContextOf(Announced(s, h)) \in ContextRecord
           /\ Announced(s, h).Version = h.Version
<1>1. h.Version \in Nat /\ h.Codec \in Nat /\ h.Platform \in Nat
    BY DEF HandshakeRecord, Byte
<1>2. Announced(s, h).Version = h.Version /\ Announced(s, h).Codec \in Nat /\
          Announced(s, h).Platform \in Nat
  <2>1. CASE s = "tcp"
      BY <2>1, HandshakeFacts DEF Announced
  <2>2. CASE s # "tcp"
      BY <2>2 DEF Announced, CodecProtobuf, PlatformOpenapi
  <2> QED
      BY <2>1, <2>2
<1> QED
    BY <1>1, <1>2 DEF ContextOf, ContextRecord

\* and Dial starts with nothing sent.
LEMMA DialEmpty ==
    ASSUME ShapesInv, DialInv, NEW s \in Schemes, NEW h \in Handshakes, NEW os \in OptionLists,
           Dial(s, h, os)
    PROVE  Empty' /\ DialInv'
<1>1. /\ Empty /\ cctx \in ContextRecord /\ sctx \in ContextRecord
    BY NewEmpty DEF Dial, DialInv
<1>2. /\ scheme' = s /\ hs' = h /\ opts' = os
      /\ s \in connDialers => dopts' = newDialOptions(os)
      /\ UNCHANGED <<subs, up, down, askVars, heard, answered, pings, ponged, pushed, clientVars>>
    BY DEF Dial
<1>3. h \in HandshakeRecord
    BY ExchangeAssumption
<1>4. CASE ~(s \in connDialers /\ h.Version \in manager)
  <2>1. phase' = "failed" /\ cctx' = cctx /\ sctx' = sctx
      BY <1>4 DEF Dial
  <2>2. ~Dialed'
      BY <2>1 DEF Dialed
  <2>3. Empty'
      BY <1>1, <1>2, <2>1 DEF Empty, askVars, clientVars
  <2> QED
      BY <1>1, <1>2, <2>1, <2>2, <2>3 DEF DialInv, Empty
<1>5. CASE s \in connDialers /\ h.Version \in manager
  <2> DEFINE a == Announced(s, h)
  <2>1. phase' = "open" /\ cctx' = ContextOf(h) /\ sctx' = ContextOf(a)
      BY <1>5 DEF Dial
  <2>2. /\ cctx' \in ContextRecord /\ sctx' \in ContextRecord /\ a.Version = h.Version
      BY <1>3, <1>5, <2>1, ContextFacts
  <2>3. /\ cctx'.Version = h.Version /\ cctx'.Codec = h.Codec /\ cctx'.Platform = h.Platform
        /\ sctx'.Version = a.Version /\ sctx'.Codec = a.Codec /\ sctx'.Platform = a.Platform
        /\ cctx'.lastId = 0 /\ sctx'.lastId = 0
      BY <2>1 DEF ContextOf
  <2>4. Empty'
      BY <1>1, <1>2, <2>1, <2>3 DEF Empty, askVars, clientVars
  <2>5. Dialed'
      BY <2>1 DEF Dialed
  <2> QED
      BY <1>2, <1>5, <2>1, <2>2, <2>3, <2>4, <2>5 DEF DialInv
<1> QED
    BY <1>4, <1>5

\* The steps after Dial keep the invariant.
LEMMA LaterKeeps ==
    ASSUME ExchangeInvariant, Later
    PROVE  ExchangeInvariant'
<1>1. /\ ShapesInv /\ DialInv /\ IdsInv /\ ValuesInv /\ FramesInv /\ HeardInv /\ PingsInv
      /\ CountInv /\ BeatsInv /\ OutcomeInv /\ AnswerInv /\ ResultInv
      /\ PushesReachSubscribers /\ PanicsForCodec
    BY DEF ExchangeInvariant
<1>2. Static /\ phase' \in {"open", "closed", "panic"}
    BY <1>1, LaterStatic
<1>3. Says /\ Acts' =< MaxActs
    BY <1>1, LaterSays
<1>4. ShapesInv'
    BY <1>1, <1>2, <1>3, ShapesNext
<1>5. DialInv' /\ PanicsForCodec'
    BY <1>1, <1>2, <1>3, DialNext, PanicsNext
<1>6. IdsInv' /\ ValuesInv'
    BY <1>1, <1>2, <1>3, IdsNext, ValuesNext
<1>7. FramesInv' /\ HeardInv'
    BY <1>1, <1>2, <1>3, FramesNext, HeardNext
<1>8. PingsInv' /\ PushesReachSubscribers'
    BY <1>1, <1>2, <1>3, PingsNext, PushesNext
<1>9. CountInv'
    BY <1>1, <1>2, <1>3, CountNext
<1>10. BeatsInv'
    BY <1>1, <1>2, <1>3, BeatsNext
<1>11. OutcomeInv' /\ ResultInv'
    BY <1>1, <1>2, <1>3, OutcomeNext, ResultNext
<1>12. AnswerInv'
    BY <1>1, <1>2, <1>3, AnswerNext
<1> QED
    BY <1>4, <1>5, <1>6, <1>7, <1>8, <1>9, <1>10, <1>11, <1>12 DEF ExchangeInvariant

\* So do those that change nothing.
LEMMA SameKeeps ==
    ASSUME ExchangeInvariant, UNCHANGED vars
    PROVE  ExchangeInvariant'
<1>1. /\ UNCHANGED <<scheme, hs, opts, dopts, phase, cctx, sctx, up, down, recvs, subs, asked,
           outcome>>
      /\ UNCHANGED <<heard, answered, pings, ponged, pinged, beats, pushed, seen>>
    BY DEF vars, dialVars, askVars, serverVars, clientVars
<1>2. (Dialed' <=> Dialed) /\ (Agree' <=> Agree) /\ Acts' = Acts /\ AllBeats' = AllBeats
    BY <1>1 DEF Dialed, Agree, Acts, AllBeats
<1>3. ShapesInv'
    BY <1>1 DEF ExchangeInvariant, ShapesInv
<1>4. DialInv'
    BY <1>1, <1>2 DEF ExchangeInvariant, DialInv
<1>5. IdsInv' /\ ValuesInv'
    BY <1>1 DEF ExchangeInvariant, IdsInv, ValuesInv
<1>6. FramesInv' /\ HeardInv'
    BY <1>1 DEF ExchangeInvariant, FramesInv, HeardInv
<1>7. PingsInv' /\ PushesReachSubscribers' /\ PanicsForCodec'
    BY <1>1 DEF ExchangeInvariant, PingsInv, PushesReachSubscribers, PanicsForCodec
<1>8. CountInv' /\ BeatsInv'
    BY <1>1, <1>2 DEF ExchangeInvariant, CountInv, BeatsInv
<1>9. OutcomeInv' /\ ResultInv'
  <2>1. OutcomeInv /\ ResultInv
      BY DEF ExchangeInvariant
  <2>2. OutcomeInv'
      BY <1>1, <2>1, Zenon DEF OutcomeInv
  <2>3. ResultInv'
    <3>1. \A i \in DOMAIN asked : OutcomeOK(Agree, answered, asked[i], outcome[i])
        BY <2>1 DEF ResultInv
    <3>2. \A a, o : OutcomeOK(Agree', answered', a, o) <=> OutcomeOK(Agree, answered, a, o)
        BY <1>1, <1>2 DEF OutcomeOK
    <3>3. \A i \in DOMAIN asked : OutcomeOK(Agree', answered', asked[i], outcome[i])
        BY <3>1, <3>2
    <3> QED
        BY <1>1, <3>3, Zenon DEF ResultInv
  <2> QED
      BY <2>2, <2>3
<1>10. AnswerInv'
  <2>1. AnswerInv
      BY DEF ExchangeInvariant
  <2> QED
      BY <1>1, <2>1, ZenonT(60) DEF AnswerInv
<1> QED
    BY <1>3, <1>4, <1>5, <1>6, <1>7, <1>8, <1>9, <1>10 DEF ExchangeInvariant

\* ExchangeInvariant holds of every behaviour of the two sides.
THEOREM ExchangeInvariantHolds == Spec => []ExchangeInvariant
<1>1. Rest /\ DialInv <=> ExchangeInvariant
    BY DEF Rest, ExchangeInvariant
<1>2. Init => ExchangeInvariant
    BY <1>1, InitEmpty, EmptyRest
<1>3. ExchangeInvariant /\ [Next]_vars => ExchangeInvariant'
  <2> SUFFICES ASSUME ExchangeInvariant, [Next]_vars PROVE ExchangeInvariant'
      OBVIOUS
  <2>1. ShapesInv /\ DialInv
      BY DEF ExchangeInvariant
  <2>2. ASSUME Empty', DialInv' PROVE ExchangeInvariant'
    <3>1. Empty' => Rest'
        BY EmptyRest, PTL
    <3>2. Rest' /\ DialInv' <=> ExchangeInvariant'
        BY <1>1, PTL
    <3> QED
        BY <2>2, <3>1, <3>2
  <2>3. CASE Later
      BY <2>3, LaterKeeps
  <2>4. CASE UNCHANGED vars
      BY <2>4, SameKeeps
  <2>5. ASSUME NEW c \in SubCmds, Subscribe(c) PROVE ExchangeInvariant'
      BY <2>1, <2>2, <2>5, SubscribeEmpty
  <2>6. ASSUME NEW s \in Schemes, NEW h \in Handshakes, NEW os \in OptionLists, Dial(s, h, os)
        PROVE  ExchangeInvariant'
      BY <2>1, <2>2, <2>6, DialEmpty
  <2> QED
      BY <2>3, <2>4, <2>5, <2>6 DEF Next, Later
<1> QED
    BY <1>2, <1>3, PTL DEF Spec

-----------------------------------------------------------------------------
(* The properties                                                            *)

\* The handshake (HandshakePack, the query of the WebSocket) tells the server the version,
\* and codec and platform exactly as far as its bits go.
THEOREM SidesAgreeHolds == Spec => []SidesAgree
<1>1. ExchangeInvariant => SidesAgree
  <2> SUFFICES ASSUME DialInv, Dialed
               PROVE  /\ cctx.Version = sctx.Version
                      /\ (cctx.Codec = sctx.Codec /\ cctx.Platform = sctx.Platform)
                            <=> IF scheme = "tcp" THEN hs.Codec < 16 /\ hs.Platform < 16
                                ELSE hs.Codec = CodecProtobuf /\ hs.Platform = PlatformOpenapi
      BY DEF ExchangeInvariant, SidesAgree
  <2> DEFINE a == Announced(scheme, hs)
  <2>1. /\ hs \in Handshakes /\ hs.Version \in manager
        /\ cctx.Version = hs.Version /\ cctx.Codec = hs.Codec /\ cctx.Platform = hs.Platform
        /\ sctx.Version = hs.Version /\ sctx.Codec = a.Codec /\ sctx.Platform = a.Platform
      BY DEF DialInv
  <2>2. hs \in HandshakeRecord
      BY <2>1, ExchangeAssumption
  <2>3. CASE scheme = "tcp"
    <3> DEFINE u == HandshakeUnpack(HandshakePack(hs))
    <3>1. a = u
        BY <2>3 DEF Announced
    <3>2. (u.Codec = hs.Codec <=> hs.Codec < 16) /\ (u.Platform = hs.Platform <=> hs.Platform < 16)
        BY <2>1, <2>2, HandshakeFacts
    <3> HIDE DEF u, a
    <3> QED
        BY <2>1, <2>3, <3>1, <3>2
  <2>4. CASE scheme # "tcp"
    <3>1. a.Codec = CodecProtobuf /\ a.Platform = PlatformOpenapi
        BY <2>4 DEF Announced
    <3> HIDE DEF a
    <3> QED
        BY <2>1, <2>4, <3>1
  <2> QED
      BY <2>3, <2>4
<1> QED
    BY <1>1, ExchangeInvariantHolds, PTL

\* newDialOptions takes the last positive value of each option, else its default.
THEOREM OptionsTakenHolds == Spec => []OptionsTaken
<1>1. ExchangeInvariant => OptionsTaken
  <2> SUFFICES ASSUME DialInv, scheme \in connDialers, NEW o \in DOMAIN dopts
               PROVE  LET given == {i \in DOMAIN opts : opts[i].name = o /\ opts[i].value > 0}
                          unit  == IF o = "ReadBufferSize" THEN 1024 ELSE 1
                      IN  /\ dopts[o] = IF given = {} THEN DefaultOptions[o]
                                        ELSE unit * opts[CHOOSE i \in given : \A j \in given :
                                            j =< i].value
                          /\ dopts[o] > 0 \/ o = "MaxReconnect"
      BY DEF ExchangeInvariant, OptionsTaken
  <2>1. opts \in OptionLists /\ dopts = newDialOptions(opts)
      BY DEF DialInv
  <2>2. OptionList(opts)
      BY <2>1, ExchangeAssumption
  <2>3. DOMAIN dopts = OptionNames
      BY <2>1, <2>2, OptionsFacts
  <2> QED
      BY <2>1, <2>2, <2>3, OptionsTake
<1> QED
    BY <1>1, ExchangeInvariantHolds, PTL

\* onClose panics only over a WebSocket dialed with a codec that is unknown.
THEOREM PanicsForCodecHolds == Spec => []PanicsForCodec
<1>1. ExchangeInvariant => PanicsForCodec
    BY DEF ExchangeInvariant
<1> QED
    BY <1>1, ExchangeInvariantHolds, PTL

\* handlePush passes every push to all subscribers of its command, in order.
THEOREM PushesReachSubscribersHolds == Spec => []PushesReachSubscribers
<1>1. ExchangeInvariant => PushesReachSubscribers
    BY DEF ExchangeInvariant
<1> QED
    BY <1>1, ExchangeInvariantHolds, PTL

\* A sequence is the beginning of any that continues it.
LEMMA PrefixOf ==
    ASSUME NEW S, NEW s \in Seq(S), NEW t \in Seq(S), NEW u \in Seq(S)
    PROVE  /\ IsPrefix(s, (s \o t) \o u)
           /\ \A i \in DOMAIN s : i \in DOMAIN ((s \o t) \o u) /\ ((s \o t) \o u)[i] = s[i]
<1> DEFINE w == (s \o t) \o u
<1>1. w \in Seq(S) /\ Len(w) = Len(s) + Len(t) + Len(u)
    OBVIOUS
<1>2. \A i \in 1..Len(s) : w[i] = s[i]
    OBVIOUS
<1>3. Len(s) \in Nat /\ Len(t) \in Nat /\ Len(u) \in Nat /\ DOMAIN s = 1..Len(s)
    OBVIOUS
<1> HIDE DEF w
<1>4. Len(s) =< Len(w) /\ DOMAIN w = 1..Len(w)
    BY <1>1, <1>3
<1>5. SubSeq(s, 1, Len(s)) = SubSeq(w, 1, Len(s))
    BY <1>1, <1>2, <1>3, <1>4
<1>6. IsPrefix(s, w)
    BY <1>4, <1>5 DEF IsPrefix
<1> QED
    BY <1>2, <1>3, <1>4, <1>6 DEF w

\* The server's pings are answered once, in order, by handlePing or by the connection.
THEOREM PingsAnsweredOnceHolds == Spec => []PingsAnsweredOnce
<1>1. ExchangeInvariant => PingsAnsweredOnce
  <2> SUFFICES ASSUME ShapesInv, DialInv, FramesInv, PingsInv PROVE PingsAnsweredOnce
      BY DEF ExchangeInvariant
  <2>1. up \in Seq(WholeFrames(cctx.Version)) /\ down \in Seq(WholeFrames(cctx.Version))
      BY FramesAre
  <2> DEFINE t == PongsIn(cctx.Version, up)
             u == PingsIn(cctx.Version, down)
             S == PingRecord
  <2>2. ponged \in Seq(S) /\ t \in Seq(S) /\ u \in Seq(S)
      BY <2>1, PongsFacts, PingsFacts DEF ShapesInv
  <2>3. (ponged \o t) \o u = pings
      BY DEF PingsInv
  <2> HIDE DEF t, u, S
  <2> QED
      BY <2>2, <2>3, PrefixOf DEF PingsAnsweredOnce
<1> QED
    BY <1>1, ExchangeInvariantHolds, PTL

\* handlePong gets ids of pings, each once, or over a WebSocket in JSON no id.
THEOREM PongsKeepIdsHolds == Spec => []PongsKeepIds
<1>1. ExchangeInvariant => PongsKeepIds
  <2> SUFFICES ASSUME ShapesInv, DialInv, FramesInv, BeatsInv PROVE PongsKeepIds
      BY DEF ExchangeInvariant
  <2>1. up \in Seq(WholeFrames(cctx.Version)) /\ down \in Seq(WholeFrames(cctx.Version))
      BY FramesAre
  <2> DEFINE t == BeatsDown(cctx.Version, down)
             u == BeatsUp(cctx.Version, up)
             w == (beats \o t) \o u
             ids == PingIds(pinged, asked)
  <2>2. beats \in Seq(Nat) /\ t \in Seq(Nat) /\ u \in Seq(Nat)
      BY <2>1, BeatsUpFacts, BeatsDownFacts DEF ShapesInv
  <2>3. BeatsOK(w, ids, scheme, cctx.Codec)
      BY DEF BeatsInv, AllBeats
  <2>4. ids = {pinged[i] : i \in DOMAIN pinged}
                 \cup {a.id : a \in {asked[i] :
                     i \in {i \in DOMAIN asked : asked[i].cmd % 256 = Heartbeat}}}
      BY DEF PingIds
  <2> HIDE DEF t, u
  <2>5. \A i \in DOMAIN beats : i \in DOMAIN w /\ w[i] = beats[i]
      BY <2>2, PrefixOf
  <2> HIDE DEF w, ids
  <2>6. \A i \in DOMAIN beats :
            \/ beats[i] \in ids /\ \A j \in DOMAIN beats : beats[i] = beats[j] => i = j
            \/ beats[i] = 0 /\ scheme # "tcp" /\ cctx.Codec # CodecProtobuf
      BY <2>3, <2>5 DEF BeatsOK
  <2> QED
      BY <2>4, <2>6 DEF PongsKeepIds
<1> QED
    BY <1>1, ExchangeInvariantHolds, PTL

\* MarshalValues cuts what is too long between entries, see CutsCleanly.
THEOREM CutsCleanlyHolds == Spec => []CutsCleanly
<1>1. ExchangeInvariant => CutsCleanly
  <2> SUFFICES ASSUME ValuesInv, NEW i \in DOMAIN asked, NEW max \in 0..MaxCut
               PROVE  LET vs == asked[i].values
                      IN  \E k \in 0..Len(vs) :
                             Fits(vs, max, k) /\
                                 UnmarshalValues(MarshalValues(vs, max)) = {ReadOf(vs, k)}
      BY DEF ExchangeInvariant, CutsCleanly
  <2> DEFINE vs == asked[i].values
  <2>1. KeysFit(vs) /\ vs \in Seq(Entries)
      BY DEF ValuesInv, ValuesOK, ValuesFit, KeysFit
  <2>2. max \in Nat
      BY ExchangeAssumption
  <2> HIDE DEF vs
  <2>3. PICK k \in 0..Len(vs) : Fits(vs, max, k)
      BY <2>1, <2>2, SomeFit
  <2>4. UnmarshalValues(MarshalValues(vs, max)) = {ReadOf(vs, k)}
      BY <2>1, <2>2, <2>3, CutRoundTrip
  <2> QED
      BY <2>3, <2>4 DEF vs
<1> QED
    BY <1>1, ExchangeInvariantHolds, PTL

\* The values that go with a request are those of its map.
LEMMA SentFacts ==
    ASSUME NEW v, NEW a, ValuesOK(a), a \in AskedRecord
    PROVE  LET V == ValuesSent(v, a)
           IN  /\ V \subseteq {Lowered(e) : e \in a.metadata}
               /\ {e.key : e \in V} =
                     {ToLower(e.key) : e \in {e \in a.metadata : v = 2 /\ e.key # <<>>}}
               /\ Cardinality({e.key : e \in V}) = Cardinality(V)
<1> DEFINE V == ValuesSent(v, a)
           vs == a.values
           M == a.metadata
<1>1. CASE v # 2
  <2>1. V = {}
      BY <1>1 DEF ValuesSent
  <2>2. {e.key : e \in {}} = {}
      OBVIOUS
  <2> QED
      BY <1>1, <2>1, <2>2
<1>2. CASE v = 2
  <2>1. /\ KeysFit(vs) /\ \A j \in DOMAIN vs : \E e \in M : vs[j] = Lowered(e)
        /\ \A e \in M : \E j \in DOMAIN vs : vs[j].key = ToLower(e.key)
      BY DEF ValuesOK, ValuesFit
  <2>2. M \subseteq Entries /\ DOMAIN vs = 1..Len(vs)
      BY <2>1 DEF AskedRecord, KeysFit
  <2>3. V = ReadOf(vs, Len(vs))
      BY <1>2 DEF ValuesSent
  <2>4. \A x : x \in V <=> \E j \in DOMAIN vs : vs[j].key # <<>> /\ x = vs[j]
      BY <2>2, <2>3 DEF ReadOf
  <2>5. \A e : Lowered(e).key = ToLower(e.key)
      BY DEF Lowered
  <2>6. \A e \in M : ToLower(e.key) = <<>> <=> e.key = <<>>
    <3>1. \A e \in M : e.key \in Seq(Nat)
        BY <2>2 DEF Entries
    <3> QED
        BY <3>1, LowerFacts
  <2>7. Cardinality({e.key : e \in V}) = Cardinality(V)
      BY <2>1, <2>3, KeysCount
  <2> HIDE DEF V, vs, M
  <2>8. V \subseteq {Lowered(e) : e \in M}
      BY <2>1, <2>4
  <2>9. ASSUME NEW x \in V PROVE x.key \in {ToLower(e.key) : e \in {e \in M : e.key # <<>>}}
    <3>1. PICK j \in DOMAIN vs : vs[j].key # <<>> /\ x = vs[j]
        BY <2>4
    <3>2. PICK e \in M : vs[j] = Lowered(e)
        BY <2>1
    <3>3. x.key = ToLower(e.key) /\ e.key # <<>>
        BY <2>5, <2>6, <3>1, <3>2
    <3> QED
        BY <3>3
  <2>10. ASSUME NEW e \in M, e.key # <<>> PROVE ToLower(e.key) \in {x.key : x \in V}
    <3>1. PICK j \in DOMAIN vs : vs[j].key = ToLower(e.key)
        BY <2>1
    <3>2. vs[j] \in V
        BY <2>4, <2>6, <2>10, <3>1
    <3> QED
        BY <3>1, <3>2
  <2>11. {x.key : x \in V} = {ToLower(e.key) : e \in {e \in M : v = 2 /\ e.key # <<>>}}
      BY <1>2, <2>9, <2>10
  <2> QED
      BY <2>7, <2>8, <2>11 DEF V, M
<1> QED
    BY <1>1, <1>2

\* The server reads what Do was asked to send, see RequestUnderstood.
THEOREM RequestUnderstoodHolds == Spec => []RequestUnderstood
<1>1. ExchangeInvariant => RequestUnderstood
  <2> SUFFICES ASSUME ExchangeInvariant, NEW h \in heard
               PROVE  \E i \in DOMAIN asked :
                 LET a == asked[i]
                 IN  /\ h.id = a.id /\ h.cmd = a.cmd % 256
                     /\ Agree /\ h.body # {} => h.body = {a.body}
                     /\ Agree /\ h.body = {} => cctx.Codec # CodecProtobuf /\ a.body = Nil
                     /\ h.values \subseteq {Lowered(e) : e \in a.metadata}
                     /\ {e.key : e \in h.values} =
                           {ToLower(e.key) :
                               e \in {e \in a.metadata : cctx.Version = 2 /\ e.key # <<>>}}
                     /\ Cardinality({e.key : e \in h.values}) = Cardinality(h.values)
      BY DEF RequestUnderstood
  <2>1. PICK i \in DOMAIN asked :
           /\ h.id = asked[i].id /\ h.cmd = asked[i].cmd % 256
           /\ \E b \in marshal(cctx.Codec, asked[i].body) : h.body = unmarshal(sctx.Codec, b)
           /\ h.values = ValuesSent(cctx.Version, asked[i])
      BY DEF ExchangeInvariant, HeardInv
  <2> DEFINE a == asked[i]
  <2>2. a \in AskedRecord /\ ValuesOK(a)
    <3>1. asked \in Seq(AskedRecord)
        BY DEF ExchangeInvariant, ShapesInv
    <3> QED
        BY <3>1 DEF ExchangeInvariant, ValuesInv
  <2>3. cctx.Codec \in Nat /\ a.body \in Nat
    <3>1. cctx.Codec \in Nat
        BY DEF ExchangeInvariant, DialInv, ContextRecord
    <3> QED
        BY <2>2, <3>1 DEF AskedRecord
  <2>4. /\ a.id = asked[i].id /\ a.cmd = asked[i].cmd /\ a.metadata = asked[i].metadata
        /\ a.body = asked[i].body
      OBVIOUS
  <2> HIDE DEF a
  <2>5. Agree => h.body = {a.body} \/ (h.body = {} /\ a.body = Nil /\ cctx.Codec # CodecProtobuf)
    <3> SUFFICES ASSUME Agree
                 PROVE  h.body = {a.body} \/
                     (h.body = {} /\ a.body = Nil /\ cctx.Codec # CodecProtobuf)
        OBVIOUS
    <3>1. PICK b \in marshal(cctx.Codec, a.body) : h.body = unmarshal(cctx.Codec, b)
        BY <2>1, <2>4 DEF Agree
    <3> QED
        BY <2>3, <3>1, EncodedFacts
  <2>6. h.values = ValuesSent(cctx.Version, a)
      BY <2>1 DEF a
  <2>7. /\ h.values \subseteq {Lowered(e) : e \in a.metadata}
        /\ {e.key : e \in h.values} =
              {ToLower(e.key) : e \in {e \in a.metadata : cctx.Version = 2 /\ e.key # <<>>}}
        /\ Cardinality({e.key : e \in h.values}) = Cardinality(h.values)
      BY <2>2, <2>6, SentFacts
  <2>8. Agree /\ h.body # {} => h.body = {a.body}
      BY <2>5
  <2>9. Agree /\ h.body = {} => cctx.Codec # CodecProtobuf /\ a.body = Nil
      BY <2>5
  <2> QED
      BY <2>1, <2>7, <2>8, <2>9, Zenon DEF a
<1> QED
    BY <1>1, ExchangeInvariantHolds, PTL

\* handleResponse hands every answer to the request it answers, see AnswersReachAsker.
THEOREM AnswersReachAskerHolds == Spec => []AnswersReachAsker
<1>1. ExchangeInvariant => AnswersReachAsker
  <2> SUFFICES ASSUME ExchangeInvariant, NEW i \in DOMAIN asked
               PROVE  LET mine == {r \in answered : r.id = asked[i].id}
                          o    == outcome[i]
                      IN  /\ o.kind = "ok" =>
                               \E r \in mine : r.status = StatusSuccess /\
                                   (Agree /\ o.body # {} => o.body = {r.body})
                          /\ o.kind = "error" => \E r \in mine : /\ r.status = o.err.status
                                                                 /\ Agree => o.err.code \in {r.body, UnknownError}
                          /\ o.kind = "pending" /\ mine # {} /\ phase = "open" =>
                                asked[i].id \in UnderWay \/
                                    asked[i].cmd % 256 \in {Close, Heartbeat}
      BY DEF AnswersReachAsker
  <2> DEFINE v == cctx.Version
             a == asked[i]
             o == outcome[i]
             mine == {r \in answered : r.id = a.id}
  <2>1. OutcomeOK(Agree, answered, a, o)
      BY DEF ExchangeInvariant, ResultInv
  <2>2. o.kind = "pending" => a.id \in recvs
      BY DEF ExchangeInvariant, OutcomeInv
  <2>3. ASSUME NEW r \in mine, a.id \in recvs, phase = "open", a.cmd % 256 # Close
        PROVE  a.id \in UnderWay
    <3>1. PICK k \in DOMAIN down : down[k].kind = "data" /\ PacketIn(v, down[k]).RequestId = r.id
        BY <2>3 DEF ExchangeInvariant, AnswerInv
    <3>2. UnpackBytes(v, down[k].data) = {PacketIn(v, down[k])}
        BY <3>1 DEF ExchangeInvariant, FramesInv, DownOK, Whole
    <3>3. r.id = a.id
        OBVIOUS
    <3> HIDE DEF a, v
    <3>4. PacketIn(v, down[k]) \in UNION {UnpackBytes(v, down[j].data) :
              j \in {j \in DOMAIN down : down[j].kind = "data"}}
        BY <3>1, <3>2
    <3> QED
        BY <3>1, <3>3, <3>4 DEF UnderWay, v
  <2> HIDE DEF a, o
  <2>4. o.kind = "ok" =>
            \E r \in mine : r.status = StatusSuccess /\ (Agree /\ o.body # {} => o.body = {r.body})
      BY <2>1, Zenon DEF OutcomeOK
  <2>5. o.kind = "error" => \E r \in mine : /\ r.status = o.err.status
                                            /\ Agree => o.err.code \in {r.body, UnknownError}
      BY <2>1, Zenon DEF OutcomeOK
  <2>6. o.kind = "pending" /\ mine # {} /\ phase = "open" =>
           a.id \in UnderWay \/ a.cmd % 256 \in {Close, Heartbeat}
      BY <2>2, <2>3
  <2> QED
      BY <2>4, <2>5, <2>6 DEF a, o
<1> QED
    BY <1>1, ExchangeInvariantHolds, PTL
=============================================================================
