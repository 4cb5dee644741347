------------------------- MODULE FrameReaderProofs -------------------------
(***************************************************************************)
(* Proofs about FrameReader, from FrameAssumption: whatever packets that   *)
(* fit the peer sends, and however the network cuts their frames.          *)
(***************************************************************************)
EXTENDS FrameReaderInv, FrameProofs

\* A first byte sets BeginUnpack and leaves IsUnpacked.
LEMMA FirstFields ==
    ASSUME NEW f
    PROVE  /\ ~ZeroHeader.IsUnpacked /\ ~ZeroHeader.BeginUnpack
           /\ ~First(f).IsUnpacked /\ First(f).BeginUnpack
<1>1. ~ZeroHeader.IsUnpacked /\ ~ZeroHeader.BeginUnpack
    BY DEF ZeroHeader
<1>2. First(f).BeginUnpack = TRUE
    BY DEF First, UnpackFirst, ZeroHeader
<1>3. First(f).IsUnpacked = FALSE
    BY DEF First, UnpackFirst, ZeroHeader
<1> QED
    BY <1>1, <1>2, <1>3

\* The rest of a header sets IsUnpacked.
LEMMA HeaderFieldsDone ==
    ASSUME NEW v, NEW f
    PROVE  Header(v, f).IsUnpacked
<1>1. First(f).IsUnpacked = FALSE /\ "IsUnpacked" \in DOMAIN First(f)
    BY DEF First, UnpackFirst, ZeroHeader
<1> DEFINE h == First(f)
<1> HIDE DEF h
<1>2. Header(v, f).IsUnpacked = TRUE
    BY <1>1 DEF Header, UnpackRest, h
<1> QED
    BY <1>2

\* Where frames begin and end.
LEMMA StartFacts ==
    ASSUME WireInv
    PROVE  /\ \A i \in 1..(Len(ends) + 1) : Start(i) \in Nat /\ Start(i) =< Len(wire)
           /\ \A i \in 1..Len(ends) :
                 /\ ends[i] \in Nat /\ Start(i) < ends[i] /\ Start(i + 1) = ends[i]
                 /\ ends[i] =< Len(wire)
<1>1. /\ wire \in Seq(Nat) /\ ends \in Seq(Nat)
      /\ \A i, j \in 1..Len(ends) : i < j => ends[i] < ends[j]
      /\ \A i \in 1..Len(ends) : 0 < ends[i] /\ ends[i] =< Len(wire)
    BY DEF WireInv
<1>2. Len(wire) \in Nat /\ Len(ends) \in Nat
    BY <1>1
<1>3. \A i \in 1..Len(ends) : ends[i] \in Nat
    BY <1>1
<1>4. ASSUME NEW i \in 1..(Len(ends) + 1) PROVE Start(i) \in Nat /\ Start(i) =< Len(wire)
  <2>1. CASE i = 1
      BY <1>2, <2>1 DEF Start
  <2>2. CASE i # 1
    <3>1. i - 1 \in 1..Len(ends)
        BY <1>2, <2>2
    <3> QED
        BY <1>1, <1>3, <2>2, <3>1 DEF Start
  <2> QED
      BY <2>1, <2>2
<1>5. ASSUME NEW i \in 1..Len(ends) PROVE Start(i) < ends[i] /\ Start(i + 1) = ends[i]
  <2>1. Start(i + 1) = ends[i]
    <3>1. i + 1 # 1 /\ (i + 1) - 1 = i
        BY <1>2
    <3> QED
        BY <3>1 DEF Start
  <2>2. CASE i = 1
      BY <1>1, <2>1, <2>2 DEF Start
  <2>3. CASE i # 1
    <3>1. i - 1 \in 1..Len(ends) /\ i - 1 < i
        BY <1>2, <2>3
    <3> QED
        BY <1>1, <2>1, <2>3, <3>1 DEF Start
  <2> QED
      BY <2>1, <2>2, <2>3
<1> QED
    BY <1>1, <1>3, <1>4, <1>5

\* A piece of the wire that is a sequence of its own.
LEMMA FrameBytes ==
    ASSUME WireInv, NEW k \in 1..Len(ends)
    PROVE  /\ FrameOf(k) \in Seq(Nat) /\ Start(k) + Len(FrameOf(k)) = ends[k]
           /\ PieceAt(wire, Start(k), FrameOf(k))
<1> DEFINE m == Start(k)
           n == ends[k] - m
<1>1. m \in Nat /\ n \in Nat /\ m + n = ends[k] /\ m + n =< Len(wire)
  <2>1. k \in 1..(Len(ends) + 1) /\ Len(wire) \in Nat
    <3>1. Len(ends) \in Nat /\ Len(wire) \in Nat
        BY DEF WireInv
    <3> QED
        BY <3>1
  <2>2. Start(k) \in Nat /\ ends[k] \in Nat /\ Start(k) < ends[k] /\ ends[k] =< Len(wire)
      BY <2>1, StartFacts
  <2> QED
      BY <2>1, <2>2
<1>2. wire \in Seq(Nat)
    BY DEF WireInv
<1>3. FrameOf(k) = SubSeq(wire, m + 1, m + n)
    BY <1>1 DEF FrameOf
<1> HIDE DEF m, n
<1> DEFINE u == SubSeq(wire, m + 1, m + n)
<1>5. u \in Seq(Nat) /\ Len(u) = n /\ PieceAt(wire, m, u)
    BY <1>1, <1>2, PieceSub
<1> HIDE DEF u
<1>6. FrameOf(k) = u
    BY <1>3 DEF u
<1>4. /\ FrameOf(k) \in Seq(Nat) /\ Len(FrameOf(k)) = n
      /\ PieceAt(wire, m, FrameOf(k))
    BY <1>5, <1>6
<1> QED
    BY <1>1, <1>4 DEF m

\* Nothing is sent and nothing is read.
LEMMA InitInvariant ==
    ASSUME Init
    PROVE  ReaderInvariant
<1> USE DEF Init
<1>1. sent = <<>> /\ wire = <<>> /\ ends = <<>> /\ buf = <<>> /\ got = <<>> /\ read = 0 /\ ~garbled
      /\ garbled \in BOOLEAN /\ pc = "read" /\ hdr = ZeroHeader /\ version \in {1, 2}
    OBVIOUS
<1>2. \A i \in 1..0 : FALSE
    BY SMT
<1>3. Start(1) = 0
    BY DEF Start
<1>4. Len(ends) = 0 /\ Len(sent) = 0 /\ Len(wire) = 0 /\ Len(got) = 0 /\ Len(buf) = 0
    BY <1>1
<1>5. WireInv
  <2>1. sent \in Seq(Packets(version)) /\ wire \in Seq(Nat) /\ ends \in Seq(Nat)
      BY <1>1
  <2>2. Len(wire) = Start(Len(ends) + 1)
      BY <1>3, <1>4
  <2> QED
      BY <1>1, <1>2, <1>4, <2>1, <2>2 DEF WireInv
<1>6. ReadInv
  <2>1. Buffered(buf)
    <3>1. buf \in Seq(Nat)
        BY <1>1
    <3> QED
        BY <1>1, <1>2, <1>4, <3>1 DEF Buffered
  <2>2. Current = 1
      BY <1>4 DEF Current
  <2>3. AtStart(hdr, buf)
      BY <1>1, <1>3, <1>4, <2>2 DEF AtStart
  <2>4. got \in Seq({Expected(version, p) : p \in Packets(version)})
      BY <1>1
  <2>5. pc = "read" => IF Current =< Len(ends) THEN read < ends[Current] ELSE read = Start(Current)
      BY <1>1, <1>3, <1>4, <2>2
  <2>6. read \in Nat /\ read =< Len(wire) /\ Len(got) =< Len(ends)
      BY <1>1, <1>4
  <2> QED
      BY <1>1, <1>2, <1>4, <2>1, <2>3, <2>4, <2>5, <2>6 DEF ReadInv
<1> QED
    BY <1>5, <1>6 DEF ReaderInvariant

\* Two sequences that overlap on w: the first n elements of b are those of f behind
\* its first j.
Overlaps(w, b, f, o, j, n) ==
    /\ w \in Seq(Nat) /\ b \in Seq(Nat) /\ f \in Seq(Nat)
    /\ o \in Nat /\ j \in Nat /\ n \in Nat /\ n =< Len(b) /\ j + n =< Len(f)
    /\ PieceAt(w, o + j, b) /\ PieceAt(w, o, f)

\* Two windows on the wire that begin at the same place agree.
LEMMA Overlap ==
    ASSUME NEW w, NEW b, NEW f, NEW o, NEW j, NEW n, Overlaps(w, b, f, o, j, n)
    PROVE  Take(b, n) = SubSeq(f, j + 1, j + n)
<1>0. /\ w \in Seq(Nat) /\ b \in Seq(Nat) /\ f \in Seq(Nat)
      /\ o \in Nat /\ j \in Nat /\ n \in Nat /\ n =< Len(b) /\ j + n =< Len(f)
      /\ PieceAt(w, o + j, b) /\ PieceAt(w, o, f)
    BY DEF Overlaps
<1> DEFINE x == SubSeq(b, 0 + 1, 0 + n)
           y == SubSeq(f, j + 1, j + n)
<1>1. x \in Seq(Nat) /\ Len(x) = n /\ \A i \in 1..n : x[i] = b[0 + i]
  <2>1. 0 + n =< Len(b)
      BY <1>0
  <2> QED
      BY <1>0, <2>1, SubSeqFacts
<1>2. y \in Seq(Nat) /\ Len(y) = n /\ \A i \in 1..n : y[i] = f[j + i]
  <2> SUFFICES ASSUME NEW g \in Seq(Nat), NEW k \in Nat, NEW l \in Nat, k + l =< Len(g)
               PROVE  /\ SubSeq(g, k + 1, k + l) \in Seq(Nat) /\ Len(SubSeq(g, k + 1, k + l)) = l
                      /\ \A i \in 1..l : SubSeq(g, k + 1, k + l)[i] = g[k + i]
      BY <1>0, Zenon
  <2> HIDE DEF x, y
  <2> QED
      BY SubSeqFacts, ZenonT(60)
<1>3. Take(b, n) = x
    BY <1>0, TakeFacts
<1> HIDE DEF x, y
<1>4. ASSUME NEW i \in 1..n PROVE x[i] = y[i]
  <2>1. Len(b) \in Nat /\ Len(f) \in Nat
      BY <1>0
  <2>2. i \in 1..Len(b) /\ j + i \in 1..Len(f) /\ (o + j) + i = o + (j + i) /\ 0 + i = i
      BY <1>0, <2>1
  <2>3. w[(o + j) + i] = b[i]
      BY <1>0, <2>2 DEF PieceAt
  <2>4. w[o + (j + i)] = f[j + i]
      BY <1>0, <2>2 DEF PieceAt
  <2> QED
      BY <1>1, <1>2, <2>2, <2>3, <2>4
<1>5. x = y
    BY <1>1, <1>2, <1>4, SeqEqual
<1> QED
    BY <1>3, <1>5 DEF y

\* What was read last, as a piece of the wire.
LEMMA BufferedFacts ==
    ASSUME WireInv, read \in Nat, read =< Len(wire), NEW b, Buffered(b)
    PROVE  /\ b \in Seq(Nat) /\ Len(b) \in Nat /\ read - Len(b) \in Nat
           /\ PieceAt(wire, read - Len(b), b)
           /\ \A n \in 0..Len(b) : /\ Buffered(Drop(b, n)) /\ Len(Drop(b, n)) = Len(b) - n
                                   /\ Drop(b, n) \in Seq(Nat)
           /\ b # <<>> => /\ Len(b) >= 1 /\ b[1] = wire[(read - Len(b)) + 1]
                          /\ Head(b) = b[1] /\ Tail(b) = Drop(b, 1)
           /\ b = <<>> => Len(b) = 0
<1>1. /\ b \in Seq(Nat) /\ Len(b) \in Nat /\ Len(b) =< read
      /\ \A i \in 1..Len(b) : b[i] = wire[(read - Len(b)) + i]
    BY DEF Buffered
<1>2. Len(wire) \in Nat
    BY DEF WireInv
<1>3. read - Len(b) \in Nat /\ (read - Len(b)) + Len(b) =< Len(wire)
    BY <1>1, <1>2
<1>4. PieceAt(wire, read - Len(b), b)
    BY <1>1, <1>3 DEF PieceAt
<1>5. ASSUME NEW n \in 0..Len(b)
      PROVE  /\ Buffered(Drop(b, n)) /\ Len(Drop(b, n)) = Len(b) - n
             /\ Drop(b, n) \in Seq(Nat)
  <2> DEFINE d == Drop(b, n)
             m == Len(b) - n
  <2>1. m \in Nat /\ n \in Nat /\ n + m = Len(b) /\ m =< read
      BY <1>1
  <2>2. d = SubSeq(b, n + 1, n + m)
      BY <2>1 DEF Drop
  <2>3. n + m =< Len(b)
      BY <1>1, <2>1
  <2> HIDE DEF m, d
  <2>4. d \in Seq(Nat) /\ Len(d) = m /\ \A i \in 1..m : d[i] = b[n + i]
    <3> DEFINE e == SubSeq(b, n + 1, n + m)
    <3>1. e \in Seq(Nat) /\ Len(e) = m /\ \A i \in 1..m : e[i] = b[n + i]
        BY <1>1, <2>1, <2>3, SubSeqFacts
    <3> HIDE DEF e
    <3>2. d = e
        BY <2>2 DEF e
    <3> QED
        BY <3>1, <3>2
  <2>5. ASSUME NEW i \in 1..m PROVE d[i] = wire[(read - m) + i]
    <3>0. i \in Nat /\ 1 =< i /\ i =< m /\ n \in Nat /\ m \in Nat /\ n + m = Len(b)
        BY <2>1
    <3>1. n + i \in 1..Len(b)
        BY <3>0
    <3>2. (read - Len(b)) + (n + i) = (read - m) + i
      <4> DEFINE l == Len(b)
      <4>1. l = n + m
          BY <3>0
      <4> HIDE DEF l
      <4>2. (read - l) + (n + i) = (read - m) + i
          BY <3>0, <4>1
      <4> QED
          BY <4>2 DEF l
    <3> QED
        BY <1>1, <2>4, <3>1, <3>2
  <2>6. Buffered(d)
      BY <2>1, <2>4, <2>5 DEF Buffered
  <2> QED
      BY <2>4, <2>6 DEF m, d
<1>6. ASSUME b # <<>>
      PROVE  /\ Len(b) >= 1 /\ b[1] = wire[(read - Len(b)) + 1]
             /\ Head(b) = b[1] /\ Tail(b) = Drop(b, 1)
  <2>1. Len(b) >= 1 /\ Head(b) = b[1]
      BY <1>1, <1>6
  <2>2. Tail(b) = Drop(b, 1)
      BY <1>1, <1>6 DEF Drop
  <2> QED
      BY <1>1, <2>1, <2>2
<1>7. b = <<>> => Len(b) = 0
    OBVIOUS
<1> QED
    BY <1>1, <1>3, <1>4, <1>5, <1>6, <1>7

\* A frame on the wire and the lengths of its parts.
LEMMA FrameFacts ==
    ASSUME WireInv, NEW k \in 1..Len(ends)
    PROVE  LET f == FrameOf(k)
               n == HeadLen(version, f)
           IN  /\ f \in Seq(Nat) /\ PieceAt(wire, Start(k), f)
               /\ Start(k) \in Nat /\ Start(k) + Len(f) = ends[k] /\ Start(k + 1) = ends[k]
               /\ ends[k] =< Len(wire)
               /\ n \in Nat /\ n > 1 /\ Need(Header(version, f)) \in Nat
               /\ Len(f) = n + Need(Header(version, f)) /\ Len(f) \in Nat
               /\ ~IsUnknownPacket(First(f).Type)
               /\ Assemble(version, Header(version, f), Drop(f, n)) = {Expected(version, sent[k])}
               /\ f[1] = wire[Start(k) + 1]
<1> DEFINE f == FrameOf(k)
           n == HeadLen(version, f)
<1>1. GoodFrame(version, f, Expected(version, sent[k])) /\ version \in {1, 2}
    BY DEF WireInv
<1>2. f \in Seq(Nat) /\ Start(k) + Len(f) = ends[k] /\ PieceAt(wire, Start(k), f)
    BY FrameBytes
<1>3. /\ k \in 1..(Len(ends) + 1) /\ Start(k) \in Nat /\ Start(k + 1) = ends[k]
      /\ ends[k] =< Len(wire)
  <2>1. Len(ends) \in Nat
      BY DEF WireInv
  <2>2. k \in 1..(Len(ends) + 1)
      BY <2>1
  <2> QED
      BY <2>2, StartFacts
<1>4. /\ ~IsUnknownPacket(First(f).Type)
      /\ n \in Nat \ {0} /\ Need(Header(version, f)) \in Nat
      /\ Len(f) = n + Need(Header(version, f))
      /\ Assemble(version, Header(version, f), Drop(f, n)) = {Expected(version, sent[k])}
    BY <1>1 DEF GoodFrame
<1>5. n > 1
  <2>1. First(f).Type \in {Request, Response, Push}
      BY <1>4 DEF IsUnknownPacket
  <2> DEFINE t == First(f).Type
  <2> HIDE DEF t
  <2>2. t \in {Request, Response, Push}
      BY <2>1 DEF t
  <2>3. HeaderLen(version, t) > 1
      BY <1>1, <2>2, HeaderLenFacts
  <2> QED
      BY <2>3 DEF t, HeadLen
<1>6. f[1] = wire[Start(k) + 1]
  <2>1. 1 \in 1..Len(f)
      BY <1>2, <1>4
  <2> QED
      BY <1>2, <2>1 DEF PieceAt
<1>7. Len(f) \in Nat
    BY <1>2
<1> QED
    BY <1>2, <1>3, <1>4, <1>5, <1>6, <1>7

\* How far the header of the next packet has been unpacked when b is left.
Step(h, b) == AtStart(h, b) \/ AfterFirst(h, b) \/ AfterHeader(h, b)

\* The rest of a header of which the first byte is known, out of b.
LEMMA RestOfHeader ==
    ASSUME WireInv, read \in Nat, read =< Len(wire), NEW b, Buffered(b),
           Current \in 1..Len(ends), read - Len(b) = Start(Current) + 1
    PROVE  LET f == FrameOf(Current)
               n == HeadLen(version, f) - 1
           IN  /\ n \in Nat
               /\ Len(b) < n => read < Start(Current) + HeadLen(version, f)
               /\ ~(Len(b) < n) =>
                     /\ UnpackRest(version, First(f), Take(b, n)) = Header(version, f)
                     /\ Buffered(Drop(b, n))
                     /\ read - Len(Drop(b, n)) = Start(Current) + HeadLen(version, f)
<1> DEFINE k == Current
           f == FrameOf(k)
           hl == HeadLen(version, f)
           n == hl - 1
           o == Start(k)
<1>1. /\ f \in Seq(Nat) /\ PieceAt(wire, o, f) /\ o \in Nat /\ hl \in Nat /\ hl > 1
      /\ Len(f) \in Nat /\ hl =< Len(f)
  <2> HIDE DEF k
  <2>1. k \in 1..Len(ends)
      BY DEF k
  <2>2. /\ f \in Seq(Nat) /\ PieceAt(wire, o, f) /\ o \in Nat /\ hl \in Nat /\ hl > 1
        /\ Len(f) \in Nat /\ Need(Header(version, f)) \in Nat
        /\ Len(f) = hl + Need(Header(version, f))
      BY <2>1, FrameFacts
  <2> HIDE DEF f, hl, o
  <2> QED
      BY <2>2
<1>2. /\ b \in Seq(Nat) /\ Len(b) \in Nat /\ PieceAt(wire, read - Len(b), b)
      /\ \A j \in 0..Len(b) : Buffered(Drop(b, j)) /\ Len(Drop(b, j)) = Len(b) - j
    BY BufferedFacts
<1>3. read - Len(b) = o + 1 /\ wire \in Seq(Nat)
    BY DEF WireInv
<1> HIDE DEF k, f, hl, o
<1>4. n \in Nat /\ 1 + n = hl
    BY <1>1
<1>5. ASSUME Len(b) < n PROVE read < o + hl
    BY <1>1, <1>2, <1>3, <1>4, <1>5
<1>6. ASSUME ~(Len(b) < n)
      PROVE  /\ UnpackRest(version, First(f), Take(b, n)) = Header(version, f)
             /\ Buffered(Drop(b, n)) /\ read - Len(Drop(b, n)) = o + hl
  <2>1. n =< Len(b) /\ 1 + n =< Len(f) /\ n \in 0..Len(b)
      BY <1>1, <1>2, <1>4, <1>6
  <2>2. PieceAt(wire, o + 1, b) /\ b \in Seq(Nat) /\ wire \in Seq(Nat) /\ PieceAt(wire, o, f)
        /\ f \in Seq(Nat) /\ o \in Nat /\ n \in Nat /\ 1 \in Nat
      BY <1>1, <1>2, <1>3, <1>4
  <2> HIDE DEF n
  <2>3. Take(b, n) = SubSeq(f, 1 + 1, 1 + n)
    <3>1. Overlaps(wire, b, f, o, 1, n)
        BY <2>1, <2>2 DEF Overlaps
    <3> QED
        BY <3>1, Overlap
  <2>4. Take(b, n) = SubSeq(f, 2, hl)
      BY <1>4, <2>3
  <2>5. UnpackRest(version, First(f), Take(b, n)) = Header(version, f)
      BY <2>4 DEF Header, hl
  <2>6. Buffered(Drop(b, n)) /\ Len(Drop(b, n)) = Len(b) - n
      BY <1>2, <2>1
  <2> DEFINE ld == Len(Drop(b, n))
             lb == Len(b)
  <2>7. ld = lb - n /\ lb \in Nat /\ read - lb = o + 1
      BY <1>2, <1>3, <2>6
  <2> HIDE DEF ld, lb
  <2>8. read - ld = o + hl
      BY <1>1, <1>4, <2>7
  <2> QED
      BY <2>5, <2>6, <2>8 DEF ld
<1> QED
    BY <1>4, <1>5, <1>6 DEF k, f, hl, o

\* One step of the header: what HeaderUnpack makes of what was read.
Waits(u) ==
    /\ u.state = "wait" /\ Buffered(u.buf) /\ (AtStart(u.h, u.buf) \/ AfterFirst(u.h, u.buf))
    /\ IF Current =< Len(ends)
       THEN read < Start(Current) + HeadLen(version, FrameOf(Current))
       ELSE read = Start(Current)
Done(u) ==
    /\ u.state = "done" /\ Buffered(u.buf) /\ AfterHeader(u.h, u.buf)
Fails(u) ==
    /\ u.state = "error" /\ garbled /\ Buffered(u.buf) /\ Current = Len(ends) + 1
    /\ read >= Start(Current) + 1

\* What HeaderUnpack does with a first byte that is known, b1 behind it.
AfterFirstByte(h1, b1) ==
    LET n == HeaderLen(version, h1.Type) - 1
    IN  IF IsUnknownPacket(h1.Type) THEN [state |-> "error", h |-> h1, buf |-> b1]
        ELSE IF Len(b1) < n THEN [state |-> "wait", h |-> h1, buf |-> b1]
        ELSE [state |-> "done", h |-> UnpackRest(version, h1, Take(b1, n)), buf |-> Drop(b1, n)]

\* Unpack with the first byte taken earlier: it waits or has the header.
LEMMA KnownFirstByte ==
    ASSUME WireInv, read \in Nat, read =< Len(wire), NEW b, Buffered(b),
           Current \in 1..Len(ends), read - Len(b) = Start(Current) + 1
    PROVE  LET u == AfterFirstByte(First(FrameOf(Current)), b)
           IN  Waits(u) \/ Done(u)
<1> DEFINE f == FrameOf(Current)
           hl == HeadLen(version, f)
           h1 == First(f)
           u == AfterFirstByte(h1, b)
           n == hl - 1
<1>1. /\ n \in Nat
      /\ Len(b) < n => read < Start(Current) + hl
      /\ ~(Len(b) < n) =>
            /\ UnpackRest(version, h1, Take(b, n)) = Header(version, f)
            /\ Buffered(Drop(b, n)) /\ read - Len(Drop(b, n)) = Start(Current) + hl
    BY RestOfHeader
<1>2. ~IsUnknownPacket(h1.Type)
    BY FrameFacts
<1>3. HeaderLen(version, h1.Type) - 1 = n
    BY DEF HeadLen
<1>4. u = IF Len(b) < n THEN [state |-> "wait", h |-> h1, buf |-> b]
          ELSE [state |-> "done", h |-> UnpackRest(version, h1, Take(b, n)), buf |-> Drop(b, n)]
    BY <1>2, <1>3 DEF AfterFirstByte
<1>5. Current =< Len(ends)
  <2>1. Len(ends) \in Nat
      BY DEF WireInv
  <2> QED
      BY <2>1
<1> HIDE DEF n, u, h1, hl
<1>6. CASE Len(b) < n
  <2>1. u = [state |-> "wait", h |-> h1, buf |-> b]
      BY <1>4, <1>6
  <2>2. u.state = "wait" /\ u.h = h1 /\ u.buf = b
      BY <2>1
  <2>3. AfterFirst(u.h, u.buf)
      BY <1>5, <2>2 DEF AfterFirst, h1
  <2>4. Waits(u)
      BY <1>1, <1>5, <1>6, <2>2, <2>3 DEF Waits, hl
  <2> QED
      BY <2>4 DEF u, h1
<1>7. CASE ~(Len(b) < n)
  <2>1. u = [state |-> "done", h |-> Header(version, f), buf |-> Drop(b, n)]
      BY <1>1, <1>4, <1>7
  <2>2. u.state = "done" /\ u.h = Header(version, f) /\ u.buf = Drop(b, n)
      BY <2>1
  <2>3. AfterHeader(u.h, u.buf)
      BY <1>1, <1>5, <1>7, <2>2 DEF AfterHeader, hl
  <2>4. Done(u)
      BY <1>1, <1>7, <2>2, <2>3 DEF Done
  <2> QED
      BY <2>4 DEF u, h1
<1> QED
    BY <1>6, <1>7

\* What Unpack finds at the head of the buffer.
LEMMA HeaderRead ==
    ASSUME ReaderInvariant, pc = "unpack"
    PROVE  Waits(BufferedHeader) \/ Done(BufferedHeader) \/ Fails(BufferedHeader)
<1> DEFINE u == BufferedHeader
           k == Current
<1>1. /\ WireInv /\ read \in Nat /\ read =< Len(wire) /\ Buffered(buf)
      /\ got \in Seq({Expected(version, p) : p \in Packets(version)}) /\ Len(got) =< Len(ends)
      /\ AtStart(hdr, buf) \/ AfterFirst(hdr, buf) \/ AfterHeader(hdr, buf)
    BY DEF ReaderInvariant, ReadInv
<1>2. k \in Nat /\ k >= 1 /\ Len(ends) \in Nat /\ k =< Len(ends) + 1 /\ Len(wire) \in Nat
  <2>1. Len(got) \in Nat /\ Len(ends) \in Nat /\ Len(wire) \in Nat
      BY <1>1 DEF WireInv
  <2> QED
      BY <1>1, <2>1 DEF Current
<1> DEFINE o == Start(k)
<1>0. o \in Nat /\ o =< Len(wire)
  <2>1. k \in 1..(Len(ends) + 1)
      BY <1>2
  <2> QED
      BY <1>1, <2>1, StartFacts
<1>3. /\ buf \in Seq(Nat) /\ Len(buf) \in Nat /\ (buf = <<>> => Len(buf) = 0)
      /\ buf # <<>> => /\ Len(buf) >= 1 /\ buf[1] = wire[(read - Len(buf)) + 1]
                       /\ Head(buf) = buf[1] /\ Tail(buf) = Drop(buf, 1)
                       /\ Buffered(Tail(buf)) /\ Len(Tail(buf)) = Len(buf) - 1
  <2>1. /\ buf \in Seq(Nat) /\ Len(buf) \in Nat /\ (buf = <<>> => Len(buf) = 0)
        /\ buf # <<>> => /\ Len(buf) >= 1 /\ buf[1] = wire[(read - Len(buf)) + 1]
                         /\ Head(buf) = buf[1] /\ Tail(buf) = Drop(buf, 1)
        /\ \A n \in 0..Len(buf) : Buffered(Drop(buf, n)) /\ Len(Drop(buf, n)) = Len(buf) - n
      BY <1>1, BufferedFacts
  <2>2. Len(buf) >= 1 => 1 \in 0..Len(buf)
      BY <2>1
  <2> QED
      BY <2>1, <2>2
<1>4. CASE AfterHeader(hdr, buf)
  <2>1. hdr = Header(version, FrameOf(k))
      BY <1>4 DEF AfterHeader
  <2>2. hdr.IsUnpacked
      BY <2>1, HeaderFieldsDone
  <2>3. u = [state |-> "done", h |-> hdr, buf |-> buf]
      BY <2>2 DEF BufferedHeader
  <2> HIDE DEF u
  <2>4. Done(u)
      BY <1>1, <1>4, <2>3 DEF Done
  <2> QED
      BY <2>4 DEF u
<1>5. CASE AfterFirst(hdr, buf)
  <2>1. hdr = First(FrameOf(k)) /\ k =< Len(ends) /\ read - Len(buf) = o + 1
      BY <1>5 DEF AfterFirst
  <2>2. ~hdr.IsUnpacked /\ hdr.BeginUnpack
      BY <2>1, FirstFields
  <2>3. u = HeaderUnpack(version, hdr, buf)
      BY <2>2 DEF BufferedHeader
  <2>4. k \in 1..Len(ends)
      BY <1>2, <2>1
  <2>5. CASE buf = <<>>
    <3>1. u = [state |-> "wait", h |-> hdr, buf |-> buf]
        BY <2>3, <2>5 DEF HeaderUnpack
    <3>2. HeadLen(version, FrameOf(k)) \in Nat /\ HeadLen(version, FrameOf(k)) > 1
      <4> HIDE DEF k
      <4> QED
          BY <1>1, <2>4, FrameFacts
    <3> HIDE DEF u
    <3>3. read = o + 1
        BY <1>0, <1>1, <1>3, <2>1, <2>5
    <3> DEFINE hl == HeadLen(version, FrameOf(k))
    <3>4. read < o + hl
      <4>1. hl \in Nat /\ hl > 1
          BY <3>2
      <4> HIDE DEF hl, o
      <4> QED
          BY <1>0, <3>3, <4>1
    <3>5. Waits(u)
        BY <1>1, <1>5, <2>1, <3>1, <3>4 DEF Waits
    <3> QED
        BY <3>5 DEF u
  <2>6. CASE buf # <<>>
    <3>1. u = AfterFirstByte(hdr, buf)
        BY <2>2, <2>3, <2>6 DEF HeaderUnpack, AfterFirstByte
    <3>2. Waits(AfterFirstByte(hdr, buf)) \/ Done(AfterFirstByte(hdr, buf))
        BY <1>1, <2>1, <2>4, KnownFirstByte
    <3> QED
        BY <3>1, <3>2
  <2> QED
      BY <2>5, <2>6
<1>6. CASE AtStart(hdr, buf)
  <2>1. hdr = ZeroHeader /\ read - Len(buf) = o
      BY <1>6 DEF AtStart
  <2>2. ~hdr.IsUnpacked /\ ~hdr.BeginUnpack
      BY <2>1, FirstFields
  <2>3. u = HeaderUnpack(version, hdr, buf)
      BY <2>2 DEF BufferedHeader
  <2>4. CASE buf = <<>>
    <3>1. u = [state |-> "wait", h |-> hdr, buf |-> buf]
        BY <2>3, <2>4 DEF HeaderUnpack
    <3>2. read = o
        BY <1>0, <1>1, <1>3, <2>1, <2>4
    <3>3. k =< Len(ends) => read < o + HeadLen(version, FrameOf(k))
      <4> SUFFICES ASSUME k =< Len(ends) PROVE read < o + HeadLen(version, FrameOf(k))
          OBVIOUS
      <4>1. k \in 1..Len(ends)
          BY <1>2
      <4> DEFINE hl == HeadLen(version, FrameOf(k))
      <4>2. hl \in Nat /\ hl > 1
        <5> HIDE DEF k
        <5> QED
            BY <1>1, <4>1, FrameFacts
      <4> HIDE DEF hl, o
      <4>3. read < o + hl
          BY <1>0, <3>2, <4>2
      <4> QED
          BY <4>3 DEF hl
    <3> HIDE DEF u
    <3>4. Waits(u)
        BY <1>1, <1>6, <3>1, <3>2, <3>3 DEF Waits
    <3> QED
        BY <3>4 DEF u
  <2>5. CASE buf # <<>>
    <3> DEFINE h1 == UnpackFirst(hdr, buf[1])
               b1 == Tail(buf)
    <3>1. u = AfterFirstByte(h1, b1)
        BY <1>3, <2>2, <2>3, <2>5 DEF HeaderUnpack, AfterFirstByte
    <3>2. buf[1] = wire[o + 1] /\ Len(buf) >= 1 /\ Buffered(b1) /\ Len(b1) = Len(buf) - 1
        BY <1>3, <2>1, <2>5
    <3>3. read - Len(b1) = o + 1 /\ read >= o + 1
      <4> DEFINE lb == Len(buf)
                 l1 == Len(b1)
      <4>1. lb \in Nat /\ lb >= 1 /\ l1 = lb - 1 /\ read - lb = o
          BY <1>3, <2>1, <3>2
      <4> HIDE DEF lb, l1, o
      <4>2. read - l1 = o + 1 /\ read >= o + 1
          BY <1>0, <1>1, <4>1
      <4> QED
          BY <4>2 DEF l1
    <3>4. CASE k =< Len(ends)
      <4>1. k \in 1..Len(ends)
          BY <1>2, <3>4
      <4>2. FrameOf(k)[1] = wire[o + 1]
        <5> HIDE DEF k
        <5> QED
            BY <1>1, <4>1, FrameFacts
      <4>3. h1 = First(FrameOf(k))
          BY <2>1, <3>2, <4>2 DEF First
      <4> HIDE DEF h1, b1
      <4>4. Waits(AfterFirstByte(First(FrameOf(k)), b1)) \/ Done(AfterFirstByte(First(FrameOf(k)), b1))
          BY <1>1, <3>2, <3>3, <4>1, KnownFirstByte
      <4> QED
          BY <3>1, <4>3, <4>4
    <3>5. CASE ~(k =< Len(ends))
      <4>1. k = Len(ends) + 1
          BY <1>2, <3>5
      <4>2. Len(wire) > o
          BY <1>0, <1>1, <1>2, <3>3
      <4>3. garbled
        <5>1. ~garbled => Len(wire) = o
            BY <1>1, <4>1 DEF WireInv
        <5> QED
            BY <1>0, <1>2, <4>2, <5>1
      <4>4. IsUnknownPacket(wire[o + 1] % 16)
          BY <1>1, <4>1, <4>3 DEF WireInv
      <4>5. h1.Type = buf[1] % 16
          BY <2>1 DEF UnpackFirst, ZeroHeader
      <4>6. IsUnknownPacket(h1.Type)
          BY <3>2, <4>4, <4>5
      <4>7. u = [state |-> "error", h |-> h1, buf |-> b1]
          BY <3>1, <4>6 DEF AfterFirstByte
      <4> HIDE DEF u, h1, b1
      <4>8. Fails(u)
          BY <3>2, <3>3, <4>1, <4>3, <4>7 DEF Fails
      <4> QED
          BY <4>8 DEF u
    <3> QED
        BY <3>4, <3>5
  <2> QED
      BY <2>4, <2>5
<1> QED
    BY <1>1, <1>4, <1>5, <1>6

\* The wire grows: nothing that was on it moves.
LEMMA Longer ==
    ASSUME ReaderInvariant, NEW x \in Seq(Nat), wire' = wire \o x,
           ends' \in Seq(Nat), Len(ends) =< Len(ends'),
           \A i \in 1..Len(ends) : ends'[i] = ends[i],
           UNCHANGED <<version, read, buf, hdr, got>>
    PROVE  /\ wire' \in Seq(Nat) /\ Len(wire') = Len(wire) + Len(x)
           /\ \A i \in 1..Len(x) : wire'[Len(wire) + i] = x[i]
           /\ PieceAt(wire', Len(wire), x)
           /\ \A i \in 1..(Len(ends) + 1) : Start(i)' = Start(i)
           /\ \A i \in 1..Len(ends) : FrameOf(i)' = FrameOf(i)
           /\ Buffered(buf)' /\ Current' = Current
           /\ AtStart(hdr, buf) => AtStart(hdr, buf)'
           /\ AfterFirst(hdr, buf) => AfterFirst(hdr, buf)'
           /\ AfterHeader(hdr, buf) => AfterHeader(hdr, buf)'
<1>1. /\ WireInv /\ wire \in Seq(Nat) /\ ends \in Seq(Nat) /\ Len(ends) \in Nat /\ Len(wire) \in Nat
      /\ read \in Nat /\ read =< Len(wire) /\ Buffered(buf)
      /\ got \in Seq({Expected(version, p) : p \in Packets(version)}) /\ Len(got) =< Len(ends)
    BY DEF ReaderInvariant, ReadInv, WireInv
<1>2. /\ wire' \in Seq(Nat) /\ Len(wire') = Len(wire) + Len(x)
      /\ \A i \in 1..Len(wire) : wire'[i] = wire[i]
      /\ \A i \in 1..Len(x) : wire'[Len(wire) + i] = x[i]
      /\ PieceAt(wire', Len(wire), x)
      /\ \A o \in Nat, t \in Seq(Nat) : PieceAt(wire, o, t) => PieceAt(wire', o, t)
  <2> DEFINE w == wire \o x
  <2>1. /\ w \in Seq(Nat) /\ Len(w) = Len(wire) + Len(x)
        /\ \A i \in 1..Len(wire) : w[i] = wire[i]
        /\ \A i \in 1..Len(x) : w[Len(wire) + i] = x[i]
      BY <1>1, ConcatFacts
  <2>2. /\ PieceAt(w, Len(wire), x)
        /\ \A o \in Nat, t \in Seq(Nat) : PieceAt(wire, o, t) => PieceAt(w, o, t)
      BY <1>1, Join
  <2> HIDE DEF w
  <2>3. wire' = w
      BY DEF w
  <2> QED
      BY <2>1, <2>2, <2>3
<1>3. ASSUME NEW i \in 1..(Len(ends) + 1) PROVE Start(i)' = Start(i)
  <2>1. CASE i = 1
      BY <2>1 DEF Start
  <2>2. CASE i # 1
    <3>1. i - 1 \in 1..Len(ends)
        BY <1>1, <2>2
    <3> QED
        BY <2>2, <3>1 DEF Start
  <2> QED
      BY <2>1, <2>2
<1>4. ASSUME NEW i \in 1..Len(ends) PROVE SubSeq(wire', Start(i) + 1, ends[i]) = FrameOf(i)
  <2> DEFINE f == FrameOf(i)
             o == Start(i)
  <2>1. f \in Seq(Nat) /\ PieceAt(wire, o, f) /\ o \in Nat /\ o + Len(f) = ends[i]
      BY <1>1, FrameFacts
  <2> HIDE DEF f, o
  <2>2. PieceAt(wire', o, f)
      BY <1>2, <2>1
  <2>3. SubSeq(wire', o + 1, o + Len(f)) = f
      BY <1>2, <2>1, <2>2, PieceIs
  <2> QED
      BY <2>1, <2>3 DEF f, o
<1>12. ASSUME NEW i \in 1..Len(ends) PROVE FrameOf(i)' = FrameOf(i)
  <2>1. i \in 1..(Len(ends) + 1)
      BY <1>1
  <2>2. Start(i)' = Start(i) /\ ends'[i] = ends[i]
      BY <1>3, <2>1
  <2>3. FrameOf(i)' = SubSeq(wire', Start(i)' + 1, ends'[i])
      BY DEF FrameOf
  <2> QED
      BY <1>4, <2>2, <2>3
<1>5. Buffered(buf)'
  <2>1. /\ buf \in Seq(Nat) /\ Len(buf) \in Nat /\ Len(buf) =< read
        /\ \A i \in 1..Len(buf) : buf[i] = wire[(read - Len(buf)) + i]
      BY <1>1 DEF Buffered
  <2>2. ASSUME NEW i \in 1..Len(buf) PROVE buf[i] = wire'[(read - Len(buf)) + i]
    <3>1. (read - Len(buf)) + i \in 1..Len(wire)
        BY <1>1, <2>1, SMTT(30)
    <3> QED
        BY <1>2, <2>1, <3>1
  <2> QED
      BY <2>1, <2>2 DEF Buffered
<1>6. Current' = Current /\ Current \in 1..(Len(ends) + 1)
  <2>1. Len(got) \in Nat
      BY <1>1
  <2> QED
      BY <1>1, <2>1 DEF Current
<1>7. Start(Current)' = Start(Current)
  <2>1. Start(Current)' = IF Current = 1 THEN 0 ELSE ends'[Current - 1]
      BY <1>6 DEF Start
  <2>2. Current # 1 => Current - 1 \in 1..Len(ends)
      BY <1>1, <1>6
  <2> QED
      BY <2>1, <2>2 DEF Start
<1>8. Current =< Len(ends) => FrameOf(Current)' = FrameOf(Current) /\ Current =< Len(ends')
  <2> SUFFICES ASSUME Current =< Len(ends)
               PROVE  FrameOf(Current)' = FrameOf(Current) /\ Current =< Len(ends')
      OBVIOUS
  <2>1. Current \in 1..Len(ends) /\ Len(ends') \in Nat
      BY <1>1, <1>6
  <2>2. FrameOf(Current)' = SubSeq(wire', Start(Current)' + 1, ends'[Current'])
      BY DEF FrameOf
  <2>3. ends'[Current] = ends[Current]
      BY <2>1
  <2>4. SubSeq(wire', Start(Current) + 1, ends[Current]) = FrameOf(Current)
      BY <1>4, <2>1
  <2>5. FrameOf(Current)' = FrameOf(Current)
    <3>1. SubSeq(wire', Start(Current)' + 1, ends'[Current'])
            = SubSeq(wire', Start(Current) + 1, ends[Current])
        BY <1>6, <1>7, <2>3
    <3> QED
        BY <2>2, <2>4, <3>1
  <2>6. Current =< Len(ends')
    <3> DEFINE m == Len(ends')
    <3>1. m \in Nat /\ Len(ends) =< m
        BY <2>1
    <3> HIDE DEF m
    <3>2. Current \in Nat /\ Current =< m
        BY <1>1, <2>1, <3>1
    <3> QED
        BY <3>2 DEF m
  <2> QED
      BY <2>5, <2>6
<1>9. AtStart(hdr, buf) => AtStart(hdr, buf)'
    BY <1>6, <1>7 DEF AtStart
<1>10. AfterFirst(hdr, buf) => AfterFirst(hdr, buf)'
    BY <1>6, <1>7, <1>8 DEF AfterFirst
<1>11. AfterHeader(hdr, buf) => AfterHeader(hdr, buf)'
    BY <1>6, <1>7, <1>8 DEF AfterHeader
<1> QED
    BY <1>2, <1>3, <1>5, <1>6, <1>9, <1>10, <1>11, <1>12

\* Another frame behind the others changes none of them.
LEMMA SendInvariant ==
    ASSUME ReaderInvariant, NEW p \in Packets(version), Send(p)
    PROVE  ReaderInvariant'
<1>1. /\ WireInv /\ ReadInv /\ version \in {1, 2} /\ wire \in Seq(Nat) /\ ends \in Seq(Nat)
      /\ sent \in Seq(Packets(version)) /\ Len(sent) = Len(ends) /\ Len(ends) \in Nat
      /\ Len(wire) \in Nat
    BY DEF ReaderInvariant, WireInv
<1>2. Packable(version, p)
    BY <1>1, FrameAssumption
<1>3. PICK f : Pack(version, p, MinGzipSize) = {f} /\ GoodFrame(version, f, Expected(version, p))
    BY <1>1, <1>2, FrameAssumption, FrameRoundTrip DEF Expected
<1>4. /\ wire' = wire \o f /\ ends' = Append(ends, Len(wire) + Len(f)) /\ sent' = Append(sent, p)
      /\ ~garbled /\ UNCHANGED <<version, garbled, read, buf, hdr, pc, got>>
    BY <1>3 DEF Send
<1>5. f \in Seq(Nat) /\ Len(f) \in Nat /\ Len(f) > 0
  <2>1. /\ f \in Seq(Nat) /\ HeadLen(version, f) \in Nat \ {0} /\ Need(Header(version, f)) \in Nat
        /\ Len(f) = HeadLen(version, f) + Need(Header(version, f))
      BY <1>3 DEF GoodFrame
  <2> QED
      BY <2>1
<1> DEFINE m == Len(ends) + 1
           e == Len(wire) + Len(f)
<1>6. /\ ends' \in Seq(Nat) /\ Len(ends') = m /\ ends'[m] = e /\ e \in Nat /\ Len(wire) < e
      /\ \A i \in 1..Len(ends) : ends'[i] = ends[i]
      /\ Len(ends) =< Len(ends')
    BY <1>1, <1>4, <1>5
<1>7. /\ sent' \in Seq(Packets(version)) /\ Len(sent') = m /\ sent'[m] = p
      /\ \A i \in 1..Len(ends) : sent'[i] = sent[i]
    BY <1>1, <1>4
<1>8. /\ wire' \in Seq(Nat) /\ Len(wire') = e
      /\ PieceAt(wire', Len(wire), f)
      /\ \A i \in 1..m : Start(i)' = Start(i)
      /\ \A i \in 1..Len(ends) : FrameOf(i)' = FrameOf(i)
      /\ Buffered(buf)' /\ Current' = Current
      /\ AtStart(hdr, buf) => AtStart(hdr, buf)'
      /\ AfterFirst(hdr, buf) => AfterFirst(hdr, buf)'
      /\ AfterHeader(hdr, buf) => AfterHeader(hdr, buf)'
    BY <1>1, <1>4, <1>5, <1>6, Longer
<1>9. /\ Len(wire) = Start(m) /\ m \in Nat /\ m = Len(ends) + 1
      /\ \A i \in 1..m : i \in 1..Len(ends) \/ i = m
  <2>1. m \in Nat /\ \A i \in 1..m : i \in 1..Len(ends) \/ i = m
      BY <1>1
  <2>2. Len(wire) = Start(m)
      BY <1>1, <1>4 DEF WireInv
  <2> QED
      BY <2>1, <2>2
<1>10. /\ \A i, j \in 1..Len(ends) : i < j => ends[i] < ends[j]
       /\ \A i \in 1..Len(ends) :
             /\ 0 < ends[i] /\ ends[i] =< Len(wire)
             /\ GoodFrame(version, FrameOf(i), Expected(version, sent[i]))
    BY <1>1 DEF WireInv
<1>11. \A i \in 1..Len(ends) : ends[i] \in Nat
    BY <1>1
<1>12. Current =< Len(ends) \/ Current = m
  <2>1. Len(got) \in Nat /\ Len(got) =< Len(ends)
      BY <1>1 DEF ReadInv
  <2> QED
      BY <1>1, <2>1 DEF Current
<1> HIDE DEF m, e
<1>13. ASSUME NEW i \in 1..m, NEW j \in 1..m, i < j PROVE ends'[i] < ends'[j]
  <2>1. i \in 1..Len(ends)
      BY <1>1, <1>9, <1>13
  <2>2. CASE j \in 1..Len(ends)
      BY <1>6, <1>10, <1>13, <2>1, <2>2
  <2>3. CASE j = m
    <3>1. ends'[i] = ends[i] /\ ends'[j] = e /\ ends[i] \in Nat /\ ends[i] =< Len(wire)
        BY <1>6, <1>10, <1>11, <2>1, <2>3
    <3> QED
        BY <1>1, <1>6, <3>1
  <2> QED
      BY <1>9, <2>2, <2>3
<1>14. ASSUME NEW i \in 1..m
       PROVE  /\ 0 < ends'[i] /\ ends'[i] =< Len(wire')
              /\ GoodFrame(version, FrameOf(i)', Expected(version, sent'[i]))
  <2>1. CASE i \in 1..Len(ends)
    <3>1. ends'[i] = ends[i] /\ FrameOf(i)' = FrameOf(i) /\ sent'[i] = sent[i] /\ ends[i] \in Nat
        BY <1>6, <1>7, <1>8, <1>11, <2>1
    <3>2. 0 < ends[i] /\ ends[i] =< Len(wire)
        BY <1>10, <2>1
    <3>3. ends[i] =< e
        BY <1>1, <1>6, <3>1, <3>2
    <3> QED
        BY <1>8, <1>10, <2>1, <3>1, <3>2, <3>3
  <2>2. CASE i = m
    <3>1. Start(i)' = Len(wire)
        BY <1>8, <1>9, <2>2
    <3>2. FrameOf(i)' = SubSeq(wire', Len(wire) + 1, e)
        BY <1>6, <2>2, <3>1 DEF FrameOf
    <3>3. FrameOf(i)' = f
        BY <1>1, <1>5, <1>8, <3>2, PieceIs DEF e
    <3>4. 0 < ends'[i] /\ ends'[i] =< Len(wire')
        BY <1>1, <1>6, <1>8, <2>2
    <3> QED
        BY <1>3, <1>7, <2>2, <3>3, <3>4
  <2> QED
      BY <1>9, <2>1, <2>2
<1>15. Start(Len(ends) + 1)' = e
  <2>1. Start(Len(ends) + 1)' = IF m + 1 = 1 THEN 0 ELSE ends'[(m + 1) - 1]
      BY <1>6 DEF Start
  <2>2. m + 1 # 1 /\ (m + 1) - 1 = m
      BY <1>1, <1>9
  <2> QED
      BY <1>6, <2>1, <2>2
<1>16. WireInv'
  <2>1. version' = version /\ garbled' = garbled /\ garbled' = FALSE
      BY <1>1, <1>4 DEF WireInv
  <2> QED
      BY <1>1, <1>6, <1>7, <1>8, <1>13, <1>14, <1>15, <2>1 DEF WireInv
<1>17. ReadInv'
  <2>1. /\ read \in Nat /\ read =< Len(wire)
        /\ got \in Seq({Expected(version, q) : q \in Packets(version)}) /\ Len(got) =< Len(ends)
        /\ \A i \in 1..Len(got) : got[i] = Expected(version, sent[i])
        /\ pc \in {"read", "unpack", "off"}
        /\ pc # "off" => AtStart(hdr, buf) \/ AfterFirst(hdr, buf) \/ AfterHeader(hdr, buf)
        /\ pc = "read" => IF Current =< Len(ends) THEN read < ends[Current] ELSE read = Start(Current)
        /\ pc # "off"
      BY <1>1, <1>4 DEF ReadInv
  <2>2. read =< e /\ Len(got) \in Nat /\ Len(got) =< m
      BY <1>1, <1>6, <1>9, <2>1
  <2>3. \A i \in 1..Len(got) : got[i] = Expected(version, sent'[i])
    <3>1. \A i \in 1..Len(got) : i \in 1..Len(ends)
        BY <1>1, <2>1, <2>2
    <3> QED
        BY <1>7, <2>1, <3>1
  <2>4. pc = "read" => Current =< m /\ read < ends'[Current]
    <3>1. CASE Current =< Len(ends)
      <4>1. Current \in 1..Len(ends)
          BY <1>1, <2>2, <3>1 DEF Current
      <4> QED
          BY <1>1, <1>6, <1>9, <2>1, <3>1, <4>1
    <3>2. CASE Current = m
      <4>1. ~(m =< Len(ends)) /\ m =< m
          BY <1>1, <1>9
      <4>2. pc = "read" => read = Len(wire)
          BY <1>9, <2>1, <3>2, <4>1
      <4> QED
          BY <1>6, <3>2, <4>1, <4>2
    <3> QED
        BY <1>12, <3>1, <3>2
  <2>5. pc' # "off" => AtStart(hdr, buf)' \/ AfterFirst(hdr, buf)' \/ AfterHeader(hdr, buf)'
      BY <1>4, <1>8, <2>1
  <2>6. pc' = "read" => IF Current' =< Len(ends') THEN read' < ends'[Current'] ELSE read' = Start(Current)'
      BY <1>4, <1>6, <1>8, <2>4
  <2>7. pc' # "off" /\ pc' \in {"read", "unpack", "off"}
      BY <1>4, <2>1
  <2>8. /\ read' \in Nat /\ read' =< Len(wire') /\ Buffered(buf)' /\ Len(got') =< Len(ends')
        /\ got' \in Seq({Expected(version', q) : q \in Packets(version')})
        /\ \A i \in 1..Len(got') : got'[i] = Expected(version', sent'[i])
      BY <1>4, <1>6, <1>8, <2>1, <2>2, <2>3
  <2> QED
      BY <2>5, <2>6, <2>7, <2>8 DEF ReadInv
<1> QED
    BY <1>16, <1>17 DEF ReaderInvariant

\* Garbage comes behind the last frame.
LEMMA GarbageInvariant ==
    ASSUME ReaderInvariant, NEW g \in Garbage, SendGarbage(g)
    PROVE  ReaderInvariant'
<1>1. /\ WireInv /\ ReadInv /\ wire \in Seq(Nat) /\ ends \in Seq(Nat)
      /\ Len(ends) \in Nat /\ Len(wire) \in Nat
    BY DEF ReaderInvariant, WireInv
<1>2. /\ wire' = wire \o g /\ garbled' = TRUE /\ ~garbled
      /\ UNCHANGED <<version, sent, ends, read, buf, hdr, pc, got>>
    BY DEF SendGarbage
<1>3. g \in Seq(Nat) /\ Len(g) \in Nat /\ Len(g) > 0 /\ IsUnknownPacket(g[1] % 16)
  <2>1. g \in Seq(Nat) /\ g # <<>> /\ IsUnknownPacket(g[1] % 16)
      BY FrameAssumption
  <2> QED
      BY <2>1
<1>4. ends' \in Seq(Nat) /\ Len(ends) =< Len(ends') /\ \A i \in 1..Len(ends) : ends'[i] = ends[i]
    BY <1>1, <1>2
<1>5. /\ wire' \in Seq(Nat) /\ Len(wire') = Len(wire) + Len(g)
      /\ \A i \in 1..Len(g) : wire'[Len(wire) + i] = g[i]
      /\ \A i \in 1..(Len(ends) + 1) : Start(i)' = Start(i)
      /\ \A i \in 1..Len(ends) : FrameOf(i)' = FrameOf(i)
      /\ Buffered(buf)' /\ Current' = Current
      /\ AtStart(hdr, buf) => AtStart(hdr, buf)'
      /\ AfterFirst(hdr, buf) => AfterFirst(hdr, buf)'
      /\ AfterHeader(hdr, buf) => AfterHeader(hdr, buf)'
    BY <1>2, <1>3, <1>4, Longer
<1>6. Start(Len(ends) + 1) = Len(wire) /\ Start(Len(ends) + 1)' = Len(wire)
  <2>1. Start(Len(ends) + 1) = Len(wire)
      BY <1>1, <1>2 DEF WireInv
  <2>2. Start(Len(ends) + 1)' = Start(Len(ends) + 1)
      BY <1>2 DEF Start
  <2> QED
      BY <2>1, <2>2
<1>7. WireInv'
  <2>1. /\ version \in {1, 2} /\ sent \in Seq(Packets(version)) /\ Len(ends) = Len(sent)
        /\ \A i, j \in 1..Len(ends) : i < j => ends[i] < ends[j]
        /\ \A i \in 1..Len(ends) :
              /\ 0 < ends[i] /\ ends[i] =< Len(wire)
              /\ GoodFrame(version, FrameOf(i), Expected(version, sent[i]))
      BY <1>1 DEF WireInv
  <2>2. ASSUME NEW i \in 1..Len(ends)
        PROVE  /\ 0 < ends[i] /\ ends[i] =< Len(wire')
               /\ GoodFrame(version, FrameOf(i)', Expected(version, sent[i]))
    <3>1. ends[i] \in Nat /\ ends[i] =< Len(wire) /\ 0 < ends[i]
        BY <1>1, <2>1
    <3>2. ends[i] =< Len(wire')
        BY <1>1, <1>3, <1>5, <3>1, SMTT(30)
    <3> QED
        BY <1>5, <2>1, <3>1, <3>2
  <2>3. Len(wire) < Len(wire') /\ IsUnknownPacket(wire'[Len(wire) + 1] % 16)
    <3>1. Len(wire) < Len(wire')
        BY <1>1, <1>3, <1>5
    <3>2. 1 \in 1..Len(g)
        BY <1>3
    <3>3. wire'[Len(wire) + 1] = g[1]
        BY <1>5, <3>2
    <3> QED
        BY <1>3, <3>1, <3>3
  <2>4. /\ garbled' => Start(Len(ends) + 1)' < Len(wire')
        /\ garbled' => IsUnknownPacket(wire'[Start(Len(ends) + 1)' + 1] % 16)
      BY <1>6, <2>3
  <2>5. /\ version' = version /\ sent' = sent /\ ends' = ends /\ garbled' = TRUE
        /\ wire' \in Seq(Nat) /\ ends \in Seq(Nat)
      BY <1>1, <1>2, <1>5
  <2> QED
      BY <2>1, <2>2, <2>4, <2>5 DEF WireInv
<1>8. ReadInv'
  <2>1. /\ read \in Nat /\ read =< Len(wire)
        /\ got \in Seq({Expected(version, q) : q \in Packets(version)}) /\ Len(got) =< Len(ends)
        /\ \A i \in 1..Len(got) : got[i] = Expected(version, sent[i])
        /\ pc \in {"read", "unpack", "off"}
        /\ pc # "off" => AtStart(hdr, buf) \/ AfterFirst(hdr, buf) \/ AfterHeader(hdr, buf)
        /\ pc = "read" => IF Current =< Len(ends) THEN read < ends[Current] ELSE read = Start(Current)
        /\ pc # "off"
      BY <1>1, <1>2 DEF ReadInv
  <2>2. read =< Len(wire')
      BY <1>1, <1>3, <1>5, <2>1
  <2>3. Start(Current)' = Start(Current)
    <3>1. Start(Current)' = IF Current' = 1 THEN 0 ELSE ends'[Current' - 1]
        BY DEF Start
    <3> QED
        BY <1>2, <1>5, <3>1 DEF Start
  <2>4. pc' # "off" => AtStart(hdr, buf)' \/ AfterFirst(hdr, buf)' \/ AfterHeader(hdr, buf)'
      BY <1>2, <1>5, <2>1
  <2>5. pc' = "read" => IF Current' =< Len(ends') THEN read' < ends'[Current'] ELSE read' = Start(Current)'
      BY <1>2, <1>5, <2>1, <2>3
  <2>6. /\ read' \in Nat /\ read' =< Len(wire') /\ Buffered(buf)' /\ Len(got') =< Len(ends')
        /\ got' \in Seq({Expected(version', q) : q \in Packets(version')})
        /\ \A i \in 1..Len(got') : got'[i] = Expected(version', sent'[i])
        /\ pc' \in {"read", "unpack", "off"} /\ pc' # "off"
      BY <1>2, <1>5, <2>1, <2>2
  <2> QED
      BY <2>4, <2>5, <2>6 DEF ReadInv
<1> QED
    BY <1>7, <1>8 DEF ReaderInvariant

\* Actions of the reader leave the wire alone.
LEMMA WireStays ==
    ASSUME WireInv, UNCHANGED peerVars
    PROVE  WireInv'
BY DEF WireInv, peerVars, Start, FrameOf

\* What is read goes behind what is in the buffer.
LEMMA ReadInvariant ==
    ASSUME ReaderInvariant, Read
    PROVE  ReaderInvariant'
<1>1. /\ WireInv /\ ReadInv /\ wire \in Seq(Nat) /\ Len(wire) \in Nat
      /\ read \in Nat /\ read =< Len(wire) /\ Buffered(buf)
    BY DEF ReaderInvariant, WireInv, ReadInv
<1>2. PICK n \in 1..(Len(wire) - read) :
         buf' = buf \o SubSeq(wire, read + 1, read + n) /\ read' = read + n
    BY DEF Read
<1>3. pc = "read" /\ pc' = "unpack" /\ hdr' = hdr /\ got' = got
      /\ version' = version /\ sent' = sent /\ wire' = wire /\ ends' = ends /\ garbled' = garbled
    BY DEF Read, peerVars
<1>4. n \in Nat /\ read + n =< Len(wire)
    BY <1>1
<1> DEFINE x == SubSeq(wire, read + 1, read + n)
<1>5. x \in Seq(Nat) /\ Len(x) = n /\ \A i \in 1..n : x[i] = wire[read + i]
    BY <1>1, <1>4, SubSeqFacts
<1>6. /\ buf \in Seq(Nat) /\ Len(buf) \in Nat /\ Len(buf) =< read
      /\ \A i \in 1..Len(buf) : buf[i] = wire[(read - Len(buf)) + i]
    BY <1>1 DEF Buffered
<1> HIDE DEF x
<1>7. /\ buf' \in Seq(Nat) /\ Len(buf') = Len(buf) + n
      /\ \A i \in 1..Len(buf) : buf'[i] = buf[i]
      /\ \A i \in 1..n : buf'[Len(buf) + i] = x[i]
  <2> DEFINE b == buf \o x
  <2>1. buf \in Seq(Nat) /\ x \in Seq(Nat)
      BY <1>5, <1>6
  <2>2. /\ b \in Seq(Nat) /\ Len(b) = Len(buf) + Len(x)
        /\ \A i \in 1..Len(buf) : b[i] = buf[i]
        /\ \A i \in 1..Len(x) : b[Len(buf) + i] = x[i]
      BY <2>1, ConcatFacts
  <2>3. buf' = b
      BY <1>2 DEF x
  <2> HIDE DEF b
  <2> QED
      BY <1>5, <2>2, <2>3
<1>8. read' - Len(buf') = read - Len(buf) /\ Len(buf') =< read' /\ Len(buf') \in Nat
  <2> DEFINE l == Len(buf)
  <2>1. l \in Nat /\ l =< read /\ Len(buf') = l + n /\ read' = read + n
      BY <1>2, <1>6, <1>7
  <2> HIDE DEF l
  <2>2. (read + n) - (l + n) = read - l /\ l + n =< read + n /\ l + n \in Nat
      BY <1>1, <1>4, <2>1
  <2> QED
      BY <2>1, <2>2 DEF l
<1>9. Buffered(buf)'
  <2>1. ASSUME NEW i \in 1..Len(buf') PROVE buf'[i] = wire[(read - Len(buf)) + i]
    <3>1. CASE i =< Len(buf)
      <4>1. i \in 1..Len(buf)
          BY <1>6, <3>1
      <4> QED
          BY <1>6, <1>7, <4>1
    <3>2. CASE ~(i =< Len(buf))
      <4> DEFINE j == i - Len(buf)
      <4>1. j \in 1..n /\ i = Len(buf) + j /\ (read - Len(buf)) + i = read + j
          BY <1>1, <1>4, <1>6, <1>7, <3>2
      <4> HIDE DEF j
      <4> QED
          BY <1>5, <1>7, <4>1
    <3> QED
        BY <3>1, <3>2
  <2> QED
      BY <1>3, <1>7, <1>8, <2>1 DEF Buffered
<1>10. WireInv'
    BY <1>1, <1>3, WireStays DEF peerVars
<1>11. /\ AtStart(hdr, buf) => AtStart(hdr, buf)'
       /\ AfterFirst(hdr, buf) => AfterFirst(hdr, buf)'
       /\ AfterHeader(hdr, buf) => AfterHeader(hdr, buf)'
    BY <1>3, <1>8 DEF AtStart, AfterFirst, AfterHeader, Current, Start, FrameOf
<1>12. ReadInv'
  <2>1. /\ got \in Seq({Expected(version, q) : q \in Packets(version)}) /\ Len(got) =< Len(ends)
        /\ \A i \in 1..Len(got) : got[i] = Expected(version, sent[i])
        /\ AtStart(hdr, buf) \/ AfterFirst(hdr, buf) \/ AfterHeader(hdr, buf)
      BY <1>1, <1>3 DEF ReadInv
  <2>2. read' \in Nat /\ read' =< Len(wire')
      BY <1>1, <1>2, <1>3, <1>4
  <2>3. /\ Len(got') =< Len(ends')
        /\ got' \in Seq({Expected(version', q) : q \in Packets(version')})
        /\ \A i \in 1..Len(got') : got'[i] = Expected(version', sent'[i])
        /\ pc' \in {"read", "unpack", "off"} /\ pc' # "off" /\ pc' # "read"
      BY <1>3, <2>1
  <2>4. AtStart(hdr, buf)' \/ AfterFirst(hdr, buf)' \/ AfterHeader(hdr, buf)'
      BY <1>11, <2>1
  <2> QED
      BY <1>9, <2>2, <2>3, <2>4 DEF ReadInv
<1> QED
    BY <1>10, <1>12 DEF ReaderInvariant

\* Unpack, case by case.
LEMMA UnpackInvariant ==
    ASSUME ReaderInvariant, Unpack
    PROVE  ReaderInvariant'
<1> DEFINE u == BufferedHeader
           n == Need(u.h)
           packet == Assemble(version, u.h, Take(u.buf, n))
           waits == u.state = "wait" \/ (u.state = "done" /\ Len(u.buf) < n)
<1>1. /\ pc = "unpack" /\ UNCHANGED peerVars /\ read' = read
      /\ \/ waits /\ pc' = "read" /\ hdr' = u.h /\ buf' = u.buf /\ UNCHANGED got
         \/ /\ ~waits /\ (u.state = "error" \/ packet = {})
            /\ pc' = "off" /\ hdr' = ZeroHeader /\ buf' = u.buf /\ UNCHANGED got
         \/ /\ ~waits /\ u.state = "done"
            /\ \E p \in packet : got' = Append(got, p)
            /\ hdr' = ZeroHeader /\ buf' = Drop(u.buf, n) /\ UNCHANGED pc
    BY DEF Unpack
<1>2. Waits(u) \/ Done(u) \/ Fails(u)
    BY <1>1, HeaderRead
<1>3. /\ WireInv /\ read \in Nat /\ read =< Len(wire) /\ Len(ends) \in Nat
      /\ got \in Seq({Expected(version, p) : p \in Packets(version)}) /\ Len(got) =< Len(ends)
      /\ \A i \in 1..Len(got) : got[i] = Expected(version, sent[i])
      /\ Len(sent) = Len(ends) /\ sent \in Seq(Packets(version)) /\ Len(got) \in Nat
  <2>1. /\ WireInv /\ read \in Nat /\ read =< Len(wire)
        /\ got \in Seq({Expected(version, p) : p \in Packets(version)}) /\ Len(got) =< Len(ends)
        /\ \A i \in 1..Len(got) : got[i] = Expected(version, sent[i])
      BY DEF ReaderInvariant, ReadInv
  <2>2. /\ Len(sent) = Len(ends) /\ sent \in Seq(Packets(version)) /\ Len(ends) \in Nat
      BY <2>1 DEF WireInv
  <2> QED
      BY <2>1, <2>2
<1>4. /\ version' = version /\ sent' = sent /\ wire' = wire /\ ends' = ends /\ garbled' = garbled
      /\ read' = read
    BY <1>1 DEF peerVars
<1>5. WireInv'
    BY <1>1, <1>3, WireStays
<1>6. /\ Current \in Nat /\ Current >= 1 /\ Current = Len(got) + 1 /\ Current =< Len(ends) + 1
    BY <1>3 DEF Current
<1> HIDE DEF u, n, packet
\* The packets passed on so far stay as they are.
<1>7. ASSUME got' = got
      PROVE  /\ read' \in Nat /\ read' =< Len(wire') /\ Len(got') =< Len(ends')
             /\ got' \in Seq({Expected(version', q) : q \in Packets(version')})
             /\ \A i \in 1..Len(got') : got'[i] = Expected(version', sent'[i])
             /\ Current' = Current /\ Start(Current)' = Start(Current)
    BY <1>3, <1>4, <1>7 DEF Current, Start
<1>8. CASE Waits(u)
  <2>1. /\ u.state = "wait" /\ Buffered(u.buf) /\ (AtStart(u.h, u.buf) \/ AfterFirst(u.h, u.buf))
        /\ IF Current =< Len(ends)
           THEN read < Start(Current) + HeadLen(version, FrameOf(Current))
           ELSE read = Start(Current)
      BY <1>8 DEF Waits
  <2>2. pc' = "read" /\ hdr' = u.h /\ buf' = u.buf /\ got' = got
      BY <1>1, <2>1
  <2>3. Buffered(buf)'
      BY <1>4, <2>1, <2>2 DEF Buffered
  <2>4. AtStart(hdr, buf)' \/ AfterFirst(hdr, buf)'
      BY <1>4, <2>1, <2>2 DEF AtStart, AfterFirst, Current, Start, FrameOf
  <2>5. Current =< Len(ends) => read < ends[Current]
    <3> SUFFICES ASSUME Current =< Len(ends) PROVE read < ends[Current]
        OBVIOUS
    <3> DEFINE k == Current
    <3>1. k \in 1..Len(ends)
        BY <1>3, <1>6
    <3> HIDE DEF k
    <3> DEFINE f == FrameOf(k)
               hl == HeadLen(version, f)
               o == Start(k)
    <3>2. /\ o \in Nat /\ o + Len(f) = ends[k] /\ hl \in Nat /\ Need(Header(version, f)) \in Nat
          /\ Len(f) = hl + Need(Header(version, f))
        BY <1>3, <3>1, FrameFacts
    <3>3. read < o + hl
        BY <2>1 DEF k
    <3> HIDE DEF f, hl, o
    <3>4. read < ends[k]
        BY <1>3, <3>2, <3>3
    <3> QED
        BY <3>4 DEF k
  <2>6. IF Current' =< Len(ends') THEN read' < ends'[Current'] ELSE read' = Start(Current)'
      BY <1>4, <1>7, <2>1, <2>2, <2>5
  <2>7. ReadInv'
      BY <1>7, <2>2, <2>3, <2>4, <2>6 DEF ReadInv
  <2> QED
      BY <1>5, <2>7 DEF ReaderInvariant
<1>9. CASE Fails(u)
  <2>1. /\ u.state = "error" /\ garbled /\ Buffered(u.buf) /\ Current = Len(ends) + 1
        /\ read >= Start(Current) + 1
      BY <1>9 DEF Fails
  <2>2. pc' = "off" /\ buf' = u.buf /\ got' = got
      BY <1>1, <2>1
  <2>3. Buffered(buf)'
      BY <1>4, <2>1, <2>2 DEF Buffered
  <2>4. garbled' /\ Len(got') = Len(ends') /\ read' >= Start(Current)' + 1
    <3>1. Len(got) = Len(ends)
        BY <1>3, <1>6, <2>1
    <3> QED
        BY <1>4, <1>7, <2>1, <2>2, <3>1
  <2>5. ReadInv'
      BY <1>7, <2>2, <2>3, <2>4 DEF ReadInv
  <2> QED
      BY <1>5, <2>5 DEF ReaderInvariant
<1>10. CASE Done(u)
  <2>1. u.state = "done" /\ Buffered(u.buf) /\ AfterHeader(u.h, u.buf)
      BY <1>10 DEF Done
  <2> DEFINE k == Current
  <2>2. k \in 1..Len(ends)
      BY <1>3, <1>6, <2>1 DEF AfterHeader
  <2> DEFINE f == FrameOf(k)
             hl == HeadLen(version, f)
             o == Start(k)
             b == u.buf
  <2>3. u.h = Header(version, f) /\ read - Len(b) = o + hl
      BY <2>1 DEF AfterHeader
  <2>4. /\ o \in Nat /\ o + Len(f) = ends[k] /\ hl \in Nat /\ n \in Nat /\ Len(f) = hl + n
        /\ f \in Seq(Nat) /\ PieceAt(wire, o, f) /\ Start(k + 1) = ends[k] /\ ends[k] \in Nat
        /\ Assemble(version, u.h, Drop(f, hl)) = {Expected(version, sent[k])}
    <3> DEFINE h == Header(version, f)
    <3>1. /\ o \in Nat /\ o + Len(f) = ends[k] /\ hl \in Nat /\ Need(h) \in Nat
          /\ Len(f) = hl + Need(h)
          /\ f \in Seq(Nat) /\ PieceAt(wire, o, f) /\ Start(k + 1) = ends[k]
          /\ Assemble(version, h, Drop(f, hl)) = {Expected(version, sent[k])}
      <4> HIDE DEF k
      <4> QED
          BY <1>3, <2>2, FrameFacts
    <3>2. ends[k] \in Nat
        BY <1>3, <2>2 DEF WireInv
    <3>3. u.h = h /\ n = Need(h)
        BY <2>3 DEF n
    <3> HIDE DEF f, hl, o, h, k
    <3> QED
        BY <3>1, <3>2, <3>3
  <2>5. /\ b \in Seq(Nat) /\ Len(b) \in Nat /\ read - Len(b) \in Nat
        /\ PieceAt(wire, read - Len(b), b)
        /\ \A j \in 0..Len(b) : /\ Buffered(Drop(b, j)) /\ Len(Drop(b, j)) = Len(b) - j
                                /\ Drop(b, j) \in Seq(Nat)
      BY <1>3, <2>1, BufferedFacts
  <2>6. k = Current /\ k \in Nat /\ k =< Len(ends) /\ k >= 1 /\ k = Len(got) + 1
      BY <1>3, <1>6, <2>2
  <2> HIDE DEF k, f, hl, o, b
  <2>7. CASE Len(b) < n
    <3>1. pc' = "read" /\ hdr' = u.h /\ buf' = b /\ got' = got
        BY <1>1, <2>1, <2>7 DEF b
    <3>2. Buffered(buf)' /\ AfterHeader(hdr, buf)'
        BY <1>4, <2>1, <3>1 DEF b, Buffered, AfterHeader, Current, Start, FrameOf
    <3>3. read < ends[k]
      <4> DEFINE lb == Len(b)
      <4>1. lb \in Nat /\ lb < n /\ read - lb = o + hl
          BY <2>3, <2>5, <2>7
      <4> HIDE DEF lb
      <4> QED
          BY <1>3, <2>4, <4>1
    <3>4. IF Current' =< Len(ends') THEN read' < ends'[Current'] ELSE read' = Start(Current)'
        BY <1>4, <1>7, <2>6, <3>1, <3>3
    <3>5. ReadInv'
        BY <1>7, <3>1, <3>2, <3>4 DEF ReadInv
    <3> QED
        BY <1>5, <3>5 DEF ReaderInvariant
  <2>8. CASE ~(Len(b) < n)
    <3>1. ~waits /\ u.state # "error"
        BY <2>1, <2>8 DEF b
    <3>2. n =< Len(b) /\ n \in 0..Len(b) /\ hl + n =< Len(f)
        BY <2>4, <2>5, <2>8
    <3>3. Take(b, n) = Drop(f, hl)
      <4>1. Overlaps(wire, b, f, o, hl, n)
        <5>1. wire \in Seq(Nat) /\ PieceAt(wire, o + hl, b)
            BY <1>3, <2>3, <2>5 DEF WireInv
        <5> QED
            BY <2>4, <2>5, <3>2, <5>1 DEF Overlaps
      <4>2. Take(b, n) = SubSeq(f, hl + 1, hl + n)
          BY <4>1, Overlap
      <4> QED
          BY <2>4, <4>2 DEF Drop
    <3>4. packet = {Expected(version, sent[k])}
        BY <2>4, <3>3 DEF packet, b
    <3>5. /\ got' = Append(got, Expected(version, sent[k])) /\ hdr' = ZeroHeader
          /\ buf' = Drop(b, n) /\ pc' = "unpack"
        BY <1>1, <3>1, <3>4 DEF b
    <3>6. sent[k] \in Packets(version)
        BY <1>3, <2>2, <2>6
    <3> DEFINE x == Expected(version, sent[k])
               S == {Expected(version, p) : p \in Packets(version)}
    <3>7. x \in S /\ got \in Seq(S) /\ got' = Append(got, x)
        BY <1>3, <3>5, <3>6
    <3> HIDE DEF x, S
    <3>8. /\ got' \in Seq(S) /\ Len(got') = k /\ got'[k] = x
          /\ \A i \in 1..Len(got) : got'[i] = got[i]
        BY <1>3, <2>6, <3>7
    <3>9. ASSUME NEW i \in 1..k PROVE got'[i] = Expected(version, sent[i])
      <4>1. CASE i = k
          BY <3>8, <4>1 DEF x
      <4>2. CASE i # k
        <5>1. i \in 1..Len(got)
            BY <1>3, <2>6, <4>2
        <5> QED
            BY <1>3, <3>8, <5>1
      <4> QED
          BY <4>1, <4>2
    <3>10. Buffered(buf)'
      <4>1. Buffered(Drop(b, n))
          BY <2>5, <3>2
      <4> QED
          BY <1>4, <3>5, <4>1 DEF Buffered
    <3>11. Current' = k + 1
        BY <3>8 DEF Current
    <3>12. Start(Current)' = ends[k]
      <4>1. Start(Current)' = IF k + 1 = 1 THEN 0 ELSE ends[(k + 1) - 1]
          BY <1>4, <3>11 DEF Start
      <4>2. k + 1 # 1 /\ (k + 1) - 1 = k
          BY <2>6
      <4> QED
          BY <4>1, <4>2
    <3>13. read' - Len(buf') = ends[k]
      <4> DEFINE lb == Len(b)
                 ld == Len(buf')
      <4>1. lb \in Nat /\ ld = lb - n /\ read - lb = o + hl
          BY <2>3, <2>5, <3>2, <3>5
      <4> HIDE DEF lb, ld
      <4>2. read - ld = ends[k]
          BY <1>3, <2>4, <4>1
      <4> QED
          BY <1>4, <4>2 DEF ld
    <3>14. AtStart(hdr, buf)'
        BY <3>5, <3>12, <3>13 DEF AtStart
    <3>15. /\ read' \in Nat /\ read' =< Len(wire') /\ Len(got') =< Len(ends')
           /\ got' \in Seq({Expected(version', q) : q \in Packets(version')})
           /\ \A i \in 1..Len(got') : got'[i] = Expected(version', sent'[i])
        BY <1>3, <1>4, <2>6, <3>8, <3>9 DEF S
    <3>16. ReadInv'
        BY <3>5, <3>10, <3>14, <3>15 DEF ReadInv
    <3> QED
        BY <1>5, <3>16 DEF ReaderInvariant
  <2> QED
      BY <2>7, <2>8
<1> QED
    BY <1>2, <1>8, <1>9, <1>10

\* Every step preserves the invariant.
LEMMA NextInvariant ==
    ASSUME ReaderInvariant, [Next]_vars
    PROVE  ReaderInvariant'
<1>1. CASE \E p \in Packets(version) : Send(p)
    BY <1>1, SendInvariant
<1>2. CASE \E g \in Garbage : SendGarbage(g)
    BY <1>2, GarbageInvariant
<1>3. CASE Read
    BY <1>3, ReadInvariant
<1>4. CASE Unpack
    BY <1>4, UnpackInvariant
<1>5. CASE UNCHANGED vars
  <2>1. UNCHANGED <<version, sent, wire, ends, garbled, read, buf, hdr, pc, got>>
      BY <1>5 DEF vars, peerVars
  <2>2. WireInv' /\ ReadInv
      BY <2>1, WireStays DEF ReaderInvariant, peerVars
  <2>3. ReadInv'
      BY <2>1, <2>2 DEF ReadInv, Buffered, Current, AtStart, AfterFirst, AfterHeader, Start, FrameOf
  <2> QED
      BY <2>2, <2>3 DEF ReaderInvariant
<1> QED
    BY <1>1, <1>2, <1>3, <1>4, <1>5 DEF Next

\* Everything that was read is passed on, in the buffer or in the half-read header,
\* whatever Read delivers at a time: readPacket loses and repeats no byte.
THEOREM ReaderInvariantHolds == Spec => []ReaderInvariant
<1>1. Init => ReaderInvariant
    BY InitInvariant
<1>2. ReaderInvariant /\ [Next]_vars => ReaderInvariant'
    BY NextInvariant
<1> QED
    BY <1>1, <1>2, PTL DEF Spec

\* What the reader has when it waits for more does not depend on how the network cut
\* the stream: readPacket passed on exactly the packets that are there as a whole.
THEOREM ChunkingInvisibleHolds == Spec => []ChunkingInvisible
<1>1. ReaderInvariant => ChunkingInvisible
  <2> SUFFICES ASSUME ReaderInvariant, pc = "read"
               PROVE  /\ DOMAIN got = {i \in DOMAIN sent : ends[i] =< read}
                      /\ \A i \in DOMAIN got : got[i] = Expected(version, sent[i])
      BY DEF ChunkingInvisible
  <2>1. /\ WireInv /\ read \in Nat /\ read =< Len(wire) /\ Buffered(buf) /\ Len(got) =< Len(ends)
        /\ got \in Seq({Expected(version, p) : p \in Packets(version)})
        /\ \A i \in 1..Len(got) : got[i] = Expected(version, sent[i])
        /\ AtStart(hdr, buf) \/ AfterFirst(hdr, buf) \/ AfterHeader(hdr, buf)
        /\ IF Current =< Len(ends) THEN read < ends[Current] ELSE read = Start(Current)
      BY DEF ReaderInvariant, ReadInv
  <2>2. /\ DOMAIN sent = 1..Len(ends) /\ DOMAIN got = 1..Len(got) /\ Len(ends) \in Nat /\ Len(got) \in Nat
        /\ \A i, j \in 1..Len(ends) : i < j => ends[i] < ends[j]
        /\ \A i \in 1..Len(ends) : ends[i] \in Nat
    <3>1. /\ sent \in Seq(Packets(version)) /\ ends \in Seq(Nat) /\ Len(ends) = Len(sent)
          /\ \A i, j \in 1..Len(ends) : i < j => ends[i] < ends[j]
        BY <2>1 DEF WireInv
    <3> QED
        BY <2>1, <3>1
  <2>3. Current = Len(got) + 1 /\ Current \in 1..(Len(ends) + 1)
      BY <2>1, <2>2 DEF Current
  <2>4. read >= Start(Current) /\ Start(Current) \in Nat
    <3> DEFINE o == Start(Current)
               lb == Len(buf)
    <3>1. o \in Nat
        BY <2>1, <2>3, StartFacts
    <3>2. lb \in Nat
        BY <2>1 DEF Buffered
    <3>3. AfterHeader(hdr, buf) => HeadLen(version, FrameOf(Current)) \in Nat
      <4> SUFFICES ASSUME AfterHeader(hdr, buf) PROVE HeadLen(version, FrameOf(Current)) \in Nat
          OBVIOUS
      <4> DEFINE k == Current
      <4>1. k \in 1..Len(ends)
          BY <2>2, <2>3 DEF AfterHeader
      <4> HIDE DEF k
      <4>2. HeadLen(version, FrameOf(k)) \in Nat
          BY <2>1, <4>1, FrameFacts
      <4> QED
          BY <4>2 DEF k
    <3> DEFINE hl == HeadLen(version, FrameOf(Current))
    <3>4. read - lb = o \/ read - lb = o + 1 \/ (read - lb = o + hl /\ hl \in Nat)
        BY <2>1, <3>3 DEF AtStart, AfterFirst, AfterHeader
    <3> HIDE DEF o, lb, hl
    <3>5. read >= o
        BY <2>1, <3>1, <3>2, <3>4
    <3> QED
        BY <3>1, <3>5 DEF o
  <2>5. ASSUME NEW i \in 1..Len(got) PROVE i \in 1..Len(ends) /\ ends[i] =< read
    <3>1. i \in 1..Len(ends) /\ Len(got) \in 1..Len(ends)
        BY <2>1, <2>2
    <3> DEFINE k == Len(got)
    <3>2. Start(Current) = ends[k]
      <4>1. Current # 1 /\ Current - 1 = k
          BY <2>2, <2>3, <3>1
      <4> QED
          BY <4>1 DEF Start
    <3>3. ends[i] =< ends[k]
      <4>1. i < k \/ i = k
        <5>1. k \in Nat /\ i \in 1..k
            BY <2>2
        <5> HIDE DEF k
        <5> QED
            BY <5>1
      <4> HIDE DEF k
      <4>2. k \in 1..Len(ends)
          BY <3>1 DEF k
      <4> QED
          BY <2>2, <3>1, <4>1, <4>2
    <3>4. ends[i] \in Nat /\ ends[k] \in Nat
        BY <2>2, <3>1
    <3> HIDE DEF k
    <3> QED
        BY <2>1, <2>4, <3>1, <3>2, <3>3, <3>4
  <2>6. ASSUME NEW i \in 1..Len(ends), ends[i] =< read PROVE i \in 1..Len(got)
    <3>1. CASE i =< Len(got)
        BY <2>2, <3>1
    <3>2. CASE ~(i =< Len(got))
      <4> DEFINE k == Current
      <4>1. k \in 1..Len(ends) /\ k =< i
          BY <2>2, <2>3, <3>2
      <4>2. read < ends[k]
          BY <2>1, <2>2, <4>1
      <4> HIDE DEF k
      <4>3. ends[k] =< ends[i] /\ ends[k] \in Nat /\ ends[i] \in Nat
        <5>1. k < i \/ k = i
            BY <2>2, <4>1
        <5> QED
            BY <2>2, <4>1, <5>1
      <4> QED
          BY <2>1, <2>6, <4>2, <4>3
    <3> QED
        BY <3>1, <3>2
  <2> QED
      BY <2>1, <2>2, <2>5, <2>6
<1> QED
    BY <1>1, ReaderInvariantHolds, PTL

\* readPacket gives a connection up for garbage only, and passes on every packet
\* before it.
THEOREM FailsOnGarbageHolds == Spec => []FailsOnGarbage
<1>1. ReaderInvariant => FailsOnGarbage
  <2> SUFFICES ASSUME ReaderInvariant, pc = "off"
               PROVE  Len(got) = Len(sent) /\ read >= Start(Len(sent) + 1) + 1
      BY DEF FailsOnGarbage
  <2>1. WireInv /\ Len(got) = Len(ends) /\ read >= Start(Current) + 1
      BY DEF ReaderInvariant, ReadInv
  <2>2. Len(ends) = Len(sent)
      BY <2>1 DEF WireInv
  <2> QED
      BY <2>1, <2>2 DEF Current
<1> QED
    BY <1>1, ReaderInvariantHolds, PTL

\* A frame that arrives as a whole, as in a WebSocket message, unpacks to its packet.
THEOREM WholeFramesHolds == Spec => []WholeFrames
<1>1. ReaderInvariant => WholeFrames
  <2> SUFFICES ASSUME ReaderInvariant, NEW i \in DOMAIN sent
               PROVE  UnpackBytes(version, FrameOf(i)) = {Expected(version, sent[i])}
      BY DEF WholeFrames
  <2>1. i \in 1..Len(ends)
      BY DEF ReaderInvariant, WireInv
  <2>2. GoodFrame(version, FrameOf(i), Expected(version, sent[i]))
      BY <2>1 DEF ReaderInvariant, WireInv
  <2> QED
      BY <2>2, GoodFrameUnpacks
<1> QED
    BY <1>1, ReaderInvariantHolds, PTL
=============================================================================
