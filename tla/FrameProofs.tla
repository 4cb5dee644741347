---------------------------- MODULE FrameProofs ----------------------------
(***************************************************************************)
(* Proofs about the operators of Frame: what is packed unpacks to the      *)
(* same, for packets whose fields fit their places (Packable).  Frames are *)
(* reasoned about as pieces at offsets.  TLAPS has no induction over data  *)
(* here: recursive functions are reasoned about as sets of numbers, of     *)
(* which the smallest counterexample is taken.                             *)
(***************************************************************************)
EXTENDS FrameFit, WellFoundedInduction, TLAPS

\* WFMin as a lemma of constants.
LEMMA MinimalOf ==
    ASSUME NEW R, IsWellFoundedOn(R, Nat), NEW T, T \subseteq Nat, T # {}
    PROVE  \E x \in T : \A y \in T : ~(<<y, x>> \in R)
BY WFMin

\* A minimal element of a set of numbers is its smallest.
LEMMA SmallestOf ==
    ASSUME NEW R, IsWellFoundedOn(R, Nat), \A x, y \in Nat : x < y => <<x, y>> \in R,
           NEW T \in SUBSET Nat, T # {}
    PROVE  \E x \in T : \A y \in T : x =< y
<1>1. T \subseteq Nat
    OBVIOUS
<1>2. PICK x \in T : \A y \in T : ~(<<y, x>> \in R)
    BY <1>1, MinimalOf
<1>3. \A y \in T : ~(y < x)
    BY <1>2
<1> QED
    BY <1>1, <1>3

\* A nonempty set of numbers has a smallest element.
LEMMA Smallest ==
    ASSUME NEW T \in SUBSET Nat, T # {}
    PROVE  \E x \in T : \A y \in T : x =< y
<1>1. \A x, y \in Nat : x < y => <<x, y>> \in OpToRel(<, Nat)
    BY DEF OpToRel
<1> QED
    BY <1>1, NatLessThanWellFounded, SmallestOf

\* Induction, over a set instead of a predicate.
LEMMA Induction ==
    ASSUME NEW T \in SUBSET Nat, 0 \in T, \A n \in T : n + 1 \in T
    PROVE  T = Nat
<1> SUFFICES ASSUME T # Nat PROVE FALSE
    OBVIOUS
<1>1. PICK x \in Nat \ T : \A y \in Nat \ T : x =< y
    BY Smallest
<1>2. x # 0
    BY <1>1
<1>3. x - 1 \in Nat /\ x - 1 \in T
    BY <1>1, <1>2
<1>4. (x - 1) + 1 \in T
    BY <1>3
<1> QED
    BY <1>1, <1>4

\* Sequences of the same length and elements are the same.
LEMMA SeqEqual ==
    ASSUME NEW S, NEW s \in Seq(S), NEW t \in Seq(S), Len(s) = Len(t),
           \A i \in 1..Len(s) : s[i] = t[i]
    PROVE  s = t
OBVIOUS

\* Length and elements of a concatenation.
LEMMA ConcatFacts ==
    ASSUME NEW S, NEW s \in Seq(S), NEW t \in Seq(S)
    PROVE  /\ s \o t \in Seq(S) /\ Len(s \o t) = Len(s) + Len(t)
           /\ \A i \in 1..Len(s) : (s \o t)[i] = s[i]
           /\ \A i \in 1..Len(t) : (s \o t)[Len(s) + i] = t[i]
           /\ \A i \in 1..(Len(s) + Len(t)) :
                 (s \o t)[i] = IF i =< Len(s) THEN s[i] ELSE t[i - Len(s)]
OBVIOUS

\* Length and elements of a subsequence, counted from the end of what is left out.
LEMMA SubSeqFacts ==
    ASSUME NEW S, NEW s \in Seq(S), NEW m \in Nat, NEW n \in Nat, m + n =< Len(s)
    PROVE  /\ SubSeq(s, m + 1, m + n) \in Seq(S)
           /\ Len(SubSeq(s, m + 1, m + n)) = n
           /\ \A i \in 1..n : SubSeq(s, m + 1, m + n)[i] = s[m + i]
OBVIOUS

\* The bytes of a number make the number again: uint16,
LEMMA Bytes2 ==
    ASSUME NEW n \in Nat, n < 65536
    PROVE  /\ ByteOf(n, 256) \in Nat /\ ByteOf(n, 1) \in Nat
           /\ (ByteOf(n, 256) * 256) + ByteOf(n, 1) = n
BY SMT DEF ByteOf

\* three bytes,
LEMMA Bytes3 ==
    ASSUME NEW n \in Nat, n < 16777216
    PROVE  /\ ByteOf(n, 65536) \in Nat /\ ByteOf(n, 256) \in Nat /\ ByteOf(n, 1) \in Nat
           /\ (ByteOf(n, 65536) * 65536) + (ByteOf(n, 256) * 256) + ByteOf(n, 1) = n
BY SMT DEF ByteOf

\* and uint32.
LEMMA Bytes4 ==
    ASSUME NEW n \in Nat, n \div 65536 < 65536
    PROVE  /\ ByteOf(n, 16777216) \in Nat /\ ByteOf(n, 65536) \in Nat
           /\ ByteOf(n, 256) \in Nat /\ ByteOf(n, 1) \in Nat
           /\ (ByteOf(n, 16777216) * 16777216) + (ByteOf(n, 65536) * 65536)
                + (ByteOf(n, 256) * 256) + ByteOf(n, 1) = n
BY SMT DEF ByteOf

\* The bits of the first byte of a frame.
LEMMA FirstFacts ==
    ASSUME NEW t \in {1, 2, 3}, NEW ve \in {0, 1}, NEW g \in {0, 1}
    PROVE  LET b == (t % 16) + 16 * (ve % 2) + 32 * (g % 2)
           IN  b \in Nat /\ b % 16 = t /\ (b \div 16) % 2 = ve /\ (b \div 32) % 2 = g
BY SMT

\* The bytes of t are in s, from offset o on.
PieceAt(s, o, t) == o + Len(t) =< Len(s) /\ \A i \in 1..Len(t) : s[o + i] = t[i]

\* Concatenation adds a piece and keeps those that are there.
LEMMA Join ==
    ASSUME NEW s \in Seq(Nat), NEW t \in Seq(Nat)
    PROVE  /\ s \o t \in Seq(Nat) /\ Len(s \o t) = Len(s) + Len(t)
           /\ PieceAt(s \o t, Len(s), t)
           /\ \A o \in Nat, x \in Seq(Nat) : PieceAt(s, o, x) => PieceAt(s \o t, o, x)
<1> DEFINE u == s \o t
<1>1. /\ u \in Seq(Nat) /\ Len(u) = Len(s) + Len(t)
      /\ \A i \in 1..Len(s) : u[i] = s[i]
      /\ \A i \in 1..Len(t) : u[Len(s) + i] = t[i]
    BY ConcatFacts
<1> HIDE DEF u
<1>2. PieceAt(u, Len(s), t)
    BY <1>1 DEF PieceAt
<1>3. ASSUME NEW o \in Nat, NEW x \in Seq(Nat), PieceAt(s, o, x) PROVE PieceAt(u, o, x)
  <2>1. Len(x) \in Nat /\ Len(s) \in Nat /\ Len(t) \in Nat
      OBVIOUS
  <2>2. \A i \in 1..Len(x) : o + i \in 1..Len(s)
      BY <1>3, <2>1 DEF PieceAt
  <2>3. o + Len(x) =< Len(u)
      BY <1>1, <1>3, <2>1 DEF PieceAt
  <2>4. ASSUME NEW i \in 1..Len(x) PROVE u[o + i] = x[i]
    <3>1. u[o + i] = s[o + i]
        BY <1>1, <2>2
    <3> QED
        BY <1>3, <3>1 DEF PieceAt
  <2> QED
      BY <2>3, <2>4 DEF PieceAt
<1> QED
    BY <1>1, <1>2, <1>3 DEF u

\* A sequence is a piece of itself.
LEMMA PieceSelf ==
    ASSUME NEW s \in Seq(Nat)
    PROVE  PieceAt(s, 0, s)
BY DEF PieceAt

\* A piece is the subsequence at its place.
LEMMA PieceIs ==
    ASSUME NEW s \in Seq(Nat), NEW o \in Nat, NEW t \in Seq(Nat), PieceAt(s, o, t)
    PROVE  SubSeq(s, o + 1, o + Len(t)) = t
<1>1. Len(t) \in Nat /\ o + Len(t) =< Len(s)
    BY DEF PieceAt
<1>2. /\ SubSeq(s, o + 1, o + Len(t)) \in Seq(Nat)
      /\ Len(SubSeq(s, o + 1, o + Len(t))) = Len(t)
      /\ \A i \in 1..Len(t) : SubSeq(s, o + 1, o + Len(t))[i] = s[o + i]
    BY <1>1, SubSeqFacts
<1>3. \A i \in 1..Len(t) : s[o + i] = t[i]
    BY DEF PieceAt
<1> DEFINE u == SubSeq(s, o + 1, o + Len(t))
<1> HIDE DEF u
<1>4. u \in Seq(Nat) /\ Len(u) = Len(t) /\ \A i \in 1..Len(t) : u[i] = t[i]
    BY <1>2, <1>3 DEF u
<1>5. u = t
    BY <1>4, SeqEqual
<1> QED
    BY <1>5 DEF u

\* A piece as long as the whole is the whole.
LEMMA PieceWhole ==
    ASSUME NEW s \in Seq(Nat), NEW t \in Seq(Nat), PieceAt(s, 0, t), Len(s) = Len(t)
    PROVE  s = t
<1>1. \A i \in 1..Len(t) : s[i] = t[i]
    BY DEF PieceAt
<1> QED
    BY <1>1, SeqEqual

\* A piece of a piece is a piece.
LEMMA PieceOfPiece ==
    ASSUME NEW s \in Seq(Nat), NEW o \in Nat, NEW t \in Seq(Nat), PieceAt(s, o, t),
           NEW n \in Nat, NEW x \in Seq(Nat), PieceAt(t, n, x)
    PROVE  PieceAt(s, o + n, x)
<1>1. Len(x) \in Nat /\ Len(s) \in Nat /\ Len(t) \in Nat
    OBVIOUS
<1>0. n + Len(x) =< Len(t) /\ o + Len(t) =< Len(s)
    BY DEF PieceAt
<1>2. (o + n) + Len(x) =< Len(s)
    BY <1>0, <1>1
<1>3. ASSUME NEW i \in 1..Len(x) PROVE s[(o + n) + i] = x[i]
  <2>1. n + i \in 1..Len(t) /\ (o + n) + i = o + (n + i)
      BY <1>0, <1>1
  <2>2. s[o + (n + i)] = t[n + i]
      BY <2>1 DEF PieceAt
  <2>3. t[n + i] = x[i]
      BY DEF PieceAt
  <2> QED
      BY <2>1, <2>2, <2>3
<1> QED
    BY <1>2, <1>3 DEF PieceAt

\* Cutting a part out keeps the pieces inside it.
LEMMA PieceSub ==
    ASSUME NEW s \in Seq(Nat), NEW m \in Nat, NEW n \in Nat, m + n =< Len(s)
    PROVE  /\ SubSeq(s, m + 1, m + n) \in Seq(Nat)
           /\ Len(SubSeq(s, m + 1, m + n)) = n
           /\ PieceAt(s, m, SubSeq(s, m + 1, m + n))
           /\ \A o \in Nat, t \in Seq(Nat) :
                 PieceAt(s, m + o, t) /\ o + Len(t) =< n => PieceAt(SubSeq(s, m + 1, m + n), o, t)
<1> DEFINE u == SubSeq(s, m + 1, m + n)
<1>1. u \in Seq(Nat) /\ Len(u) = n /\ \A i \in 1..n : u[i] = s[m + i]
    BY SubSeqFacts, ZenonT(60)
<1> HIDE DEF u
<1>2. PieceAt(s, m, u)
    BY <1>1 DEF PieceAt
<1>3. ASSUME NEW o \in Nat, NEW t \in Seq(Nat), PieceAt(s, m + o, t), o + Len(t) =< n
      PROVE  PieceAt(u, o, t)
  <2>1. Len(t) \in Nat
      OBVIOUS
  <2>2. ASSUME NEW i \in 1..Len(t) PROVE u[o + i] = t[i]
    <3>1. o + i \in 1..n /\ m + (o + i) = (m + o) + i
        BY <1>3, <2>1
    <3>2. u[o + i] = s[(m + o) + i]
        BY <1>1, <3>1
    <3> QED
        BY <1>3, <3>2 DEF PieceAt
  <2> QED
      BY <1>1, <1>3, <2>2 DEF PieceAt
<1> QED
    BY <1>1, <1>2, <1>3 DEF u

\* Dropping the beginning keeps the pieces behind it.
LEMMA DropFacts ==
    ASSUME NEW s \in Seq(Nat), NEW m \in Nat, m =< Len(s)
    PROVE  /\ Drop(s, m) \in Seq(Nat) /\ Len(Drop(s, m)) = Len(s) - m
           /\ \A o \in Nat, t \in Seq(Nat) : PieceAt(s, m + o, t) => PieceAt(Drop(s, m), o, t)
<1> DEFINE n == Len(s) - m
<1>1. n \in Nat /\ m + n = Len(s) /\ Len(s) \in Nat
    OBVIOUS
<1> HIDE DEF n
<1>2. Drop(s, m) = SubSeq(s, m + 1, m + n)
    BY <1>1 DEF Drop
<1>3. ASSUME NEW o \in Nat, NEW t \in Seq(Nat), PieceAt(s, m + o, t)
      PROVE  o + Len(t) =< n
    BY <1>1, <1>3 DEF PieceAt
<1>5. m + n =< Len(s)
    BY <1>1
<1>4. /\ SubSeq(s, m + 1, m + n) \in Seq(Nat)
      /\ Len(SubSeq(s, m + 1, m + n)) = n
      /\ \A o \in Nat, t \in Seq(Nat) :
            PieceAt(s, m + o, t) /\ o + Len(t) =< n => PieceAt(SubSeq(s, m + 1, m + n), o, t)
    BY <1>1, <1>5, PieceSub
<1> QED
    BY <1>2, <1>3, <1>4 DEF n

\* Take within the length of its argument.
LEMMA TakeFacts ==
    ASSUME NEW s \in Seq(Nat), NEW n \in Nat, n =< Len(s)
    PROVE  Take(s, n) = SubSeq(s, 1, n)
<1>1. (IF n < Len(s) THEN n ELSE Len(s)) = n
    OBVIOUS
<1> QED
    BY <1>1 DEF Take

\* A function on 1..n is a sequence.
LEMMA FunctionIsSeq ==
    ASSUME NEW n \in Nat, NEW u \in [1..n -> Nat]
    PROVE  u \in Seq(Nat) /\ Len(u) = n
OBVIOUS

\* copy with room enough writes its source and nothing beside it.
LEMMA CopyFacts ==
    ASSUME NEW dst \in Seq(Nat), NEW at \in Nat, NEW src \in Seq(Nat), at + Len(src) =< Len(dst)
    PROVE  /\ CopyAt(dst, at, src) \in Seq(Nat) /\ Len(CopyAt(dst, at, src)) = Len(dst)
           /\ PieceAt(CopyAt(dst, at, src), at, src)
           /\ \A o \in Nat, x \in Seq(Nat) :
                 PieceAt(dst, o, x) /\ (o + Len(x) =< at \/ at + Len(src) =< o)
                     => PieceAt(CopyAt(dst, at, src), o, x)
<1> DEFINE u == CopyAt(dst, at, src)
<1>1. Len(dst) \in Nat /\ Len(src) \in Nat
    OBVIOUS
<1>2. u = [i \in 1..Len(dst) |-> IF i > at /\ i =< at + Len(src) THEN src[i - at] ELSE dst[i]]
    BY DEF CopyAt
<1> HIDE DEF u
<1>3. ASSUME NEW i \in 1..Len(dst)
      PROVE  /\ i > at /\ i =< at + Len(src) => u[i] = src[i - at]
             /\ ~(i > at /\ i =< at + Len(src)) => u[i] = dst[i]
    BY <1>2
<1>4. ASSUME NEW i \in 1..Len(dst) PROVE u[i] \in Nat
  <2>1. CASE i > at /\ i =< at + Len(src)
    <3>1. i - at \in 1..Len(src)
        BY <1>1, <2>1
    <3> QED
        <4>1. src[i - at] \in Nat
            BY <3>1
        <4> QED
            BY <1>3, <2>1, <4>1
  <2>2. CASE ~(i > at /\ i =< at + Len(src))
      BY <1>3, <2>2
  <2> QED
      BY <2>1, <2>2
<1>5. u \in Seq(Nat) /\ Len(u) = Len(dst)
  <2>1. u \in [1..Len(dst) -> Nat]
      BY <1>2, <1>4
  <2> QED
      BY <1>1, <2>1, FunctionIsSeq
<1>6. PieceAt(u, at, src)
  <2>1. ASSUME NEW i \in 1..Len(src) PROVE u[at + i] = src[i]
    <3>1. at + i \in 1..Len(dst) /\ at + i > at /\ at + i =< at + Len(src) /\ (at + i) - at = i
        BY <1>1
    <3> QED
        BY <1>3, <3>1
  <2> QED
      BY <1>5, <2>1 DEF PieceAt
<1>7. ASSUME NEW o \in Nat, NEW x \in Seq(Nat), PieceAt(dst, o, x),
             o + Len(x) =< at \/ at + Len(src) =< o
      PROVE  PieceAt(u, o, x)
  <2>0. Len(x) \in Nat /\ o + Len(x) =< Len(dst)
      BY <1>7 DEF PieceAt
  <2>1. ASSUME NEW i \in 1..Len(x) PROVE u[o + i] = x[i]
    <3>0. i \in Nat /\ 1 =< i /\ i =< Len(x)
        OBVIOUS
    <3>1. o + i \in 1..Len(dst)
        BY <1>1, <2>0, <3>0
    <3>3. ~(o + i > at /\ o + i =< at + Len(src))
      <4>1. CASE o + Len(x) =< at
          BY <1>1, <2>0, <3>0, <4>1
      <4>2. CASE at + Len(src) =< o
          BY <1>1, <2>0, <3>0, <4>2
      <4> QED
          BY <1>7, <4>1, <4>2
    <3>2. u[o + i] = dst[o + i]
        BY <1>3, <3>1, <3>3
    <3> QED
        BY <1>7, <3>2 DEF PieceAt
  <2> QED
      BY <1>5, <2>0, <2>1 DEF PieceAt
<1> QED
    BY <1>5, <1>6, <1>7 DEF u

\* Length of a zeroed slice.
LEMMA ZeroesFacts ==
    ASSUME NEW n \in Nat
    PROVE  Zeroes(n) \in Seq(Nat) /\ Len(Zeroes(n)) = n
<1>1. Zeroes(n) \in [1..n -> Nat]
    BY DEF Zeroes
<1> QED
    BY <1>1

\* Appending nothing.
LEMMA NothingMore ==
    ASSUME NEW s \in Seq(Nat)
    PROVE  s \o <<>> = s
<1>1. s \o <<>> \in Seq(Nat) /\ Len(s \o <<>>) = Len(s) /\ \A i \in 1..Len(s) :
          (s \o <<>>)[i] = s[i]
    BY ConcatFacts
<1> DEFINE u == s \o <<>>
<1> HIDE DEF u
<1>2. u \in Seq(Nat) /\ Len(u) = Len(s) /\ \A i \in 1..Len(s) : u[i] = s[i]
    BY <1>1 DEF u
<1>3. u = s
    BY <1>2, SeqEqual
<1> QED
    BY <1>3 DEF u

\* What encoding/binary and the three-byte shifts write they read back.
LEMMA Put16 ==
    ASSUME NEW n \in Nat, n < 65536
    PROVE  PutUint16(n) \in Seq(Nat) /\ Len(PutUint16(n)) = 2 /\ Uint16(PutUint16(n)) = n
<1>1. /\ ByteOf(n, 256) \in Nat /\ ByteOf(n, 1) \in Nat
      /\ (ByteOf(n, 256) * 256) + ByteOf(n, 1) = n
    BY Bytes2
<1> DEFINE a == ByteOf(n, 256)
           b == ByteOf(n, 1)
<1> HIDE DEF a, b
<1>2. a \in Nat /\ b \in Nat /\ (a * 256) + b = n /\ PutUint16(n) = <<a, b>>
    BY <1>1 DEF a, b, PutUint16
<1> QED
    BY <1>2, SMT DEF Uint16

\* The same for three bytes, the length of a body.
LEMMA Put24 ==
    ASSUME NEW n \in Nat, n < 16777216
    PROVE  PutUint24(n) \in Seq(Nat) /\ Len(PutUint24(n)) = 3 /\ Uint24(PutUint24(n)) = n
<1>1. /\ ByteOf(n, 65536) \in Nat /\ ByteOf(n, 256) \in Nat /\ ByteOf(n, 1) \in Nat
      /\ (ByteOf(n, 65536) * 65536) + (ByteOf(n, 256) * 256) + ByteOf(n, 1) = n
    BY Bytes3
<1> DEFINE a == ByteOf(n, 65536)
           b == ByteOf(n, 256)
           c == ByteOf(n, 1)
<1> HIDE DEF a, b, c
<1>2. /\ a \in Nat /\ b \in Nat /\ c \in Nat /\ (a * 65536) + (b * 256) + c = n
      /\ PutUint24(n) = <<a, b, c>>
    BY <1>1, SMT DEF a, b, c, PutUint24
<1> QED
    BY <1>2, SMT DEF Uint24

\* The same for four, the id of a request.
LEMMA Put32 ==
    ASSUME NEW n \in Nat, n \div 65536 < 65536
    PROVE  PutUint32(n) \in Seq(Nat) /\ Len(PutUint32(n)) = 4 /\ Uint32(PutUint32(n)) = n
<1>1. /\ ByteOf(n, 16777216) \in Nat /\ ByteOf(n, 65536) \in Nat
      /\ ByteOf(n, 256) \in Nat /\ ByteOf(n, 1) \in Nat
      /\ (ByteOf(n, 16777216) * 16777216) + (ByteOf(n, 65536) * 65536)
           + (ByteOf(n, 256) * 256) + ByteOf(n, 1) = n
    BY Bytes4
<1> DEFINE a == ByteOf(n, 16777216)
           b == ByteOf(n, 65536)
           c == ByteOf(n, 256)
           d == ByteOf(n, 1)
<1> HIDE DEF a, b, c, d
<1>2. /\ a \in Nat /\ b \in Nat /\ c \in Nat /\ d \in Nat
      /\ (a * 16777216) + (b * 65536) + (c * 256) + d = n
      /\ PutUint32(n) = <<a, b, c, d>>
    BY <1>1, SMT DEF a, b, c, d, PutUint32
<1> QED
    BY <1>2, SMT DEF Uint32

\* A header whose fields fit into their places.
HeaderFits(h) ==
    /\ h.Type \in {Request, Response, Push} /\ h.Verify \in {0, 1} /\ h.Gzip \in {0, 1}
    /\ h.CmdCode \in Nat /\ h.StatusCode \in Nat
    /\ h.RequestId \in Nat /\ h.RequestId \div 65536 < 65536
    /\ h.Timeout \in Nat /\ h.Timeout < 65536
    /\ h.MetadataLength \in Nat /\ h.MetadataLength < 65536
    /\ h.BodyLength \in Nat /\ h.BodyLength < 16777216

\* The fields of h in the bytes s, where version v has them.
HeaderIn(v, s, h) ==
    /\ PieceAt(s, 0, <<FirstByte(h), h.CmdCode>>)
    /\ h.Type \in {Request, Response} => PieceAt(s, 2, PutUint32(h.RequestId))
    /\ h.Type = Request => PieceAt(s, 6, PutUint16(h.Timeout))
    /\ h.Type = Response => PieceAt(s, 6, <<h.StatusCode>>)
    /\ v = 2 => PieceAt(s, HeaderLen(v, h.Type) - 5, PutUint16(h.MetadataLength))
    /\ PieceAt(s, HeaderLen(v, h.Type) - 3, PutUint24(h.BodyLength))

\* Sequences of one and of two bytes.
LEMMA Pairs ==
    ASSUME NEW a \in Nat, NEW b \in Nat
    PROVE  /\ <<a>> \in Seq(Nat) /\ Len(<<a>>) = 1
           /\ <<a, b>> \in Seq(Nat) /\ Len(<<a, b>>) = 2
OBVIOUS

\* The first byte of a header gives its type and flags back.
LEMMA FirstByteFacts ==
    ASSUME NEW h, HeaderFits(h)
    PROVE  /\ FirstByte(h) \in Nat
           /\ FirstByte(h) % 16 = h.Type
           /\ (FirstByte(h) \div 16) % 2 = h.Verify
           /\ (FirstByte(h) \div 32) % 2 = h.Gzip
<1>1. h.Type \in {1, 2, 3} /\ h.Verify \in {0, 1} /\ h.Gzip \in {0, 1}
    BY DEF HeaderFits, Request, Response, Push
<1> QED
    BY <1>1, FirstFacts DEF FirstByte

\* Where the fields before the lengths are.
LEMMA HeaderStartFacts ==
    ASSUME NEW h, HeaderFits(h)
    PROVE  /\ HeaderStart(h) \in Seq(Nat) /\ Len(HeaderStart(h)) = HeaderLenV1(h.Type) - 3
           /\ PieceAt(HeaderStart(h), 0, <<FirstByte(h), h.CmdCode>>)
           /\ h.Type \in {Request, Response} => PieceAt(HeaderStart(h), 2, PutUint32(h.RequestId))
           /\ h.Type = Request => PieceAt(HeaderStart(h), 6, PutUint16(h.Timeout))
           /\ h.Type = Response => PieceAt(HeaderStart(h), 6, <<h.StatusCode>>)
<1> DEFINE a == <<FirstByte(h), h.CmdCode>>
           b == IF h.Type \in {Request, Response} THEN PutUint32(h.RequestId) ELSE <<>>
           c == IF h.Type = Request THEN PutUint16(h.Timeout) ELSE <<>>
           d == IF h.Type = Response THEN <<h.StatusCode>> ELSE <<>>
<1>0. HeaderStart(h) = a \o b \o c \o d
    BY DEF HeaderStart
<1>1. a \in Seq(Nat) /\ Len(a) = 2
    BY FirstByteFacts, Pairs DEF HeaderFits
<1>2. b \in Seq(Nat) /\ Len(b) = IF h.Type \in {Request, Response} THEN 4 ELSE 0
  <2>1. h.RequestId \in Nat /\ h.RequestId \div 65536 < 65536
      BY SMT DEF HeaderFits
  <2>2. PutUint32(h.RequestId) \in Seq(Nat) /\ Len(PutUint32(h.RequestId)) = 4
      BY <2>1, Put32
  <2>3. <<>> \in Seq(Nat) /\ Len(<<>>) = 0
      OBVIOUS
  <2>4. CASE h.Type \in {Request, Response}
      BY <2>2, <2>4
  <2>5. CASE ~(h.Type \in {Request, Response})
      BY <2>3, <2>5
  <2> QED
      BY <2>4, <2>5
<1>3. c \in Seq(Nat) /\ Len(c) = IF h.Type = Request THEN 2 ELSE 0
  <2>1. h.Timeout \in Nat /\ h.Timeout < 65536
      BY SMT DEF HeaderFits
  <2>2. PutUint16(h.Timeout) \in Seq(Nat) /\ Len(PutUint16(h.Timeout)) = 2
      BY <2>1, Put16
  <2>3. <<>> \in Seq(Nat) /\ Len(<<>>) = 0
      OBVIOUS
  <2>4. CASE h.Type = Request
      BY <2>2, <2>4
  <2>5. CASE ~(h.Type = Request)
      BY <2>3, <2>5
  <2> QED
      BY <2>4, <2>5
<1>4. d \in Seq(Nat) /\ Len(d) = IF h.Type = Response THEN 1 ELSE 0
    BY Pairs DEF HeaderFits
<1>5. /\ h.Type \in {Request, Response} => b = PutUint32(h.RequestId)
      /\ h.Type = Request => c = PutUint16(h.Timeout)
      /\ h.Type = Response => c = <<>> /\ d = <<h.StatusCode>>
    BY DEF Request, Response
<1> HIDE DEF a, b, c, d
<1>6. /\ a \o b \in Seq(Nat) /\ Len(a \o b) = 2 + Len(b) /\ PieceAt(a \o b, 2, b)
      /\ PieceAt(a \o b, 0, a)
    BY <1>1, <1>2, Join, PieceSelf
<1> DEFINE ab == a \o b
<1> HIDE DEF ab
<1>7. /\ ab \o c \in Seq(Nat) /\ Len(ab \o c) = (2 + Len(b)) + Len(c)
      /\ PieceAt(ab \o c, 2 + Len(b), c) /\ PieceAt(ab \o c, 2, b) /\ PieceAt(ab \o c, 0, a)
  <2>1. ab \in Seq(Nat) /\ Len(ab) = 2 + Len(b) /\ PieceAt(ab, 2, b) /\ PieceAt(ab, 0, a)
      BY <1>6 DEF ab
  <2> QED
      BY <1>1, <1>2, <1>3, <2>1, Join
<1> DEFINE abc == ab \o c
<1> HIDE DEF abc
<1>8. /\ abc \o d \in Seq(Nat) /\ Len(abc \o d) = ((2 + Len(b)) + Len(c)) + Len(d)
      /\ PieceAt(abc \o d, (2 + Len(b)) + Len(c), d) /\ PieceAt(abc \o d, 2 + Len(b), c)
      /\ PieceAt(abc \o d, 2, b) /\ PieceAt(abc \o d, 0, a)
  <2>1. /\ abc \in Seq(Nat) /\ Len(abc) = (2 + Len(b)) + Len(c)
        /\ PieceAt(abc, 2 + Len(b), c) /\ PieceAt(abc, 2, b) /\ PieceAt(abc, 0, a)
      BY <1>7 DEF abc
  <2>2. 2 + Len(b) \in Nat
      BY <1>2
  <2> QED
      BY <1>1, <1>2, <1>3, <1>4, <2>1, <2>2, Join, ZenonT(60)
<1> DEFINE s == HeaderStart(h)
<1> HIDE DEF s
<1>9. s = abc \o d
    BY <1>0 DEF s, abc, ab
<1>10. /\ s \in Seq(Nat) /\ Len(s) = ((2 + Len(b)) + Len(c)) + Len(d)
       /\ PieceAt(s, (2 + Len(b)) + Len(c), d) /\ PieceAt(s, 2 + Len(b), c)
       /\ PieceAt(s, 2, b) /\ PieceAt(s, 0, a)
    BY <1>8, <1>9
<1>11. h.Type \in {Request, Response, Push}
    BY DEF HeaderFits
<1>12. Len(s) = HeaderLenV1(h.Type) - 3
    BY <1>2, <1>3, <1>4, <1>10, <1>11 DEF HeaderLenV1, Request, Response, Push
<1>13. h.Type = Request => PieceAt(s, 6, PutUint16(h.Timeout))
    BY <1>2, <1>5, <1>10
<1>14. h.Type = Response => PieceAt(s, 6, <<h.StatusCode>>)
    BY <1>2, <1>3, <1>5, <1>10, SMTT(30) DEF Request, Response
<1> QED
    BY <1>5, <1>10, <1>12, <1>13, <1>14 DEF s, a

\* The fields of a header as bytes: their lengths and what they read back as.
LEMMA HeaderPieces ==
    ASSUME NEW h, HeaderFits(h)
    PROVE  /\ <<FirstByte(h), h.CmdCode>> \in Seq(Nat) /\ PutUint32(h.RequestId) \in Seq(Nat)
           /\ PutUint16(h.Timeout) \in Seq(Nat) /\ <<h.StatusCode>> \in Seq(Nat)
           /\ PutUint16(h.MetadataLength) \in Seq(Nat) /\ PutUint24(h.BodyLength) \in Seq(Nat)
           /\ Len(PutUint32(h.RequestId)) = 4 /\ Len(PutUint16(h.Timeout)) = 2
           /\ Len(PutUint16(h.MetadataLength)) = 2 /\ Len(PutUint24(h.BodyLength)) = 3
           /\ Uint32(PutUint32(h.RequestId)) = h.RequestId /\
                Uint16(PutUint16(h.Timeout)) = h.Timeout
           /\ Uint16(PutUint16(h.MetadataLength)) = h.MetadataLength
           /\ Uint24(PutUint24(h.BodyLength)) = h.BodyLength
<1>1. h.RequestId \in Nat /\ h.RequestId \div 65536 < 65536 /\ h.Timeout \in Nat /\
          h.Timeout < 65536
      /\ h.CmdCode \in Nat /\ h.StatusCode \in Nat
      /\ h.MetadataLength \in Nat /\ h.MetadataLength < 65536
      /\ h.BodyLength \in Nat /\ h.BodyLength < 16777216
    BY SMT DEF HeaderFits
<1>2. FirstByte(h) \in Nat
    BY FirstByteFacts
<1>3. <<FirstByte(h), h.CmdCode>> \in Seq(Nat) /\ <<h.StatusCode>> \in Seq(Nat)
    BY <1>1, <1>2, Pairs
<1>4. /\ PutUint32(h.RequestId) \in Seq(Nat) /\ Len(PutUint32(h.RequestId)) = 4
      /\ Uint32(PutUint32(h.RequestId)) = h.RequestId
    BY <1>1, Put32
<1>5. /\ PutUint16(h.Timeout) \in Seq(Nat) /\ Len(PutUint16(h.Timeout)) = 2
      /\ Uint16(PutUint16(h.Timeout)) = h.Timeout
    BY <1>1, Put16
<1>6. /\ PutUint16(h.MetadataLength) \in Seq(Nat) /\ Len(PutUint16(h.MetadataLength)) = 2
      /\ Uint16(PutUint16(h.MetadataLength)) = h.MetadataLength
    BY <1>1, Put16
<1>7. /\ PutUint24(h.BodyLength) \in Seq(Nat) /\ Len(PutUint24(h.BodyLength)) = 3
      /\ Uint24(PutUint24(h.BodyLength)) = h.BodyLength
    BY <1>1, Put24
<1> QED
    BY <1>3, <1>4, <1>5, <1>6, <1>7

HeaderPack(v, h) == IF v = 1 THEN HeaderPackV1(h) ELSE HeaderPackV2(h)

\* How long headers are.
LEMMA HeaderLenFacts ==
    ASSUME NEW v \in {1, 2}, NEW t \in {Request, Response, Push}
    PROVE  /\ HeaderLen(v, t) \in Nat /\ HeaderLenV1(t) \in Nat
           /\ HeaderLen(v, t) = HeaderLenV1(t) + IF v = 2 THEN 2 ELSE 0
           /\ HeaderLenV1(t) = IF t = Request THEN 11 ELSE IF t = Response THEN 10 ELSE 5
BY DEF HeaderLen, HeaderLenV1, HeaderLenV2, Request, Response, Push

\* A header that fits is packed, in the length the reader expects, every field in its place.
LEMMA HeaderPacks ==
    ASSUME NEW v \in {1, 2}, NEW h, HeaderFits(h)
    PROVE  \E hd \in Seq(Nat) :
              HeaderPack(v, h) = {hd} /\ Len(hd) = HeaderLen(v, h.Type) /\ HeaderIn(v, hd, h)
<1> DEFINE s == HeaderStart(h)
           m == IF v = 2 THEN PutUint16(h.MetadataLength) ELSE <<>>
           b == PutUint24(h.BodyLength)
           l == HeaderLenV1(h.Type) - 3
<1>1. h.Type \in {Request, Response, Push} /\ h.BodyLength \in Nat /\ h.BodyLength < 16777216
    BY SMT DEF HeaderFits
<1>2. ~IsUnknownPacket(h.Type) /\ ~(h.BodyLength > MaxBodyLength)
  <2>1. ~IsUnknownPacket(h.Type)
      BY <1>1 DEF IsUnknownPacket
  <2> QED
      BY <1>1, <2>1, SMT DEF MaxBodyLength
<1>3. /\ s \in Seq(Nat) /\ Len(s) = l
      /\ PieceAt(s, 0, <<FirstByte(h), h.CmdCode>>)
      /\ h.Type \in {Request, Response} => PieceAt(s, 2, PutUint32(h.RequestId))
      /\ h.Type = Request => PieceAt(s, 6, PutUint16(h.Timeout))
      /\ h.Type = Response => PieceAt(s, 6, <<h.StatusCode>>)
    BY HeaderStartFacts
<1>4. b \in Seq(Nat) /\ Len(b) = 3
    BY <1>1, Put24
<1>5. m \in Seq(Nat) /\ Len(m) = IF v = 2 THEN 2 ELSE 0
  <2>1. h.MetadataLength \in Nat /\ h.MetadataLength < 65536
      BY SMT DEF HeaderFits
  <2>2. CASE v = 2
    <3>1. m = PutUint16(h.MetadataLength)
        BY <2>2
    <3> QED
        BY <2>1, <2>2, <3>1, Put16
  <2>3. CASE v # 2
      BY <2>3
  <2> QED
      BY <2>2, <2>3
<1>6. HeaderPack(v, h) = {(s \o m) \o b}
  <2>1. CASE v = 1
    <3>1. s \o m = s
        BY <1>3, <2>1, NothingMore
    <3>2. HeaderPackV1(h) = {s \o b}
        BY <1>2 DEF HeaderPackV1
    <3> QED
        BY <2>1, <3>1, <3>2 DEF HeaderPack
  <2>2. CASE v = 2
    <3>1. HeaderPackV2(h) = {s \o PutUint16(h.MetadataLength) \o b}
        BY <1>2 DEF HeaderPackV2
    <3> QED
        BY <2>2, <3>1 DEF HeaderPack
  <2> QED
      BY <2>1, <2>2
<1>7. v = 2 => m = PutUint16(h.MetadataLength)
    OBVIOUS
<1>8. l \in Nat /\ HeaderLen(v, h.Type) = (l + (IF v = 2 THEN 2 ELSE 0)) + 3
    BY <1>1, HeaderLenFacts
<1>9. /\ <<FirstByte(h), h.CmdCode>> \in Seq(Nat) /\ PutUint32(h.RequestId) \in Seq(Nat)
      /\ PutUint16(h.Timeout) \in Seq(Nat) /\ <<h.StatusCode>> \in Seq(Nat)
    BY HeaderPieces
<1> HIDE DEF s, m, b, l
<1> DEFINE sm == s \o m
           hd == sm \o b
           n == l + Len(m)
<1>10. sm \in Seq(Nat) /\ Len(sm) = n /\ n \in Nat /\ PieceAt(sm, l, m)
  <2>1. sm \in Seq(Nat) /\ Len(sm) = n /\ PieceAt(sm, l, m)
      BY <1>3, <1>5, Join
  <2> QED
      BY <1>5, <1>8, <2>1
<1>11. \A o \in Nat, x \in Seq(Nat) : PieceAt(s, o, x) => PieceAt(sm, o, x)
    BY <1>3, <1>5, Join
<1> HIDE DEF sm, n
<1>12. hd \in Seq(Nat) /\ Len(hd) = n + 3 /\ PieceAt(hd, n, b)
    BY <1>4, <1>10, Join
<1>13. \A o \in Nat, x \in Seq(Nat) : PieceAt(sm, o, x) => PieceAt(hd, o, x)
    BY <1>4, <1>10, Join
<1> HIDE DEF hd
<1>14. \A o \in Nat, x \in Seq(Nat) : PieceAt(s, o, x) => PieceAt(hd, o, x)
    BY <1>11, <1>13
<1>15. Len(hd) = HeaderLen(v, h.Type) /\ n = HeaderLen(v, h.Type) - 3
    BY <1>5, <1>8, <1>12 DEF n
<1>16. v = 2 => l = HeaderLen(v, h.Type) - 5
    BY <1>8
<1>17. v = 2 => PieceAt(hd, HeaderLen(v, h.Type) - 5, PutUint16(h.MetadataLength))
  <2>1. PieceAt(hd, l, m)
      BY <1>5, <1>8, <1>10, <1>13
  <2> QED
      BY <2>1, <1>7, <1>16
<1>18. PieceAt(hd, HeaderLen(v, h.Type) - 3, PutUint24(h.BodyLength))
    BY <1>12, <1>15 DEF b
<1>19. HeaderIn(v, hd, h)
  <2>1. PieceAt(hd, 0, <<FirstByte(h), h.CmdCode>>)
      BY <1>3, <1>9, <1>14
  <2>2. h.Type \in {Request, Response} => PieceAt(hd, 2, PutUint32(h.RequestId))
      BY <1>3, <1>9, <1>14
  <2>3. h.Type = Request => PieceAt(hd, 6, PutUint16(h.Timeout))
      BY <1>3, <1>9, <1>14
  <2>4. h.Type = Response => PieceAt(hd, 6, <<h.StatusCode>>)
      BY <1>3, <1>9, <1>14
  <2> QED
      BY <1>17, <1>18, <2>1, <2>2, <2>3, <2>4 DEF HeaderIn
<1>20. HeaderPack(v, h) = {hd}
    BY <1>6 DEF hd, sm
<1> QED
    BY <1>12, <1>15, <1>19, <1>20

\* What of h the other side gets to know.
Unpacked(h) ==
    [Type |-> h.Type, Verify |-> h.Verify, Gzip |-> h.Gzip, CmdCode |-> h.CmdCode,
     RequestId |-> IF h.Type \in {Request, Response} THEN h.RequestId ELSE 0,
     Timeout |-> IF h.Type = Request THEN h.Timeout ELSE 0,
     StatusCode |-> IF h.Type = Response THEN h.StatusCode ELSE 0,
     MetadataLength |-> h.MetadataLength, BodyLength |-> h.BodyLength,
     BeginUnpack |-> TRUE, IsUnpacked |-> TRUE]

\* A sequence that begins with a packed header has its fields where the header has them.
LEMMA HeaderInside ==
    ASSUME NEW v \in {1, 2}, NEW h, HeaderFits(h), NEW s \in Seq(Nat), NEW hd \in Seq(Nat),
           PieceAt(s, 0, hd), HeaderIn(v, hd, h)
    PROVE  HeaderIn(v, s, h)
<1>1. ASSUME NEW o \in Nat, NEW x \in Seq(Nat), PieceAt(hd, o, x) PROVE PieceAt(s, o, x)
  <2>1. PieceAt(s, 0 + o, x)
      BY <1>1, PieceOfPiece
  <2> QED
      BY <2>1
<1>2. /\ <<FirstByte(h), h.CmdCode>> \in Seq(Nat) /\ PutUint32(h.RequestId) \in Seq(Nat)
      /\ PutUint16(h.Timeout) \in Seq(Nat) /\ <<h.StatusCode>> \in Seq(Nat)
      /\ PutUint16(h.MetadataLength) \in Seq(Nat) /\ PutUint24(h.BodyLength) \in Seq(Nat)
    BY HeaderPieces
<1>0. h.Type \in {Request, Response, Push}
    BY DEF HeaderFits
<1>3. HeaderLen(v, h.Type) - 5 \in Nat \/ v # 2
    BY <1>0, HeaderLenFacts, SMTT(30)
<1>4. HeaderLen(v, h.Type) - 3 \in Nat
    BY <1>0, HeaderLenFacts, SMTT(30)
<1>5. PieceAt(s, 0, <<FirstByte(h), h.CmdCode>>)
    BY <1>1, <1>2 DEF HeaderIn
<1>6. h.Type \in {Request, Response} => PieceAt(s, 2, PutUint32(h.RequestId))
    BY <1>1, <1>2 DEF HeaderIn
<1>7. h.Type = Request => PieceAt(s, 6, PutUint16(h.Timeout))
    BY <1>1, <1>2 DEF HeaderIn
<1>8. h.Type = Response => PieceAt(s, 6, <<h.StatusCode>>)
    BY <1>1, <1>2 DEF HeaderIn
<1>9. v = 2 => PieceAt(s, HeaderLen(v, h.Type) - 5, PutUint16(h.MetadataLength))
    BY <1>1, <1>2, <1>3 DEF HeaderIn
<1>10. PieceAt(s, HeaderLen(v, h.Type) - 3, PutUint24(h.BodyLength))
    BY <1>1, <1>2, <1>4 DEF HeaderIn
<1> QED
    BY <1>5, <1>6, <1>7, <1>8, <1>9, <1>10 DEF HeaderIn

\* Bytes with the fields of a header at their places unpack to the header.
LEMMA HeaderUnpacks ==
    ASSUME NEW v \in {1, 2}, NEW h, HeaderFits(h), v = 1 => h.MetadataLength = 0,
           NEW s \in Seq(Nat), HeaderIn(v, s, h), HeaderLen(v, h.Type) =< Len(s)
    PROVE  /\ UnpackFirst(ZeroHeader, s[1]).Type = h.Type
           /\ UnpackRest(v, UnpackFirst(ZeroHeader, s[1]), SubSeq(s, 2, HeaderLen(v, h.Type)))
                = Unpacked(h)
<1> DEFINE n == HeaderLen(v, h.Type)
           u == SubSeq(s, 2, n)
<1>1. h.Type \in {Request, Response, Push}
    BY DEF HeaderFits
<1>2. /\ n \in Nat
      /\ n = (IF h.Type = Request THEN 11 ELSE IF h.Type = Response THEN 10 ELSE 5)
               + (IF v = 2 THEN 2 ELSE 0)
    BY <1>1, HeaderLenFacts
<1> DEFINE k == n - 1
<1>a. k \in Nat /\ 1 + k =< Len(s) /\ u = SubSeq(s, 1 + 1, 1 + k) /\ k >= 1
  <2>1. n \in Nat /\ n >= 5
      BY <1>2
  <2>2. 1 + (n - 1) = n
      BY <2>1
  <2> QED
      BY <2>1, <2>2, SMTT(30)
<1>b. k = n - 1
    OBVIOUS
<1> HIDE DEF k, u
<1>3. u \in Seq(Nat) /\ Len(u) = n - 1
    BY <1>a, <1>b, PieceSub
<1>4. ASSUME NEW o \in Nat, NEW t \in Seq(Nat), PieceAt(s, 1 + o, t), o + Len(t) =< n - 1
      PROVE  SubSeq(u, o + 1, o + Len(t)) = t /\ PieceAt(u, o, t)
  <2>1. o + Len(t) =< k
      BY <1>4, <1>b
  <2>2. PieceAt(u, o, t)
      BY <1>4, <1>a, <2>1, PieceSub
  <2> QED
      BY <1>3, <2>2, PieceIs
<1>5. /\ <<FirstByte(h), h.CmdCode>> \in Seq(Nat) /\ PutUint32(h.RequestId) \in Seq(Nat)
      /\ PutUint16(h.Timeout) \in Seq(Nat) /\ <<h.StatusCode>> \in Seq(Nat)
      /\ PutUint16(h.MetadataLength) \in Seq(Nat) /\ PutUint24(h.BodyLength) \in Seq(Nat)
      /\ Len(PutUint32(h.RequestId)) = 4 /\ Len(PutUint16(h.Timeout)) = 2
      /\ Len(PutUint16(h.MetadataLength)) = 2 /\ Len(PutUint24(h.BodyLength)) = 3
      /\ Uint32(PutUint32(h.RequestId)) = h.RequestId /\ Uint16(PutUint16(h.Timeout)) = h.Timeout
      /\ Uint16(PutUint16(h.MetadataLength)) = h.MetadataLength
      /\ Uint24(PutUint24(h.BodyLength)) = h.BodyLength
    BY HeaderPieces
<1>6. s[1] = FirstByte(h) /\ s[2] = h.CmdCode
    BY DEF HeaderIn, PieceAt
<1>7. u[1] = h.CmdCode
  <2>2. u[1] = s[1 + 1]
      BY <1>a, SubSeqFacts
  <2> QED
      BY <1>6, <2>2
<1>8. h.Type \in {Request, Response} => Uint32(SubSeq(u, 2, 5)) = h.RequestId
  <2> SUFFICES ASSUME h.Type \in {Request, Response} PROVE SubSeq(u, 2, 5) = PutUint32(h.RequestId)
      BY <1>5
  <2>1. PieceAt(s, 1 + 1, PutUint32(h.RequestId)) /\ 1 + Len(PutUint32(h.RequestId)) =< n - 1
      BY <1>2, <1>5 DEF HeaderIn
  <2>2. SubSeq(u, 1 + 1, 1 + Len(PutUint32(h.RequestId))) = PutUint32(h.RequestId)
      BY <1>4, <1>5, <2>1
  <2> QED
      BY <1>5, <2>2
<1>9. h.Type = Request => Uint16(SubSeq(u, 6, 7)) = h.Timeout
  <2> SUFFICES ASSUME h.Type = Request PROVE SubSeq(u, 6, 7) = PutUint16(h.Timeout)
      BY <1>5
  <2>1. PieceAt(s, 1 + 5, PutUint16(h.Timeout)) /\ 5 + Len(PutUint16(h.Timeout)) =< n - 1
      BY <1>2, <1>5 DEF HeaderIn
  <2>2. SubSeq(u, 5 + 1, 5 + Len(PutUint16(h.Timeout))) = PutUint16(h.Timeout)
      BY <1>4, <1>5, <2>1
  <2> QED
      BY <1>5, <2>2
<1>10. h.Type = Response => u[6] = h.StatusCode
  <2> SUFFICES ASSUME h.Type = Response PROVE u[6] = h.StatusCode
      OBVIOUS
  <2>1. PieceAt(s, 1 + 5, <<h.StatusCode>>) /\ Len(<<h.StatusCode>>) = 1
      BY DEF HeaderIn
  <2>2. 5 + Len(<<h.StatusCode>>) =< n - 1
      BY <1>2, <2>1 DEF Request, Response
  <2>3. PieceAt(u, 5, <<h.StatusCode>>)
      BY <1>4, <1>5, <2>1, <2>2
  <2> QED
      BY <2>1, <2>3 DEF PieceAt
<1> DEFINE at == CASE h.Type = Request -> 7 [] h.Type = Response -> 6 [] OTHER -> 1
<1>11. at \in Nat /\ (v = 2 => at = n - 6)
    BY <1>1, <1>2 DEF Request, Response, Push
<1> HIDE DEF at
<1>12. MetadataLengthAt(v, u, at) = h.MetadataLength
  <2>1. CASE v = 1
      BY <2>1 DEF MetadataLengthAt
  <2>2. CASE v = 2
    <3>1. 1 + at = n - 5 /\ at + 2 =< n - 1
        BY <1>2, <1>11, <2>2
    <3>2. PieceAt(s, 1 + at, PutUint16(h.MetadataLength))
        BY <2>2, <3>1 DEF HeaderIn
    <3>3. SubSeq(u, at + 1, at + Len(PutUint16(h.MetadataLength))) = PutUint16(h.MetadataLength)
        BY <1>4, <1>5, <1>11, <3>1, <3>2
    <3>4. SubSeq(u, at + 1, at + 2) = PutUint16(h.MetadataLength)
        BY <1>5, <3>3
    <3> QED
        BY <1>5, <2>2, <3>4 DEF MetadataLengthAt
  <2> QED
      BY <2>1, <2>2
<1>13. Uint24(Drop(u, Len(u) - 3)) = h.BodyLength
  <2> DEFINE m == n - 4
  <2>1. m \in Nat /\ 1 + m = n - 3 /\ m + 3 = n - 1 /\ Len(u) - 3 = m /\ Len(u) = m + 3
      BY <1>2, <1>3
  <2> HIDE DEF m
  <2>2. PieceAt(s, 1 + m, PutUint24(h.BodyLength))
      BY <2>1 DEF HeaderIn
  <2>3. SubSeq(u, m + 1, m + Len(PutUint24(h.BodyLength))) = PutUint24(h.BodyLength)
    <3>1. m + Len(PutUint24(h.BodyLength)) =< n - 1
        BY <1>2, <1>5, <2>1
    <3> QED
        BY <1>4, <1>5, <2>1, <2>2, <3>1
  <2>4. Drop(u, Len(u) - 3) = PutUint24(h.BodyLength)
      BY <1>5, <2>1, <2>3 DEF Drop
  <2> QED
      BY <1>5, <2>4
<1> DEFINE g == UnpackFirst(ZeroHeader, s[1])
<1>14. g = [Type |-> h.Type, Verify |-> h.Verify, Gzip |-> h.Gzip, CmdCode |-> 0, RequestId |-> 0,
            Timeout |-> 0, StatusCode |-> 0, MetadataLength |-> 0, BodyLength |-> 0,
            BeginUnpack |-> TRUE, IsUnpacked |-> FALSE]
    BY <1>6, FirstByteFacts DEF UnpackFirst, ZeroHeader
<1> HIDE DEF g
<1> DEFINE r == IF h.Type \in {Request, Response} THEN Uint32(SubSeq(u, 2, 5)) ELSE 0
           t == IF h.Type = Request THEN Uint16(SubSeq(u, 6, 7)) ELSE 0
           c == IF h.Type = Response THEN u[6] ELSE 0
           m == MetadataLengthAt(v, u, at)
           b == Uint24(Drop(u, Len(u) - 3))
<1>15. UnpackRest(v, g, u) =
         [Type |-> h.Type, Verify |-> h.Verify, Gzip |-> h.Gzip, CmdCode |-> u[1],
          RequestId |-> r, Timeout |-> t, StatusCode |-> c, MetadataLength |-> m,
          BodyLength |-> b, BeginUnpack |-> TRUE, IsUnpacked |-> TRUE]
  <2>1. /\ g.Type = h.Type /\ g.Verify = h.Verify /\ g.Gzip = h.Gzip /\ g.BeginUnpack = TRUE
        /\ g.RequestId = 0 /\ g.Timeout = 0 /\ g.StatusCode = 0
      BY <1>14
  <2> QED
      BY <2>1 DEF UnpackRest, at
<1> HIDE DEF r, t, c, m, b
<1>16. UnpackRest(v, g, u) = Unpacked(h)
  <2>1. r = IF h.Type \in {Request, Response} THEN h.RequestId ELSE 0
      BY <1>8 DEF r
  <2>2. t = IF h.Type = Request THEN h.Timeout ELSE 0
      BY <1>9 DEF t
  <2>3. c = IF h.Type = Response THEN h.StatusCode ELSE 0
      BY <1>10 DEF c
  <2>4. m = h.MetadataLength /\ b = h.BodyLength
      BY <1>12, <1>13 DEF m, b
  <2> QED
      BY <1>7, <1>15, <2>1, <2>2, <2>3, <2>4 DEF Unpacked
<1> QED
    BY <1>14, <1>16 DEF g, u

-----------------------------------------------------------------------------
(* Metadata values                                                           *)

\* g is defined by recursion: it begins with a, and step[i] leads to g[i].
Recursive(N, S, a, step, g) ==
    g \in [0..N -> S] /\ g[0] = a /\ \A i \in 1..N : g[i] = step[i][g[i - 1]]

\* A recursive definition by steps on 1..N has a function that satisfies it.
LEMMA Recursion ==
    ASSUME NEW N \in Nat, NEW S, NEW a \in S, NEW step \in [1..N -> [S -> S]]
    PROVE  \E g : Recursive(N, S, a, step, g)
<1> DEFINE P(n) == \E g \in [0..n -> S] : g[0] = a /\ \A i \in 1..n : g[i] = step[i][g[i - 1]]
           T == {n \in Nat : n =< N => P(n)}
<1>1. 0 \in T
  <2>1. [i \in 0..0 |-> a] \in [0..0 -> S] /\ [i \in 0..0 |-> a][0] = a
      OBVIOUS
  <2>3. \A i \in 1..0 : FALSE
      BY SMT
  <2>2. P(0)
    <3> DEFINE g0 == [i \in 0..0 |-> a]
    <3> HIDE DEF g0
    <3>1. g0 \in [0..0 -> S] /\ g0[0] = a
        BY <2>1 DEF g0
    <3> QED
        BY <2>3, <3>1, Zenon
  <2> HIDE DEF P
  <2> QED
      BY <2>2
<1>2. ASSUME NEW n \in T PROVE n + 1 \in T
  <2>1. n \in Nat /\ n + 1 \in Nat
      OBVIOUS
  <2> SUFFICES ASSUME n + 1 =< N PROVE P(n + 1)
      BY <2>1
  <2>2. n =< N /\ n + 1 \in 1..N
      BY <2>1
  <2>3. PICK g \in [0..n -> S] : g[0] = a /\ \A i \in 1..n : g[i] = step[i][g[i - 1]]
      BY <2>2
  <2> DEFINE b == step[n + 1][g[n]]
             k == [i \in 0..(n + 1) |-> IF i = n + 1 THEN b ELSE g[i]]
  <2>4. b \in S
      BY <2>1, <2>2
  <2> HIDE DEF b
  <2>5. k \in [0..(n + 1) -> S] /\ k[0] = a
      BY <2>1, <2>3, <2>4
  <2>6. ASSUME NEW i \in 1..(n + 1) PROVE k[i] = step[i][k[i - 1]]
    <3>1. CASE i = n + 1
      <4>1. k[i] = b /\ k[i - 1] = g[n]
          BY <2>1, <3>1
      <4> QED
          BY <3>1, <4>1 DEF b
    <3>2. CASE i # n + 1
      <4>1. i \in 1..n /\ i - 1 \in 0..n /\ i - 1 # n + 1 /\ i \in 0..(n + 1) /\
                i - 1 \in 0..(n + 1)
          BY <2>1, <3>2
      <4>2. k[i] = g[i] /\ k[i - 1] = g[i - 1]
          BY <3>2, <4>1
      <4> QED
          BY <2>3, <4>1, <4>2
    <3> QED
        BY <3>1, <3>2
  <2> HIDE DEF k
  <2> QED
      BY <2>5, <2>6
<1> HIDE DEF P
<1>3. T = Nat
    BY <1>1, <1>2, Induction
<1>4. P(N)
    BY <1>3
<1> QED
    BY <1>4 DEF P, Recursive

\* Dropping twice.
LEMMA DropDrop ==
    ASSUME NEW d \in Seq(Nat), NEW m \in Nat, NEW n \in Nat, m + n =< Len(d)
    PROVE  Drop(Drop(d, m), n) = Drop(d, m + n)
<1>1. Len(d) \in Nat /\ m =< Len(d)
    OBVIOUS
<1>2. Drop(d, m) \in Seq(Nat) /\ Len(Drop(d, m)) = Len(d) - m
    BY <1>1, DropFacts
<1>3. Drop(d, m + n) \in Seq(Nat) /\ Len(Drop(d, m + n)) = Len(d) - (m + n)
    BY <1>1, DropFacts
<1>4. PieceAt(d, m + n, Drop(d, m + n))
  <2> DEFINE p == m + n
             k == Len(d) - p
  <2>1. k \in Nat /\ p + k = Len(d) /\ p \in Nat /\ p + k =< Len(d)
      BY <1>1
  <2> HIDE DEF p, k
  <2>2. PieceAt(d, p, SubSeq(d, p + 1, p + k))
      BY <2>1, PieceSub
  <2>3. PieceAt(d, p, Drop(d, p))
      BY <2>1, <2>2 DEF Drop
  <2> QED
      BY <2>3 DEF p
<1>5. PieceAt(Drop(d, m), n, Drop(d, m + n))
    BY <1>1, <1>3, <1>4, DropFacts
<1> DEFINE e == Drop(d, m)
           t == Drop(d, m + n)
<1> HIDE DEF e, t
<1>6. PieceAt(e, n, t) /\ e \in Seq(Nat) /\ t \in Seq(Nat) /\ n + Len(t) = Len(e) /\ Len(t) \in Nat
  <2>1. PieceAt(e, n, t) /\ e \in Seq(Nat) /\ t \in Seq(Nat)
      BY <1>2, <1>3, <1>5 DEF e, t
  <2>2. Len(e) = Len(d) - m /\ Len(t) = Len(d) - (m + n)
      BY <1>2, <1>3 DEF e, t
  <2> QED
      BY <1>1, <2>1, <2>2
<1>7. SubSeq(e, n + 1, n + Len(t)) = t
    BY <1>6, PieceIs
<1>8. Drop(e, n) = t
    BY <1>6, <1>7 DEF Drop
<1> QED
    BY <1>8 DEF e, t

\* The long form of the length of a string reads back.
LEMMA ReadLength ==
    ASSUME NEW n \in Nat, n =< 32767, n > 127
    PROVE  /\ 128 + (n \div 256) \in Nat /\ n % 256 \in Nat
           /\ ~(128 + (n \div 256) < 128)
           /\ ((128 + (n \div 256)) - 128) * 256 + (n % 256) = n
BY SMT

\* A string that fits is marshalled, and read wherever it is found.
LEMMA StringsRead ==
    ASSUME NEW s \in Seq(Nat), Len(s) =< max15BitLength
    PROVE  \E ms \in Seq(Nat) :
              /\ marshalString(s) = {ms} /\ Len(ms) = StringLen(s)
              /\ \A d \in Seq(Nat), o \in Nat : PieceAt(d, o, ms) =>
                    getString(Drop(d, o)) = {[str |-> s, rest |-> Drop(d, o + Len(ms))]}
<1>1. Len(s) \in Nat
    OBVIOUS
<1> DEFINE k == StringLen(s) - Len(s)
           head == IF Len(s) =< max7BitLength THEN <<Len(s)>>
                   ELSE <<128 + (Len(s) \div 256), Len(s) % 256>>
           ms == head \o s
<1>2. /\ k = (IF Len(s) =< max7BitLength THEN 1 ELSE 2) /\ k \in Nat
      /\ StringLen(s) = k + Len(s)
    BY <1>1 DEF StringLen
<1>3. marshalString(s) = {ms}
    BY DEF marshalString
<1>4. head \in Seq(Nat) /\ Len(head) = k
  <2>1. CASE Len(s) =< max7BitLength
      BY <1>1, <1>2, <2>1
  <2>2. CASE ~(Len(s) =< max7BitLength)
    <3>1. Len(s) > 127 /\ Len(s) =< 32767
        BY <1>1, <2>2 DEF max7BitLength, max15BitLength
    <3>2. 128 + (Len(s) \div 256) \in Nat /\ Len(s) % 256 \in Nat
        BY <1>1, <3>1, ReadLength
    <3> QED
        BY <1>2, <2>2, <3>2
  <2> QED
      BY <2>1, <2>2
<1>5. ASSUME NEW e \in Seq(Nat), PieceAt(e, 0, head)
      PROVE  unmarshalStringLength(e) = {[len |-> Len(s), size |-> k]}
  <2>0. e # <<>> /\ Len(e) >= k
      BY <1>2, <1>4, <1>5 DEF PieceAt
  <2>1. CASE Len(s) =< max7BitLength
    <3>1. e[1] = Len(s) /\ Len(s) < 128 /\ k = 1
        BY <1>1, <1>2, <1>5, <2>1 DEF PieceAt, max7BitLength
    <3> QED
        BY <2>0, <3>1 DEF unmarshalStringLength
  <2>2. CASE ~(Len(s) =< max7BitLength)
    <3>1. Len(s) > 127 /\ Len(s) =< 32767
        BY <1>1, <2>2 DEF max7BitLength, max15BitLength
    <3>2. /\ 128 + (Len(s) \div 256) \in Nat /\ Len(s) % 256 \in Nat
          /\ ~(128 + (Len(s) \div 256) < 128)
          /\ ((128 + (Len(s) \div 256)) - 128) * 256 + (Len(s) % 256) = Len(s)
        BY <1>1, <3>1, ReadLength
    <3> DEFINE a == 128 + (Len(s) \div 256)
               b == Len(s) % 256
    <3> HIDE DEF a, b
    <3>3. a \in Nat /\ b \in Nat /\ ~(a < 128) /\ (a - 128) * 256 + b = Len(s) /\ head = <<a, b>>
        BY <2>2, <3>2 DEF a, b
    <3>4. e[1] = a /\ e[2] = b /\ k = 2
        BY <1>2, <1>5, <2>2, <3>3 DEF PieceAt
    <3> QED
        BY <2>0, <2>2, <3>3, <3>4 DEF unmarshalStringLength
  <2> QED
      BY <2>1, <2>2
<1> HIDE DEF head, k
<1>6. ms \in Seq(Nat) /\ Len(ms) = StringLen(s) /\ PieceAt(ms, k, s) /\ PieceAt(ms, 0, head)
    BY <1>2, <1>4, Join, PieceSelf
<1> HIDE DEF ms
<1>7. ASSUME NEW d \in Seq(Nat), NEW o \in Nat, PieceAt(d, o, ms)
      PROVE  getString(Drop(d, o)) = {[str |-> s, rest |-> Drop(d, o + Len(ms))]}
  <2> DEFINE e == Drop(d, o)
  <2>1. Len(d) \in Nat /\ Len(ms) \in Nat /\ o + Len(ms) =< Len(d) /\ o =< Len(d)
      BY <1>6, <1>7 DEF PieceAt
  <2>2. e \in Seq(Nat) /\ Len(e) = Len(d) - o
      BY <2>1, DropFacts
  <2>3. PieceAt(e, 0, ms)
    <3>1. PieceAt(d, o + 0, ms)
        BY <1>7
    <3> QED
        BY <1>6, <2>1, <3>1, DropFacts
  <2>4. Drop(e, Len(ms)) = Drop(d, o + Len(ms))
      BY <2>1, DropDrop
  <2> HIDE DEF e
  <2>5. PieceAt(e, 0, head)
    <3>1. PieceAt(e, 0 + 0, head)
        BY <1>4, <1>6, <2>2, <2>3, PieceOfPiece
    <3> QED
        BY <3>1
  <2>6. PieceAt(e, k, s)
    <3>1. PieceAt(e, 0 + k, s)
        BY <1>2, <1>6, <2>2, <2>3, PieceOfPiece
    <3> QED
        BY <1>2, <3>1
  <2>7. unmarshalStringLength(e) = {[len |-> Len(s), size |-> k]}
      BY <1>5, <2>2, <2>5
  <2>8. SubSeq(e, k + 1, k + Len(s)) = s
      BY <1>2, <2>2, <2>6, PieceIs
  <2>9. Len(s) =< Len(e) - k
      BY <1>1, <1>2, <2>2, <2>6 DEF PieceAt
  <2> DEFINE l == [len |-> Len(s), size |-> k]
  <2>10. {x \in unmarshalStringLength(e) : x.len =< Len(e) - x.size} = {l}
      BY <2>7, <2>9
  <2>11. getString(e) = {[str |-> SubSeq(e, l.size + 1, l.size + l.len),
                          rest |-> Drop(e, l.size + l.len)]}
      BY <2>10 DEF getString
  <2>12. l.size + l.len = Len(ms) /\ l.size = k /\ l.len = Len(s)
      BY <1>1, <1>2, <1>6
  <2> QED
      BY <2>4, <2>8, <2>11, <2>12 DEF e
<1> QED
    BY <1>3, <1>6, <1>7

EntryFits(e) ==
    /\ e \in Entries /\ e.key # <<>> /\ ToLower(e.key) = e.key
    /\ Len(e.key) =< max15BitLength /\ Len(e.val) =< max15BitLength

\* An entry that fits is marshalled, and read wherever it is found.
LEMMA EntriesRead ==
    ASSUME NEW e, EntryFits(e)
    PROVE  \E kv \in Seq(Nat) :
              /\ marshalEntry(e) = {kv} /\ Len(kv) = EntryLen(e)
              /\ \A d \in Seq(Nat), o \in Nat : \A vs : PieceAt(d, o, kv) =>
                    TakeEntry([rest |-> Drop(d, o), values |-> vs]) =
                       {[rest |-> Drop(d, o + Len(kv)),
                           values |-> {x \in vs : x.key # e.key} \cup {e}]}
<1>1. /\ e.key \in Seq(Nat) /\ e.val \in Seq(Nat) /\ e = [key |-> e.key, val |-> e.val]
      /\ e.key # <<>> /\ ToLower(e.key) = e.key
      /\ Len(e.key) =< max15BitLength /\ Len(e.val) =< max15BitLength
    BY DEF EntryFits, Entries
<1>2. PICK k \in Seq(Nat) :
          /\ marshalString(e.key) = {k} /\ Len(k) = StringLen(e.key)
          /\ \A d \in Seq(Nat), o \in Nat : PieceAt(d, o, k) =>
                getString(Drop(d, o)) = {[str |-> e.key, rest |-> Drop(d, o + Len(k))]}
    BY <1>1, StringsRead
<1>3. PICK v \in Seq(Nat) :
          /\ marshalString(e.val) = {v} /\ Len(v) = StringLen(e.val)
          /\ \A d \in Seq(Nat), o \in Nat : PieceAt(d, o, v) =>
                getString(Drop(d, o)) = {[str |-> e.val, rest |-> Drop(d, o + Len(v))]}
    BY <1>1, StringsRead
<1> DEFINE kv == k \o v
<1>4. kv \in Seq(Nat) /\ Len(kv) = Len(k) + Len(v) /\ PieceAt(kv, 0, k) /\ PieceAt(kv, Len(k), v)
    BY Join, PieceSelf
<1>5. marshalEntry(e) = {kv}
    BY <1>1, <1>2, <1>3 DEF marshalEntry
<1> HIDE DEF kv
<1>6. Len(kv) = EntryLen(e)
    BY <1>1, <1>2, <1>3, <1>4 DEF EntryLen
<1>7. ASSUME NEW d \in Seq(Nat), NEW o \in Nat, NEW vs, PieceAt(d, o, kv)
      PROVE  TakeEntry([rest |-> Drop(d, o), values |-> vs]) =
                {[rest |-> Drop(d, o + Len(kv)), values |-> {x \in vs : x.key # e.key} \cup {e}]}
  <2>1. Len(k) \in Nat /\ Len(v) \in Nat /\ o + Len(k) \in Nat /\
            o + Len(kv) = (o + Len(k)) + Len(v)
      BY <1>4
  <2>2. PieceAt(d, o, k)
    <3>1. PieceAt(d, o + 0, k)
        BY <1>4, <1>7, PieceOfPiece
    <3> QED
        BY <3>1
  <2>3. PieceAt(d, o + Len(k), v)
      BY <1>4, <1>7, <2>1, PieceOfPiece
  <2>4. getString(Drop(d, o)) = {[str |-> e.key, rest |-> Drop(d, o + Len(k))]}
      BY <1>2, <2>2
  <2>5. getString(Drop(d, o + Len(k))) = {[str |-> e.val, rest |-> Drop(d, o + Len(kv))]}
      BY <1>3, <2>1, <2>3
  <2> DEFINE r == [rest |-> Drop(d, o), values |-> vs]
             a == [str |-> e.key, rest |-> Drop(d, o + Len(k))]
             b == [str |-> e.val, rest |-> Drop(d, o + Len(kv))]
             F(x, y) == [rest |-> y.rest,
                         values |-> {z \in r.values : z.key # ToLower(x.str)}
                                      \cup {[key |-> ToLower(x.str), val |-> y.str]}]
  <2>6. TakeEntry(r) = UNION {{F(x, y) : y \in getString(x.rest)} : x \in getString(r.rest)}
      BY DEF TakeEntry
  <2>7. getString(r.rest) = {a} /\ getString(a.rest) = {b}
      BY <2>4, <2>5
  <2>8. F(a, b) = [rest |-> Drop(d, o + Len(kv)), values |-> {x \in vs : x.key # e.key} \cup {e}]
      BY <1>1
  <2> HIDE DEF F, r, a, b
  <2>9. TakeEntry(r) = UNION {{F(x, y) : y \in getString(x.rest)} : x \in {a}}
      BY <2>6, <2>7
  <2>10. TakeEntry(r) = {F(a, b)}
      BY <2>7, <2>9
  <2> QED
      BY <2>8, <2>10 DEF r
<1> QED
    BY <1>4, <1>5, <1>6, <1>7

\* A marshalled string takes at least one byte.
LEMMA StringLenFacts ==
    ASSUME NEW s \in Seq(Nat)
    PROVE  StringLen(s) \in Nat /\ StringLen(s) >= 1
<1>1. Len(s) \in Nat
    OBVIOUS
<1>2. CASE Len(s) =< max7BitLength
  <2>1. StringLen(s) = Len(s) + 1
      BY <1>2 DEF StringLen
  <2> QED
      BY <1>1, <2>1
<1>3. CASE ~(Len(s) =< max7BitLength)
  <2>1. StringLen(s) = Len(s) + 2
      BY <1>3 DEF StringLen
  <2> QED
      BY <1>1, <2>1
<1> QED
    BY <1>2, <1>3

\* A marshalled entry takes at least two, and none without a key.
LEMMA EntryLenFacts ==
    ASSUME NEW e \in Entries
    PROVE  /\ EntryLen(e) \in Nat
           /\ e.key # <<>> => EntryLen(e) >= 2
           /\ e.key = <<>> => EntryLen(e) = 0
<1>1. Len(e.key) \in Nat /\ Len(e.val) \in Nat
    BY DEF Entries
<1>2. StringLen(e.key) \in Nat /\ StringLen(e.key) >= 1
    BY <1>1, StringLenFacts DEF Entries
<1>3. StringLen(e.val) \in Nat /\ StringLen(e.val) >= 1
    BY <1>1, StringLenFacts DEF Entries
<1> QED
    BY <1>2, <1>3 DEF EntryLen

\* Sizes adds up the entries.
LEMMA SizesFacts ==
    ASSUME NEW values \in Seq(Entries)
    PROVE  /\ Sizes(values) \in [0..Len(values) -> Nat] /\ Sizes(values)[0] = 0
           /\ \A i \in 1..Len(values) :
                 Sizes(values)[i] = Sizes(values)[i - 1] + EntryLen(values[i])
<1> DEFINE N == Len(values)
           step == [i \in 1..N |-> [x \in Nat |-> x + EntryLen(values[i])]]
           D(g) == [i \in 0..N |-> IF i = 0 THEN 0 ELSE g[i - 1] + EntryLen(values[i])]
<1>1. N \in Nat
    OBVIOUS
<1>2. \A i \in 1..N : EntryLen(values[i]) \in Nat
  <2>1. \A i \in 1..N : values[i] \in Entries
      OBVIOUS
  <2> QED
      BY <2>1, EntryLenFacts
<1>3. step \in [1..N -> [Nat -> Nat]]
    BY <1>2
<1>4. \A i \in 1..N, x \in Nat : step[i][x] = x + EntryLen(values[i])
    OBVIOUS
<1>5. Sizes(values) = CHOOSE g : g = D(g)
    BY DEF Sizes
<1> HIDE DEF step, N
<1>6. PICK g \in [0..N -> Nat] : g[0] = 0 /\ \A i \in 1..N : g[i] = step[i][g[i - 1]]
  <2>1. 0 \in Nat
      OBVIOUS
  <2>2. \E g : Recursive(N, Nat, 0, step, g)
      BY <1>1, <1>3, <2>1, Recursion
  <2> QED
      BY <2>2 DEF Recursive
<1>7. \A i \in 1..N : i - 1 \in 0..N /\ g[i - 1] \in Nat /\ g[i] = g[i - 1] + EntryLen(values[i])
  <2> TAKE i \in 1..N
  <2>1. i - 1 \in 0..N
      BY <1>1
  <2>2. g[i - 1] \in Nat
      BY <2>1
  <2> QED
      BY <1>4, <1>6, <2>1, <2>2
<1>8. g = D(g)
    BY <1>1, <1>6, <1>7
<1> DEFINE z == Sizes(values)
<1>9. z = D(z)
    BY <1>5, <1>8
<1> HIDE DEF z
<1>10. z[0] = 0 /\ \A i \in 1..N : z[i] = z[i - 1] + EntryLen(values[i])
    BY <1>1, <1>9
<1> DEFINE T == {i \in Nat : i =< N => z[i] = g[i]}
<1>11. 0 \in T
    BY <1>6, <1>10
<1>12. ASSUME NEW i \in T PROVE i + 1 \in T
  <2> SUFFICES ASSUME i + 1 =< N PROVE z[i + 1] = g[i + 1]
      OBVIOUS
  <2>1. i \in Nat /\ i + 1 \in 1..N /\ (i + 1) - 1 = i /\ z[i] = g[i]
      BY <1>1
  <2> QED
      BY <1>7, <1>10, <2>1
<1>13. T = Nat
    BY <1>11, <1>12, Induction
<1>14. \A i \in 0..N : z[i] = g[i]
    BY <1>1, <1>13
<1>15. z \in [0..N -> Nat]
  <2>1. z = [i \in 0..N |-> z[i]]
      BY <1>9
  <2>2. \A i \in 0..N : z[i] \in Nat
      BY <1>6, <1>14
  <2> QED
      BY <2>1, <2>2
<1> QED
    BY <1>10, <1>15 DEF z, N

\* More entries take no less.
LEMMA SizesGrow ==
    ASSUME NEW values \in Seq(Entries), NEW j \in 0..Len(values), NEW i \in 0..j
    PROVE  Sizes(values)[i] =< Sizes(values)[j]
<1> DEFINE N == Len(values)
           z == Sizes(values)
           T == {k \in Nat : k =< N => \A l \in 0..k : z[l] =< z[k]}
<1>1. N \in Nat
    OBVIOUS
<1>2. \A k \in 0..N : z[k] \in Nat
    BY SizesFacts
<1>3. \A k \in 1..N : z[k] >= z[k - 1]
  <2> TAKE k \in 1..N
  <2>1. z[k] = z[k - 1] + EntryLen(values[k])
      BY SizesFacts
  <2>2. values[k] \in Entries
      OBVIOUS
  <2>3. EntryLen(values[k]) \in Nat
      BY <2>2, EntryLenFacts
  <2>4. k - 1 \in 0..N
      BY <1>1
  <2>5. z[k - 1] \in Nat
      BY <1>2, <2>4
  <2> HIDE DEF z
  <2> QED
      BY <2>1, <2>3, <2>5
<1> HIDE DEF z, N
<1>4. 0 \in T
  <2>1. \A l \in 0..0 : l = 0
      BY SMT
  <2>2. 0 =< N => z[0] \in Nat
      BY <1>1, <1>2
  <2> QED
      BY <2>1, <2>2
<1>5. ASSUME NEW k \in T PROVE k + 1 \in T
  <2> SUFFICES ASSUME k + 1 =< N, NEW l \in 0..(k + 1)
               PROVE  z[l] =< z[k + 1]
      OBVIOUS
  <2>1. k \in Nat /\ k + 1 \in 1..N /\ k \in 0..N /\ (k + 1) - 1 = k /\ k + 1 \in 0..N
      BY <1>1
  <2>2. z[k + 1] >= z[k] /\ z[k] \in Nat /\ z[k + 1] \in Nat
      BY <1>2, <1>3, <2>1
  <2>3. CASE l = k + 1
      BY <2>1, <2>2, <2>3
  <2>4. CASE l # k + 1
    <3>1. l \in 0..k /\ l \in 0..N
      <4>1. l \in Nat /\ l =< k + 1
          BY <2>1
      <4> QED
          BY <1>1, <2>1, <2>4, <4>1
    <3>2. z[l] =< z[k] /\ z[l] \in Nat
        BY <1>2, <2>1, <3>1
    <3> QED
        BY <2>1, <2>2, <3>1, <3>2, SMTT(30)
  <2> QED
      BY <2>3, <2>4
<1>6. T = Nat
    BY <1>4, <1>5, Induction
<1>7. j \in Nat /\ j =< N /\ j \in T
  <2>1. j \in Nat /\ j =< N
      BY <1>1 DEF N
  <2> HIDE DEF T
  <2> QED
      BY <1>6, <2>1
<1>8. z[i] =< z[j]
    BY <1>7
<1> QED
    BY <1>8 DEF z

\* Only one key is empty, if any.
EmptyAt(values, e) ==
    /\ e \in 1..(Len(values) + 1)
    /\ \A i \in 1..Len(values) : values[i].key = <<>> <=> i = e

\* At most one value has the empty key.
LEMMA EmptyKey ==
    ASSUME NEW values, KeysFit(values)
    PROVE  \E e : EmptyAt(values, e)
<1>1. /\ Len(values) \in Nat /\ DOMAIN values = 1..Len(values)
      /\ \A i, j \in 1..Len(values) : values[i].key = values[j].key => i = j
    BY DEF KeysFit
<1>2. CASE \E i \in 1..Len(values) : values[i].key = <<>>
  <2>1. PICK i \in 1..Len(values) : values[i].key = <<>>
      BY <1>2
  <2>2. i \in 1..(Len(values) + 1)
      BY <1>1
  <2>3. EmptyAt(values, i)
      BY <1>1, <2>1, <2>2 DEF EmptyAt
  <2> QED
      BY <2>3
<1>3. CASE \A i \in 1..Len(values) : values[i].key # <<>>
  <2> DEFINE e == Len(values) + 1
  <2>1. e \in 1..(Len(values) + 1) /\ \A i \in 1..Len(values) : i # e
      BY <1>1
  <2> HIDE DEF e
  <2>2. EmptyAt(values, e)
      BY <1>3, <2>1 DEF EmptyAt, e
  <2> QED
      BY <2>2
<1> QED
    BY <1>2, <1>3

\* All other entries take two bytes each at least.
LEMMA SizesCount ==
    ASSUME NEW values, KeysFit(values), NEW n \in 0..Len(values)
    PROVE  2 * n =< Sizes(values)[n] + 2
<1> DEFINE N == Len(values)
           z == Sizes(values)
<1>0. values \in Seq(Entries)
    BY DEF KeysFit
<1>1. N \in Nat
    BY <1>0
<1>2. /\ z[0] = 0 /\ \A k \in 0..N : z[k] \in Nat
      /\ \A k \in 1..N : z[k] = z[k - 1] + EntryLen(values[k])
    BY <1>0, SizesFacts
<1>3. PICK e : EmptyAt(values, e)
    BY EmptyKey
<1>4. \A k \in 1..N : EntryLen(values[k]) \in Nat /\ (k # e => EntryLen(values[k]) >= 2)
  <2> TAKE k \in 1..N
  <2>1. values[k] \in Entries
      BY <1>0
  <2> QED
      BY <1>3, <2>1, EntryLenFacts DEF EmptyAt
<1>5. e \in Nat /\ e > 0
    BY <1>1, <1>3 DEF EmptyAt
<1> DEFINE more(k) == IF e =< k THEN 2 ELSE 0
           T == {k \in Nat : k =< N => 2 * k =< z[k] + more(k)}
<1> HIDE DEF N, z
<1>6. 0 \in T
    BY <1>2, <1>5
<1>7. ASSUME NEW k \in T PROVE k + 1 \in T
  <2> SUFFICES ASSUME k + 1 =< N PROVE 2 * (k + 1) =< z[k + 1] + more(k + 1)
      OBVIOUS
  <2>1. k \in Nat /\ k + 1 \in 1..N /\ (k + 1) - 1 = k /\ k \in 0..N
      BY <1>1
  <2>2. 2 * k =< z[k] + more(k) /\ z[k] \in Nat
      BY <1>2, <2>1
  <2>3. z[k + 1] = z[k] + EntryLen(values[k + 1]) /\ EntryLen(values[k + 1]) \in Nat
      BY <1>2, <1>4, <2>1
  <2>4. CASE k + 1 = e
    <3>1. more(k) = 0 /\ more(k + 1) = 2
        BY <1>5, <2>1, <2>4
    <3> HIDE DEF more
    <3> QED
        BY <2>1, <2>2, <2>3, <3>1
  <2>5. CASE k + 1 # e
    <3>1. more(k + 1) = more(k) /\ more(k) \in Nat
        BY <1>5, <2>1, <2>5
    <3>2. EntryLen(values[k + 1]) >= 2
        BY <1>4, <2>1, <2>5
    <3> HIDE DEF more
    <3> QED
        BY <2>1, <2>2, <2>3, <3>1, <3>2
  <2> QED
      BY <2>4, <2>5
<1>8. T = Nat
    BY <1>6, <1>7, Induction
<1>9. n \in Nat /\ n =< N /\ n \in 0..N
    BY <1>1 DEF N
<1>10. n \in T
    BY <1>8, <1>9
<1>11. 2 * n =< z[n] + more(n) /\ z[n] \in Nat
    BY <1>2, <1>9, <1>10
<1>12. more(n) =< 2 /\ more(n) \in Nat
    OBVIOUS
<1> HIDE DEF more
<1> QED
    BY <1>9, <1>11, <1>12 DEF z

\* The i-th entry as it is marshalled.
Marshalled(values) == [i \in 1..Len(values) |-> CHOOSE kv : kv \in marshalEntry(values[i])]

\* EntriesRead for one of the values of a packet.
LEMMA MarshalledFacts ==
    ASSUME NEW values, KeysFit(values), NEW i \in 1..Len(values), values[i].key # <<>>
    PROVE  /\ Marshalled(values)[i] \in Seq(Nat)
           /\ marshalEntry(values[i]) = {Marshalled(values)[i]}
           /\ Len(Marshalled(values)[i]) = EntryLen(values[i])
           /\ \A d \in Seq(Nat), o \in Nat : \A vs : PieceAt(d, o, Marshalled(values)[i]) =>
                 TakeEntry([rest |-> Drop(d, o), values |-> vs]) =
                    {[rest |-> Drop(d, o + EntryLen(values[i])),
                      values |-> {x \in vs : x.key # values[i].key} \cup {values[i]}]}
<1>1. EntryFits(values[i])
  <2>1. values[i] \in Entries /\ i \in DOMAIN values
      BY DEF KeysFit
  <2> QED
      BY <2>1 DEF KeysFit, EntryFits
<1>2. PICK kv \in Seq(Nat) :
         /\ marshalEntry(values[i]) = {kv} /\ Len(kv) = EntryLen(values[i])
         /\ \A d \in Seq(Nat), o \in Nat : \A vs : PieceAt(d, o, kv) =>
               TakeEntry([rest |-> Drop(d, o), values |-> vs]) =
                  {[rest |-> Drop(d, o + Len(kv)),
                    values |-> {x \in vs : x.key # values[i].key} \cup {values[i]}]}
    BY <1>1, EntriesRead
<1>3. Marshalled(values)[i] = kv
    BY <1>2 DEF Marshalled
<1> QED
    BY <1>2, <1>3, SMTT(30)

\* MarshalValues writes the entries that fit, one behind the other.
LEMMA MarshalFacts ==
    ASSUME NEW values, KeysFit(values), NEW max \in Nat, NEW c, Fits(values, max, c)
    PROVE  /\ MarshalValues(values, max) \in Seq(Nat)
           /\ Len(MarshalValues(values, max)) = Sizes(values)[c]
           /\ \A i \in 1..c : values[i].key # <<>> =>
                 PieceAt(MarshalValues(values, max), Sizes(values)[i - 1], Marshalled(values)[i])
<1> DEFINE N == Len(values)
           z == Sizes(values)
           E == Marshalled(values)
           S == [data : Seq(Nat), full : BOOLEAN]
           a == [data |-> <<>>, full |-> FALSE]
           step == [i \in 1..N |-> [r \in S |-> AddEntry(r, values[i], max)]]
           D(g) == [i \in 0..N |-> IF i = 0 THEN a ELSE AddEntry(g[i - 1], values[i], max)]
           m == CHOOSE g : g = D(g)
           Empty(i) == values[i].key = <<>>
<1>1. N \in Nat /\ values \in Seq(Entries)
    BY DEF KeysFit
<1>2. MarshalValues(values, max) = m[N].data
    BY DEF MarshalValues
<1>3. z \in [0..N -> Nat] /\ z[0] = 0 /\ \A i \in 1..N : z[i] = z[i - 1] + EntryLen(values[i])
    BY <1>1, SizesFacts
<1>4. \A i \in 1..N : ~Empty(i) =>
         /\ E[i] \in Seq(Nat) /\ marshalEntry(values[i]) = {E[i]} /\ Len(E[i]) = EntryLen(values[i])
    BY MarshalledFacts
<1>e. \A i \in 1..N : Empty(i) => marshalEntry(values[i]) = {} /\ z[i] = z[i - 1]
  <2> SUFFICES ASSUME NEW i \in 1..N, Empty(i) PROVE marshalEntry(values[i]) = {} /\ z[i] = z[i - 1]
      OBVIOUS
  <2>1. EntryLen(values[i]) = 0
      BY DEF EntryLen
  <2>2. i - 1 \in 0..N
      BY <1>1
  <2>3. z[i - 1] \in Nat
      BY <1>3, <2>2
  <2>4. z[i] = z[i - 1]
      BY <1>3, <2>1, <2>3
  <2>5. marshalEntry(values[i]) = {}
      BY DEF marshalEntry
  <2> QED
      BY <2>4, <2>5
<1>5. /\ c \in 0..N /\ \A i \in 0..c : z[i] =< max
      /\ \A i \in 0..N : z[i] =< max => i =< c
  <2>1. c \in 0..N /\ z[c] =< max /\ \A i \in 0..N : z[i] =< max => i =< c
      BY DEF Fits
  <2>2. ASSUME NEW i \in 0..c PROVE z[i] =< max
    <3>1. z[i] =< z[c] /\ i \in 0..N
        BY <1>1, <2>1, SizesGrow
    <3>2. z[i] \in Nat /\ z[c] \in Nat
        BY <1>3, <2>1, <3>1
    <3> QED
        BY <2>1, <3>1, <3>2
  <2> QED
      BY <2>1, <2>2
<1>6. a \in S
    OBVIOUS
<1> HIDE DEF z, E, N, m
<1>7. ASSUME NEW i \in 1..N, NEW r \in S, ~Empty(i)
      PROVE  /\ AddEntry(r, values[i], max) \in S
             /\ r.full => AddEntry(r, values[i], max) = r
             /\ ~r.full /\ ~(Len(E[i]) + Len(r.data) > max) =>
                   AddEntry(r, values[i], max) = [data |-> r.data \o E[i], full |-> FALSE]
             /\ ~r.full /\ Len(E[i]) + Len(r.data) > max =>
                   AddEntry(r, values[i], max) = [r EXCEPT !.full = TRUE]
  <2>1. E[i] \in Seq(Nat) /\ marshalEntry(values[i]) = {E[i]}
      BY <1>4, <1>7
  <2>2. (CHOOSE x \in marshalEntry(values[i]) : TRUE) = E[i]
      BY <2>1
  <2> DEFINE k == E[i]
  <2> HIDE DEF k
  <2>3. k \in Seq(Nat) /\ (CHOOSE x \in marshalEntry(values[i]) : TRUE) = k
        /\ marshalEntry(values[i]) # {}
      BY <2>1, <2>2 DEF k
  <2>4. r.data \o k \in Seq(Nat) /\ r = [data |-> r.data, full |-> r.full] /\ r.full \in BOOLEAN
      BY <2>3
  <2>5. AddEntry(r, values[i], max) =
           IF r.full THEN r
           ELSE IF Len(k) + Len(r.data) > max THEN [r EXCEPT !.full = TRUE]
                                              ELSE [data |-> r.data \o k, full |-> FALSE]
      BY <2>3 DEF AddEntry
  <2>6. [r EXCEPT !.full = TRUE] \in S
      OBVIOUS
  <2>8. [data |-> r.data \o k, full |-> FALSE] \in S
      BY <2>4
  <2>9. AddEntry(r, values[i], max) \in S
      BY <2>5, <2>6, <2>8
  <2> QED
      BY <2>5, <2>9 DEF k
<1>f. ASSUME NEW i \in 1..N, NEW r, Empty(i)
      PROVE  AddEntry(r, values[i], max) = r
    BY <1>e, <1>f DEF AddEntry
<1> HIDE DEF S, Empty
<1>8. step \in [1..N -> [S -> S]] /\ \A i \in 1..N, r \in S :
          step[i][r] = AddEntry(r, values[i], max)
  <2>1. \A i \in 1..N, r \in S : AddEntry(r, values[i], max) \in S
      BY <1>7, <1>f
  <2> QED
      BY <2>1
<1> HIDE DEF step, a
<1>9. PICK g : g \in [0..N -> S] /\ g[0] = a /\ \A i \in 1..N : g[i] = step[i][g[i - 1]]
  <2>1. \E g : Recursive(N, S, a, step, g)
      BY <1>1, <1>6, <1>8, Recursion
  <2> QED
      BY <2>1 DEF Recursive
<1>10. \A i \in 1..N : i - 1 \in 0..N /\ g[i] = AddEntry(g[i - 1], values[i], max)
  <2> TAKE i \in 1..N
  <2>1. i - 1 \in 0..N
      BY <1>1
  <2>2. g[i - 1] \in S
      BY <1>9, <2>1
  <2> QED
      BY <1>8, <1>9, <2>1, <2>2
<1>11. g = D(g)
    BY <1>1, <1>9, <1>10
<1>12. m = D(m)
    BY <1>11 DEF m
<1>13. m[0] = a /\ \A i \in 1..N : m[i] = AddEntry(m[i - 1], values[i], max)
    BY <1>1, <1>12
<1> DEFINE P(j) == /\ m[j] \in S /\ ~m[j].full /\ Len(m[j].data) = z[j]
                   /\ \A i \in 1..j : ~Empty(i) => PieceAt(m[j].data, z[i - 1], E[i])
           T == {j \in Nat : j =< c => P(j)}
<1>14. 0 \in T
  <2>1. \A i \in 1..0 : FALSE
      BY SMT
  <2>2. m[0] \in S /\ ~m[0].full /\ Len(m[0].data) = 0
      BY <1>13 DEF a, S
  <2> QED
      BY <1>3, <2>1, <2>2
<1>15. ASSUME NEW j \in T PROVE j + 1 \in T
  <2> SUFFICES ASSUME j + 1 =< c PROVE P(j + 1)
      OBVIOUS
  <2> DEFINE k == j + 1
             d == m[j].data
             e == E[k]
  <2>1. j \in Nat /\ k \in 1..N /\ k - 1 = j /\ P(j) /\ k \in 0..N /\ j \in 0..N /\ k \in 0..c
      BY <1>1, <1>5
  <2> HIDE DEF k
  <2>e. CASE Empty(k)
    <3>1. m[k] = m[j] /\ z[k] = z[j]
        BY <1>13, <1>e, <1>f, <2>1, <2>e DEF Empty
    <3>2. \A i \in 1..k : ~Empty(i) => i \in 1..j
        BY <2>1, <2>e DEF k
    <3> QED
        BY <2>1, <3>1, <3>2 DEF k
  <2>n. CASE ~Empty(k)
    <3>2. e \in Seq(Nat) /\ Len(e) = EntryLen(values[k]) /\ z[k] = z[j] + Len(e)
        BY <1>3, <1>4, <2>1, <2>n
    <3>3. d \in Seq(Nat) /\ Len(d) = z[j] /\ z[j] \in Nat /\ z[k] =< max
        BY <1>3, <1>5, <2>1 DEF S
    <3>4. ~(Len(e) + Len(d) > max)
      <4>1. Len(e) \in Nat
          BY <3>2
      <4> HIDE DEF e, d
      <4> QED
          BY <3>2, <3>3, <4>1
    <3>5. m[k] = [data |-> d \o e, full |-> FALSE]
        BY <1>7, <1>13, <2>1, <2>n, <3>4
    <3> HIDE DEF d, e
    <3>6. /\ d \o e \in Seq(Nat) /\ Len(d \o e) = z[j] + Len(e) /\ PieceAt(d \o e, z[j], e)
          /\ \A o \in Nat, x \in Seq(Nat) : PieceAt(d, o, x) => PieceAt(d \o e, o, x)
        BY <3>2, <3>3, Join
    <3>7. m[k] \in S /\ ~m[k].full /\ Len(m[k].data) = z[k]
        BY <3>2, <3>5, <3>6 DEF S
    <3>8. ASSUME NEW i \in 1..k, ~Empty(i) PROVE PieceAt(m[k].data, z[i - 1], E[i])
      <4>1. CASE i = k
          BY <2>1, <3>5, <3>6, <4>1 DEF e
      <4>2. CASE i # k
        <5>1. i \in 1..j /\ i \in 1..N /\ i - 1 \in 0..N
            BY <1>1, <2>1, <4>2 DEF k
        <5>2. PieceAt(d, z[i - 1], E[i])
            BY <2>1, <3>8, <5>1 DEF d
        <5>3. z[i - 1] \in Nat /\ E[i] \in Seq(Nat)
            BY <1>3, <1>4, <3>8, <5>1
        <5> QED
            BY <3>5, <3>6, <5>2, <5>3
      <4> QED
          BY <4>1, <4>2
    <3> QED
        BY <3>7, <3>8 DEF k
  <2> QED
      BY <2>e, <2>n
<1>16. T = Nat
    BY <1>14, <1>15, Induction
<1>17. P(c) /\ c \in Nat
    BY <1>1, <1>5, <1>16
<1> HIDE DEF P
<1> DEFINE Q(j) == m[j] \in S /\ m[j].data = m[c].data /\ (j = c \/ m[j].full)
           U == {j \in Nat : c + j =< N => Q(c + j)}
<1>18. 0 \in U
    BY <1>17 DEF P
<1>19. ASSUME NEW j \in U PROVE j + 1 \in U
  <2> SUFFICES ASSUME c + (j + 1) =< N PROVE Q(c + (j + 1))
      OBVIOUS
  <2> DEFINE k == c + (j + 1)
             l == c + j
  <2>1. k \in 1..N /\ k - 1 = l /\ Q(l) /\ k \in 0..N /\ l \in 0..N /\ k # c /\ c \in 0..N
      BY <1>1, <1>17
  <2>2. m[k] = AddEntry(m[l], values[k], max)
      BY <1>13, <2>1
  <2>3. l # c => m[l].full
      BY <2>1
  <2> HIDE DEF k, l
  <2>4. CASE l # c
    <3>1. m[k] = m[l] /\ m[l].full
        BY <1>7, <1>f, <2>1, <2>2, <2>3, <2>4
    <3> QED
        BY <2>1, <3>1 DEF k
  <2>5. CASE l = c
    <3>1. z[k] = z[c] + EntryLen(values[k]) /\ z[c] \in Nat
        BY <1>3, <2>1, <2>5
    <3>2. ~(z[k] =< max) /\ z[c] =< max
      <4>1. z[k] =< max => k =< c
          BY <1>5, <2>1
      <4>2. ~(k =< c) /\ c \in 0..c
          BY <1>17, <2>1, <2>5
      <4> QED
          BY <1>5, <4>1, <4>2
    <3>3. ~Empty(k)
      <4>1. Empty(k) => z[k] = z[c]
          BY <1>e, <2>1, <2>5 DEF Empty
      <4> QED
          BY <3>2, <4>1
    <3>4. Len(E[k]) = EntryLen(values[k]) /\ E[k] \in Seq(Nat)
        BY <1>4, <2>1, <3>3
    <3>5. Len(m[c].data) = z[c] /\ ~m[c].full
        BY <1>17 DEF P
    <3>6. Len(E[k]) + Len(m[c].data) > max
      <4>1. Len(E[k]) \in Nat
          BY <3>4
      <4>2. Len(E[k]) + Len(m[c].data) = z[k]
          BY <3>1, <3>4, <3>5, <4>1
      <4>3. z[k] \in Nat
          BY <1>3, <2>1
      <4> DEFINE x == Len(E[k]) + Len(m[c].data)
                 y == z[k]
      <4>4. x = y /\ y \in Nat /\ ~(y =< max)
          BY <3>2, <4>2, <4>3
      <4> HIDE DEF x, y, Q, U, T, D
      <4>5. x > max
          BY <4>4
      <4> QED
          BY <4>5 DEF x
    <3>7. m[k] = [m[c] EXCEPT !.full = TRUE]
      <4>1. m[c] \in S /\ k \in 1..N /\ m[k] = AddEntry(m[c], values[k], max)
          BY <2>1, <2>2, <2>5
      <4> HIDE DEF Q, U, T, D
      <4> QED
          BY <1>7, <3>3, <3>5, <3>6, <4>1
    <3>8. m[k] \in S /\ m[k].data = m[c].data /\ m[k].full
        BY <2>1, <2>5, <3>7 DEF S
    <3> QED
        BY <3>8 DEF k
  <2> QED
      BY <2>4, <2>5
<1>20. U = Nat
    BY <1>18, <1>19, Induction
<1>21. m[N].data = m[c].data
  <2>1. N - c \in Nat /\ c + (N - c) = N /\ N =< N
      BY <1>1, <1>5
  <2> DEFINE j == N - c
  <2> HIDE DEF j, Q
  <2>2. j \in U /\ c + j = N /\ N =< N
      BY <1>20, <2>1 DEF j
  <2>3. Q(N)
      BY <2>2
  <2> QED
      BY <2>3 DEF Q
<1>22. m[c].data \in Seq(Nat)
    BY <1>17 DEF P, S
<1> QED
    BY <1>2, <1>17, <1>21, <1>22 DEF P, Empty, z, E, N

\* The first n entries, one behind the other in md, are read back.
LEMMA UnmarshalFacts ==
    ASSUME NEW values, KeysFit(values), NEW N \in 0..Len(values), NEW md \in Seq(Nat),
           Len(md) = Sizes(values)[N],
           \A i \in 1..N : values[i].key # <<>> =>
                 PieceAt(md, Sizes(values)[i - 1], Marshalled(values)[i])
    PROVE  UnmarshalValues(md) = {ReadOf(values, N)}
<1> DEFINE z == Sizes(values)
           E == Marshalled(values)
           R == Len(md) \div 2 + 1
           Step(s) == UNION {IF r.rest = <<>> THEN {r} ELSE TakeEntry(r) : r \in s}
           a == {[rest |-> md, values |-> {}]}
           D(g) == [i \in 0..R |-> IF i = 0 THEN a ELSE Step(g[i - 1])]
           u == CHOOSE g : g = D(g)
           Done(n) == [rest |-> Drop(md, z[n]), values |-> ReadOf(values, n)]
           Least(n) == IF n < N THEN n ELSE N
<1>0. values \in Seq(Entries) /\ Len(values) \in Nat /\ N \in Nat /\ N =< Len(values)
  <2>1. values \in Seq(Entries)
      BY DEF KeysFit
  <2> QED
      BY <2>1
<1>1. Len(md) = z[N] /\ \A i \in 1..N : values[i].key # <<>> => PieceAt(md, z[i - 1], E[i])
    OBVIOUS
<1>2. /\ z[0] = 0 /\ \A i \in 0..N : z[i] \in Nat /\ z[i] =< z[N]
      /\ \A i \in 1..N : z[i] = z[i - 1] + EntryLen(values[i])
  <2>1. /\ z \in [0..Len(values) -> Nat] /\ z[0] = 0
        /\ \A i \in 1..Len(values) : z[i] = z[i - 1] + EntryLen(values[i])
      BY <1>0, SizesFacts
  <2>2. \A i \in 0..N : i \in 0..Len(values) /\ z[i] =< z[N]
      BY <1>0, SizesGrow
  <2>3. \A i \in 1..N : i \in 1..Len(values)
      BY <1>0
  <2> HIDE DEF z
  <2> QED
      BY <2>1, <2>2, <2>3
<1>3. 2 * N =< z[N] + 2
    BY SizesCount
<1>4. PICK e : EmptyAt(values, e)
    BY EmptyKey
<1>5. e \in Nat /\ e > 0 /\ \A i \in 1..N : values[i].key = <<>> <=> i = e
    BY <1>0, <1>4 DEF EmptyAt
<1>6. \A i, j \in 1..N : values[i].key = values[j].key => i = j
    BY <1>0 DEF KeysFit
<1>7. \A i \in 1..N : i # e =>
         /\ EntryLen(values[i]) \in Nat /\ EntryLen(values[i]) >= 2
         /\ E[i] \in Seq(Nat)
         /\ \A d \in Seq(Nat), o \in Nat : \A vs : PieceAt(d, o, E[i]) =>
               TakeEntry([rest |-> Drop(d, o), values |-> vs]) =
                  {[rest |-> Drop(d, o + EntryLen(values[i])),
                    values |-> {x \in vs : x.key # values[i].key} \cup {values[i]}]}
  <2> SUFFICES ASSUME NEW i \in 1..N, i # e
               PROVE  /\ EntryLen(values[i]) \in Nat /\ EntryLen(values[i]) >= 2
                      /\ E[i] \in Seq(Nat)
                      /\ \A d \in Seq(Nat), o \in Nat : \A vs : PieceAt(d, o, E[i]) =>
                            TakeEntry([rest |-> Drop(d, o), values |-> vs]) =
                               {[rest |-> Drop(d, o + EntryLen(values[i])),
                                 values |-> {x \in vs : x.key # values[i].key} \cup {values[i]}]}
      OBVIOUS
  <2>1. i \in 1..Len(values) /\ values[i] \in Entries /\ values[i].key # <<>>
      BY <1>0, <1>5
  <2> QED
      BY <2>1, MarshalledFacts, EntryLenFacts
<1>8. ReadOf(values, N) = {values[j] : j \in {j \in 1..N : values[j].key # <<>>}}
    BY DEF ReadOf
<1>9. UnmarshalValues(md) = IF md = <<>> THEN {{}} ELSE IF Len(md) < 2 THEN {} ELSE
          {r.values : r \in u[R]}
    BY DEF UnmarshalValues
<1>e. e =< N => z[e] = z[e - 1] /\ e \in 1..N /\ e - 1 \in 0..N
  <2> SUFFICES ASSUME e =< N PROVE z[e] = z[e - 1] /\ e \in 1..N /\ e - 1 \in 0..N
      OBVIOUS
  <2>1. e \in 1..N /\ e - 1 \in 0..N
      BY <1>0, <1>5
  <2>2. EntryLen(values[e]) = 0
      BY <1>5, <2>1 DEF EntryLen
  <2>3. z[e - 1] \in Nat
      BY <1>2, <2>1
  <2> QED
      BY <1>2, <2>1, <2>2, <2>3
<1> HIDE DEF z, E, u
<1>10. R \in Nat /\ N =< R /\ R # 0
  <2> DEFINE l == Len(md)
  <2>1. l \in Nat /\ 2 * N =< l + 2 /\ R = l \div 2 + 1
      BY <1>1, <1>3
  <2> HIDE DEF l, R
  <2> QED
      BY <1>0, <2>1
<1> HIDE DEF R
<1>11. \A n \in 0..N : /\ Drop(md, z[n]) \in Seq(Nat) /\ Len(Drop(md, z[n])) = z[N] - z[n]
                       /\ z[n] \in Nat /\ z[n] =< z[N]
    BY <1>1, <1>2, DropFacts
<1>12. ASSUME NEW n \in 0..N, n < N, n + 1 # e PROVE Step({Done(n)}) = {Done(n + 1)}
  <2> DEFINE r == Done(n)
             k == n + 1
             vs == ReadOf(values, n)
  <2>1. n \in Nat /\ k \in 1..N /\ k - 1 = n /\ k \in 0..N /\ k # e
      BY <1>0, <1>12
  <2>2. r = [rest |-> Drop(md, z[n]), values |-> vs] /\ r.rest = Drop(md, z[n])
      OBVIOUS
  <2>5. values[k].key # <<>>
      BY <1>5, <2>1
  <2> HIDE DEF r, k, vs
  <2>3. Drop(md, z[n]) # <<>>
    <3>1. z[k] = z[n] + EntryLen(values[k]) /\ EntryLen(values[k]) >= 2 /\
              EntryLen(values[k]) \in Nat
        BY <1>2, <1>7, <2>1
    <3>2. z[n] \in Nat /\ z[k] \in Nat /\ z[N] \in Nat /\ z[k] =< z[N]
        BY <1>0, <1>2, <2>1
    <3>3. z[N] - z[n] # 0
        BY <3>1, <3>2
    <3>4. Len(Drop(md, z[n])) # 0
        BY <1>11, <3>3
    <3> QED
        BY <3>4
  <2>4. Step({r}) = TakeEntry(r)
      BY <2>2, <2>3
  <2>6. PieceAt(md, z[n], E[k]) /\ z[n] \in Nat /\ z[n] + EntryLen(values[k]) = z[k]
      BY <1>1, <1>2, <1>11, <2>1, <2>5
  <2>7. TakeEntry(r) = {[rest |-> Drop(md, z[k]),
                         values |-> {x \in vs : x.key # values[k].key} \cup {values[k]}]}
    <3>1. \A d \in Seq(Nat), o \in Nat : \A us : PieceAt(d, o, E[k]) =>
             TakeEntry([rest |-> Drop(d, o), values |-> us]) =
                {[rest |-> Drop(d, o + EntryLen(values[k])),
                  values |-> {x \in us : x.key # values[k].key} \cup {values[k]}]}
        BY <1>7, <2>1, ZenonT(60)
    <3>2. TakeEntry([rest |-> Drop(md, z[n]), values |-> vs]) =
             {[rest |-> Drop(md, z[n] + EntryLen(values[k])),
               values |-> {x \in vs : x.key # values[k].key} \cup {values[k]}]}
        BY <1>1, <2>6, <3>1, ZenonT(60)
    <3> QED
        BY <2>2, <2>6, <3>2, ZenonT(60)
  <2>8. {x \in vs : x.key # values[k].key} = vs
    <3> SUFFICES ASSUME NEW j \in 1..n PROVE values[j].key # values[k].key
        BY DEF vs, ReadOf
    <3>1. j \in 1..N /\ j # k
        BY <1>0, <2>1
    <3> QED
        BY <1>6, <2>1, <3>1
  <2>9. vs \cup {values[k]} = ReadOf(values, k)
    <3>1. \A j : j \in 1..k <=> j \in 1..n \/ j = k
        BY <2>1 DEF k
    <3> QED
        BY <2>5, <3>1 DEF vs, ReadOf
  <2>10. TakeEntry(r) = {Done(k)}
      BY <2>7, <2>8, <2>9
  <2> QED
      BY <2>4, <2>10 DEF r, k
<1>h. e =< N => Done(e - 1) = Done(e)
  <2> SUFFICES ASSUME e =< N PROVE Done(e - 1) = Done(e)
      OBVIOUS
  <2>1. z[e] = z[e - 1] /\ e \in 1..N /\ values[e].key = <<>>
      BY <1>5, <1>e
  <2>2. \A j : j \in 1..e <=> j \in 1..(e - 1) \/ j = e
      BY <1>5
  <2>3. ReadOf(values, e - 1) = ReadOf(values, e)
      BY <2>1, <2>2 DEF ReadOf
  <2> QED
      BY <2>1, <2>3
<1>13. Step({Done(N)}) = {Done(N)}
  <2>1. N \in 0..N
      BY <1>0
  <2>2. Len(Drop(md, z[N])) = 0 /\ Drop(md, z[N]) \in Seq(Nat)
      BY <1>11, <2>1
  <2>3. Done(N).rest = <<>>
      BY <2>2
  <2> DEFINE r == Done(N)
  <2>4. r.rest = <<>>
      BY <2>3
  <2> HIDE DEF r
  <2>5. Step({r}) = {r}
      BY <2>4
  <2> QED
      BY <2>5 DEF r
<1>14. a = {Done(0)}
  <2>1. Drop(md, 0) = md
    <3>1. Drop(md, 0) \in Seq(Nat) /\ Len(Drop(md, 0)) = Len(md)
        BY <1>1, DropFacts
    <3>2. PieceAt(Drop(md, 0), 0, md)
      <4>1. PieceAt(md, 0 + 0, md)
          BY <1>1, PieceSelf
      <4> QED
          BY <1>1, <4>1, DropFacts
    <3> QED
        BY <1>1, <3>1, <3>2, PieceWhole
  <2>2. ReadOf(values, 0) = {}
    <3>1. \A j \in 1..0 : FALSE
        BY SMT
    <3> QED
        BY <3>1 DEF ReadOf
  <2> QED
      BY <1>2, <2>1, <2>2
<1> HIDE DEF Step, Done, a
<1> DEFINE At(i) == IF i < e THEN Least(i) ELSE Least(i + 1)
           g == [i \in 0..R |-> {Done(At(i))}]
<1>m. \A n \in Nat : /\ n < N => Least(n) = n /\ n \in 0..N
                     /\ ~(n < N) => Least(n) = N
    BY <1>0
<1> HIDE DEF Least
<1>15. ASSUME NEW i \in 0..R, i # 0 PROVE Step({Done(At(i - 1))}) = {Done(At(i))}
  <2>0. i \in Nat /\ i - 1 \in Nat /\ i + 1 \in Nat /\ (i - 1) + 1 = i
      BY <1>10, <1>15
  <2>1. CASE i < e
    <3>1. At(i - 1) = Least(i - 1) /\ At(i) = Least(i)
        BY <1>5, <2>0, <2>1
    <3>2. CASE i - 1 < N
      <4>1. At(i - 1) = i - 1 /\ i - 1 \in 0..N /\ At(i) = i
          BY <1>0, <1>m, <2>0, <3>1, <3>2
      <4> HIDE DEF At
      <4>2. i # e
          BY <2>0, <2>1
      <4> QED
          BY <1>12, <2>0, <3>2, <4>1, <4>2
    <3>3. CASE ~(i - 1 < N)
      <4>1. At(i - 1) = N /\ At(i) = N
          BY <1>0, <1>m, <2>0, <3>1, <3>3
      <4> HIDE DEF At
      <4> QED
          BY <1>13, <4>1
    <3> QED
        BY <3>2, <3>3
  <2>2. CASE i = e
    <3>1. At(i - 1) = Least(e - 1) /\ At(i) = Least(e + 1) /\ e + 1 \in Nat /\ e - 1 \in Nat
        BY <1>5, <2>0, <2>2
    <3>2. CASE ~(e =< N)
      <4>1. At(i - 1) = N /\ At(i) = N
          BY <1>0, <1>5, <1>m, <3>1, <3>2
      <4> HIDE DEF At
      <4> QED
          BY <1>13, <4>1
    <3>3. CASE e =< N
      <4>1. At(i - 1) = e - 1
          BY <1>0, <1>5, <1>m, <3>1, <3>3
      <4>2. CASE e = N
        <5>1. At(i) = e
            BY <1>0, <1>5, <1>m, <3>1, <4>2
        <5> HIDE DEF At
        <5> QED
            BY <1>13, <1>h, <3>3, <4>1, <4>2, <5>1
      <4>3. CASE e < N
        <5>1. At(i) = e + 1 /\ e \in 0..N /\ e + 1 # e
            BY <1>0, <1>5, <1>m, <3>1, <4>3
        <5> HIDE DEF At
        <5>2. Step({Done(e)}) = {Done(e + 1)}
            BY <1>12, <4>3, <5>1
        <5> QED
            BY <1>h, <3>3, <4>1, <5>1, <5>2
      <4>4. e = N \/ e < N
          BY <1>0, <1>5, <3>3
      <4> HIDE DEF At
      <4> QED
          BY <4>2, <4>3, <4>4
    <3> QED
        BY <3>2, <3>3
  <2>3. CASE e < i
    <3>1. At(i - 1) = Least(i) /\ At(i) = Least(i + 1)
        BY <1>5, <2>0, <2>3
    <3>2. CASE i < N
      <4>1. At(i - 1) = i /\ i \in 0..N /\ At(i) = i + 1 /\ i + 1 # e
          BY <1>0, <1>5, <1>m, <2>0, <2>3, <3>1, <3>2
      <4> HIDE DEF At
      <4> QED
          BY <1>12, <3>2, <4>1
    <3>3. CASE ~(i < N)
      <4>1. At(i - 1) = N /\ At(i) = N
          BY <1>0, <1>m, <2>0, <3>1, <3>3
      <4> HIDE DEF At
      <4> QED
          BY <1>13, <4>1
    <3> QED
        BY <3>2, <3>3
  <2>4. i < e \/ i = e \/ e < i
      BY <1>5, <2>0
  <2> HIDE DEF At
  <2> QED
      BY <2>1, <2>2, <2>3, <2>4
<1>16. g = D(g)
  <2>1. g[0] = a
    <3>1. At(0) = 0
        BY <1>0, <1>5, <1>m
    <3> HIDE DEF At
    <3> QED
        BY <1>10, <1>14, <3>1
  <2>2. ASSUME NEW i \in 0..R, i # 0 PROVE g[i] = Step(g[i - 1])
    <3>1. i - 1 \in 0..R
        BY <1>10, <2>2
    <3> HIDE DEF At
    <3> QED
        BY <1>15, <2>2, <3>1
  <2>3. g = [i \in 0..R |-> g[i]]
      OBVIOUS
  <2> HIDE DEF g
  <2> QED
      BY <2>1, <2>2, <2>3
<1>17. u = D(u)
    BY <1>16 DEF u
<1>18. u[0] = a /\ \A i \in 0..R : i # 0 => u[i] = Step(u[i - 1])
    BY <1>10, <1>17
<1>19. g[R] = {Done(N)}
  <2>1. At(R) = N
    <3>1. R + 1 \in Nat /\ ~(R < N) /\ ~(R + 1 < N)
        BY <1>0, <1>10
    <3>2. Least(R) = N /\ Least(R + 1) = N
        BY <1>10, <1>m, <3>1
    <3> QED
        BY <3>2
  <2> HIDE DEF At
  <2> QED
      BY <1>10, <2>1
<1> HIDE DEF g
<1>20. g[0] = a /\ \A i \in 0..R : i # 0 => g[i] = Step(g[i - 1])
    BY <1>10, <1>16
<1> DEFINE T == {i \in Nat : i =< R => u[i] = g[i]}
<1>21. 0 \in T
    BY <1>18, <1>20
<1>22. ASSUME NEW i \in T PROVE i + 1 \in T
  <2> SUFFICES ASSUME i + 1 =< R PROVE u[i + 1] = g[i + 1]
      OBVIOUS
  <2>1. i \in Nat /\ i + 1 \in 0..R /\ i + 1 # 0 /\ (i + 1) - 1 = i /\ i =< R
      BY <1>10
  <2>2. u[i] = g[i]
      BY <2>1
  <2>3. u[i + 1] = Step(u[i]) /\ g[i + 1] = Step(g[i])
      BY <1>18, <1>20, <2>1
  <2> QED
      BY <2>2, <2>3
<1>23. T = Nat
    BY <1>21, <1>22, Induction
<1>24. u[R] = {Done(N)}
    BY <1>10, <1>19, <1>23
<1>25. {r.values : r \in u[R]} = {ReadOf(values, N)}
  <2>1. Done(N).values = ReadOf(values, N)
      BY DEF Done
  <2> QED
      BY <1>24, <2>1
<1>26. md = <<>> => ReadOf(values, N) = {}
  <2> SUFFICES ASSUME md = <<>>, NEW j \in 1..N, values[j].key # <<>> PROVE FALSE
      BY <1>8
  <2>1. z[N] = 0
      BY <1>1
  <2>2. z[j] = z[j - 1] + EntryLen(values[j]) /\ EntryLen(values[j]) >= 2 /\
            EntryLen(values[j]) \in Nat
      BY <1>2, <1>5, <1>7
  <2>3. j \in 0..N /\ j - 1 \in 0..N
      BY <1>0
  <2>4. z[j] =< z[N] /\ z[j] \in Nat /\ z[j - 1] \in Nat
      BY <1>2, <2>3
  <2> QED
      BY <2>1, <2>2, <2>4
<1>27. md # <<>> => ~(Len(md) < 2)
  <2> SUFFICES ASSUME md # <<>>, Len(md) < 2 PROVE FALSE
      OBVIOUS
  <2>1. Len(md) = 1
      BY <1>1
  <2>2. N = 0 \/ N = 1
      BY <1>0, <1>1, <1>3, <2>1
  <2>3. N = 1
      BY <1>1, <1>2, <2>1, <2>2
  <2>4. 1 \in 1..N /\ 1 - 1 = 0
      BY <2>3
  <2>5. z[1] = z[0] + EntryLen(values[1]) /\ z[1] = 1 /\ z[0] = 0
    <3>1. z[1] = z[1 - 1] + EntryLen(values[1])
        BY <1>2, <2>4
    <3>2. z[1] = 1
        BY <1>1, <2>1, <2>3
    <3>3. z[1 - 1] = z[0]
        BY <2>4
    <3>4. z[0] = 0
        BY <1>2
    <3> QED
        BY <3>1, <3>2, <3>3, <3>4
  <2>6. CASE e = 1
    <3>1. z[1] = z[0]
        BY <1>e, <2>3, <2>6
    <3> QED
        BY <2>5, <3>1
  <2>7. CASE e # 1
    <3>1. EntryLen(values[1]) >= 2 /\ EntryLen(values[1]) \in Nat
        BY <1>7, <2>4, <2>7
    <3> DEFINE x == EntryLen(values[1])
    <3> HIDE DEF x
    <3>2. x >= 2 /\ x \in Nat /\ 1 = 0 + x
        BY <2>5, <3>1 DEF x
    <3> QED
        BY <3>2
  <2> QED
      BY <2>6, <2>7
<1> QED
    BY <1>9, <1>25, <1>26, <1>27

\* MarshalValues writes the entries before the first that does not fit into max bytes,
\* and UnmarshalValues reads them back, but for one without a key.
THEOREM CutRoundTrip ==
    ASSUME NEW values, KeysFit(values), NEW max \in Nat, NEW c, Fits(values, max, c)
    PROVE  UnmarshalValues(MarshalValues(values, max)) = {ReadOf(values, c)}
<1> DEFINE md == MarshalValues(values, max)
<1>1. /\ md \in Seq(Nat) /\ Len(md) = Sizes(values)[c]
      /\ \A i \in 1..c : values[i].key # <<>> =>
            PieceAt(md, Sizes(values)[i - 1], Marshalled(values)[i])
    BY MarshalFacts
<1>2. c \in 0..Len(values)
    BY DEF Fits
<1> HIDE DEF md
<1>3. UnmarshalValues(md) = {ReadOf(values, c)}
    BY <1>1, <1>2, UnmarshalFacts
<1> QED
    BY <1>3 DEF md

\* What is packed as the values of a packet is unpacked as the same values.
THEOREM ValuesRoundTrip ==
    ASSUME NEW values, ValuesFit(values),
           NEW md, md = MarshalValues(values, MaxMetadataLength)
    PROVE  /\ md \in Seq(Nat) /\ Len(md) = Sizes(values)[Len(values)]
           /\ Len(md) =< MaxMetadataLength
           /\ UnmarshalValues(md) = {ReadOf(values, Len(values))}
<1> DEFINE N == Len(values)
<1>1. KeysFit(values) /\ Sizes(values)[N] =< MaxMetadataLength
    BY DEF ValuesFit
<1>2. N \in Nat /\ N \in 0..N /\ \A l \in 0..N : l =< N
    BY <1>1 DEF KeysFit
<1>3. Fits(values, MaxMetadataLength, N)
    BY <1>1, <1>2 DEF Fits
<1>4. MaxMetadataLength \in Nat
    BY SMT DEF MaxMetadataLength
<1> HIDE DEF N
<1>5. md \in Seq(Nat) /\ Len(md) = Sizes(values)[N]
    BY <1>1, <1>3, <1>4, MarshalFacts
<1>6. UnmarshalValues(md) = {ReadOf(values, N)}
    BY <1>1, <1>3, <1>4, CutRoundTrip
<1> QED
    BY <1>1, <1>5, <1>6 DEF N

-----------------------------------------------------------------------------
(* Frames                                                                    *)

\* f is the header hd, metadata md and body, and the signature if q has one.
LaidOut(f, hd, md, body, q) ==
    /\ f \in Seq(Nat) /\ Len(f) = ((Len(hd) + Len(md)) + Len(body)) + SignedLen(q)
    /\ PieceAt(f, 0, hd) /\ PieceAt(f, Len(hd), md) /\ PieceAt(f, Len(hd) + Len(md), body)
    /\ q.Verify => /\ PieceAt(f, (Len(hd) + Len(md)) + Len(body), q.Nonce)
                   /\ PieceAt(f, (Len(hd) + Len(md)) + Len(body) + 8, q.Signature)

\* Nonce and signature are written behind the body: there is no metadata between.
LEMMA Layout ==
    ASSUME NEW hd \in Seq(Nat), NEW md \in Seq(Nat), NEW body \in Seq(Nat),
           NEW q, q.Nonce \in Seq(Nat), q.Signature \in Seq(Nat),
           q.Verify => /\ Len(q.Nonce) = NonceLength /\ Len(q.Signature) = SignatureLength
                       /\ md = <<>>,
           NEW f, f = Sign(hd \o md \o body \o Zeroes(SignedLen(q)), Len(hd) + Len(body), q)
    PROVE  LaidOut(f, hd, md, body, q)
<1> DEFINE n == SignedLen(q)
           s == hd \o md
           t == s \o body
           e == Zeroes(n)
           w == t \o e
<1>1. Len(hd) \in Nat /\ Len(md) \in Nat /\ Len(body) \in Nat
    OBVIOUS
<1>2. n = (IF q.Verify THEN 24 ELSE 0) /\ n \in Nat
    BY DEF SignedLen, NonceLength, SignatureLength
<1>3. f = Sign(w, Len(hd) + Len(body), q)
    OBVIOUS
<1> HIDE DEF n
<1>4. s \in Seq(Nat) /\ Len(s) = Len(hd) + Len(md) /\ PieceAt(s, 0, hd) /\ PieceAt(s, Len(hd), md)
    BY Join, PieceSelf
<1> HIDE DEF s
<1>5. /\ t \in Seq(Nat) /\ Len(t) = (Len(hd) + Len(md)) + Len(body) /\ PieceAt(t, Len(s), body)
      /\ PieceAt(t, 0, hd) /\ PieceAt(t, Len(hd), md)
  <2>1. /\ t \in Seq(Nat) /\ Len(t) = Len(s) + Len(body) /\ PieceAt(t, Len(s), body)
        /\ \A o \in Nat, x \in Seq(Nat) : PieceAt(s, o, x) => PieceAt(t, o, x)
      BY <1>4, Join
  <2> HIDE DEF t
  <2>2. PieceAt(t, 0, hd) /\ PieceAt(t, Len(hd), md)
      BY <1>1, <1>4, <2>1
  <2> QED
      BY <1>4, <2>1, <2>2
<1> HIDE DEF t, e
<1>6. /\ w \in Seq(Nat) /\ Len(w) = ((Len(hd) + Len(md)) + Len(body)) + n
      /\ PieceAt(w, 0, hd) /\ PieceAt(w, Len(hd), md) /\ PieceAt(w, Len(hd) + Len(md), body)
  <2>1. e \in Seq(Nat) /\ Len(e) = n
      BY <1>2, ZeroesFacts DEF e
  <2>2. /\ w \in Seq(Nat) /\ Len(w) = Len(t) + n
        /\ \A o \in Nat, x \in Seq(Nat) : PieceAt(t, o, x) => PieceAt(w, o, x)
      BY <1>5, <2>1, Join
  <2>3. Len(hd) + Len(md) \in Nat /\ Len(s) = Len(hd) + Len(md)
      BY <1>1, <1>4
  <2> HIDE DEF w
  <2>4. PieceAt(w, 0, hd)
      BY <1>5, <2>2
  <2>5. PieceAt(w, Len(hd), md)
      BY <1>1, <1>5, <2>2
  <2>6. PieceAt(w, Len(hd) + Len(md), body)
      BY <1>5, <2>2, <2>3
  <2> QED
      BY <1>5, <2>2, <2>4, <2>5, <2>6
<1> HIDE DEF w
<1>7. CASE ~q.Verify
  <2>1. f = w
      BY <1>3, <1>7 DEF Sign
  <2> QED
      BY <1>6, <1>7, <2>1 DEF n, LaidOut
<1>8. CASE q.Verify
  <2> DEFINE at == Len(hd) + Len(body)
             x == CopyAt(w, at, q.Nonce)
             y == CopyAt(x, at + 8, q.Signature)
  <2>1. f = y
      BY <1>3, <1>8 DEF Sign, NonceLength
  <2>2. /\ Len(md) = 0 /\ at \in Nat /\ at + 8 \in Nat /\ Len(w) = at + 24
        /\ (Len(hd) + Len(md)) + Len(body) = at /\ Len(hd) + Len(md) = Len(hd)
      BY <1>1, <1>2, <1>6, <1>8
  <2>3. Len(q.Nonce) = 8 /\ Len(q.Signature) = 16
      BY <1>8 DEF NonceLength, SignatureLength
  <2>a. Len(hd) =< at /\ 0 + Len(hd) =< at /\ Len(hd) + Len(md) =< at
        /\ Len(hd) + Len(body) =< at /\ at + 8 =< at + 8
      BY <1>1, <2>2
  <2>b. at = Len(hd) + Len(body)
      OBVIOUS
  <2> HIDE DEF at
  <2>4. /\ x \in Seq(Nat) /\ Len(x) = Len(w) /\ PieceAt(x, at, q.Nonce)
        /\ \A o \in Nat, p \in Seq(Nat) :
              PieceAt(w, o, p) /\ (o + Len(p) =< at \/ at + 8 =< o) => PieceAt(x, o, p)
    <3>1. at + Len(q.Nonce) =< Len(w)
        BY <2>2, <2>3
    <3>2. /\ x \in Seq(Nat) /\ Len(x) = Len(w) /\ PieceAt(x, at, q.Nonce)
          /\ \A o \in Nat, p \in Seq(Nat) :
                PieceAt(w, o, p) /\ (o + Len(p) =< at \/ at + Len(q.Nonce) =< o) => PieceAt(x, o, p)
        BY <1>6, <2>2, <3>1, CopyFacts, SMTT(30)
    <3> HIDE DEF x
    <3> QED
        BY <2>3, <3>2
  <2> HIDE DEF x
  <2>5. /\ y \in Seq(Nat) /\ Len(y) = Len(x) /\ PieceAt(y, at + 8, q.Signature)
        /\ \A o \in Nat, p \in Seq(Nat) :
              PieceAt(x, o, p) /\ o + Len(p) =< at + 8 => PieceAt(y, o, p)
    <3>1. (at + 8) + Len(q.Signature) =< Len(x)
        BY <2>2, <2>3, <2>4
    <3> DEFINE k == at + 8
    <3>2. k \in Nat /\ k + Len(q.Signature) =< Len(x)
        BY <2>2, <3>1
    <3> HIDE DEF k
    <3>3. /\ y = CopyAt(x, k, q.Signature)
          /\ y \in Seq(Nat) /\ Len(y) = Len(x) /\ PieceAt(y, k, q.Signature)
          /\ \A o \in Nat, p \in Seq(Nat) :
                PieceAt(x, o, p) /\ (o + Len(p) =< k \/ k + Len(q.Signature) =< o) =>
                    PieceAt(y, o, p)
      <4>1. y = CopyAt(x, k, q.Signature)
          BY DEF k
      <4> HIDE DEF y
      <4> QED
          BY <2>4, <3>2, <4>1, CopyFacts
    <3> HIDE DEF y
    <3> QED
        BY <3>3 DEF k
  <2> HIDE DEF y
  <2>6. ASSUME NEW o \in Nat, NEW p \in Seq(Nat), PieceAt(w, o, p), o + Len(p) =< at
        PROVE  PieceAt(y, o, p)
    <3>1. PieceAt(x, o, p)
        BY <2>4, <2>6
    <3>2. o + Len(p) =< at + 8
        BY <2>2, <2>6
    <3> QED
        BY <2>5, <3>1, <3>2
  <2>7. PieceAt(y, 0, hd)
      BY <1>6, <2>6, <2>a
  <2>8. PieceAt(y, Len(hd), md)
      BY <1>1, <1>6, <2>6, <2>a
  <2>9. PieceAt(y, Len(hd) + Len(md), body)
      BY <1>1, <1>6, <2>2, <2>6, <2>a
  <2>10. PieceAt(y, at, q.Nonce)
      BY <2>2, <2>3, <2>4, <2>5, <2>a
  <2>11. Len(y) = ((Len(hd) + Len(md)) + Len(body)) + n
      BY <1>6, <2>4, <2>5
  <2> QED
      BY <1>8, <2>1, <2>2, <2>5, <2>7, <2>8, <2>9, <2>10, <2>11 DEF n, LaidOut
<1> QED
    BY <1>7, <1>8

\* What is compressed is decompressed, two bytes longer.
LEMMA GzipRoundTrip ==
    ASSUME NEW b \in Seq(Nat)
    PROVE  /\ Compress(b) \in Seq(Nat) /\ Len(Compress(b)) = Len(b) + 2
           /\ Decompress(Compress(b)) = {b}
<1> DEFINE c == Magic \o b
<1>1. Magic \in Seq(Nat) /\ Len(Magic) = 2
    BY DEF Magic
<1>2. c \in Seq(Nat) /\ Len(c) = 2 + Len(b) /\ PieceAt(c, 0, Magic) /\ PieceAt(c, 2, b)
    BY <1>1, Join, PieceSelf
<1>3. Compress(b) = c
    BY DEF Compress
<1> HIDE DEF c
<1>4. Len(b) \in Nat /\ 2 =< Len(c)
    BY <1>2
<1>5. Take(c, 2) = Magic
  <2>1. Take(c, 2) = SubSeq(c, 1, 2)
      BY <1>2, <1>4, TakeFacts
  <2>2. SubSeq(c, 0 + 1, 0 + Len(Magic)) = Magic
      BY <1>1, <1>2, PieceIs
  <2> QED
      BY <1>1, <2>1, <2>2
<1>6. Drop(c, 2) = b
  <2>1. Drop(c, 2) \in Seq(Nat) /\ Len(Drop(c, 2)) = Len(c) - 2
      BY <1>2, <1>4, DropFacts
  <2>2. PieceAt(Drop(c, 2), 0, b)
    <3>1. PieceAt(c, 2 + 0, b)
        BY <1>2
    <3> QED
        BY <1>2, <1>4, <3>1, DropFacts
  <2>3. Len(Drop(c, 2)) = Len(b)
      BY <1>2, <1>4, <2>1
  <2> QED
      BY <2>1, <2>2, <2>3, PieceWhole
<1>7. Decompress(c) = {b}
    BY <1>4, <1>5, <1>6 DEF Decompress
<1> QED
    BY <1>2, <1>3, <1>4, <1>7

\* Compression changes the body and its flag, and the body reads back.
LEMMA ZippedFacts ==
    ASSUME NEW min \in Nat, NEW p \in PacketRecord, Len(p.Body) + 2 =< MaxBodyLength
    PROVE  LET q == Zipped(p, min)
               z == min # 0 /\ Len(p.Body) >= min
           IN  /\ q.Type = p.Type /\ q.Verify = p.Verify /\ q.CmdCode = p.CmdCode
               /\ q.RequestId = p.RequestId /\ q.Timeout = p.Timeout
               /\ q.StatusCode = p.StatusCode /\ q.Nonce = p.Nonce
               /\ q.Signature = p.Signature /\ q.Values = p.Values
               /\ (q.Gzip <=> z)
               /\ q.Body \in Seq(Nat) /\ Len(q.Body) =< MaxBodyLength
               /\ (IF z THEN Decompress(q.Body) ELSE {q.Body}) = {p.Body}
<1> DEFINE q == Zipped(p, min)
           z == min # 0 /\ Len(p.Body) >= min
<1>1. p.Body \in Seq(Nat) /\ Len(p.Body) \in Nat /\ ~p.Gzip
  <2>1. p.Body \in Seq(Nat)
      BY DEF PacketRecord
  <2>2. p.Gzip \in {FALSE}
      BY DEF PacketRecord
  <2>3. ~p.Gzip
      BY <2>2, Zenon
  <2> QED
      BY <2>1, <2>3
<1>2. CASE z
  <2>1. q = [p EXCEPT !.Body = Compress(p.Body), !.Gzip = TRUE]
      BY <1>2 DEF Zipped
  <2>2. /\ q.Type = p.Type /\ q.Verify = p.Verify /\ q.CmdCode = p.CmdCode
        /\ q.RequestId = p.RequestId /\ q.Timeout = p.Timeout
        /\ q.StatusCode = p.StatusCode /\ q.Nonce = p.Nonce
        /\ q.Signature = p.Signature /\ q.Values = p.Values
        /\ q.Gzip = TRUE /\ q.Body = Compress(p.Body)
      BY <2>1 DEF PacketRecord
  <2>3. /\ Compress(p.Body) \in Seq(Nat) /\ Len(Compress(p.Body)) = Len(p.Body) + 2
        /\ Decompress(Compress(p.Body)) = {p.Body}
      BY <1>1, GzipRoundTrip
  <2> HIDE DEF q, z
  <2> QED
      BY <1>2, <2>2, <2>3 DEF q, z
<1>3. CASE ~z
  <2>1. q = p
      BY <1>3 DEF Zipped
  <2>2. Len(p.Body) =< MaxBodyLength
      BY <1>1, SMT DEF MaxBodyLength
  <2> HIDE DEF q, z
  <2> QED
      BY <1>1, <1>3, <2>1, <2>2 DEF q, z
<1> QED
    BY <1>2, <1>3

MetadataOf(v, q) == IF v = 2 THEN MarshalValues(q.Values, MaxMetadataLength) ELSE <<>>

\* The metadata of a packet: its length, and the values it reads back as.
LEMMA MetadataFacts ==
    ASSUME NEW v \in {1, 2}, NEW min \in Nat, NEW p, Packable(v, p)
    PROVE  LET md == MetadataOf(v, p)
           IN  /\ md \in Seq(Nat) /\ Len(md) =< MaxMetadataLength
               /\ v = 1 => md = <<>>
               /\ p.Verify => md = <<>>
               /\ ValuesOf(v, md) = {Received(v, p, min).Values}
<1> DEFINE md == MetadataOf(v, p)
<1>1. CASE v = 1
  <2>1. md = <<>> /\ ValuesOf(v, md) = {{}}
      BY <1>1 DEF MetadataOf, ValuesOf
  <2>2. Received(v, p, min).Values = {}
      BY <1>1 DEF Received
  <2>3. <<>> \in Seq(Nat) /\ Len(<<>>) =< MaxMetadataLength
      BY SMT DEF MaxMetadataLength
  <2> HIDE DEF md
  <2> QED
      BY <1>1, <2>1, <2>2, <2>3 DEF md
<1>2. CASE v = 2
  <2>1. /\ p.Values \in Seq(Entries) /\ ValuesFit(p.Values) /\ (p.Verify => p.Values = <<>>)
        /\ md = MarshalValues(p.Values, MaxMetadataLength)
      BY <1>2 DEF Packable, PacketRecord, MetadataOf
  <2>2. /\ md \in Seq(Nat) /\ Len(md) =< MaxMetadataLength
        /\ UnmarshalValues(md) = {ReadOf(p.Values, Len(p.Values))}
        /\ Len(md) = Sizes(p.Values)[Len(p.Values)]
      BY <2>1, ValuesRoundTrip
  <2>3. Sizes(p.Values)[0] = 0
      BY <2>1, SizesFacts
  <2>4. Received(v, p, min).Values = ReadOf(p.Values, Len(p.Values))
    <3>1. DOMAIN p.Values = 1..Len(p.Values)
        BY <2>1
    <3> QED
        BY <1>2, <3>1 DEF Received, ReadOf
  <2>5. ValuesOf(v, md) = UnmarshalValues(md)
      BY <1>2 DEF ValuesOf
  <2>6. p.Verify => md = <<>>
    <3> SUFFICES ASSUME p.Verify PROVE Len(md) = 0
        BY <2>2
    <3>1. Len(p.Values) = 0
        BY <2>1
    <3> QED
        BY <2>2, <2>3, <3>1
  <2> HIDE DEF md
  <2> QED
      BY <1>2, <2>2, <2>4, <2>5, <2>6 DEF md
<1> QED
    BY <1>1, <1>2

\* The header of a packable packet fits.
LEMMA HeaderFitsFacts ==
    ASSUME NEW v \in {1, 2}, NEW min \in Nat, NEW p, Packable(v, p)
    PROVE  HeaderFits(headerFromMetadata(Zipped(p, min), Len(MetadataOf(v, p))))
<1> DEFINE q == Zipped(p, min)
           md == MetadataOf(v, p)
           h == headerFromMetadata(q, Len(md))
<1>1. /\ p \in PacketRecord /\ p.RequestId \div 65536 < 65536 /\ p.Timeout < 65536
      /\ Len(p.Body) + 2 =< MaxBodyLength
    BY SMT DEF Packable
<1>2. /\ q.Type = p.Type /\ q.Verify = p.Verify /\ q.CmdCode = p.CmdCode
      /\ q.RequestId = p.RequestId /\ q.Timeout = p.Timeout /\ q.StatusCode = p.StatusCode
      /\ q.Body \in Seq(Nat) /\ Len(q.Body) =< MaxBodyLength
    BY <1>1, ZippedFacts
<1>3. md \in Seq(Nat) /\ Len(md) =< MaxMetadataLength /\ (v = 1 => md = <<>>)
    BY MetadataFacts
<1>4. /\ p.Type \in {Request, Response, Push} /\ p.CmdCode \in Nat /\ p.RequestId \in Nat
      /\ p.Timeout \in Nat /\ p.StatusCode \in Nat
    BY <1>1 DEF PacketRecord
<1>5. Len(q.Body) \in Nat /\ Len(q.Body) < 16777216 /\ Len(md) \in Nat /\ Len(md) < 65536
  <2>1. Len(q.Body) \in Nat /\ Len(md) \in Nat
      BY <1>2, <1>3
  <2> HIDE DEF q, md
  <2> QED
      BY <1>2, <1>3, <2>1, SMT DEF MaxBodyLength, MaxMetadataLength
<1>6. q.CmdCode % 256 \in Nat
    BY <1>2, <1>4
<1> HIDE DEF q, md
<1>7. /\ h.Type = q.Type /\ h.Verify = (IF q.Verify THEN 1 ELSE 0) /\
           h.Gzip = (IF q.Gzip THEN 1 ELSE 0)
      /\ h.CmdCode = q.CmdCode % 256 /\ h.RequestId = q.RequestId /\ h.Timeout = q.Timeout
      /\ h.StatusCode = q.StatusCode /\ h.MetadataLength = Len(md) /\ h.BodyLength = Len(q.Body)
    BY DEF headerFromMetadata
<1>12. HeaderFits(h)
  <2> HIDE DEF h
  <2>1. h.Verify \in {0, 1} /\ h.Gzip \in {0, 1}
      BY <1>7
  <2> QED
      BY <1>1, <1>2, <1>4, <1>5, <1>6, <1>7, <2>1, SMT DEF HeaderFits
<1> QED
    BY <1>12 DEF q, md

\* The frame of packet q with header hd and metadata md.
FrameWith(hd, md, q) ==
    Sign(hd \o md \o q.Body \o Zeroes(SignedLen(q)), Len(hd) + Len(q.Body), q)

HeadersOf(v, p, min) ==
    HeaderPack(v, headerFromMetadata(Zipped(p, min), Len(MetadataOf(v, p))))

\* Pack makes one frame out of its parts.
LEMMA FramePacked ==
    ASSUME NEW v \in {1, 2}, NEW min \in Nat, NEW p, Packable(v, p), NEW hd \in Seq(Nat),
        HeadersOf(v, p, min) = {hd}
    PROVE  Pack(v, p, min) = {FrameWith(hd, MetadataOf(v, p), Zipped(p, min))}
<1> DEFINE q == Zipped(p, min)
           md == MetadataOf(v, p)
           f == FrameWith(hd, md, q)
<1>0. HeaderPack(v, headerFromMetadata(q, Len(md))) = {hd}
    BY DEF HeadersOf
<1>1. CASE v = 1
  <2>1. md = <<>> /\ Len(md) = 0
    <3>1. md = <<>>
        BY <1>1, MetadataFacts
    <3> QED
        BY <3>1
  <2>2. hd \o md = hd
      BY <2>1, NothingMore
  <2>3. HeaderPackV1(headerFromMetadata(q, 0)) = {hd}
      BY <1>0, <1>1, <2>1 DEF HeaderPack
  <2>4. PackV1(p, min)
          = {Sign(hd \o q.Body \o Zeroes(SignedLen(q)), Len(hd) + Len(q.Body), q)}
      BY <2>3 DEF PackV1
  <2> QED
      BY <1>1, <2>2, <2>4 DEF Pack, FrameWith
<1>2. CASE v = 2
  <2>1. q.Values = p.Values
      BY ZippedFacts DEF Packable
  <2>2. md = MarshalValues(q.Values, MaxMetadataLength)
      BY <1>2, <2>1 DEF MetadataOf
  <2>3. HeaderPackV2(headerFromMetadata(q, Len(md))) = {hd}
      BY <1>0, <1>2 DEF HeaderPack
  <2>4. PackV2(p, min) = {f}
      BY <2>2, <2>3 DEF PackV2, FrameWith
  <2> QED
      BY <1>2, <2>4 DEF Pack
<1> QED
    BY <1>1, <1>2

\* A packet that fits has one frame, and unpacking it gives what the receiver should
\* see, gzip, values and signature included.
THEOREM FrameRoundTrip ==
    ASSUME NEW v \in {1, 2}, NEW min \in Nat, NEW p, Packable(v, p)
    PROVE  \E f : Pack(v, p, min) = {f} /\ GoodFrame(v, f, Received(v, p, min))
<1> DEFINE q == Zipped(p, min)
           md == MetadataOf(v, p)
           h == headerFromMetadata(q, Len(md))
           body == q.Body
           z == min # 0 /\ Len(p.Body) >= min
<1>1. p \in PacketRecord /\ Len(p.Body) + 2 =< MaxBodyLength
    BY DEF Packable
<1>2. /\ q.Type = p.Type /\ q.Verify = p.Verify /\ q.CmdCode = p.CmdCode
      /\ q.RequestId = p.RequestId /\ q.Timeout = p.Timeout
      /\ q.StatusCode = p.StatusCode /\ q.Nonce = p.Nonce
      /\ q.Signature = p.Signature
      /\ (q.Gzip <=> z) /\ body \in Seq(Nat)
      /\ (IF z THEN Decompress(body) ELSE {body}) = {p.Body}
    BY <1>1, ZippedFacts
<1>3. /\ md \in Seq(Nat) /\ (v = 1 => md = <<>>) /\ (p.Verify => md = <<>>)
      /\ ValuesOf(v, md) = {Received(v, p, min).Values}
    BY MetadataFacts
<1>4. HeaderFits(h)
    BY HeaderFitsFacts
<1>5. /\ p.Verify \in BOOLEAN /\ p.Nonce \in Seq(Nat) /\ p.Signature \in Seq(Nat)
      /\ p.Type \in {Request, Response, Push} /\ p.CmdCode \in Nat
      /\ p.Verify => Len(p.Nonce) = NonceLength /\ Len(p.Signature) = SignatureLength
    BY DEF Packable, PacketRecord
<1>6. PICK hd \in Seq(Nat) :
         HeaderPack(v, h) = {hd} /\ Len(hd) = HeaderLen(v, h.Type) /\ HeaderIn(v, hd, h)
    BY <1>4, HeaderPacks
<1> DEFINE f == Sign(hd \o md \o body \o Zeroes(SignedLen(q)), Len(hd) + Len(body), q)
<1>0. q = Zipped(p, min) /\ md = MetadataOf(v, p) /\ body = q.Body
    OBVIOUS
<1>8. /\ f \in Seq(Nat) /\ Len(f) = ((Len(hd) + Len(md)) + Len(body)) + SignedLen(q)
      /\ PieceAt(f, 0, hd) /\ PieceAt(f, Len(hd), md) /\ PieceAt(f, Len(hd) + Len(md), body)
      /\ q.Verify => /\ PieceAt(f, (Len(hd) + Len(md)) + Len(body), q.Nonce)
                     /\ PieceAt(f, (Len(hd) + Len(md)) + Len(body) + 8, q.Signature)
  <2> HIDE DEF q, md, f
  <2>1. q.Nonce \in Seq(Nat) /\ q.Signature \in Seq(Nat)
      BY <1>2, <1>5
  <2>2. q.Verify => /\ Len(q.Nonce) = NonceLength /\ Len(q.Signature) = SignatureLength
                    /\ md = <<>>
      BY <1>2, <1>3, <1>5
  <2>3. md \in Seq(Nat) /\ body \in Seq(Nat)
        /\ f = Sign(hd \o md \o body \o Zeroes(SignedLen(q)), Len(hd) + Len(body), q)
      BY <1>2, <1>3 DEF f
  <2>4. LaidOut(f, hd, md, body, q)
      BY <2>1, <2>2, <2>3, Layout
  <2> QED
      BY <2>4 DEF LaidOut
<1>9. /\ h.Type = q.Type /\ h.Verify = (IF q.Verify THEN 1 ELSE 0) /\
           h.Gzip = (IF q.Gzip THEN 1 ELSE 0)
      /\ h.CmdCode = q.CmdCode % 256 /\ h.RequestId = q.RequestId /\ h.Timeout = q.Timeout
      /\ h.StatusCode = q.StatusCode /\ h.MetadataLength = Len(md) /\ h.BodyLength = Len(body)
    BY DEF headerFromMetadata
<1>10. SignedLen(q) = IF q.Verify THEN 24 ELSE 0
    BY DEF SignedLen, NonceLength, SignatureLength
<1> HIDE DEF q, md, h, body, z, f
<1>7. Pack(v, p, min) = {f}
  <2>1. HeadersOf(v, p, min) = {hd}
      BY <1>0, <1>6 DEF HeadersOf, h
  <2>2. f = FrameWith(hd, MetadataOf(v, p), Zipped(p, min))
      BY <1>0 DEF f, FrameWith
  <2> QED
      BY <2>1, <2>2, FramePacked
<1>11. Len(hd) \in Nat /\ Len(md) \in Nat /\ Len(body) \in Nat
    BY <1>2, <1>3, <1>6
<1> DEFINE n == HeaderLen(v, h.Type)
           h1 == UnpackFirst(ZeroHeader, f[1])
           u == UnpackRest(v, h1, SubSeq(f, 2, n))
           data == Drop(f, n)
           idx == Len(md) + Len(body)
<1>12. n = Len(hd) /\ n \in Nat \ {0} /\ n =< Len(f)
  <2>1. n = Len(hd)
      BY <1>6
  <2>2. n # 0
      BY <1>4, HeaderLenFacts, SMTT(30) DEF HeaderFits
  <2>3. Len(hd) =< Len(f)
      BY <1>8, <1>10, <1>11
  <2> QED
      BY <1>11, <2>1, <2>2, <2>3
<1>13. h1.Type = h.Type /\ u = Unpacked(h)
  <2>1. HeaderIn(v, f, h)
      BY <1>4, <1>6, <1>8, HeaderInside
  <2>2. v = 1 => h.MetadataLength = 0
    <3>1. v = 1 => Len(md) = 0
        BY <1>3
    <3> QED
        BY <1>9, <3>1
  <2> QED
      BY <1>4, <1>8, <1>12, <2>1, <2>2, HeaderUnpacks
<1>14. ~IsUnknownPacket(h1.Type)
    BY <1>2, <1>5, <1>9, <1>13 DEF IsUnknownPacket
<1> HIDE DEF n, h1, u
<1>15. /\ u.MetadataLength = Len(md) /\ u.BodyLength = Len(body)
       /\ u.Verify = (IF q.Verify THEN 1 ELSE 0) /\ u.Gzip = (IF q.Gzip THEN 1 ELSE 0)
    BY <1>9, <1>13 DEF Unpacked
<1>16. Need(u) = idx + (IF q.Verify THEN 24 ELSE 0) /\ Need(u) \in Nat
    BY <1>11, <1>15 DEF Need, NonceLength, SignatureLength
<1>17. Len(f) = n + Need(u)
    BY <1>8, <1>10, <1>11, <1>12, <1>16
<1>18. /\ data \in Seq(Nat) /\ Len(data) = Need(u)
       /\ \A o \in Nat, t \in Seq(Nat) : PieceAt(f, n + o, t) => PieceAt(data, o, t)
  <2>1. Len(f) - n = Need(u) /\ n \in Nat /\ n =< Len(f)
      BY <1>12, <1>16, <1>17
  <2> HIDE DEF f
  <2> QED
      BY <1>8, <2>1, DropFacts
<1> HIDE DEF data
<1>19. Take(data, u.MetadataLength) = md
  <2>1. PieceAt(data, 0, md)
    <3>1. PieceAt(f, n + 0, md)
        BY <1>8, <1>12
    <3> QED
        BY <1>3, <1>18, <3>1
  <2>2. SubSeq(data, 0 + 1, 0 + Len(md)) = md
      BY <1>3, <1>18, <2>1, PieceIs
  <2>3. Len(md) =< Len(data)
      BY <1>11, <1>16, <1>18
  <2>4. Take(data, Len(md)) = SubSeq(data, 1, Len(md))
      BY <1>11, <1>18, <2>3, TakeFacts
  <2> QED
      BY <1>11, <1>15, <2>2, <2>4
<1>20. SubSeq(data, u.MetadataLength + 1, u.MetadataLength + u.BodyLength) = body
  <2>1. PieceAt(data, Len(md), body)
      BY <1>2, <1>8, <1>11, <1>12, <1>18
  <2> QED
      BY <1>2, <1>11, <1>15, <1>18, <2>1, PieceIs
<1>21. ASSUME q.Verify
       PROVE  SubSeq(data, idx + 1, idx + NonceLength) = q.Nonce /\
           Drop(data, idx + NonceLength) = q.Signature
  <2>0. /\ idx \in Nat /\ idx + 8 \in Nat /\ Len(data) = (idx + 8) + 16
        /\ n + idx = (Len(hd) + Len(md)) + Len(body)
        /\ n + (idx + 8) = (Len(hd) + Len(md)) + Len(body) + 8
      BY <1>11, <1>12, <1>16, <1>18, <1>21
  <2>1. /\ q.Nonce \in Seq(Nat) /\ q.Signature \in Seq(Nat) /\ Len(q.Nonce) = 8 /\
             Len(q.Signature) = 16
        /\ NonceLength = 8
      BY <1>2, <1>5, <1>21 DEF NonceLength, SignatureLength
  <2> HIDE DEF idx
  <2>2. PieceAt(data, idx, q.Nonce)
    <3>1. PieceAt(f, n + idx, q.Nonce)
        BY <1>8, <1>21, <2>0
    <3> QED
        BY <1>18, <2>0, <2>1, <3>1
  <2>3. PieceAt(data, idx + 8, q.Signature)
    <3>1. PieceAt(f, n + (idx + 8), q.Signature)
        BY <1>8, <1>21, <2>0
    <3> QED
        BY <1>18, <2>0, <2>1, <3>1
  <2>4. SubSeq(data, idx + 1, idx + Len(q.Nonce)) = q.Nonce
      BY <1>18, <2>0, <2>1, <2>2, PieceIs
  <2> DEFINE k == idx + 8
  <2>5. k \in Nat /\ PieceAt(data, k, q.Signature) /\ Len(data) = k + 16
      BY <2>0, <2>3
  <2> HIDE DEF k
  <2>6. SubSeq(data, k + 1, k + Len(q.Signature)) = q.Signature
      BY <1>18, <2>1, <2>5, PieceIs
  <2>7. Drop(data, k) = q.Signature
      BY <2>1, <2>5, <2>6 DEF Drop
  <2> QED
      BY <2>1, <2>4, <2>7 DEF k
<1>22. BodyOf(u, body) = {p.Body}
    BY <1>2, <1>15, SMTT(30) DEF BodyOf
<1> DEFINE no == IF u.Verify = 1 THEN SubSeq(data, idx + 1, idx + NonceLength) ELSE
        Zeroes(NonceLength)
           si == IF u.Verify = 1 THEN Drop(data, idx + NonceLength) ELSE <<>>
           vs == Received(v, p, min).Values
<1>23. Assemble(v, u, data) = {PacketOf(u, vs, p.Body, no, si)}
  <2> DEFINE j == u.MetadataLength + u.BodyLength
             n2 == IF u.Verify = 1 THEN SubSeq(data, j + 1, j + NonceLength) ELSE
                 Zeroes(NonceLength)
             s2 == IF u.Verify = 1 THEN Drop(data, j + NonceLength) ELSE <<>>
  <2>1. Assemble(v, u, data) =
           {PacketOf(u, x, b, n2, s2) : x \in ValuesOf(v, Take(data, u.MetadataLength)),
                                        b \in BodyOf(u, SubSeq(data, u.MetadataLength + 1, j))}
      BY DEF Assemble
  <2>2. j = idx
      BY <1>15
  <2>3. n2 = no /\ s2 = si
      BY <2>2
  <2>4. ValuesOf(v, Take(data, u.MetadataLength)) = {vs}
      BY <1>3, <1>19
  <2>5. BodyOf(u, SubSeq(data, u.MetadataLength + 1, j)) = {p.Body}
      BY <1>20, <1>22
  <2> HIDE DEF no, si, vs, n2, s2, j
  <2>6. Assemble(v, u, data) = {PacketOf(u, x, b, no, si) : x \in {vs}, b \in {p.Body}}
      BY <2>1, <2>3, <2>4, <2>5
  <2> QED
      BY <2>6
<1>24. /\ no = (IF p.Verify THEN p.Nonce ELSE Zeroes(NonceLength))
       /\ si = (IF p.Verify THEN p.Signature ELSE <<>>)
  <2>1. CASE q.Verify
    <3>1. u.Verify = 1
        BY <1>15, <2>1
    <3> QED
        BY <1>2, <1>21, <2>1, <3>1
  <2>2. CASE ~q.Verify
    <3>1. u.Verify # 1
        BY <1>15, <2>2
    <3> QED
        BY <1>2, <2>2, <3>1
  <2> QED
      BY <2>1, <2>2
<1>25. /\ u.Type = p.Type /\ u.CmdCode = p.CmdCode % 256
       /\ u.RequestId = (IF p.Type = Push THEN 0 ELSE p.RequestId)
       /\ u.Timeout = (IF p.Type = Request THEN p.Timeout ELSE 0)
       /\ u.StatusCode = (IF p.Type = Response THEN p.StatusCode ELSE 0)
  <2>2. p.Type = Push <=> ~(p.Type \in {Request, Response})
      BY <1>5 DEF Request, Response, Push
  <2> QED
      BY <1>2, <1>9, <1>13, <2>2 DEF Unpacked
<1>26. (u.Gzip = 1 <=> z) /\ (u.Verify = 1 <=> p.Verify)
    BY <1>2, <1>15
<1> HIDE DEF no, si, vs
<1>27. PacketOf(u, vs, p.Body, no, si) = Received(v, p, min)
  <2>1. (u.Gzip = 1) = (min # 0 /\ Len(p.Body) >= min)
      BY <1>26, Zenon DEF z
  <2>3. (u.Verify = 1) = p.Verify
      BY <1>5, <1>26, Zenon
  <2>2. vs = IF v = 2 THEN {p.Values[i] : i \in {i \in DOMAIN p.Values : p.Values[i].key # <<>>}}
                      ELSE {}
      BY DEF vs, Received
  <2> QED
      BY <1>24, <1>25, <2>1, <2>2, <2>3, Zenon DEF PacketOf, Received
<1>28. GoodFrame(v, f, Received(v, p, min))
  <2>1. First(f) = h1 /\ HeadLen(v, f) = n /\ Header(v, f) = u
      BY <1>13 DEF First, HeadLen, Header, h1, n, u
  <2>2. u.MetadataLength + u.BodyLength \in Nat
      BY <1>11, <1>15
  <2> QED
      BY <1>8, <1>12, <1>14, <1>16, <1>17, <1>23, <1>27, <2>1, <2>2 DEF GoodFrame, data
<1> QED
    BY <1>7, <1>28

\* A good frame, there as a whole.
LEMMA GoodFrameUnpacks ==
    ASSUME NEW v, NEW f, NEW x, GoodFrame(v, f, x)
    PROVE  UnpackBytes(v, f) = {x}
<1> DEFINE h == Header(v, f)
           hl == HeadLen(v, f)
           n == Need(h)
           data == Drop(f, hl)
           idx == h.MetadataLength + h.BodyLength
<1>1. /\ f \in Seq(Nat) /\ ~IsUnknownPacket(First(f).Type) /\ hl \in Nat \ {0} /\ n \in Nat
      /\ idx \in Nat /\ Len(f) = hl + n /\ Assemble(v, h, data) = {x}
    BY DEF GoodFrame
<1>2. f # <<>> /\ ~(Len(f) < hl)
  <2> HIDE DEF hl, n
  <2>1. Len(f) > 0 /\ ~(Len(f) < hl)
      BY <1>1
  <2> QED
      BY <2>1
<1>3. HeaderUnpackBytes(v, f) = {h}
    BY <1>1, <1>2 DEF HeaderUnpackBytes, Header, HeadLen, First
<1>4. hl = HeaderLen(v, h.Type)
  <2>1. h.Type = First(f).Type
    <3> DEFINE g == First(f)
    <3>1. g.Type = f[1] % 16 /\ DOMAIN g = DOMAIN ZeroHeader
        BY DEF First, UnpackFirst, ZeroHeader
    <3>2. h.Type = g.Type
        BY DEF Header, UnpackRest
    <3> QED
        BY <3>2
  <2> QED
      BY <2>1 DEF HeadLen
<1>5. Len(data) = n
  <2>1. hl \in Nat /\ hl =< Len(f) /\ Len(f) - hl = n
      BY <1>1
  <2> HIDE DEF hl, n
  <2> QED
      BY <1>1, <2>1, DropFacts
<1>6. n = idx + (IF h.Verify = 1 THEN NonceLength + SignatureLength ELSE 0)
    BY DEF Need
<1> HIDE DEF h, hl, n, data, idx
<1>7. ~(Len(data) < idx) /\ ~(h.Verify = 1 /\ Len(data) < idx + NonceLength + SignatureLength)
    BY <1>1, <1>5, <1>6 DEF NonceLength, SignatureLength
<1> DEFINE T(g) == LET d == Drop(f, HeaderLen(v, g.Type))
                       i == g.MetadataLength + g.BodyLength
                   IN  IF \/ Len(d) < i
                          \/ g.Verify = 1 /\ Len(d) < i + NonceLength + SignatureLength
                       THEN {} ELSE Assemble(v, g, d)
<1>8. UnpackBytes(v, f) = UNION {T(g) : g \in HeaderUnpackBytes(v, f)}
    BY DEF UnpackBytes
<1>9. T(h) = {x}
    BY <1>1, <1>4, <1>7 DEF data, idx
<1> HIDE DEF T
<1> QED
    BY <1>3, <1>8, <1>9
=============================================================================
