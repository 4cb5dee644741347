---------------------------- MODULE ExchangeFacts ----------------------------
(***************************************************************************)
(* The operators of Exchange: what a handshake, options, the values of a   *)
(* map, a message and a packet come to on the other side, and what the     *)
(* frames on their way carry when one is added or taken away.              *)
(***************************************************************************)
EXTENDS ExchangeInv, FrameProofs, FiniteSetTheorems

\* A function on 1..n is a sequence of its values.
LEMMA FunctionsAreSeqs ==
    ASSUME NEW T, NEW n \in Nat, NEW u \in [1..n -> T]
    PROVE  u \in Seq(T) /\ Len(u) = n
OBVIOUS

\* Concatenation is associative and the empty sequence is neutral.
LEMMA ConcatLaws ==
    ASSUME NEW S, NEW s \in Seq(S), NEW t \in Seq(S), NEW u \in Seq(S)
    PROVE  /\ s \o t \in Seq(S) /\ t \o u \in Seq(S)
           /\ (s \o t) \o u = s \o (t \o u)
           /\ s \o <<>> = s /\ <<>> \o s = s
OBVIOUS

\* g[i] is the concatenation of the first i of ps.
IsFlat(ps, g) == g[0] = <<>> /\ \A i \in 1..Len(ps) : g[i] = g[i - 1] \o ps[i]

\* FlattenSeq concatenates them all.
LEMMA FlatFacts ==
    ASSUME NEW S, NEW ps \in Seq(Seq(S))
    PROVE  /\ FlattenSeq(ps) \in Seq(S)
           /\ \E g \in [0..Len(ps) -> Seq(S)] : IsFlat(ps, g)
           /\ \A g : IsFlat(ps, g) => FlattenSeq(ps) = g[Len(ps)]
<1> DEFINE N == Len(ps)
           step == [i \in 1..N |-> [x \in Seq(S) |-> x \o ps[i]]]
           D(f) == [i \in 1..N |-> IF i = 1 THEN ps[i] ELSE f[i - 1] \o ps[i]]
<1>1. N \in Nat /\ <<>> \in Seq(S) /\ \A i \in 1..N : ps[i] \in Seq(S)
    OBVIOUS
<1>2. step \in [1..N -> [Seq(S) -> Seq(S)]]
  <2>1. ASSUME NEW i \in 1..N, NEW x \in Seq(S) PROVE x \o ps[i] \in Seq(S)
      BY <1>1, ConcatLaws
  <2> QED
      BY <2>1
<1>3. \A i \in 1..N, x \in Seq(S) : step[i][x] = x \o ps[i]
    OBVIOUS
<1>4. N # 0 => FlattenSeq(ps) = (CHOOSE f : f = D(f))[N]
    BY DEF FlattenSeq
<1>5. N = 0 => FlattenSeq(ps) = <<>>
    BY DEF FlattenSeq
<1> HIDE DEF step, N
<1>6. PICK g \in [0..N -> Seq(S)] : g[0] = <<>> /\ \A i \in 1..N : g[i] = step[i][g[i - 1]]
  <2>1. \E g : Recursive(N, Seq(S), <<>>, step, g)
      BY <1>1, <1>2, Recursion
  <2> QED
      BY <2>1 DEF Recursive
<1>7. \A i \in 1..N : i - 1 \in 0..N /\ g[i - 1] \in Seq(S) /\ g[i] = g[i - 1] \o ps[i]
  <2> TAKE i \in 1..N
  <2>1. i - 1 \in 0..N
      BY <1>1
  <2>2. g[i - 1] \in Seq(S)
      BY <2>1
  <2> QED
      BY <1>3, <1>6, <2>1, <2>2
<1>8. IsFlat(ps, g)
    BY <1>6, <1>7 DEF IsFlat, N
<1>9. ASSUME NEW k, IsFlat(ps, k) PROVE \A i \in 0..N : k[i] = g[i]
  <2> DEFINE T == {i \in Nat : i =< N => k[i] = g[i]}
  <2>0. k[0] = <<>> /\ \A i \in 1..N : k[i] = k[i - 1] \o ps[i]
      BY <1>9 DEF IsFlat, N
  <2>1. 0 \in T
      BY <1>6, <2>0
  <2>2. ASSUME NEW i \in T PROVE i + 1 \in T
    <3> SUFFICES ASSUME i + 1 =< N PROVE k[i + 1] = g[i + 1]
        OBVIOUS
    <3>1. i \in Nat /\ i + 1 \in 1..N /\ (i + 1) - 1 = i /\ k[i] = g[i]
        BY <1>1
    <3> QED
        BY <1>7, <2>0, <3>1
  <2>3. T = Nat
      BY <2>1, <2>2, Induction
  <2>4. \A i \in 0..N : i \in Nat /\ i =< N
      BY <1>1
  <2> QED
      BY <2>3, <2>4
<1>10. FlattenSeq(ps) = g[N]
  <2>1. CASE N = 0
      BY <1>5, <1>6, <2>1
  <2>2. CASE N # 0
    <3> DEFINE k == [i \in 1..N |-> g[i]]
               z == CHOOSE f : f = D(f)
    <3>1. k = D(k)
      <4>1. ASSUME NEW i \in 1..N PROVE k[i] = IF i = 1 THEN ps[i] ELSE k[i - 1] \o ps[i]
        <5>1. k[i] = g[i - 1] \o ps[i]
            BY <1>7
        <5>2. CASE i = 1
          <6>1. g[i - 1] = <<>> /\ ps[i] \in Seq(S)
              BY <1>1, <1>6, <5>2
          <6>2. <<>> \o ps[i] = ps[i]
              BY <6>1, ConcatLaws
          <6> QED
              BY <5>1, <5>2, <6>1, <6>2
        <5>3. CASE i # 1
          <6>1. i - 1 \in 1..N
              BY <1>1, <5>3
          <6>2. k[i - 1] = g[i - 1]
              BY <6>1
          <6> QED
              BY <5>1, <5>3, <6>2
        <5> QED
            BY <5>2, <5>3
      <4> QED
          BY <4>1
    <3> HIDE DEF k
    <3>2. z = D(z)
        BY <3>1
    <3> HIDE DEF z
    <3>3. \A i \in 1..N : z[i] = IF i = 1 THEN ps[i] ELSE z[i - 1] \o ps[i]
        BY <3>2
    <3> DEFINE T == {i \in Nat : i \in 1..N => z[i] = g[i]}
    <3>4. 0 \in T
        BY SMT
    <3>5. ASSUME NEW i \in T PROVE i + 1 \in T
      <4> SUFFICES ASSUME i + 1 \in 1..N PROVE z[i + 1] = g[i + 1]
          OBVIOUS
      <4>0. i \in Nat /\ (i + 1) - 1 = i
          OBVIOUS
      <4>1. g[i + 1] = g[i] \o ps[i + 1]
          BY <1>7, <4>0
      <4>2. CASE i = 0
        <5>1. g[i] = <<>> /\ ps[i + 1] \in Seq(S)
            BY <1>1, <1>6, <4>2
        <5>2. <<>> \o ps[i + 1] = ps[i + 1]
            BY <5>1, ConcatLaws
        <5>3. z[i + 1] = ps[i + 1]
            BY <3>3, <4>2
        <5> QED
            BY <4>1, <5>1, <5>2, <5>3
      <4>3. CASE i # 0
        <5>1. i \in 1..N /\ i + 1 # 1
            BY <1>1, <4>1, <4>3
        <5>2. z[i] = g[i]
            BY <5>1
        <5> QED
            BY <3>3, <4>0, <4>1, <5>1, <5>2
      <4> QED
          BY <4>2, <4>3
    <3>6. T = Nat
        BY <3>4, <3>5, Induction
    <3>7. N \in Nat /\ N \in 1..N
        BY <1>1, <2>2
    <3>8. z[N] = g[N]
        BY <3>6, <3>7
    <3> QED
        BY <1>4, <2>2, <3>8 DEF z
  <2> QED
      BY <2>1, <2>2
<1>11. g[N] \in Seq(S)
    BY <1>1
<1>12. \A k : IsFlat(ps, k) => FlattenSeq(ps) = k[N]
    BY <1>1, <1>9, <1>10
<1> QED
    BY <1>8, <1>10, <1>11, <1>12 DEF N

\* Of nothing, of one more at the end,
LEMMA FlatAppend ==
    ASSUME NEW S, NEW ps \in Seq(Seq(S)), NEW x \in Seq(S)
    PROVE  FlattenSeq(Append(ps, x)) = FlattenSeq(ps) \o x
<1> DEFINE N == Len(ps)
           qs == Append(ps, x)
<1>1. /\ N \in Nat /\ qs \in Seq(Seq(S)) /\ Len(qs) = N + 1 /\ qs[N + 1] = x
      /\ \A i \in 1..N : qs[i] = ps[i]
    OBVIOUS
<1>2. PICK g \in [0..N -> Seq(S)] : IsFlat(ps, g)
    BY FlatFacts
<1>3. FlattenSeq(ps) = g[N] /\ g[0] = <<>> /\ \A i \in 1..N : g[i] = g[i - 1] \o ps[i]
  <2>1. FlattenSeq(ps) = g[N]
      BY <1>2, FlatFacts
  <2> QED
      BY <1>2, <2>1 DEF IsFlat
<1> HIDE DEF N, qs
<1> DEFINE h == [i \in 0..(N + 1) |-> IF i = N + 1 THEN g[N] \o x ELSE g[i]]
<1>4. h[0] = <<>> /\ h[N + 1] = g[N] \o x /\ \A i \in 0..N : h[i] = g[i]
    BY <1>1, <1>3, SMTT(30)
<1> HIDE DEF h
<1>5. ASSUME NEW i \in 1..(N + 1) PROVE h[i] = h[i - 1] \o qs[i]
  <2>1. CASE i = N + 1
    <3>1. i - 1 = N /\ N \in 0..N
        BY <1>1, <2>1
    <3> QED
        BY <1>1, <1>4, <2>1, <3>1
  <2>2. CASE i # N + 1
    <3>1. i \in 1..N /\ i - 1 \in 0..N /\ i \in 0..N
        BY <1>1, <2>2
    <3> QED
        BY <1>1, <1>3, <1>4, <3>1
  <2> QED
      BY <2>1, <2>2
<1>6. IsFlat(qs, h)
    BY <1>1, <1>4, <1>5 DEF IsFlat
<1>7. FlattenSeq(qs) = h[N + 1]
    BY <1>1, <1>6, FlatFacts
<1> QED
    BY <1>3, <1>4, <1>7 DEF qs

\* and of one less at the front.
LEMMA FlatTail ==
    ASSUME NEW S, NEW ps \in Seq(Seq(S)), ps # <<>>
    PROVE  FlattenSeq(ps) = ps[1] \o FlattenSeq(Tail(ps))
<1> DEFINE N == Len(ps)
           qs == Tail(ps)
<1>1. /\ N \in Nat \ {0} /\ qs \in Seq(Seq(S)) /\ Len(qs) = N - 1
      /\ \A i \in 1..(N - 1) : qs[i] = ps[i + 1]
      /\ \A i \in 1..N : ps[i] \in Seq(S)
    OBVIOUS
<1> HIDE DEF N, qs
<1>2. PICK g \in [0..Len(qs) -> Seq(S)] : IsFlat(qs, g)
    BY <1>1, FlatFacts
<1>3. /\ FlattenSeq(qs) = g[N - 1] /\ g[0] = <<>>
      /\ \A i \in 1..(N - 1) : g[i] = g[i - 1] \o qs[i]
  <2>1. FlattenSeq(qs) = g[Len(qs)]
      BY <1>1, <1>2, FlatFacts
  <2> QED
      BY <1>1, <1>2, <2>1 DEF IsFlat
<1> DEFINE h == [i \in 0..N |-> IF i = 0 THEN <<>> ELSE ps[1] \o g[i - 1]]
<1>4. h[0] = <<>> /\ \A i \in 1..N : h[i] = ps[1] \o g[i - 1]
  <2>1. 0 \in 0..N /\ \A i \in 1..N : i \in 0..N /\ i # 0
      BY <1>1
  <2> QED
      BY <2>1, Zenon
<1> HIDE DEF h
<1>5. ASSUME NEW i \in 1..N PROVE h[i] = h[i - 1] \o ps[i]
  <2>0. ps[1] \in Seq(S) /\ ps[i] \in Seq(S)
      BY <1>1
  <2>1. CASE i = 1
    <3>1. h[i] = ps[1] \o <<>> /\ h[i - 1] = <<>>
      <4>1. i - 1 = 0
          BY <2>1
      <4> QED
          BY <1>3, <1>4, <4>1
    <3>2. ps[1] \o <<>> = ps[1] /\ <<>> \o ps[1] = ps[1]
        BY <2>0, ConcatLaws
    <3> QED
        BY <2>1, <3>1, <3>2
  <2>2. CASE i # 1
    <3>1. i - 1 \in 1..(N - 1) /\ i - 1 \in 1..N /\ (i - 1) - 1 \in 0..(N - 1) /\ (i - 1) + 1 = i
        BY <1>1, <2>2
    <3>2. g[i - 1] = g[(i - 1) - 1] \o ps[i]
        BY <1>1, <1>3, <3>1
    <3>3. g[(i - 1) - 1] \in Seq(S)
        BY <1>1, <3>1
    <3>4. ps[1] \o (g[(i - 1) - 1] \o ps[i]) = (ps[1] \o g[(i - 1) - 1]) \o ps[i]
      <4> DEFINE a == ps[1]
                 b == g[(i - 1) - 1]
                 c == ps[i]
      <4>1. a \in Seq(S) /\ b \in Seq(S) /\ c \in Seq(S)
          BY <2>0, <3>3
      <4> HIDE DEF a, b, c
      <4>2. (a \o b) \o c = a \o (b \o c)
          BY <4>1, SMT
      <4> QED
          BY <4>2 DEF a, b, c
    <3>5. h[i] = ps[1] \o g[i - 1] /\ h[i - 1] = ps[1] \o g[(i - 1) - 1]
        BY <1>4, <3>1
    <3> QED
        BY <3>2, <3>4, <3>5
  <2> QED
      BY <2>1, <2>2
<1>6. IsFlat(ps, h)
    BY <1>4, <1>5 DEF IsFlat, N
<1>7. FlattenSeq(ps) = h[N]
    BY <1>6, FlatFacts DEF N
<1>8. h[N] = ps[1] \o g[N - 1]
  <2>1. N \in 1..N
      BY <1>1
  <2> QED
      BY <1>4, <2>1
<1> QED
    BY <1>3, <1>7, <1>8 DEF qs

\* The same where pieces are those of frames, or of anything in F.
Mapped(P, fs) == [i \in DOMAIN fs |-> P[fs[i]]]

MappedLaws(F, S, P, fs) ==
    /\ FlattenSeq(Mapped(P, fs)) \in Seq(S)
    /\ fs = <<>> => FlattenSeq(Mapped(P, fs)) = <<>>
    /\ \A f \in F : FlattenSeq(Mapped(P, Append(fs, f))) = FlattenSeq(Mapped(P, fs)) \o P[f]
    /\ fs # <<>> => FlattenSeq(Mapped(P, fs)) = P[fs[1]] \o FlattenSeq(Mapped(P, Tail(fs)))

\* Laws of the concatenation of P(s[i]) for all i, when s grows or shrinks.
LEMMA MappedFacts ==
    ASSUME NEW F, NEW S, NEW P \in [F -> Seq(S)], NEW fs \in Seq(F)
    PROVE  MappedLaws(F, S, P, fs)
<1> DEFINE ms == Mapped(P, fs)
<1>1. /\ ms \in Seq(Seq(S)) /\ Len(ms) = Len(fs) /\ DOMAIN ms = 1..Len(fs)
      /\ \A i \in 1..Len(fs) : ms[i] = P[fs[i]]
  <2>1. Len(fs) \in Nat /\ DOMAIN fs = 1..Len(fs) /\ \A i \in 1..Len(fs) : fs[i] \in F
      OBVIOUS
  <2>2. \A i \in 1..Len(fs) : P[fs[i]] \in Seq(S)
      BY <2>1
  <2>3. ms = [i \in 1..Len(fs) |-> P[fs[i]]]
      BY <2>1 DEF Mapped
  <2> HIDE DEF ms
  <2>4. ms \in [1..Len(fs) -> Seq(S)]
      BY <2>2, <2>3
  <2>5. ms \in Seq(Seq(S)) /\ Len(ms) = Len(fs)
      BY <2>1, <2>4, FunctionsAreSeqs
  <2> QED
      BY <2>3, <2>5
<1> HIDE DEF ms
<1>2. FlattenSeq(ms) \in Seq(S)
    BY <1>1, FlatFacts
<1>3. ASSUME fs = <<>> PROVE FlattenSeq(ms) = <<>>
  <2>1. Len(ms) = 0
      BY <1>1, <1>3
  <2>2. ms = <<>>
      BY <1>1, <2>1
  <2> QED
      BY <2>1, <2>2 DEF FlattenSeq
<1>4. ASSUME NEW f \in F PROVE FlattenSeq(Mapped(P, Append(fs, f))) = FlattenSeq(ms) \o P[f]
  <2> DEFINE gs == Append(fs, f)
             ns == Append(ms, P[f])
  <2>1. /\ DOMAIN gs = 1..(Len(fs) + 1) /\ gs[Len(fs) + 1] = f
        /\ \A i \in 1..Len(fs) : gs[i] = fs[i]
      OBVIOUS
  <2>2. P[f] \in Seq(S)
      OBVIOUS
  <2>3. /\ DOMAIN ns = 1..(Len(fs) + 1) /\ ns[Len(fs) + 1] = P[f]
        /\ \A i \in 1..Len(fs) : ns[i] = ms[i]
        /\ ns = [i \in 1..(Len(fs) + 1) |-> ns[i]]
    <3> HIDE DEF ns
    <3>1. /\ ns \in Seq(Seq(S)) /\ Len(ns) = Len(fs) + 1 /\ ns[Len(fs) + 1] = P[f]
          /\ \A i \in 1..Len(fs) : ns[i] = ms[i]
        BY <1>1, <2>2 DEF ns
    <3> QED
        BY <3>1
  <2> HIDE DEF gs, ns
  <2>4. \A i \in 1..(Len(fs) + 1) : P[gs[i]] = ns[i]
    <3> TAKE i \in 1..(Len(fs) + 1)
    <3>1. i \in 1..Len(fs) \/ i = Len(fs) + 1
        OBVIOUS
    <3> QED
        BY <1>1, <2>1, <2>3, <3>1
  <2>5. Mapped(P, gs) = ns
      BY <2>1, <2>3, <2>4 DEF Mapped
  <2>6. FlattenSeq(ns) = FlattenSeq(ms) \o P[f]
      BY <1>1, <2>2, FlatAppend DEF ns
  <2> QED
      BY <2>5, <2>6 DEF gs
<1>5. ASSUME fs # <<>> PROVE FlattenSeq(ms) = P[fs[1]] \o FlattenSeq(Mapped(P, Tail(fs)))
  <2> DEFINE gs == Tail(fs)
             ns == Tail(ms)
  <2>0. Len(fs) \in Nat \ {0}
      BY <1>5
  <2>1. DOMAIN gs = 1..(Len(fs) - 1) /\ \A i \in 1..(Len(fs) - 1) : gs[i] = fs[i + 1]
      BY <1>5
  <2>2. ms # <<>> /\ ms[1] = P[fs[1]]
      BY <1>1, <2>0
  <2>3. /\ \A i \in 1..(Len(fs) - 1) : ns[i] = ms[i + 1]
        /\ ns = [i \in 1..(Len(fs) - 1) |-> ns[i]]
    <3> HIDE DEF ns
    <3>1. /\ ns \in Seq(Seq(S)) /\ Len(ns) = Len(fs) - 1
          /\ \A i \in 1..(Len(fs) - 1) : ns[i] = ms[i + 1]
        BY <1>1, <2>0, <2>2 DEF ns
    <3> QED
        BY <3>1
  <2> HIDE DEF gs, ns
  <2>4. \A i \in 1..(Len(fs) - 1) : P[gs[i]] = ns[i]
    <3> TAKE i \in 1..(Len(fs) - 1)
    <3>1. i + 1 \in 1..Len(fs)
        BY <2>0
    <3> QED
        BY <1>1, <2>1, <2>3, <3>1
  <2>5. Mapped(P, gs) = ns
      BY <2>1, <2>3, <2>4 DEF Mapped
  <2>6. FlattenSeq(ms) = ms[1] \o FlattenSeq(ns)
      BY <1>1, <2>2, FlatTail DEF ns
  <2> QED
      BY <2>2, <2>5, <2>6 DEF gs
<1> QED
    BY <1>2, <1>3, <1>4, <1>5 DEF ms, MappedLaws

-----------------------------------------------------------------------------
(* The handshake                                                             *)

\* A byte is the sum of its bits.
LEMMA BitsOf ==
    ASSUME NEW x \in Byte
    PROVE  /\ \A n \in {1, 2, 4, 8, 16, 32, 64, 128} : BitOf(x, n) \in {0, 1}
           /\ x = BitOf(x, 1) + 2 * BitOf(x, 2) + 4 * BitOf(x, 4) + 8 * BitOf(x, 8)
                    + 16 * BitOf(x, 16) + 32 * BitOf(x, 32) + 64 * BitOf(x, 64)
                    + 128 * BitOf(x, 128)
<1>1. \A n \in {1, 2, 4, 8, 16, 32, 64, 128} : BitOf(x, n) \in {0, 1}
    BY SMT DEF BitOf, Byte
<1>2. x = BitOf(x, 1) + 2 * BitOf(x, 2) + 4 * BitOf(x, 4) + 8 * BitOf(x, 8)
            + 16 * BitOf(x, 16) + 32 * BitOf(x, 32) + 64 * BitOf(x, 64) + 128 * BitOf(x, 128)
    BY SMT DEF BitOf, Byte
<1> QED
    BY <1>1, <1>2

\* The low four bits of a multiple of 16 are 0.
LEMMA HighBits ==
    ASSUME NEW k \in 0..15
    PROVE  /\ 16 * k \in Byte
           /\ BitOf(16 * k, 1) = 0 /\ BitOf(16 * k, 2) = 0
           /\ BitOf(16 * k, 4) = 0 /\ BitOf(16 * k, 8) = 0
BY SMT DEF BitOf, Byte

\* What is or'ed into the high bits does not change the low ones, and is itself kept
\* if there was nothing.
LEMMA OrFacts ==
    ASSUME NEW x \in Byte, NEW k \in 0..15
    PROVE  /\ BitOr(x, 16 * k) \in Byte
           /\ BitOr(x, 16 * k) % 16 = x % 16
           /\ x < 16 => BitOr(x, 16 * k) \div 16 = k
<1> DEFINE y == 16 * k
           z == BitOr(x, y)
           X(n) == BitOf(x, n)
           Y(n) == BitOf(y, n)
           Z(n) == IF X(n) = 1 \/ Y(n) = 1 THEN n ELSE 0
<1>1. z = Z(1) + Z(2) + Z(4) + Z(8) + Z(16) + Z(32) + Z(64) + Z(128)
    BY DEF BitOr
<1>2. y \in Byte /\ Y(1) = 0 /\ Y(2) = 0 /\ Y(4) = 0 /\ Y(8) = 0
    BY HighBits
<1>3. /\ \A n \in {1, 2, 4, 8, 16, 32, 64, 128} : X(n) \in {0, 1}
      /\ x = X(1) + 2 * X(2) + 4 * X(4) + 8 * X(8) + 16 * X(16) + 32 * X(32) + 64 * X(64)
               + 128 * X(128)
    BY BitsOf
<1>4. /\ \A n \in {1, 2, 4, 8, 16, 32, 64, 128} : Y(n) \in {0, 1}
      /\ y = Y(1) + 2 * Y(2) + 4 * Y(4) + 8 * Y(8) + 16 * Y(16) + 32 * Y(32) + 64 * Y(64)
               + 128 * Y(128)
    BY <1>2, BitsOf
<1> DEFINE low  == X(1) + 2 * X(2) + 4 * X(4) + 8 * X(8)
           high == (Z(16) + Z(32)) + (Z(64) + Z(128))
<1>5. /\ Z(1) = X(1) /\ Z(2) = 2 * X(2) /\ Z(4) = 4 * X(4) /\ Z(8) = 8 * X(8)
    BY <1>2, <1>3
<1>6. /\ Z(16) \in {0, 16} /\ Z(32) \in {0, 32} /\ Z(64) \in {0, 64} /\ Z(128) \in {0, 128}
    OBVIOUS
<1>7. low \in 0..15 /\ x % 16 = low
  <2> HIDE DEF X
  <2>1. X(1) \in {0, 1} /\ X(2) \in {0, 1} /\ X(4) \in {0, 1} /\ X(8) \in {0, 1}
        /\ X(16) \in {0, 1} /\ X(32) \in {0, 1} /\ X(64) \in {0, 1} /\ X(128) \in {0, 1}
      BY <1>3
  <2>2. low \in 0..15
      BY <2>1
  <2>3. x = low + 16 * (X(16) + 2 * X(32) + 4 * X(64) + 8 * X(128))
      BY <1>3, <2>1
  <2> QED
      BY <2>1, <2>2, <2>3
<1>8. \E q \in 0..15 : high = 16 * q
  <2> HIDE DEF Z
  <2>1. high \in {16 * q : q \in 0..15}
      BY <1>6
  <2> QED
      BY <2>1
<1>9. z = low + high
  <2> HIDE DEF X, Z
  <2>1. X(1) \in {0, 1} /\ X(2) \in {0, 1} /\ X(4) \in {0, 1} /\ X(8) \in {0, 1}
      BY <1>3
  <2> QED
      BY <1>1, <1>5, <1>6, <2>1
<1>10. x < 16 => high = y
  <2> SUFFICES ASSUME x < 16 PROVE high = y
      OBVIOUS
  <2>1. X(16) = 0 /\ X(32) = 0 /\ X(64) = 0 /\ X(128) = 0
    <3> HIDE DEF X
    <3>1. X(1) \in {0, 1} /\ X(2) \in {0, 1} /\ X(4) \in {0, 1} /\ X(8) \in {0, 1}
          /\ X(16) \in {0, 1} /\ X(32) \in {0, 1} /\ X(64) \in {0, 1} /\ X(128) \in {0, 1}
        BY <1>3
    <3> QED
        BY <1>3, <3>1
  <2>2. Y(16) \in {0, 1} /\ Y(32) \in {0, 1} /\ Y(64) \in {0, 1} /\ Y(128) \in {0, 1}
      BY <1>4
  <2>3. Z(16) = 16 * Y(16) /\ Z(32) = 32 * Y(32) /\ Z(64) = 64 * Y(64) /\ Z(128) = 128 * Y(128)
      BY <2>1, <2>2
  <2> HIDE DEF Y, Z
  <2> QED
      BY <1>2, <1>4, <2>2, <2>3
<1> HIDE DEF y, z, low, high
<1>11. PICK q \in 0..15 : high = 16 * q
    BY <1>8
<1>12. z \in Byte /\ z % 16 = low /\ z \div 16 = q
    BY <1>7, <1>9, <1>11 DEF Byte
<1>13. x < 16 => q = k
    BY <1>10, <1>11 DEF y
<1> QED
    BY <1>7, <1>12, <1>13 DEF z, y

\* What the server unpacks of a handshake with a version that is known.
LEMMA HandshakeFacts ==
    ASSUME NEW h \in HandshakeRecord, h.Version \in manager
    PROVE  LET u == HandshakeUnpack(HandshakePack(h))
           IN  /\ u.Version = h.Version /\ u.Codec \in Nat /\ u.Platform \in Nat
               /\ u.Codec = h.Codec <=> h.Codec < 16
               /\ u.Platform = h.Platform <=> h.Platform < 16
<1> DEFINE k == h.Codec % 16
           r == h.Reserve % 16
           a == BitOr(h.Version, 16 * k)
           b == BitOr(h.Platform, 16 * r)
           u == HandshakeUnpack(HandshakePack(h))
<1>1. /\ h.Version \in 0..255 /\ h.Codec \in 0..255 /\ h.Platform \in 0..255
      /\ h.Reserve \in 0..255 /\ h.Version < 16
    BY DEF HandshakeRecord, Byte, manager
<1>2. k \in 0..15 /\ r \in 0..15
    BY <1>1
<1>3. (h.Codec * 16) % 256 = 16 * k /\ (h.Reserve * 16) % 256 = 16 * r
    BY <1>1, SMT
<1> HIDE DEF k, r
<1>4. HandshakePack(h) = <<a, b>>
    BY <1>3 DEF HandshakePack
<1>5. a \in Byte /\ a % 16 = h.Version % 16 /\ a \div 16 = k
    BY <1>1, <1>2, OrFacts DEF Byte
<1>6. b \in Byte /\ b % 16 = h.Platform % 16
    BY <1>1, <1>2, OrFacts DEF Byte
<1> HIDE DEF a, b
<1>7. u.Version = a % 16 /\ u.Codec = a \div 16 /\ u.Platform = b % 16
    BY <1>4 DEF HandshakeUnpack
<1>8. h.Version % 16 = h.Version
    BY <1>1
<1>9. (k = h.Codec <=> h.Codec < 16) /\ k \in Nat
    BY <1>1, <1>2 DEF k
<1>10. (b % 16 = h.Platform <=> h.Platform < 16) /\ b % 16 \in Nat
    BY <1>1, <1>6 DEF Byte
<1> QED
    BY <1>5, <1>7, <1>8, <1>9, <1>10

-----------------------------------------------------------------------------
(* Options                                                                   *)

\* os[i] gives option o a value that counts; the unit of that value.
Gives(os, i, o) == os[i].name = o /\ os[i].value > 0
UnitOf(o) == IF o = "ReadBufferSize" THEN 1024 ELSE 1

\* The last of the first n options of os to give o a value is i.
LastGiven(os, n, o, i) ==
    i \in 1..n /\ Gives(os, i, o) /\ \A j \in 1..n : Gives(os, j, o) => j =< i

\* d[o] after the first n options of os.
ValueTaken(os, n, o, d) ==
    \/ (\A i \in 1..n : ~Gives(os, i, o)) /\ d[o] = DefaultOptions[o]
    \/ \E i \in 1..n : LastGiven(os, n, o, i) /\ d[o] = UnitOf(o) * os[i].value

\* The defaults are numbers, all positive but MaxReconnect.
LEMMA DefaultFacts ==
    /\ DefaultOptions \in [OptionNames -> Int]
    /\ \A o \in OptionNames : DefaultOptions[o] > 0 \/ o = "MaxReconnect"
    /\ "MinGzipSize" \in OptionNames
<1>1. OptionNames = {"Timeout", "AuthTimeout", "KeepaliveTimeout", "Keepalive",
                     "ReadBufferSize", "ReadQueueSize", "WriteQueueSize", "MinGzipSize",
                     "MaxReconnect"}
    BY DEF OptionNames, DefaultOptions
<1>2. /\ DefaultOptions["Timeout"] = 5 /\ DefaultOptions["AuthTimeout"] = 10
      /\ DefaultOptions["KeepaliveTimeout"] = 120 /\ DefaultOptions["Keepalive"] = 60
      /\ DefaultOptions["ReadBufferSize"] = 4096 /\ DefaultOptions["ReadQueueSize"] = 16
      /\ DefaultOptions["WriteQueueSize"] = 16 /\ DefaultOptions["MinGzipSize"] = 1024
      /\ DefaultOptions["MaxReconnect"] = 0
    BY SMT DEF DefaultOptions
<1>3. DefaultOptions = [o \in OptionNames |-> DefaultOptions[o]]
    BY DEF DefaultOptions, OptionNames
<1>4. \A o \in OptionNames : DefaultOptions[o] \in Int
    BY <1>1, <1>2, SMT
<1> QED
    BY <1>1, <1>2, <1>3, <1>4, SMT

\* One option.
LEMMA SetOptionFacts ==
    ASSUME NEW d \in [OptionNames -> Int], NEW opt \in OptionRecord
    PROVE  /\ SetOption(d, opt) \in [OptionNames -> Int]
           /\ opt.value > 0 => SetOption(d, opt)[opt.name] = UnitOf(opt.name) * opt.value
           /\ \A o \in OptionNames :
                 ~(opt.name = o /\ opt.value > 0) => SetOption(d, opt)[o] = d[o]
<1> DEFINE n == opt.name
           x == UnitOf(n) * opt.value
<1>1. n \in OptionNames /\ opt.value \in Int
    BY DEF OptionRecord
<1>2. x \in Int /\ x = IF n = "ReadBufferSize" THEN opt.value * 1024 ELSE opt.value
    BY <1>1, SMT DEF UnitOf
<1> HIDE DEF x
<1>3. SetOption(d, opt) = IF opt.value > 0 THEN [d EXCEPT ![n] = x] ELSE d
    BY <1>2 DEF SetOption
<1> HIDE DEF n
<1>4. [d EXCEPT ![n] = x] \in [OptionNames -> Int] /\ [d EXCEPT ![n] = x][n] = x
    BY <1>1, <1>2
<1>5. \A o \in OptionNames : n # o => [d EXCEPT ![n] = x][o] = d[o]
    BY <1>1
<1> QED
    BY <1>3, <1>4, <1>5 DEF n, x

\* What one more option does.
LEMMA ValueTakenNext ==
    ASSUME NEW os, OptionList(os), NEW n \in Nat, n + 1 =< Len(os),
           NEW d \in [OptionNames -> Int], NEW o \in OptionNames, ValueTaken(os, n, o, d)
    PROVE  ValueTaken(os, n + 1, o, SetOption(d, os[n + 1]))
<1> DEFINE opt == os[n + 1]
           e   == SetOption(d, opt)
<1>1. n + 1 \in 1..(n + 1) /\ \A i \in 1..(n + 1) : i \in 1..n \/ i = n + 1
    OBVIOUS
<1>2. opt \in OptionRecord
    BY DEF OptionList
<1>3. /\ opt.value > 0 => e[opt.name] = UnitOf(opt.name) * opt.value
      /\ ~(opt.name = o /\ opt.value > 0) => e[o] = d[o]
    BY <1>2, SetOptionFacts
<1>4. \A i \in 1..n : i \in 1..(n + 1) /\ i =< n + 1
    OBVIOUS
<1> HIDE DEF e
<1>5. CASE Gives(os, n + 1, o)
  <2>1. opt.name = o /\ opt.value > 0
      BY <1>5 DEF Gives
  <2>2. e[o] = UnitOf(o) * os[n + 1].value
      BY <1>3, <2>1
  <2>3. \A j \in 1..(n + 1) : j =< n + 1
      OBVIOUS
  <2>4. LastGiven(os, n + 1, o, n + 1)
      BY <1>1, <1>5, <2>3 DEF LastGiven
  <2>5. ValueTaken(os, n + 1, o, e)
      BY <1>1, <2>2, <2>4 DEF ValueTaken
  <2> QED
      BY <2>5 DEF e
<1>6. CASE ~Gives(os, n + 1, o)
  <2>1. e[o] = d[o]
      BY <1>3, <1>6 DEF Gives
  <2>2. CASE (\A i \in 1..n : ~Gives(os, i, o)) /\ d[o] = DefaultOptions[o]
    <3>1. \A i \in 1..(n + 1) : ~Gives(os, i, o)
        BY <1>1, <1>6, <2>2
    <3>2. ValueTaken(os, n + 1, o, e)
        BY <2>1, <2>2, <3>1 DEF ValueTaken
    <3> QED
        BY <3>2 DEF e
  <2>3. CASE \E i \in 1..n : LastGiven(os, n, o, i) /\ d[o] = UnitOf(o) * os[i].value
    <3>1. PICK i \in 1..n : LastGiven(os, n, o, i) /\ d[o] = UnitOf(o) * os[i].value
        BY <2>3
    <3>2. \A j \in 1..(n + 1) : Gives(os, j, o) => j =< i
        BY <1>1, <1>6, <3>1 DEF LastGiven
    <3>3. LastGiven(os, n + 1, o, i)
        BY <1>4, <3>1, <3>2 DEF LastGiven
    <3>4. ValueTaken(os, n + 1, o, e)
        BY <1>4, <2>1, <3>1, <3>3 DEF ValueTaken
    <3> QED
        BY <3>4 DEF e
  <2> QED
      BY <2>2, <2>3 DEF ValueTaken
<1> QED
    BY <1>5, <1>6

\* The options after all of os.
LEMMA OptionsFacts ==
    ASSUME NEW os, OptionList(os)
    PROVE  /\ newDialOptions(os) \in [OptionNames -> Int]
           /\ \A o \in OptionNames : ValueTaken(os, Len(os), o, newDialOptions(os))
<1> DEFINE N == Len(os)
           S == [OptionNames -> Int]
           step == [i \in 1..N |-> [x \in S |-> SetOption(x, os[i])]]
           D(f) == [i \in 0..N |-> IF i = 0 THEN DefaultOptions ELSE SetOption(f[i - 1], os[i])]
           z == CHOOSE f : f = D(f)
<1>1. N \in Nat /\ \A i \in 1..N : os[i] \in OptionRecord
    BY DEF OptionList
<1>2. step \in [1..N -> [S -> S]]
  <2>1. ASSUME NEW i \in 1..N, NEW x \in S PROVE SetOption(x, os[i]) \in S
      BY <1>1, SetOptionFacts
  <2> QED
      BY <2>1
<1>3. \A i \in 1..N, x \in S : step[i][x] = SetOption(x, os[i])
    OBVIOUS
<1>4. newDialOptions(os) = z[N]
    BY DEF newDialOptions
<1>5. DefaultOptions \in S
    BY DefaultFacts
<1> HIDE DEF step, N, S
<1>6. PICK g \in [0..N -> S] : g[0] = DefaultOptions /\ \A i \in 1..N : g[i] = step[i][g[i - 1]]
  <2>1. \E g : Recursive(N, S, DefaultOptions, step, g)
      BY <1>1, <1>2, <1>5, Recursion
  <2> QED
      BY <2>1 DEF Recursive
<1>7. \A i \in 1..N : i - 1 \in 0..N /\ g[i - 1] \in S /\ g[i] = SetOption(g[i - 1], os[i])
  <2> TAKE i \in 1..N
  <2>1. i - 1 \in 0..N
      BY <1>1
  <2>2. g[i - 1] \in S
      BY <2>1
  <2> QED
      BY <1>3, <1>6, <2>1, <2>2
<1>8. g = D(g)
    BY <1>1, <1>6, <1>7
<1>9. z = D(z)
    BY <1>8
<1> HIDE DEF z
<1>10. z[0] = DefaultOptions /\ \A i \in 1..N : z[i] = SetOption(z[i - 1], os[i])
    BY <1>1, <1>9
<1> DEFINE T == {i \in Nat : i =< N =>
        z[i] \in S /\ \A o \in OptionNames : ValueTaken(os, i, o, z[i])}
<1>11. 0 \in T
  <2>1. \A i \in 1..0 : FALSE
      BY SMT
  <2>2. \A o \in OptionNames : ValueTaken(os, 0, o, z[0])
      BY <1>10, <2>1 DEF ValueTaken
  <2> QED
      BY <1>5, <1>10, <2>2
<1>12. ASSUME NEW i \in T PROVE i + 1 \in T
  <2>0. i \in Nat /\ i + 1 \in Nat
      OBVIOUS
  <2> SUFFICES ASSUME i + 1 =< N
               PROVE  z[i + 1] \in S /\ \A o \in OptionNames : ValueTaken(os, i + 1, o, z[i + 1])
      BY <2>0
  <2>1. i + 1 \in 1..N /\ (i + 1) - 1 = i /\ i =< N
      BY <1>1, <2>0
  <2>2. z[i] \in S /\ \A o \in OptionNames : ValueTaken(os, i, o, z[i])
      BY <2>1
  <2>3. z[i + 1] = SetOption(z[i], os[i + 1])
      BY <1>10, <2>1
  <2>4. z[i + 1] \in S
      BY <1>1, <2>1, <2>2, <2>3, SetOptionFacts, ZenonT(60) DEF S
  <2>5. ASSUME NEW o \in OptionNames PROVE ValueTaken(os, i + 1, o, z[i + 1])
    <3>1. z[i] \in [OptionNames -> Int] /\ ValueTaken(os, i, o, z[i]) /\ i + 1 =< Len(os)
        BY <2>1, <2>2 DEF S, N
    <3>2. ValueTaken(os, i + 1, o, SetOption(z[i], os[i + 1]))
        BY <2>0, <3>1, ValueTakenNext
    <3> QED
        BY <2>3, <3>2
  <2> QED
      BY <2>4, <2>5
<1>13. T = Nat
    BY <1>11, <1>12, Induction
<1>14. z[N] \in S /\ \A o \in OptionNames : ValueTaken(os, N, o, z[N])
    BY <1>1, <1>13
<1> QED
    BY <1>4, <1>14 DEF N, S

\* The options are what OptionsTaken says.
LEMMA OptionsTake ==
    ASSUME NEW os, OptionList(os), NEW o \in OptionNames
    PROVE  LET given == {i \in DOMAIN os : os[i].name = o /\ os[i].value > 0}
               unit  == IF o = "ReadBufferSize" THEN 1024 ELSE 1
               d     == newDialOptions(os)
           IN  /\ d[o] = IF given = {} THEN DefaultOptions[o]
                         ELSE unit * os[CHOOSE i \in given : \A j \in given : j =< i].value
               /\ d[o] > 0 \/ o = "MaxReconnect"
<1> DEFINE given == {i \in DOMAIN os : os[i].name = o /\ os[i].value > 0}
           unit  == IF o = "ReadBufferSize" THEN 1024 ELSE 1
           d     == newDialOptions(os)
           N     == Len(os)
           last  == CHOOSE i \in given : \A j \in given : j =< i
<1>1. N \in Nat /\ DOMAIN os = 1..N /\ \A i \in 1..N : os[i].value \in Int
  <2>1. N \in Nat /\ DOMAIN os = 1..N /\ \A i \in 1..N : os[i] \in OptionRecord
      BY DEF OptionList
  <2> QED
      BY <2>1 DEF OptionRecord
<1>2. ValueTaken(os, N, o, d)
    BY OptionsFacts
<1>3. \A i : i \in given <=> i \in 1..N /\ Gives(os, i, o)
    BY <1>1 DEF Gives
<1>4. unit = UnitOf(o) /\ unit \in {1, 1024}
    BY DEF UnitOf
<1> HIDE DEF given, unit, d, N
<1>5. CASE (\A i \in 1..N : ~Gives(os, i, o)) /\ d[o] = DefaultOptions[o]
  <2>1. given = {}
      BY <1>3, <1>5
  <2>2. d[o] > 0 \/ o = "MaxReconnect"
      BY <1>5, DefaultFacts
  <2> QED
      BY <1>5, <2>1, <2>2 DEF given, unit, d
<1>6. CASE \E i \in 1..N : LastGiven(os, N, o, i) /\ d[o] = UnitOf(o) * os[i].value
  <2>1. PICK i \in 1..N : LastGiven(os, N, o, i) /\ d[o] = UnitOf(o) * os[i].value
      BY <1>6
  <2>2. i \in given /\ \A j \in given : j =< i /\ j \in 1..N
      BY <1>3, <2>1 DEF LastGiven
  <2>3. last \in given /\ \A j \in given : j =< last
      BY <2>2
  <2> HIDE DEF last
  <2>4. last = i
      BY <1>1, <2>2, <2>3
  <2>5. given # {} /\ d[o] = unit * os[last].value
      BY <1>4, <2>1, <2>2, <2>4
  <2>6. os[i].value \in Int /\ os[i].value > 0
      BY <1>1, <2>1 DEF LastGiven, Gives
  <2>7. d[o] > 0
    <3> DEFINE x == os[i].value
    <3>1. x \in Int /\ x > 0 /\ d[o] = unit * x
        BY <1>4, <2>1, <2>6
    <3> HIDE DEF x
    <3> QED
        BY <1>4, <3>1, SMT
  <2> QED
      BY <2>5, <2>7 DEF given, unit, d, last
<1> QED
    BY <1>2, <1>5, <1>6 DEF ValueTaken

-----------------------------------------------------------------------------
(* Metadata                                                                  *)

\* An order of a finite set has every element once.
LEMMA OrderFacts ==
    ASSUME NEW S, IsFiniteSet(S), NEW f \in SetToSeqs(S)
    PROVE  /\ f \in Seq(S) /\ DOMAIN f = 1..Len(f) /\ Len(f) \in Nat
           /\ \A i \in 1..Len(f) : f[i] \in S
           /\ \A i, j \in 1..Len(f) : f[i] = f[j] => i = j
           /\ \A x \in S : \E i \in 1..Len(f) : f[i] = x
<1> DEFINE n == Cardinality(S)
           D == 1..n
<1>1. n \in Nat
    BY FS_CardinalityType
<1>2. f \in [D -> S] /\ \A i, j \in D : i # j => f[i] # f[j]
    BY DEF SetToSeqs
<1>3. IsFiniteSet(D) /\ Cardinality(D) = n
  <2>1. /\ IsFiniteSet(1..n)
        /\ Cardinality(1..n) = IF 1 > n THEN 0 ELSE n - 1 + 1
      BY <1>1, FS_Interval
  <2> QED
      BY <1>1, <2>1
<1> HIDE DEF n
<1>4. f \in Injection(D, S)
    BY <1>2 DEF Injection, IsInjective
<1>5. Cardinality(D) = Cardinality(S)
    BY <1>3 DEF n
<1> HIDE DEF D
<1>6. f \in Surjection(D, S)
    BY <1>4, <1>5, FS_Injection
<1>7. \A x \in S : \E i \in D : f[i] = x
    BY <1>6 DEF Surjection
<1>8. f \in Seq(S) /\ Len(f) = n
    BY <1>1, <1>2, FunctionsAreSeqs DEF D
<1> QED
    BY <1>1, <1>2, <1>7, <1>8 DEF D

\* A key in lower case has its length and stays as it is.
LEMMA LowerFacts ==
    ASSUME NEW s \in Seq(Nat)
    PROVE  /\ ToLower(s) \in Seq(Nat) /\ Len(ToLower(s)) = Len(s)
           /\ ToLower(ToLower(s)) = ToLower(s)
           /\ ToLower(s) = <<>> <=> s = <<>>
<1> DEFINE n == Len(s)
           t == ToLower(s)
           u == ToLower(t)
<1>1. n \in Nat /\ DOMAIN s = 1..n /\ \A i \in 1..n : s[i] \in Nat
    OBVIOUS
<1>2. t = [i \in 1..n |-> IF s[i] \in 65..90 THEN s[i] + 32 ELSE s[i]]
    BY <1>1 DEF ToLower
<1> HIDE DEF n, t
<1>3. \A i \in 1..n : t[i] \in Nat /\ t[i] \notin 65..90
  <2> TAKE i \in 1..n
  <2> DEFINE x == s[i]
  <2>1. x \in Nat /\ t[i] = IF x \in 65..90 THEN x + 32 ELSE x
      BY <1>1, <1>2
  <2> HIDE DEF x
  <2> QED
      BY <2>1
<1>4. t \in [1..n -> Nat]
    BY <1>2, <1>3
<1>5. t \in Seq(Nat) /\ Len(t) = n /\ DOMAIN t = 1..n /\ t = [i \in 1..n |-> t[i]]
    BY <1>1, <1>4, FunctionsAreSeqs
<1>6. u = t
  <2>1. u = [i \in 1..n |-> IF t[i] \in 65..90 THEN t[i] + 32 ELSE t[i]]
      BY <1>5 DEF ToLower
  <2> QED
      BY <1>3, <1>5, <2>1
<1>7. t = <<>> <=> s = <<>>
  <2>1. t = <<>> <=> n = 0
      BY <1>1, <1>5
  <2>2. s = <<>> <=> n = 0
      BY DEF n
  <2> QED
      BY <2>1, <2>2
<1> QED
    BY <1>5, <1>6, <1>7 DEF n, t

\* The entries are short enough to be taken.
ShortEntries(es) ==
    /\ es \in Seq(Entries)
    /\ \A i \in 1..Len(es) : Len(es[i].key) =< max15BitLength /\ Len(es[i].val) =< max15BitLength

\* m is the map after the first n of es: every key of these once, lowered.
MapOf(es, n, m) ==
    /\ m \in SUBSET Entries /\ IsFiniteSet(m)
    /\ \A x \in m : \E i \in 1..n : x = Lowered(es[i])
    /\ \A x, y \in m : x.key = y.key => x = y
    /\ \A i \in 1..n : \E x \in m : x.key = ToLower(es[i].key)

\* Lowering an entry changes its key only.
LEMMA LoweredFacts ==
    ASSUME NEW e \in Entries
    PROVE  /\ Lowered(e) \in Entries /\ Lowered(e).key = ToLower(e.key) /\ Lowered(e).val = e.val
           /\ e.key \in Seq(Nat) /\ e.val \in Seq(Nat)
<1>1. e.key \in Seq(Nat) /\ e.val \in Seq(Nat)
    BY DEF Entries
<1>2. ToLower(e.key) \in Seq(Nat)
    BY <1>1, LowerFacts
<1> QED
    BY <1>1, <1>2 DEF Lowered, Entries

\* One more entry.
LEMMA MapNext ==
    ASSUME NEW es, ShortEntries(es), NEW n \in Nat, n + 1 =< Len(es), NEW m, MapOf(es, n, m)
    PROVE  MapOf(es, n + 1, Set(m, es[n + 1]))
<1> DEFINE e == es[n + 1]
           k == ToLower(e.key)
           l == Lowered(e)
           rest == {x \in m : x.key # k}
           r == rest \cup {l}
<1>1. /\ n + 1 \in 1..Len(es) /\ n + 1 \in 1..(n + 1)
      /\ \A i \in 1..(n + 1) : i \in 1..n \/ i = n + 1
      /\ \A i \in 1..n : i \in 1..(n + 1)
    BY DEF ShortEntries
<1>2. e \in Entries /\ Len(e.key) =< max15BitLength /\ Len(e.val) =< max15BitLength
    BY <1>1 DEF ShortEntries
<1>3. Set(m, e) = r
    BY <1>2 DEF Set
<1>4. l \in Entries /\ l.key = k
    BY <1>2, LoweredFacts
<1>5. /\ m \in SUBSET Entries /\ IsFiniteSet(m)
      /\ \A x \in m : \E i \in 1..n : x = Lowered(es[i])
      /\ \A x, y \in m : x.key = y.key => x = y
      /\ \A i \in 1..n : \E x \in m : x.key = ToLower(es[i].key)
    BY DEF MapOf
<1>6. k = ToLower(es[n + 1].key) /\ l = Lowered(es[n + 1])
    OBVIOUS
<1> HIDE DEF e, k, l
<1>7. r \in SUBSET Entries
    BY <1>4, <1>5
<1>8. IsFiniteSet(r)
  <2>1. rest \in SUBSET m
      OBVIOUS
  <2> HIDE DEF rest
  <2>2. IsFiniteSet(rest)
      BY <1>5, <2>1, FS_Subset
  <2> QED
      BY <2>2, FS_AddElement
<1>9. \A x \in r : \E i \in 1..(n + 1) : x = Lowered(es[i])
    BY <1>1, <1>5, <1>6
<1>10. \A x, y \in r : x.key = y.key => x = y
    BY <1>4, <1>5
<1>11. \A i \in 1..(n + 1) : \E x \in r : x.key = ToLower(es[i].key)
  <2> TAKE i \in 1..(n + 1)
  <2>1. CASE ToLower(es[i].key) = k
      BY <1>4, <2>1
  <2>2. CASE ToLower(es[i].key) # k
    <3>1. i \in 1..n
        BY <1>1, <1>6, <2>2
    <3>2. PICK x \in m : x.key = ToLower(es[i].key)
        BY <1>5, <3>1
    <3>3. x \in r
        BY <2>2, <3>2
    <3> QED
        BY <3>2, <3>3
  <2> QED
      BY <2>1, <2>2
<1> HIDE DEF r
<1>12. MapOf(es, n + 1, r)
    BY <1>7, <1>8, <1>9, <1>10, <1>11 DEF MapOf
<1> QED
    BY <1>3, <1>12 DEF e

\* The map after all.
LEMMA MapFacts ==
    ASSUME NEW es, ShortEntries(es)
    PROVE  MapOf(es, Len(es), SetMetadata(es))
<1> DEFINE N == Len(es)
           S == SUBSET Entries
           step == [i \in 1..N |-> [x \in S |-> Set(x, es[i])]]
           D(f) == [i \in 0..N |-> IF i = 0 THEN {} ELSE Set(f[i - 1], es[i])]
           z == CHOOSE f : f = D(f)
<1>1. N \in Nat /\ \A i \in 1..N : es[i] \in Entries
    BY DEF ShortEntries
<1>2. step \in [1..N -> [S -> S]]
  <2>1. ASSUME NEW i \in 1..N, NEW x \in S PROVE Set(x, es[i]) \in S
    <3>1. Lowered(es[i]) \in Entries
        BY <1>1, LoweredFacts
    <3> QED
        BY <3>1 DEF Set
  <2> QED
      BY <2>1
<1>3. \A i \in 1..N, x \in S : step[i][x] = Set(x, es[i])
    OBVIOUS
<1>4. SetMetadata(es) = z[N]
    BY DEF SetMetadata
<1>5. {} \in S
    OBVIOUS
<1> HIDE DEF step, N, S
<1>6. PICK g \in [0..N -> S] : g[0] = {} /\ \A i \in 1..N : g[i] = step[i][g[i - 1]]
  <2>1. \E g : Recursive(N, S, {}, step, g)
      BY <1>1, <1>2, <1>5, Recursion
  <2> QED
      BY <2>1 DEF Recursive
<1>7. \A i \in 1..N : i - 1 \in 0..N /\ g[i - 1] \in S /\ g[i] = Set(g[i - 1], es[i])
  <2> TAKE i \in 1..N
  <2>1. i - 1 \in 0..N
      BY <1>1
  <2>2. g[i - 1] \in S
      BY <2>1
  <2> QED
      BY <1>3, <1>6, <2>1, <2>2
<1>8. g = D(g)
    BY <1>1, <1>6, <1>7
<1>9. z = D(z)
    BY <1>8
<1> HIDE DEF z
<1>10. z[0] = {} /\ \A i \in 1..N : z[i] = Set(z[i - 1], es[i])
  <2>1. 0 \in 0..N /\ \A i \in 1..N : i \in 0..N /\ i # 0
      BY <1>1
  <2> QED
      BY <1>9, <2>1, ZenonT(60)
<1> DEFINE T == {i \in Nat : i =< N => MapOf(es, i, z[i])}
<1>11. 0 \in T
  <2>1. \A i \in 1..0 : FALSE
      BY SMT
  <2>2. IsFiniteSet({})
      BY FS_EmptySet
  <2>3. MapOf(es, 0, {})
      BY <2>1, <2>2 DEF MapOf
  <2> QED
      BY <1>10, <2>3
<1>12. ASSUME NEW i \in T PROVE i + 1 \in T
  <2>0. i \in Nat /\ i + 1 \in Nat
      OBVIOUS
  <2> SUFFICES ASSUME i + 1 =< N PROVE MapOf(es, i + 1, z[i + 1])
      BY <2>0
  <2>1. i + 1 \in 1..N /\ (i + 1) - 1 = i /\ i =< N
      BY <1>1, <2>0
  <2>2. MapOf(es, i, z[i])
      BY <2>1
  <2>3. z[i + 1] = Set(z[i], es[i + 1])
      BY <1>10, <2>1
  <2>4. i + 1 =< Len(es)
      BY DEF N
  <2>5. MapOf(es, i + 1, Set(z[i], es[i + 1]))
      BY <2>0, <2>2, <2>4, MapNext
  <2> QED
      BY <2>3, <2>5
<1>13. T = Nat
    BY <1>11, <1>12, Induction
<1>14. MapOf(es, N, z[N])
    BY <1>1, <1>13
<1> QED
    BY <1>4, <1>14 DEF N

\* The values of a request are those of its metadata.
LEMMA RequestValues ==
    ASSUME NEW r, RequestFits(r), NEW order \in SetToSeqs(r.Metadata),
           NEW vs \in SetToSeqs(SetMetadata(order)),
           NEW a, a.metadata = r.Metadata, a.values = vs
    PROVE  vs \in Seq(Entries) /\ ValuesOK(a)
<1> DEFINE md == r.Metadata
           m  == SetMetadata(order)
<1>1. /\ md \in SUBSET Entries /\ IsFiniteSet(md)
      /\ \A e \in md : Len(e.key) =< max15BitLength /\ Len(e.val) =< max15BitLength
      /\ Sizes(vs)[Len(vs)] =< MaxMetadataLength
    BY DEF RequestFits
<1> HIDE DEF md
<1>2. /\ order \in Seq(md) /\ Len(order) \in Nat
      /\ \A i \in 1..Len(order) : order[i] \in md
      /\ \A x \in md : \E i \in 1..Len(order) : order[i] = x
    BY <1>1, OrderFacts DEF md
<1>3. ShortEntries(order)
  <2>1. order \in Seq(Entries)
      BY <1>1, <1>2
  <2> QED
      BY <1>1, <1>2, <2>1 DEF ShortEntries
<1>4. MapOf(order, Len(order), m)
    BY <1>3, MapFacts
<1> HIDE DEF m
<1>5. /\ m \in SUBSET Entries /\ IsFiniteSet(m)
      /\ \A x \in m : \E i \in 1..Len(order) : x = Lowered(order[i])
      /\ \A x, y \in m : x.key = y.key => x = y
      /\ \A i \in 1..Len(order) : \E x \in m : x.key = ToLower(order[i].key)
    BY <1>4 DEF MapOf
<1>6. /\ vs \in Seq(m) /\ DOMAIN vs = 1..Len(vs) /\ Len(vs) \in Nat
      /\ \A i \in 1..Len(vs) : vs[i] \in m
      /\ \A i, j \in 1..Len(vs) : vs[i] = vs[j] => i = j
      /\ \A x \in m : \E i \in 1..Len(vs) : vs[i] = x
    BY <1>5, OrderFacts DEF m
<1>7. vs \in Seq(Entries)
    BY <1>5, <1>6
<1>8. \A i \in 1..Len(vs) : \E e \in md : vs[i] = Lowered(e)
  <2> TAKE i \in 1..Len(vs)
  <2>1. vs[i] \in m
      BY <1>6
  <2>2. PICK j \in 1..Len(order) : vs[i] = Lowered(order[j])
      BY <1>5, <2>1
  <2> QED
      BY <1>2, <2>2
<1>9. ASSUME NEW i \in 1..Len(vs)
      PROVE  /\ ToLower(vs[i].key) = vs[i].key
             /\ Len(vs[i].key) =< max15BitLength /\ Len(vs[i].val) =< max15BitLength
  <2>1. PICK e \in md : vs[i] = Lowered(e)
      BY <1>8
  <2>2. e \in Entries
      BY <1>1
  <2>3. vs[i].key = ToLower(e.key) /\ vs[i].val = e.val /\ e.key \in Seq(Nat)
      BY <2>1, <2>2, LoweredFacts
  <2>4. ToLower(ToLower(e.key)) = ToLower(e.key) /\ Len(ToLower(e.key)) = Len(e.key)
      BY <2>3, LowerFacts
  <2> QED
      BY <1>1, <2>3, <2>4
<1>10. \A i, j \in 1..Len(vs) : vs[i].key = vs[j].key => i = j
    BY <1>5, <1>6
<1>11. KeysFit(vs)
    BY <1>6, <1>7, <1>9, <1>10 DEF KeysFit
<1>12. ValuesFit(vs)
    BY <1>1, <1>11 DEF ValuesFit
<1>13. \A e \in md : \E j \in 1..Len(vs) : vs[j].key = ToLower(e.key)
  <2> TAKE e \in md
  <2>1. PICK i \in 1..Len(order) : order[i] = e
      BY <1>2
  <2>2. PICK x \in m : x.key = ToLower(e.key)
      BY <1>5, <2>1
  <2> QED
      BY <1>6, <2>2
<1>14. ValuesOK(a)
  <2>1. a.values = vs /\ a.metadata = md
      BY DEF md
  <2>2. \A j \in DOMAIN vs : \E e \in md : vs[j] = Lowered(e)
      BY <1>6, <1>8
  <2>3. \A e \in md : \E j \in DOMAIN vs : vs[j].key = ToLower(e.key)
      BY <1>6, <1>13
  <2> QED
      BY <1>12, <2>1, <2>2, <2>3, ZenonT(60) DEF ValuesOK
<1> QED
    BY <1>7, <1>14

\* Some number of values fits into any number of bytes.
LEMMA SomeFit ==
    ASSUME NEW vs \in Seq(Entries), NEW max \in Nat
    PROVE  \E k \in 0..Len(vs) : Fits(vs, max, k)
<1> DEFINE N == Len(vs)
           z == Sizes(vs)
           T == {j \in Nat : j =< N /\ z[N - j] =< max}
<1>1. N \in Nat /\ z[0] = 0
  <2>1. Sizes(vs)[0] = 0
      BY SizesFacts
  <2> QED
      BY <2>1
<1> HIDE DEF N, z
<1>2. N \in T
  <2>1. N - N = 0
      BY <1>1
  <2> QED
      BY <1>1, <2>1
<1>3. PICK j \in T : \A i \in T : j =< i
  <2>1. T \in SUBSET Nat /\ T # {}
      BY <1>2
  <2> QED
      BY <2>1, Smallest
<1>4. j \in Nat /\ N - j \in 0..N /\ z[N - j] =< max
    BY <1>1, <1>3
<1>5. ASSUME NEW l \in 0..N, z[l] =< max PROVE l =< N - j
  <2>1. N - l \in Nat /\ N - l =< N /\ N - (N - l) = l
      BY <1>1
  <2>2. N - l \in T
      BY <1>5, <2>1
  <2>3. j =< N - l
      BY <1>3, <2>2
  <2> QED
      BY <1>1, <1>4, <2>3
<1>6. Fits(vs, max, N - j)
    BY <1>4, <1>5 DEF Fits, N, z
<1> QED
    BY <1>4, <1>6 DEF N

\* What is read of values whose keys fit is as many keys.
LEMMA KeysCount ==
    ASSUME NEW vs, KeysFit(vs)
    PROVE  LET V == ReadOf(vs, Len(vs))
           IN  Cardinality({e.key : e \in V}) = Cardinality(V)
<1> DEFINE N == Len(vs)
           J == {j \in 1..N : vs[j].key # <<>>}
           V == {vs[j] : j \in J}
           K == {e.key : e \in V}
           f == [j \in J |-> vs[j]]
           g == [e \in V |-> e.key]
<1>1. /\ N \in Nat /\ DOMAIN vs = 1..N
      /\ \A i, j \in 1..N : vs[i].key = vs[j].key => i = j
    BY DEF KeysFit
<1>2. ReadOf(vs, Len(vs)) = V
    BY DEF ReadOf
<1>3. IsFiniteSet(J)
  <2>1. IsFiniteSet(1..N)
      BY <1>1, FS_Interval
  <2>2. J \in SUBSET (1..N)
      OBVIOUS
  <2> HIDE DEF J
  <2> QED
      BY <2>1, <2>2, FS_Subset
<1>4. f \in Surjection(J, V)
    BY DEF Surjection
<1>5. g \in Bijection(V, K)
  <2>1. g \in [V -> K] /\ DOMAIN g = V
      OBVIOUS
  <2>2. \A x, y \in V : g[x] = g[y] => x = y
      BY <1>1
  <2>3. \A k \in K : \E x \in V : g[x] = k
      OBVIOUS
  <2> HIDE DEF g, V, K
  <2> QED
      BY <2>1, <2>2, <2>3 DEF Bijection, Injection, Surjection, IsInjective
<1> HIDE DEF J, V, K, f, g
<1>6. IsFiniteSet(V)
    BY <1>3, <1>4, FS_Surjection
<1>7. Cardinality(K) = Cardinality(V)
  <2>1. ExistsBijection(V, K)
      BY <1>5 DEF ExistsBijection
  <2> QED
      BY <1>6, <2>1, FS_Bijection
<1> QED
    BY <1>2, <1>7 DEF K

-----------------------------------------------------------------------------
(* Messages and packets                                                      *)

\* What a message is encoded to, and what that decodes to with the same codec.
LEMMA EncodedFacts ==
    ASSUME NEW c \in Nat, NEW m \in Nat, NEW b \in marshal(c, m)
    PROVE  /\ BodyFits(b) /\ marshal(c, m) = {b}
           /\ unmarshal(c, b) = {m} \/ (unmarshal(c, b) = {} /\ m = Nil /\ c # CodecProtobuf)
           /\ m # Nil => c \in {CodecProtobuf, CodecJSON} /\ b = <<c, m>>
<1>1. CASE m = Nil
  <2>1. b = <<>> /\ marshal(c, m) = {b}
      BY <1>1 DEF marshal
  <2>2. BodyFits(b)
      BY <2>1 DEF BodyFits
  <2>3. unmarshal(c, b) = {m} \/ (unmarshal(c, b) = {} /\ c # CodecProtobuf)
    <3>1. CASE c = CodecProtobuf
        BY <1>1, <2>1, <3>1 DEF unmarshal
    <3>2. CASE c # CodecProtobuf
        BY <2>1, <3>2 DEF unmarshal
    <3> QED
        BY <3>1, <3>2
  <2> QED
      BY <1>1, <2>1, <2>2, <2>3
<1>2. CASE m # Nil
  <2>1. c \in {CodecProtobuf, CodecJSON} /\ b = <<c, m>> /\ marshal(c, m) = {b}
      BY <1>2 DEF marshal
  <2>2. b \in Seq(Nat) /\ Len(b) = 2 /\ b[1] = c /\ b[2] = m /\ b # <<>>
      BY <2>1
  <2>3. BodyFits(b)
      BY <2>2 DEF BodyFits
  <2>4. unmarshal(c, b) = {m}
      BY <2>1, <2>2 DEF unmarshal
  <2> QED
      BY <1>2, <2>1, <2>3, <2>4
<1> QED
    BY <1>1, <1>2

\* The id handlePong gets of the body of a ping.
LEMMA PongIdFacts ==
    ASSUME NEW c \in Nat, NEW n \in Nat, n > 0, NEW b \in marshal(c, n)
    PROVE  onPong(b).RequestId = IF c = CodecProtobuf THEN n ELSE 0
<1>1. b = <<c, n>> /\ c \in {CodecProtobuf, CodecJSON}
    BY EncodedFacts DEF Nil
<1>2. b # <<>> /\ b[1] = c /\ b[2] = n
    BY <1>1
<1>3. unmarshal(CodecProtobuf, b) = IF c = CodecProtobuf THEN {n} ELSE {}
    BY <1>2 DEF unmarshal, CodecProtobuf, CodecJSON
<1> QED
    BY <1>3 DEF onPong, NewPacket, NewPacketWith

\* f is a frame of version v with this packet in it.
Carries(v, f, t, cmd, body, id, status, values) ==
    /\ f.kind = "data" /\ Whole(v, f)
    /\ PacketIn(v, f).Type = t /\ PacketIn(v, f).CmdCode = cmd /\ PacketIn(v, f).Body = body
    /\ PacketIn(v, f).RequestId = IF t = Push THEN 0 ELSE id
    /\ PacketIn(v, f).StatusCode = IF t = Response THEN status ELSE 0
    /\ PacketIn(v, f).Values = values

\* The empty list of values fits.
LEMMA NothingFits == ValuesFit(<<>>)
<1>1. /\ <<>> \in Seq(Entries) /\ Len(<<>>) = 0 /\ \A i \in DOMAIN <<>> : FALSE
    OBVIOUS
<1>2. KeysFit(<<>>)
    BY <1>1 DEF KeysFit
<1>3. Sizes(<<>>)[0] = 0
    BY <1>1, SizesFacts
<1>4. Sizes(<<>>)[Len(<<>>)] =< MaxMetadataLength
    BY <1>1, <1>3, SMT DEF MaxMetadataLength
<1> QED
    BY <1>2, <1>4 DEF ValuesFit

\* A body fits into a packet.
LEMMA BodiesFit ==
    ASSUME NEW b, BodyFits(b)
    PROVE  b \in Seq(Nat) /\ Len(b) + 2 =< MaxBodyLength
<1>1. b \in Seq(Nat) /\ (Len(b) = 0 \/ Len(b) = 2)
    BY DEF BodyFits
<1>2. 0 + 2 =< MaxBodyLength /\ 2 + 2 =< MaxBodyLength
    BY SMT DEF MaxBodyLength
<1> QED
    BY <1>1, <1>2

\* An id fits into 32 bits.
LEMMA IdsFit ==
    ASSUME NEW n, IdFits(n)
    PROVE  n \in Nat /\ n \div 65536 < 65536
<1>1. MaxActs \in Nat /\ MaxActs \div 65536 < 65536
    BY ExchangeAssumption
<1> QED
    BY <1>1, SMT DEF IdFits

\* The packet of these fields is packed into one frame, which carries it.
IsSent(v, min, t, cmd, body, id, status, vs) ==
    \E f : /\ {Frame("data", d) : d \in Pack(v, NewPacketWith(t, cmd, body, id, status, vs), min)}
                 = {f}
           /\ Carries(v, f, t, cmd % 256, body, id, status,
                      IF v = 2 THEN ReadOf(vs, Len(vs)) ELSE {})

\* A packet of NewPacketWith is packed into one frame, which carries it.
LEMMA PacketSent ==
    ASSUME NEW v \in {1, 2}, NEW min \in Nat, NEW t \in {Request, Response, Push}, NEW cmd \in Nat,
           NEW body, BodyFits(body), NEW id, IdFits(id), NEW status \in Nat,
           NEW vs, ValuesFit(vs)
    PROVE  IsSent(v, min, t, cmd, body, id, status, vs)
<1> DEFINE p == NewPacketWith(t, cmd, body, id, status, vs)
           x == Received(v, p, min)
<1>1. /\ p.Type = t /\ p.Gzip = FALSE /\ p.Verify = FALSE /\ p.CmdCode = cmd /\ p.RequestId = id
      /\ p.Timeout = 0 /\ p.StatusCode = status /\ p.Nonce = Zeroes(NonceLength)
      /\ p.Signature = <<>> /\ p.Body = body /\ p.Values = vs
    BY DEF NewPacketWith
<1>2. id \in Nat /\ id \div 65536 < 65536
    BY IdsFit
<1>3. body \in Seq(Nat) /\ Len(body) + 2 =< MaxBodyLength
    BY BodiesFit
<1>4. vs \in Seq(Entries)
    BY DEF ValuesFit, KeysFit
<1>5. Packable(v, p)
  <2>1. Zeroes(NonceLength) \in Seq(Nat)
      BY ZeroesFacts DEF NonceLength
  <2>2. p \in PacketRecord
      BY <1>2, <1>3, <1>4, <2>1 DEF NewPacketWith, PacketRecord
  <2>3. 0 < 65536
      BY SMT
  <2> HIDE DEF p
  <2> QED
      BY <1>1, <1>2, <1>3, <2>2, <2>3 DEF Packable
<1> HIDE DEF p
<1>6. PICK d : Pack(v, p, min) = {d} /\ GoodFrame(v, d, x)
    BY <1>5, FrameRoundTrip
<1>7. d \in Seq(Nat)
    BY <1>6 DEF GoodFrame
<1>8. UnpackBytes(v, d) = {x}
    BY <1>6, GoodFrameUnpacks
<1> DEFINE f == Frame("data", d)
<1>9. f.kind = "data" /\ f.data = d /\ f \in Frames
    BY <1>7 DEF Frame, Frames
<1>10. {Frame("data", e) : e \in Pack(v, p, min)} = {f}
    BY <1>6
<1> HIDE DEF f
<1>11. PacketIn(v, f) = x /\ UnpackBytes(v, f.data) = {x}
    BY <1>8, <1>9 DEF PacketIn
<1>12. /\ x.Type = t /\ x.CmdCode = cmd % 256 /\ x.Body = body
       /\ x.RequestId = (IF t = Push THEN 0 ELSE id)
       /\ x.StatusCode = (IF t = Response THEN status ELSE 0)
       /\ x.Values = IF v = 2 THEN {vs[i] : i \in {i \in DOMAIN vs : vs[i].key # <<>>}} ELSE {}
    BY <1>1 DEF Received
<1> HIDE DEF x
<1>13. x.Values = IF v = 2 THEN ReadOf(vs, Len(vs)) ELSE {}
  <2>1. DOMAIN vs = 1..Len(vs)
      BY <1>4
  <2> QED
      BY <1>12, <2>1 DEF ReadOf
<1>14. Whole(v, f)
  <2>1. IdFits(x.RequestId)
    <3>1. MaxActs \in Nat
        BY ExchangeAssumption
    <3> QED
        BY <1>12, <3>1 DEF IdFits
  <2>2. x.CmdCode \in Nat
      BY <1>12
  <2> QED
      BY <1>9, <1>11, <1>12, <2>1, <2>2 DEF Whole
<1> QED
    BY <1>9, <1>10, <1>11, <1>12, <1>13, <1>14 DEF Carries, IsSent, p

\* The same for a packet of NewPacket.
IsPlain(v, min, t, cmd, body, id, status) ==
    \E f : /\ {Frame("data", d) : d \in Pack(v, NewPacket(t, cmd, body, id, status), min)} = {f}
           /\ Carries(v, f, t, cmd, body, id, status, {})

\* A packet without values, once sent.
LEMMA PlainSent ==
    ASSUME NEW v \in {1, 2}, NEW min \in Nat, NEW t \in {Request, Response, Push}, NEW cmd \in Byte,
           NEW body, BodyFits(body), NEW id, IdFits(id), NEW status \in Nat
    PROVE  IsPlain(v, min, t, cmd, body, id, status)
<1>1. cmd \in Nat /\ cmd % 256 = cmd
    BY DEF Byte
<1>2. (IF v = 2 THEN ReadOf(<<>>, Len(<<>>)) ELSE {}) = {}
  <2>1. \A j \in 1..0 : FALSE
      BY SMT
  <2>2. Len(<<>>) = 0
      OBVIOUS
  <2>3. ReadOf(<<>>, 0) = {}
      BY <2>1 DEF ReadOf
  <2> QED
      BY <2>2, <2>3
<1>3. ValuesFit(<<>>)
    BY NothingFits
<1> DEFINE vs == <<>>
           p == NewPacketWith(t, cmd, body, id, status, vs)
<1> HIDE DEF vs
<1>4. PICK f : /\ {Frame("data", d) : d \in Pack(v, p, min)} = {f}
               /\ Carries(v, f, t, cmd % 256, body, id, status,
                          IF v = 2 THEN ReadOf(vs, Len(vs)) ELSE {})
  <2>1. ValuesFit(vs)
      BY <1>3 DEF vs
  <2> QED
    <3>1. IsSent(v, min, t, cmd, body, id, status, vs)
        BY <1>1, <2>1, PacketSent
    <3> QED
        BY <3>1 DEF IsSent
<1>5. Carries(v, f, t, cmd, body, id, status, {})
    BY <1>1, <1>2, <1>4 DEF vs
<1> HIDE DEF p
<1>6. NewPacket(t, cmd, body, id, status) = p
    BY DEF NewPacket, p, vs
<1> QED
    BY <1>4, <1>5, <1>6 DEF IsPlain

-----------------------------------------------------------------------------
(* What frames carry                                                         *)

WholeFrames(v) == {f \in Frames : Whole(v, f)}

\* Every piece is a sequence.
LEMMA PieceTypes ==
    ASSUME NEW v, NEW f \in WholeFrames(v)
    PROVE  /\ PongOf(v, f) \in Seq(PingRecord) /\ PingOf(v, f) \in Seq(PingRecord)
           /\ BeatUp(v, f) \in Seq(Nat) /\ BeatDown(v, f) \in Seq(Nat)
<1> DEFINE p == PacketIn(v, f)
           r == [id |-> p.RequestId, body |-> p.Body]
           c == [id |-> 0, body |-> f.data]
           n == onPong(f.data).RequestId
<1>1. /\ f \in Frames /\ f.data \in Seq(Nat)
      /\ f.kind = "data" => p.RequestId \in Nat /\ p.Body \in Seq(Nat)
      /\ f.kind # "data" => BodyFits(f.data)
    BY DEF WholeFrames, Whole, Frames, IdFits, BodyFits
<1>2. c \in PingRecord /\ (f.kind = "data" => r \in PingRecord)
    BY <1>1 DEF PingRecord
<1>3. ASSUME f.kind # "data" PROVE n \in Nat
  <2> DEFINE b == f.data
             beat == unmarshal(CodecProtobuf, b)
  <2>1. b \in Seq(Nat) /\ (b = <<>> \/ Len(b) = 2)
      BY <1>1, <1>3 DEF BodyFits
  <2> HIDE DEF b
  <2>2. beat = {} \/ \E m \in Nat : beat = {m}
    <3>1. CASE b = <<>>
        BY <3>1 DEF unmarshal, Nil
    <3>2. CASE b # <<>>
      <4>1. b[2] \in Nat
          BY <2>1, <3>2
      <4> QED
          BY <3>2, <4>1 DEF unmarshal
    <3> QED
        BY <3>1, <3>2
  <2> HIDE DEF beat
  <2>3. n = IF beat = {} THEN 0 ELSE CHOOSE m \in beat : TRUE
      BY DEF onPong, NewPacket, NewPacketWith, beat, b
  <2> QED
      BY <2>2, <2>3
<1> HIDE DEF p, r, c, n
<1>4. /\ f.kind = "data" => <<r>> \in Seq(PingRecord) /\ <<p.RequestId>> \in Seq(Nat)
      /\ <<c>> \in Seq(PingRecord) /\ (f.kind # "data" => <<n>> \in Seq(Nat))
    BY <1>1, <1>2, <1>3
<1>5. <<>> \in Seq(PingRecord) /\ <<>> \in Seq(Nat)
    OBVIOUS
<1>6. PongOf(v, f) \in Seq(PingRecord)
    BY <1>4, <1>5 DEF PongOf, p, r, c
<1>7. PingOf(v, f) \in Seq(PingRecord)
    BY <1>4, <1>5 DEF PingOf, p, r, c
<1>8. BeatUp(v, f) \in Seq(Nat)
    BY <1>4, <1>5 DEF BeatUp, p, n
<1>9. BeatDown(v, f) \in Seq(Nat)
    BY <1>4, <1>5 DEF BeatDown, p, n
<1> QED
    BY <1>6, <1>7, <1>8, <1>9

Subscribers(ss) == ss \in [SubCmds -> Seq(Nat)]

\* Calls are sequences of calls.
LEMMA CallTypes ==
    ASSUME NEW ss, Subscribers(ss), NEW cmd \in Nat, NEW body \in Seq(Nat)
    PROVE  Calls(ss, cmd, body) \in Seq(CallRecord)
<1>1. CASE cmd \in SubCmds /\ cmd > Reconnect
  <2> DEFINE s == ss[cmd]
             c == [i \in DOMAIN s |-> [sub |-> s[i], cmd |-> cmd, body |-> body]]
  <2>1. s \in Seq(Nat)
      BY <1>1 DEF Subscribers
  <2>2. Calls(ss, cmd, body) = c
      BY <1>1 DEF Calls
  <2> HIDE DEF s
  <2>3. DOMAIN s = 1..Len(s) /\ Len(s) \in Nat /\ \A i \in 1..Len(s) : s[i] \in Nat
      BY <2>1
  <2>4. \A i \in 1..Len(s) : [sub |-> s[i], cmd |-> cmd, body |-> body] \in CallRecord
      BY <2>3 DEF CallRecord
  <2>5. c \in [1..Len(s) -> CallRecord]
      BY <2>3, <2>4
  <2> HIDE DEF c
  <2>6. c \in Seq(CallRecord)
      BY <2>3, <2>5, FunctionsAreSeqs
  <2> QED
      BY <2>2, <2>6
<1>2. CASE ~(cmd \in SubCmds /\ cmd > Reconnect)
    BY <1>2 DEF Calls
<1> QED
    BY <1>1, <1>2

\* So are those of a frame.
LEMMA CallPieceTypes ==
    ASSUME NEW ss, Subscribers(ss), NEW v, NEW f \in WholeFrames(v)
    PROVE  CallsOf(ss, v, f) \in Seq(CallRecord)
<1> DEFINE p == PacketIn(v, f)
<1>1. f.kind = "data" => p.CmdCode \in Nat /\ p.Body \in Seq(Nat)
    BY DEF WholeFrames, Whole, BodyFits
<1> HIDE DEF p
<1>2. f.kind = "data" => Calls(ss, p.CmdCode, p.Body) \in Seq(CallRecord)
    BY <1>1, CallTypes
<1>3. <<>> \in Seq(CallRecord)
    OBVIOUS
<1> QED
    BY <1>2, <1>3 DEF CallsOf, p

\* The pongs on their way when a frame is added or taken.
LEMMA PongsFacts ==
    ASSUME NEW v, NEW fs \in Seq(WholeFrames(v))
    PROVE  /\ PongsIn(v, fs) \in Seq(PingRecord)
           /\ fs = <<>> => PongsIn(v, fs) = <<>>
           /\ \A f \in WholeFrames(v) :
                 PongsIn(v, Append(fs, f)) = PongsIn(v, fs) \o PongOf(v, f)
           /\ fs # <<>> =>
                 PongsIn(v, fs) = PongOf(v, fs[1]) \o PongsIn(v, Tail(fs))
<1> DEFINE F == WholeFrames(v)
           P == [f \in F |-> PongOf(v, f)]
<1>1. P \in [F -> Seq(PingRecord)]
    BY PieceTypes
<1>2. \A f \in F : P[f] = PongOf(v, f)
    OBVIOUS
<1> HIDE DEF P, F
<1>3. ASSUME NEW gs \in Seq(F) PROVE PongsIn(v, gs) = FlattenSeq(Mapped(P, gs))
  <2>1. \A i \in DOMAIN gs : P[gs[i]] = PongOf(v, gs[i])
    <3>1. \A i \in DOMAIN gs : gs[i] \in F
        OBVIOUS
    <3> QED
        BY <1>2, <3>1
  <2>2. Mapped(P, gs) = [i \in DOMAIN gs |-> PongOf(v, gs[i])]
      BY <2>1 DEF Mapped
  <2> QED
      BY <2>2 DEF PongsIn
<1>4. /\ fs \in Seq(F) /\ \A f \in F : Append(fs, f) \in Seq(F)
      /\ fs # <<>> => Tail(fs) \in Seq(F) /\ fs[1] \in F
  <2>1. fs \in Seq(F)
      BY DEF F
  <2> QED
      BY <2>1
<1>5. /\ FlattenSeq(Mapped(P, fs)) \in Seq(PingRecord)
      /\ fs = <<>> => FlattenSeq(Mapped(P, fs)) = <<>>
      /\ \A f \in F : FlattenSeq(Mapped(P, Append(fs, f))) = FlattenSeq(Mapped(P, fs)) \o P[f]
      /\ fs # <<>> => FlattenSeq(Mapped(P, fs)) = P[fs[1]] \o FlattenSeq(Mapped(P, Tail(fs)))
  <2>1. MappedLaws(F, PingRecord, P, fs)
      BY <1>1, <1>4, MappedFacts
  <2> QED
      BY <2>1 DEF MappedLaws
<1>6. PongsIn(v, fs) \in Seq(PingRecord) /\ (fs = <<>> => PongsIn(v, fs) = <<>>)
    BY <1>3, <1>4, <1>5
<1>7. \A f \in F : PongsIn(v, Append(fs, f)) = PongsIn(v, fs) \o PongOf(v, f)
    BY <1>2, <1>3, <1>4, <1>5
<1>8. fs # <<>> => PongsIn(v, fs) = PongOf(v, fs[1]) \o PongsIn(v, Tail(fs))
    BY <1>2, <1>3, <1>4, <1>5
<1> QED
    BY <1>6, <1>7, <1>8 DEF F

\* The pings on their way when a frame is added or taken.
LEMMA PingsFacts ==
    ASSUME NEW v, NEW fs \in Seq(WholeFrames(v))
    PROVE  /\ PingsIn(v, fs) \in Seq(PingRecord)
           /\ fs = <<>> => PingsIn(v, fs) = <<>>
           /\ \A f \in WholeFrames(v) :
                 PingsIn(v, Append(fs, f)) = PingsIn(v, fs) \o PingOf(v, f)
           /\ fs # <<>> =>
                 PingsIn(v, fs) = PingOf(v, fs[1]) \o PingsIn(v, Tail(fs))
<1> DEFINE F == WholeFrames(v)
           P == [f \in F |-> PingOf(v, f)]
<1>1. P \in [F -> Seq(PingRecord)]
    BY PieceTypes
<1>2. \A f \in F : P[f] = PingOf(v, f)
    OBVIOUS
<1> HIDE DEF P, F
<1>3. ASSUME NEW gs \in Seq(F) PROVE PingsIn(v, gs) = FlattenSeq(Mapped(P, gs))
  <2>1. \A i \in DOMAIN gs : P[gs[i]] = PingOf(v, gs[i])
    <3>1. \A i \in DOMAIN gs : gs[i] \in F
        OBVIOUS
    <3> QED
        BY <1>2, <3>1
  <2>2. Mapped(P, gs) = [i \in DOMAIN gs |-> PingOf(v, gs[i])]
      BY <2>1 DEF Mapped
  <2> QED
      BY <2>2 DEF PingsIn
<1>4. /\ fs \in Seq(F) /\ \A f \in F : Append(fs, f) \in Seq(F)
      /\ fs # <<>> => Tail(fs) \in Seq(F) /\ fs[1] \in F
  <2>1. fs \in Seq(F)
      BY DEF F
  <2> QED
      BY <2>1
<1>5. /\ FlattenSeq(Mapped(P, fs)) \in Seq(PingRecord)
      /\ fs = <<>> => FlattenSeq(Mapped(P, fs)) = <<>>
      /\ \A f \in F : FlattenSeq(Mapped(P, Append(fs, f))) = FlattenSeq(Mapped(P, fs)) \o P[f]
      /\ fs # <<>> => FlattenSeq(Mapped(P, fs)) = P[fs[1]] \o FlattenSeq(Mapped(P, Tail(fs)))
  <2>1. MappedLaws(F, PingRecord, P, fs)
      BY <1>1, <1>4, MappedFacts
  <2> QED
      BY <2>1 DEF MappedLaws
<1>6. PingsIn(v, fs) \in Seq(PingRecord) /\ (fs = <<>> => PingsIn(v, fs) = <<>>)
    BY <1>3, <1>4, <1>5
<1>7. \A f \in F : PingsIn(v, Append(fs, f)) = PingsIn(v, fs) \o PingOf(v, f)
    BY <1>2, <1>3, <1>4, <1>5
<1>8. fs # <<>> => PingsIn(v, fs) = PingOf(v, fs[1]) \o PingsIn(v, Tail(fs))
    BY <1>2, <1>3, <1>4, <1>5
<1> QED
    BY <1>6, <1>7, <1>8 DEF F

\* The ids that pings on their way will get, when a frame is added or taken.
LEMMA BeatsUpFacts ==
    ASSUME NEW v, NEW fs \in Seq(WholeFrames(v))
    PROVE  /\ BeatsUp(v, fs) \in Seq(Nat)
           /\ fs = <<>> => BeatsUp(v, fs) = <<>>
           /\ \A f \in WholeFrames(v) :
                 BeatsUp(v, Append(fs, f)) = BeatsUp(v, fs) \o BeatUp(v, f)
           /\ fs # <<>> =>
                 BeatsUp(v, fs) = BeatUp(v, fs[1]) \o BeatsUp(v, Tail(fs))
<1> DEFINE F == WholeFrames(v)
           P == [f \in F |-> BeatUp(v, f)]
<1>1. P \in [F -> Seq(Nat)]
    BY PieceTypes
<1>2. \A f \in F : P[f] = BeatUp(v, f)
    OBVIOUS
<1> HIDE DEF P, F
<1>3. ASSUME NEW gs \in Seq(F) PROVE BeatsUp(v, gs) = FlattenSeq(Mapped(P, gs))
  <2>1. \A i \in DOMAIN gs : P[gs[i]] = BeatUp(v, gs[i])
    <3>1. \A i \in DOMAIN gs : gs[i] \in F
        OBVIOUS
    <3> QED
        BY <1>2, <3>1
  <2>2. Mapped(P, gs) = [i \in DOMAIN gs |-> BeatUp(v, gs[i])]
      BY <2>1 DEF Mapped
  <2> QED
      BY <2>2 DEF BeatsUp
<1>4. /\ fs \in Seq(F) /\ \A f \in F : Append(fs, f) \in Seq(F)
      /\ fs # <<>> => Tail(fs) \in Seq(F) /\ fs[1] \in F
  <2>1. fs \in Seq(F)
      BY DEF F
  <2> QED
      BY <2>1
<1>5. /\ FlattenSeq(Mapped(P, fs)) \in Seq(Nat)
      /\ fs = <<>> => FlattenSeq(Mapped(P, fs)) = <<>>
      /\ \A f \in F : FlattenSeq(Mapped(P, Append(fs, f))) = FlattenSeq(Mapped(P, fs)) \o P[f]
      /\ fs # <<>> => FlattenSeq(Mapped(P, fs)) = P[fs[1]] \o FlattenSeq(Mapped(P, Tail(fs)))
  <2>1. MappedLaws(F, Nat, P, fs)
      BY <1>1, <1>4, MappedFacts
  <2> QED
      BY <2>1 DEF MappedLaws
<1>6. BeatsUp(v, fs) \in Seq(Nat) /\ (fs = <<>> => BeatsUp(v, fs) = <<>>)
    BY <1>3, <1>4, <1>5
<1>7. \A f \in F : BeatsUp(v, Append(fs, f)) = BeatsUp(v, fs) \o BeatUp(v, f)
    BY <1>2, <1>3, <1>4, <1>5
<1>8. fs # <<>> => BeatsUp(v, fs) = BeatUp(v, fs[1]) \o BeatsUp(v, Tail(fs))
    BY <1>2, <1>3, <1>4, <1>5
<1> QED
    BY <1>6, <1>7, <1>8 DEF F

\* The ids of pongs on their way, when a frame is added or taken.
LEMMA BeatsDownFacts ==
    ASSUME NEW v, NEW fs \in Seq(WholeFrames(v))
    PROVE  /\ BeatsDown(v, fs) \in Seq(Nat)
           /\ fs = <<>> => BeatsDown(v, fs) = <<>>
           /\ \A f \in WholeFrames(v) :
                 BeatsDown(v, Append(fs, f)) = BeatsDown(v, fs) \o BeatDown(v, f)
           /\ fs # <<>> =>
                 BeatsDown(v, fs) = BeatDown(v, fs[1]) \o BeatsDown(v, Tail(fs))
<1> DEFINE F == WholeFrames(v)
           P == [f \in F |-> BeatDown(v, f)]
<1>1. P \in [F -> Seq(Nat)]
    BY PieceTypes
<1>2. \A f \in F : P[f] = BeatDown(v, f)
    OBVIOUS
<1> HIDE DEF P, F
<1>3. ASSUME NEW gs \in Seq(F) PROVE BeatsDown(v, gs) = FlattenSeq(Mapped(P, gs))
  <2>1. \A i \in DOMAIN gs : P[gs[i]] = BeatDown(v, gs[i])
    <3>1. \A i \in DOMAIN gs : gs[i] \in F
        OBVIOUS
    <3> QED
        BY <1>2, <3>1
  <2>2. Mapped(P, gs) = [i \in DOMAIN gs |-> BeatDown(v, gs[i])]
      BY <2>1 DEF Mapped
  <2> QED
      BY <2>2 DEF BeatsDown
<1>4. /\ fs \in Seq(F) /\ \A f \in F : Append(fs, f) \in Seq(F)
      /\ fs # <<>> => Tail(fs) \in Seq(F) /\ fs[1] \in F
  <2>1. fs \in Seq(F)
      BY DEF F
  <2> QED
      BY <2>1
<1>5. /\ FlattenSeq(Mapped(P, fs)) \in Seq(Nat)
      /\ fs = <<>> => FlattenSeq(Mapped(P, fs)) = <<>>
      /\ \A f \in F : FlattenSeq(Mapped(P, Append(fs, f))) = FlattenSeq(Mapped(P, fs)) \o P[f]
      /\ fs # <<>> => FlattenSeq(Mapped(P, fs)) = P[fs[1]] \o FlattenSeq(Mapped(P, Tail(fs)))
  <2>1. MappedLaws(F, Nat, P, fs)
      BY <1>1, <1>4, MappedFacts
  <2> QED
      BY <2>1 DEF MappedLaws
<1>6. BeatsDown(v, fs) \in Seq(Nat) /\ (fs = <<>> => BeatsDown(v, fs) = <<>>)
    BY <1>3, <1>4, <1>5
<1>7. \A f \in F : BeatsDown(v, Append(fs, f)) = BeatsDown(v, fs) \o BeatDown(v, f)
    BY <1>2, <1>3, <1>4, <1>5
<1>8. fs # <<>> => BeatsDown(v, fs) = BeatDown(v, fs[1]) \o BeatsDown(v, Tail(fs))
    BY <1>2, <1>3, <1>4, <1>5
<1> QED
    BY <1>6, <1>7, <1>8 DEF F

\* The calls that frames on their way will make, when a frame is added or taken.
LEMMA CallsFacts ==
    ASSUME NEW ss, Subscribers(ss), NEW v, NEW fs \in Seq(WholeFrames(v))
    PROVE  /\ CallsIn(ss, v, fs) \in Seq(CallRecord)
           /\ fs = <<>> => CallsIn(ss, v, fs) = <<>>
           /\ \A f \in WholeFrames(v) :
                 CallsIn(ss, v, Append(fs, f)) = CallsIn(ss, v, fs) \o CallsOf(ss, v, f)
           /\ fs # <<>> =>
                 CallsIn(ss, v, fs) = CallsOf(ss, v, fs[1]) \o CallsIn(ss, v, Tail(fs))
<1> DEFINE F == WholeFrames(v)
           P == [f \in F |-> CallsOf(ss, v, f)]
<1>1. P \in [F -> Seq(CallRecord)]
    BY CallPieceTypes
<1>2. \A f \in F : P[f] = CallsOf(ss, v, f)
    OBVIOUS
<1> HIDE DEF P, F
<1>3. ASSUME NEW gs \in Seq(F) PROVE CallsIn(ss, v, gs) = FlattenSeq(Mapped(P, gs))
  <2>1. \A i \in DOMAIN gs : P[gs[i]] = CallsOf(ss, v, gs[i])
    <3>1. \A i \in DOMAIN gs : gs[i] \in F
        OBVIOUS
    <3> QED
        BY <1>2, <3>1
  <2>2. Mapped(P, gs) = [i \in DOMAIN gs |-> CallsOf(ss, v, gs[i])]
      BY <2>1 DEF Mapped
  <2> QED
      BY <2>2 DEF CallsIn
<1>4. /\ fs \in Seq(F) /\ \A f \in F : Append(fs, f) \in Seq(F)
      /\ fs # <<>> => Tail(fs) \in Seq(F) /\ fs[1] \in F
  <2>1. fs \in Seq(F)
      BY DEF F
  <2> QED
      BY <2>1
<1>5. /\ FlattenSeq(Mapped(P, fs)) \in Seq(CallRecord)
      /\ fs = <<>> => FlattenSeq(Mapped(P, fs)) = <<>>
      /\ \A f \in F : FlattenSeq(Mapped(P, Append(fs, f))) = FlattenSeq(Mapped(P, fs)) \o P[f]
      /\ fs # <<>> => FlattenSeq(Mapped(P, fs)) = P[fs[1]] \o FlattenSeq(Mapped(P, Tail(fs)))
  <2>1. MappedLaws(F, CallRecord, P, fs)
      BY <1>1, <1>4, MappedFacts
  <2> QED
      BY <2>1 DEF MappedLaws
<1>6. CallsIn(ss, v, fs) \in Seq(CallRecord) /\ (fs = <<>> => CallsIn(ss, v, fs) = <<>>)
    BY <1>3, <1>4, <1>5
<1>7. \A f \in F : CallsIn(ss, v, Append(fs, f)) = CallsIn(ss, v, fs) \o CallsOf(ss, v, f)
    BY <1>2, <1>3, <1>4, <1>5
<1>8. fs # <<>> => CallsIn(ss, v, fs) = CallsOf(ss, v, fs[1]) \o CallsIn(ss, v, Tail(fs))
    BY <1>2, <1>3, <1>4, <1>5
<1> QED
    BY <1>6, <1>7, <1>8 DEF F

\* The calls of one push more.
LEMMA AllCallsFacts ==
    ASSUME NEW ss, Subscribers(ss), NEW ps \in Seq(PushRecord)
    PROVE  /\ AllCalls(ss, ps) \in Seq(CallRecord)
           /\ ps = <<>> => AllCalls(ss, ps) = <<>>
           /\ \A p \in PushRecord :
                 AllCalls(ss, Append(ps, p)) = AllCalls(ss, ps) \o Calls(ss, p.cmd, p.body)
<1> DEFINE P == [p \in PushRecord |-> Calls(ss, p.cmd, p.body)]
<1>1. P \in [PushRecord -> Seq(CallRecord)]
  <2>1. \A p \in PushRecord : p.cmd \in Nat /\ p.body \in Seq(Nat)
      BY DEF PushRecord
  <2>2. \A p \in PushRecord : Calls(ss, p.cmd, p.body) \in Seq(CallRecord)
      BY <2>1, CallTypes
  <2> QED
      BY <2>2
<1>2. \A p \in PushRecord : P[p] = Calls(ss, p.cmd, p.body)
    OBVIOUS
<1> HIDE DEF P
<1>3. ASSUME NEW qs \in Seq(PushRecord) PROVE AllCalls(ss, qs) = FlattenSeq(Mapped(P, qs))
  <2>1. \A i \in DOMAIN qs : P[qs[i]] = Calls(ss, qs[i].cmd, qs[i].body)
    <3>1. \A i \in DOMAIN qs : qs[i] \in PushRecord
        OBVIOUS
    <3> QED
        BY <1>2, <3>1
  <2>2. Mapped(P, qs) = [i \in DOMAIN qs |-> Calls(ss, qs[i].cmd, qs[i].body)]
      BY <2>1 DEF Mapped
  <2> QED
      BY <2>2 DEF AllCalls
<1>4. \A p \in PushRecord : Append(ps, p) \in Seq(PushRecord)
    OBVIOUS
<1>5. /\ FlattenSeq(Mapped(P, ps)) \in Seq(CallRecord)
      /\ ps = <<>> => FlattenSeq(Mapped(P, ps)) = <<>>
      /\ \A p \in PushRecord :
            FlattenSeq(Mapped(P, Append(ps, p))) = FlattenSeq(Mapped(P, ps)) \o P[p]
  <2>1. MappedLaws(PushRecord, CallRecord, P, ps)
      BY <1>1, MappedFacts
  <2> QED
      BY <2>1 DEF MappedLaws
<1>6. AllCalls(ss, ps) \in Seq(CallRecord) /\ (ps = <<>> => AllCalls(ss, ps) = <<>>)
    BY <1>3, <1>5
<1>7. \A p \in PushRecord :
         AllCalls(ss, Append(ps, p)) = AllCalls(ss, ps) \o Calls(ss, p.cmd, p.body)
    BY <1>2, <1>3, <1>4, <1>5
<1> QED
    BY <1>6, <1>7

\* The pieces of a packet that was sent.
LEMMA CarriedPieces ==
    ASSUME NEW v, NEW f, NEW t \in {Request, Response, Push}, NEW cmd \in Nat,
           NEW body, NEW id, NEW status, NEW values, Carries(v, f, t, cmd, body, id, status, values)
    PROVE  /\ PingOf(v, f) = IF t = Request /\ cmd = Heartbeat
                             THEN <<[id |-> id, body |-> body]>> ELSE <<>>
           /\ PongOf(v, f) = IF t = Response /\ cmd = Heartbeat
                             THEN <<[id |-> id, body |-> body]>> ELSE <<>>
           /\ BeatUp(v, f) = IF t = Request /\ cmd = Heartbeat THEN <<id>> ELSE <<>>
           /\ BeatDown(v, f) = IF t = Response /\ cmd = Heartbeat THEN <<id>> ELSE <<>>
           /\ \A ss : CallsOf(ss, v, f) = IF t = Push THEN Calls(ss, cmd, body) ELSE <<>>
           /\ f \in WholeFrames(v) /\ f.kind = "data"
<1> DEFINE p == PacketIn(v, f)
<1>1. /\ f.kind = "data" /\ p.Type = t /\ p.CmdCode = cmd /\ p.Body = body
      /\ t # Push => p.RequestId = id
      /\ f \in Frames /\ Whole(v, f)
    BY DEF Carries, Whole
<1>2. t = Request \/ t = Response => t # Push
    BY DEF Request, Response, Push
<1> HIDE DEF p
<1>3. IsPing(p) <=> t = Request /\ cmd = Heartbeat
    BY <1>1 DEF IsPing
<1>4. IsPong(p) <=> t = Response /\ cmd = Heartbeat
    BY <1>1 DEF IsPong
<1>5. PingOf(v, f) = IF t = Request /\ cmd = Heartbeat
                     THEN <<[id |-> id, body |-> body]>> ELSE <<>>
    BY <1>1, <1>2, <1>3 DEF PingOf, p
<1>6. PongOf(v, f) = IF t = Response /\ cmd = Heartbeat
                     THEN <<[id |-> id, body |-> body]>> ELSE <<>>
    BY <1>1, <1>2, <1>4 DEF PongOf, p
<1>7. BeatUp(v, f) = IF t = Request /\ cmd = Heartbeat THEN <<id>> ELSE <<>>
    BY <1>1, <1>2, <1>3 DEF BeatUp, p
<1>8. BeatDown(v, f) = IF t = Response /\ cmd = Heartbeat THEN <<id>> ELSE <<>>
    BY <1>1, <1>2, <1>4 DEF BeatDown, p
<1>9. \A ss : CallsOf(ss, v, f) = IF t = Push THEN Calls(ss, cmd, body) ELSE <<>>
    BY <1>1 DEF CallsOf, p
<1> QED
    BY <1>1, <1>5, <1>6, <1>7, <1>8, <1>9 DEF WholeFrames
=============================================================================
