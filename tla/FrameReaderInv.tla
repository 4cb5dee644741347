--------------------------- MODULE FrameReaderInv ---------------------------
(***************************************************************************)
(* What the peer may send, and the inductive invariant of FrameReader.     *)
(***************************************************************************)
EXTENDS FrameReader, FrameFit

ASSUME FrameAssumption ==
    /\ MinGzipSize \in Nat
    /\ \A v \in {1, 2} : \A p \in Packets(v) : Packable(v, p)
    /\ \A g \in Garbage : g \in Seq(Nat) /\ g # <<>> /\ IsUnknownPacket(g[1] % 16)
-----------------------------------------------------------------------------
\* The wire holds the frames of what was sent, and garbage at most behind them.
WireInv ==
    /\ version \in {1, 2} /\ sent \in Seq(Packets(version)) /\ wire \in Seq(Nat)
    /\ ends \in Seq(Nat) /\ Len(ends) = Len(sent)
    /\ \A i, j \in 1..Len(ends) : i < j => ends[i] < ends[j]
    /\ \A i \in 1..Len(ends) :
          /\ 0 < ends[i] /\ ends[i] =< Len(wire)
          /\ GoodFrame(version, FrameOf(i), Expected(version, sent[i]))
    /\ garbled \in BOOLEAN
    /\ ~garbled => Len(wire) = Start(Len(ends) + 1)
    /\ garbled => /\ Start(Len(ends) + 1) < Len(wire)
                  /\ IsUnknownPacket(wire[Start(Len(ends) + 1) + 1] % 16)

\* b is what was read last.
Buffered(b) ==
    /\ b \in Seq(Nat) /\ Len(b) =< read
    /\ \A i \in 1..Len(b) : b[i] = wire[(read - Len(b)) + i]

\* The packet to be passed on next, and how far its header h has been unpacked when
\* b is left in the buffer.
Current == Len(got) + 1
AtStart(h, b) == h = ZeroHeader /\ read - Len(b) = Start(Current)
AfterFirst(h, b) ==
    /\ Current =< Len(ends)
    /\ h = First(FrameOf(Current)) /\ read - Len(b) = Start(Current) + 1
AfterHeader(h, b) ==
    /\ Current =< Len(ends)
    /\ h = Header(version, FrameOf(Current))
    /\ read - Len(b) = Start(Current) + HeadLen(version, FrameOf(Current))

\* What was read is passed on or in the buffer or in the header; a reader that waits
\* has not got the next frame as a whole, and one that gave up has got garbage.
ReadInv ==
    /\ read \in Nat /\ read =< Len(wire) /\ Buffered(buf)
    /\ got \in Seq({Expected(version, p) : p \in Packets(version)}) /\ Len(got) =< Len(ends)
    /\ \A i \in 1..Len(got) : got[i] = Expected(version, sent[i])
    /\ pc \in {"read", "unpack", "off"}
    /\ pc # "off" => AtStart(hdr, buf) \/ AfterFirst(hdr, buf) \/ AfterHeader(hdr, buf)
    /\ pc = "read" => IF Current =< Len(ends) THEN read < ends[Current] ELSE read = Start(Current)
    /\ pc = "off" => garbled /\ Len(got) = Len(ends) /\ read >= Start(Current) + 1

ReaderInvariant == WireInv /\ ReadInv
=============================================================================
