--------------------------- MODULE MCFrameSigned ---------------------------
EXTENDS FrameReader

\* A signed packet with a value, which does not fit into a frame of version 2.
SignedPackets(v) ==
    {[Type |-> Push, Gzip |-> FALSE, Verify |-> TRUE, CmdCode |-> 242, RequestId |-> 66051,
      Timeout |-> 515, StatusCode |-> 7, Nonce |-> [i \in 1..NonceLength |-> i],
      Signature |-> [i \in 1..SignatureLength |-> 100 + i], Body |-> <<2, 32>>,
      Values |-> <<[key |-> <<97>>, val |-> <<>>], [key |-> <<98, 99>>, val |-> <<5>>]>>]}

NoTail == {}
=============================================================================
