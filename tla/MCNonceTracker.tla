--------------------------- MODULE MCNonceTracker ---------------------------
(* Instances of NonceTracker for TLC: packets, their stamps and the clock. *)
EXTENDS NonceTracker, TLC

CONSTANTS n1, n2, n3

ThreadSymmetry == Permutations(Threads)

\* Packets of time 0 and time 3, and one that carries a nonce in use.
ReusedNonce == {[nonce |-> n1, stamp |-> 0],
                [nonce |-> n1, stamp |-> 2],
                [nonce |-> n2, stamp |-> 3]}

\* A packet from a sender whose clock is ahead, within the skew, and one whose
\* stamp is bad.
AheadPacket == {[nonce |-> n1, stamp |-> 1], [nonce |-> n2, stamp |-> 3],
                [nonce |-> n3, stamp |-> Unparseable]}

\* Two packets whose stamps stay fresh while two threads overlap.
TwoPackets == {[nonce |-> n1, stamp |-> 0], [nonce |-> n2, stamp |-> 3]}

NoAdjustment == {}
Forward == {1}

=============================================================================
