-------------------------- MODULE MCPayloadTransfer --------------------------
(* Instances of PayloadTransfer for TLC. *)
EXTENDS PayloadTransfer

CONSTANTS t1, t2, k1, k2, stream, stream2, once, replay, c1

\* Every StreamPayloadSource wraps the same caller stream.
MCStreamOf == [s \in StreamSources |-> c1]

TwoBytes == [x \in CallerStreams \cup Factories |-> <<1, 2>>]
ThreeBytes == [x \in CallerStreams \cup Factories |-> <<1, 2, 1>>]

\* Digests of the whole content and of a tail of it.
WholeOrTail == {<<1, 2, 1>>, <<2, 1>>}
WholeOfTwo == {<<1, 2>>}
=============================================================================
