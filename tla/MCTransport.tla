---------------------------- MODULE MCTransport ----------------------------
(***************************************************************************)
(* Messages, and how many of them, for StreamTransport.                    *)
(***************************************************************************)
EXTENDS StreamTransport, TLC

CONSTANTS p1, p2, p3, p4, p5

ShortMessage == {<<1>>}
TwoLengths == {<<1>>, <<1, 0>>}

\* Two messages to a side: the second may be cut anywhere, or arrive with the
\* first.
ToServer == [client |-> 0, server |-> 2]
ToClient == [client |-> 2, server |-> 0]

Alike == Permutations(Transports)

=============================================================================
