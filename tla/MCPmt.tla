------------------------------- MODULE MCPmt -------------------------------
(* Instances of Pmt for TLC: programs with and without an AIT, the first one's
   edit just short enough to be sent; one whose edit is too long; one that
   fills its packet to the last byte but one; and two of several packets. *)
EXTENDS Pmt

Stream(p, n) == [pid |-> p, size |-> n]

MCPlain == [version |-> 0, info |-> 0, streams |-> <<Stream(1, 20), Stream(2, 30)>>]
MCWithAit ==
  [version |-> 1, info |-> 108,
   streams |-> <<Stream(AitPid, 12), Stream(2, 30), Stream(3, 5)>>]
MCTooLong == [version |-> 2, info |-> 100, streams |-> <<Stream(1, 60)>>]
MCFullPacket == [version |-> 5, info |-> 106, streams |-> <<Stream(1, 60)>>]
MCTwoPackets == [version |-> 3, info |-> 150, streams |-> <<Stream(1, 60)>>]
MCThreePackets == [version |-> 4, info |-> 300, streams |-> <<Stream(1, 60)>>]

MCTables ==
  {MCPlain, MCWithAit, MCTooLong, MCFullPacket, MCTwoPackets, MCThreePackets}
MCFull == {MCFullPacket}
=============================================================================
