------------------------------- MODULE MCX31 -------------------------------
(* Instances of X31 for TLC.  7 and 9 are the configured levels, 1 is one
   without a command. *)
EXTENDS X31

MCLevels == {1, 7, 9}

(* Another packet; a packet 7 whose second address byte is damaged, which
   passes for packet 31; and a misreading. *)
OtherPacket == [c1 |-> 8, c2 |-> 3, gpi |-> 9, y |-> 7]
Damaged == [c1 |-> 8, c2 |-> Bad, gpi |-> 9, y |-> 7]
Misread == [c1 |-> Bad, c2 |-> 15, gpi |-> 2, y |-> 0]

MCNoise == {OtherPacket, Damaged, Misread}
MCDamaged == {OtherPacket, Damaged}
=============================================================================
