----------------------------- MODULE MCProgram -----------------------------
(* Instance of Program for TLC: five PES packets, of which the one from 3 has
   no PES header, the one from 7 no level, and that from 5 a level without a
   command. *)
EXTENDS Program

MCPackets == 0..7
MCStarts == {0, 2, 3, 5, 7}
MCHeaded == {0, 2, 5, 7}
MCSignals == {0, 2, 5}
MCLevelOf == [p \in MCSignals |-> CASE p = 0 -> 9 [] p = 2 -> 7 [] p = 5 -> 1]
MCPtsOf == [p \in MCHeaded |-> CASE p = 0 -> 0 [] p = 2 -> 1 [] p = 5 -> 2 [] p = 7 -> 3]
MCNoise == {[c1 |-> 8, c2 |-> 3, gpi |-> 9, y |-> 7]}
=============================================================================
