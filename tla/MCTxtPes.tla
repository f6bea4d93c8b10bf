------------------------------ MODULE MCTxtPes ------------------------------
(* Instance of TxtPes for TLC: 17 packets in five PES packets, the one that
   starts at 1 without a PES header, the one from 4 long enough for txt->cc
   to wrap. *)
EXTENDS TxtPes

MCPackets == 0..16
MCStarts == {0, 1, 3, 4, 15}
MCHeaded == {0, 3, 4, 15}
=============================================================================
