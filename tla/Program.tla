------------------------------ MODULE Program ------------------------------
(***************************************************************************)
(* From teletext packets to splice commands: the loop of process_buffer    *)
(* over the teletext packets of its buffers, with the assembler (TxtPes)   *)
(* and the detector (X31) as it calls them.  A PES is known by its first   *)
(* packet, and is read for its PTS and its level.                          *)
(*                                                                         *)
(* Bytes behind the first data unit of a PES, and data units that are no   *)
(* X/31 packet, are Noise; that they never pass for packet 31 is an        *)
(* assumption here and not one of X31, which is checked without it.        *)
(***************************************************************************)
EXTENDS Integers, Sequences

CONSTANTS
  CCMod, CounterMod, Ahead, Back, Packets, Starts, Headed,   \* as in TxtPes
  SpliceIn, SpliceOut, Noise, MaxReadings, EventIds, NullAge, \* as in X31
  PtsMod, Preroll,
  Signals,     \* the PES packets whose first data unit is an X/31 packet
  LevelOf,     \*   and their levels
  PtsOf,       \* the PTS of every PES
  BufferSize   \* teletext packets of a buffer

VARIABLES
  open, pes, txtcc, acc, handed, inorder, ret, crashed,        \* as in TxtPes
  gpis, event_id, age, cc, todo, pts, sit, splice, lastOut,    \* as in X31
  left         \* packets of the buffer that process_packet has yet to see

asmVars == <<open, pes, txtcc, acc, handed, inorder, ret, crashed>>
detVars == <<gpis, event_id, age, cc, todo, pts, sit, splice, lastOut>>
vars == <<asmVars, detVars, left>>

Asm == INSTANCE TxtPes

(* The levels come from the packets: the detector's own source is idle, and
   so is its wall clock. *)
Levels == {LevelOf[p] : p \in Signals} \cup {0}
Det == INSTANCE X31 WITH source <- 0, setbacks <- 0, MaxSetBack <- 0, SetBacks <- 0

ASSUME ProgramAssumption ==
  /\ Signals \subseteq Headed
  /\ \A p \in Signals : LevelOf[p] \in 1..255
  /\ \A p \in Headed : PtsOf[p] \in 0..(PtsMod - 1)
  /\ \A r \in Noise : r \in Det!Reading /\ ~Det!IsX31(r)
  /\ Noise # {}
  /\ BufferSize \in Nat \ {0}

(* What TxtPes and X31 ask of the constants that are theirs. *)
ASSUME ComponentsAssumption ==
  /\ CCMod \in Nat \ {0}
  /\ CounterMod \in Nat \ {0} /\ CounterMod % CCMod = 0
  /\ Ahead \in Nat /\ Back \in Nat /\ Ahead + Back < CCMod
  /\ Packets \subseteq Nat /\ Starts \subseteq Packets /\ Headed \subseteq Starts
  /\ SpliceIn # SpliceOut /\ SpliceIn # 0 /\ SpliceOut # 0
  /\ MaxReadings \in Nat /\ NullAge \in Nat /\ EventIds \subseteq Nat
  /\ PtsMod \in Nat \ {0} /\ Preroll \in 0..(PtsMod - 1)

TypeOK ==
  /\ Asm!TypeOK
  /\ Det!TypeOK
  /\ left \in 0..BufferSize

Init ==
  /\ Asm!Init
  /\ Det!Init
  /\ left = 0

-----------------------------------------------------------------------------
(* process_buffer is called. *)
TakeBuffer ==
  /\ left = 0 /\ todo = <<>> /\ ~crashed
  /\ left' \in 1..BufferSize
  /\ UNCHANGED <<asmVars, detVars>>

Tick ==
  /\ left = 0
  /\ Det!Tick
  /\ UNCHANGED <<asmVars, left>>

(* The end of process_packet: on FALSE the rest of the buffer is dropped. *)
NextPacket_SkipsOne == left' = IF ret' THEN left - 1 ELSE left - 2
NextPacket == left' = IF ret' THEN left - 1 ELSE 0

FirstUnit(p) == IF p \in Signals THEN {Det!X31Reading(LevelOf[p])} ELSE Noise

(* process_txt_pes_buffer on the buffer that a start hands over.  One that
   does not begin with a PES header is left at once. *)
Process_PtsOfNext(k) ==
  IF pes[1] \in Headed
  THEN \E r \in FirstUnit(pes[1]), f \in Det!Followers :
         Det!TakePes(<<r>> \o f, PtsOf[IF k \in Headed THEN k ELSE pes[1]])
  ELSE UNCHANGED detVars
Process_NeedsHeader(k) ==
  IF pes[1] \in Headed /\ k \in Headed
  THEN \E r \in FirstUnit(pes[1]), f \in Det!Followers :
         Det!TakePes(<<r>> \o f, PtsOf[pes[1]])
  ELSE UNCHANGED detVars
Process(k) ==
  IF pes[1] \in Headed
  THEN \E r \in FirstUnit(pes[1]), f \in Det!Followers :
         Det!TakePes(<<r>> \o f, PtsOf[pes[1]])
  ELSE UNCHANGED detVars

PushStart(k) ==
  \/ Asm!PushFirstStart(k) /\ UNCHANGED detVars /\ NextPacket
  \/ Asm!PushStart(k) /\ Process(k) /\ NextPacket
  \/ Asm!PushStartOnEmpty(k) /\ UNCHANGED <<detVars, left>>

PushOther ==
  /\ \/ \E k \in Packets \ Starts : Asm!PushContinuation(k)
     \/ Asm!PushAdaptation
     \/ Asm!PushErrored
  /\ NextPacket
  /\ UNCHANGED detVars

(* The detector's loop runs to its end inside process_packet. *)
Push ==
  /\ left > 0 /\ todo = <<>>
  /\ PushOther \/ \E k \in Starts : PushStart(k)

Detect ==
  /\ Det!Iterate
  /\ UNCHANGED <<asmVars, left>>

Next == TakeBuffer \/ Tick \/ Push \/ Detect

Spec == Init /\ [][Next]_vars

-----------------------------------------------------------------------------
(* Whatever the channel does to the teletext packets, and whatever part of a
   buffer is dropped after a refusal, each splice command answers one PES of
   the source: a new level and the PTS are read from the same PES, and the
   ids of a break agree (x31.c:83-152,219-267, buffer.c:52-58). *)
S == INSTANCE Signalling WITH
       level <- gpis,
       command <- [type |-> splice.type, event |-> splice.event, time |-> splice.time],
       break <- lastOut
ImplementsSignalling == S!SignalSpec

(* Between calls the detector's level is that of the last PES that it was
   handed, if that carries one. *)
LevelOfLastPes ==
  todo = <<>> /\ handed.pes # <<>> /\ handed.pes[1] \in Signals =>
    gpis = LevelOf[handed.pes[1]]
=============================================================================
