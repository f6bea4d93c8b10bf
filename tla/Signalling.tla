----------------------------- MODULE Signalling -----------------------------
(***************************************************************************)
(* What the program is for: of the teletext PES packets that it gets to    *)
(* read, each that carries a new level for which a splice command exists   *)
(* is answered by that command, timed by the PTS of the same PES; the end  *)
(* of a break is announced under the id of its start.                      *)
(***************************************************************************)
EXTENDS Naturals

CONSTANTS
  Signals,              \* the PES packets that carry a level
  LevelOf, PtsOf,       \* the level and the PTS of each
  SpliceIn, SpliceOut, Preroll, PtsMod, EventIds

VARIABLES
  level,     \* the level read last
  command,   \* the command sent last
  break      \* the id of the break announced last; 0 if none was

signalVars == <<level, command, break>>

NoCommand == [type |-> "-", event |-> 0, time |-> 0]

SignalInit ==
  /\ level = 0
  /\ command = NoCommand
  /\ break = 0

Command(type, event, p) ==
  [type |-> type, event |-> event, time |-> (PtsOf[p] + Preroll) % PtsMod]

ReadIn(p) ==
  /\ LevelOf[p] = SpliceIn /\ level # SpliceIn
  /\ level' = SpliceIn
  /\ command' = Command("I", break, p)
  /\ UNCHANGED break

ReadOut(p) ==
  /\ LevelOf[p] = SpliceOut /\ level # SpliceOut
  /\ level' = SpliceOut
  /\ break' \in EventIds
  /\ command' = Command("O", break', p)

(* A level that is no command, or no news. *)
ReadOther(p) ==
  /\ LevelOf[p] \in {SpliceIn, SpliceOut} => LevelOf[p] = level
  /\ level' = LevelOf[p]
  /\ UNCHANGED <<command, break>>

SignalNext == \E p \in Signals : ReadIn(p) \/ ReadOut(p) \/ ReadOther(p)

SignalSpec == SignalInit /\ [][SignalNext]_signalVars
=============================================================================
