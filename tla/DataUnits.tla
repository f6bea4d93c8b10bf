----------------------------- MODULE DataUnits -----------------------------
(***************************************************************************)
(* The walk of process_txt_pes_buffer (x31.c) over the data units of a     *)
(* teletext PES packet.  A unit is an id byte, a length byte and as many   *)
(* bytes as the length says; the units fill the PES data field.            *)
(***************************************************************************)
EXTENDS Integers, Sequences

CONSTANTS
  NUnits,    \* data units in a PES (at least one)
  Lengths,   \* values of a unit's length byte, within 0..255
  Body       \* values of the bytes that follow it, and of what follows the PES

VARIABLES
  units,   \* the units: their bytes after the length byte
  after,   \* the byte after the data field
  at       \* txt_payload, as an offset into the data field

vars == <<units, after, at>>

TeletextId == 3   \* EBU teletext subtitle data

(* The data field, and the offsets at which a unit begins. *)
Bytes(us) ==
  LET field[n \in 0..Len(us)] ==
        IF n = 0 THEN <<>>
        ELSE field[n - 1] \o <<TeletextId, Len(us[n])>> \o us[n]
  IN  field[Len(us)]

UnitStarts == {Len(Bytes(SubSeq(units, 1, n))) : n \in 0..(NUnits - 1)}

End == Len(Bytes(units))

ByteAt(p) == IF p < End THEN Bytes(units)[p + 1] ELSE after

Unit == UNION {[1..n -> Body] : n \in Lengths}

Init ==
  /\ units \in [1..NUnits -> Unit]
  /\ after \in Body
  /\ at = 0

(* To the next unit: over the length byte and what it counts. *)
Step ==
  /\ at < End
  /\ at' = at + ByteAt(at + 1) + 1
  /\ UNCHANGED <<units, after>>

Next == Step

Spec == Init /\ [][Next]_vars

-----------------------------------------------------------------------------
(* x31.c:143: "Move to the next txt data block in the TS packet payload":
   wherever the loop looks for a data unit id, a unit begins. *)
AtUnit == at < End => at \in UnitStarts
=============================================================================
