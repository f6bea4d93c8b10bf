------------------------------ MODULE PmtEdit ------------------------------
(***************************************************************************)
(* The change that process_pmt of pmt.c makes to a program map table.      *)
(* A table is its version, the bytes of its program descriptors, and its   *)
(* elementary streams, each a PID and the bytes of its loop entry.         *)
(***************************************************************************)
EXTENDS Integers, Sequences

CONSTANTS
  AitDefined, ScteDefined,   \* conf sections [ait] and [scte35] exist
  AitPid, SctePid

(* Bytes of the section: 12 up to the stream loop, and the CRC. *)
SectionLength(t) ==
  LET size[n \in 0..Len(t.streams)] ==
        IF n = 0 THEN 0 ELSE size[n - 1] + t.streams[n].size
  IN  16 + t.info + size[Len(t.streams)]

(* The removal loop: after a removal the index still advances, so the stream
   that moved into the gap is not looked at. *)
Removed(s) ==
  LET gone[n \in 0..Len(s)] ==
        n > 0 /\ s[n].pid = AitPid /\ ~gone[n - 1]
  IN  {n \in 1..Len(s) : gone[n]}

(* The streams at some of the positions, in their order. *)
Kept(s, positions) ==
  LET kept[n \in 0..Len(s)] ==
        IF n = 0 THEN <<>>
        ELSE IF n \in positions THEN Append(kept[n - 1], s[n]) ELSE kept[n - 1]
  IN  kept[Len(s)]

WithoutAit_None(s) == s
WithoutAit(s) == Kept(s, DOMAIN s \ Removed(s))

(* An SCTE-35 stream has a stream_identifier descriptor, the AIT stream an
   empty application_signalling descriptor; the program gets a registration
   descriptor for SCTE-35. *)
ScteStream == [pid |-> SctePid, size |-> 5 + 3]
AitStream == [pid |-> AitPid, size |-> 5 + 2]

Edit(t) ==
  [version |-> t.version,
   info    |-> t.info + (IF ScteDefined THEN 6 ELSE 0),
   streams |-> (IF AitDefined THEN WithoutAit(t.streams) ELSE t.streams)
               \o (IF ScteDefined THEN <<ScteStream>> ELSE <<>>)
               \o (IF AitDefined THEN <<AitStream>> ELSE <<>>)]
=============================================================================
