------------------------------ MODULE PesFeed ------------------------------
(***************************************************************************)
(* What the teletext assembler of x31.c promises, without its counters: a  *)
(* reader of the teletext PID that knows the true number of every packet,  *)
(* and either extends its buffer by the next packet of the same PES or     *)
(* drops the buffer.  TxtPes implements this with 4-bit continuity         *)
(* counters.                                                               *)
(***************************************************************************)
EXTENDS Integers, Sequences

CONSTANTS
  Packets,   \* numbers of the TS packets of the teletext PID, in sending order
  Starts,    \* those that carry payload_unit_start_indicator
  Headed     \* the starts whose payload begins with the PES header 00 00 01 bd

VARIABLES
  open,      \* a buffer is allocated
  pes,       \* the packets in it; empty when there is none
  acc,       \* the packet the buffer has reached
  handed     \* the buffer last handed to the X31 detector

feedVars == <<open, pes, acc, handed>>

NoHandover == [pes |-> <<>>, by |-> -1]

FeedInit ==
  /\ open = FALSE
  /\ pes = <<>>
  /\ acc = 0
  /\ handed = NoHandover

(* A start hands over what the buffer holds, and opens a new one. *)
FeedStart(k) ==
  /\ open' = TRUE
  /\ pes' = IF k \in Headed THEN <<k>> ELSE <<>>
  /\ acc' = k
  /\ handed' = IF open THEN [pes |-> pes, by |-> k] ELSE handed

(* The only packet that ever extends a buffer is the successor of the last. *)
FeedExtend ==
  /\ open
  /\ acc + 1 \in Packets \ Starts
  /\ pes' = Append(pes, acc + 1)
  /\ acc' = acc + 1
  /\ UNCHANGED <<open, handed>>

FeedDrop ==
  /\ open
  /\ open' = FALSE
  /\ pes' = <<>>
  /\ acc' = 0
  /\ UNCHANGED handed

(* A start that finds an allocated but empty buffer: the reader stops. *)
FeedCrash(k) ==
  /\ open /\ pes = <<>>
  /\ handed' = [pes |-> pes, by |-> k]
  /\ UNCHANGED <<open, pes, acc>>

FeedNext ==
  \/ \E k \in Starts : FeedStart(k) \/ FeedCrash(k)
  \/ FeedExtend
  \/ FeedDrop

FeedSpec == FeedInit /\ [][FeedNext]_feedVars

-----------------------------------------------------------------------------
(* The packets of a run are consecutive, none but the first is a start, and
   a run does not begin in the middle of a PES: its first packet is a start,
   or follows one that had no PES header (and was not stored). *)
IsRun(s) ==
  /\ \A i \in 1..Len(s) : i > 1 => s[i] = s[i-1] + 1 /\ s[i] \notin Starts
  /\ s # <<>> => s[1] \in Headed \/ s[1] - 1 \in Starts \ Headed

(* What the assembler is for: the bytes that X31 detection reads, in the
   buffer being built and in the one last handed over, are a prefix of one
   PES, never a splice of two or one with a hole. *)
PrefixOfOnePes == IsRun(pes) /\ IsRun(handed.pes)
=============================================================================
