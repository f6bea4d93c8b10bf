------------------------------- MODULE TxtPes -------------------------------
(***************************************************************************)
(* Assembly of teletext PES packets from TS packets: new_txt_buffer,       *)
(* clear_txt_buffer and push_txt_packet of x31.c.  What the detector does  *)
(* with a buffer (process_txt_pes_buffer) is module X31; here the call is  *)
(* recorded in handed, and only its crash on an empty buffer matters,      *)
(* because push_txt_packet ignores the result.                             *)
(*                                                                         *)
(* TS packets of the PID are numbered in sending order, and packet k       *)
(* carries continuity counter k % CCMod.  The channel may lose, repeat and *)
(* reorder them: a continuation that arrives while a buffer is open is at  *)
(* most Ahead packets past, or Back packets before, the one the buffer     *)
(* waits for.  A start may be any packet of the stream at any time.        *)
(***************************************************************************)
EXTENDS Integers, Sequences

CONSTANTS
  CCMod,       \* a TS continuity counter has 4 bits: 16
  CounterMod,  \* txt->cc is a guint8: 256
  Ahead, Back, \* the channel's displacement
  Packets, Starts, Headed   \* as in PesFeed

ASSUME TxtPesAssumption ==
  /\ CCMod \in Nat \ {0}
  /\ CounterMod \in Nat \ {0}
  /\ CounterMod % CCMod = 0
  /\ Ahead \in Nat /\ Back \in Nat
  /\ Ahead + Back < CCMod
  /\ Packets \subseteq Nat
  /\ Starts \subseteq Packets
  /\ Headed \subseteq Starts

VARIABLES
  open,     \* txt->pes_buffer # NULL
  pes,      \* the packets whose payload is in it
  txtcc,    \* txt->cc
  acc,      \* ghost: the packet that txt->cc stands for
  handed,   \* ghost: the last call of process_txt_pes_buffer
  inorder,  \* ghost: since the last headed start, all arrived intact, in order
  ret,      \* what push_txt_packet returned
  crashed   \* process_txt_pes_buffer read an empty buffer (a NULL pointer)

vars == <<open, pes, txtcc, acc, handed, inorder, ret, crashed>>

Feed == INSTANCE PesFeed

TypeOK ==
  /\ open \in BOOLEAN
  /\ pes \in Seq(Packets)
  /\ txtcc \in 0..(CounterMod - 1)
  /\ acc \in Nat
  /\ handed \in [pes : Seq(Packets), by : Packets \cup {-1}]
  /\ inorder \in BOOLEAN
  /\ ret \in BOOLEAN
  /\ crashed \in BOOLEAN

Init ==
  /\ open = FALSE
  /\ pes = <<>>
  /\ txtcc = 0
  /\ acc = 0
  /\ handed = Feed!NoHandover
  /\ inorder = FALSE
  /\ ret = TRUE
  /\ crashed = FALSE

-----------------------------------------------------------------------------
(* clear_txt_buffer: only an allocated buffer is freed and reset. *)
ClearTxtBuffer ==
  /\ open' = FALSE
  /\ pes' = <<>>
  /\ txtcc' = IF open THEN 0 ELSE txtcc
  /\ acc' = 0

(* The continuity check of a continuation: ++txt->cc is compared mod 16. *)
NextCounter_NoWrap == txtcc + 1
NextCounter == (txtcc + 1) % CounterMod
InSequence_NoWrap(k) == txtcc + 1 = k % CCMod
InSequence_Skipped(k) == TRUE
InSequence(k) == NextCounter % CCMod = k % CCMod

(* The start packet's counter is taken over unchecked, its payload stored
   only if it begins with a PES header. *)
NewBuffer_AlwaysTrue(k) ==
  /\ open' = TRUE
  /\ txtcc' = k % CCMod
  /\ acc' = k
  /\ pes' = IF k \in Headed THEN <<k>> ELSE <<>>
  /\ inorder' = (k \in Headed)
  /\ ret' = TRUE
NewBuffer(k) ==
  /\ open' = TRUE
  /\ txtcc' = k % CCMod
  /\ acc' = k
  /\ pes' = IF k \in Headed THEN <<k>> ELSE <<>>
  /\ inorder' = (k \in Headed)
  /\ ret' = (k \in Headed)

(* PUSI = 1, no buffer: start one. *)
PushFirstStart(k) ==
  /\ ~crashed
  /\ ~open
  /\ NewBuffer(k)
  /\ UNCHANGED <<handed, crashed>>

(* PUSI = 1 with a buffer: process it, clear it, start a new one. *)
PushStart(k) ==
  /\ ~crashed
  /\ open /\ pes # <<>>
  /\ handed' = [pes |-> pes, by |-> k]
  /\ NewBuffer(k)
  /\ UNCHANGED crashed

(* The buffer was allocated by a start without a PES header, and nothing was
   appended since: g_array_steal returns NULL, which the detector reads. *)
PushStartOnEmpty(k) ==
  /\ ~crashed
  /\ open /\ pes = <<>>
  /\ handed' = [pes |-> pes, by |-> k]
  /\ crashed' = TRUE
  /\ UNCHANGED <<open, pes, txtcc, acc, inorder, ret>>

Displaced(k) == acc + 1 - Back <= k /\ k <= acc + 1 + Ahead

(* PUSI = 0 and the continuity counter fits: append. *)
Append_(k) ==
  /\ open
  /\ InSequence(k)
  /\ txtcc' = NextCounter
  /\ acc' = k
  /\ pes' = Append(pes, k)
  /\ ret' = TRUE
  /\ UNCHANGED open

(* PUSI = 0 and the counter does not fit: the PES is given up. *)
RejectCC_KeepsBuffer(k) ==
  /\ open
  /\ ~InSequence(k)
  /\ txtcc' = NextCounter
  /\ ret' = FALSE
  /\ UNCHANGED <<open, pes, acc>>
RejectCC(k) ==
  /\ open
  /\ ~InSequence(k)
  /\ ClearTxtBuffer
  /\ ret' = FALSE

(* PUSI = 0 and no buffer: wait for the next start. *)
AwaitStart ==
  /\ ~open
  /\ ret' = TRUE
  /\ UNCHANGED <<open, pes, txtcc, acc>>

PushContinuation(k) ==
  /\ ~crashed
  /\ open => Displaced(k)
  /\ inorder' = (inorder /\ k = acc + 1)
  /\ Append_(k) \/ RejectCC(k) \/ AwaitStart
  /\ UNCHANGED <<handed, crashed>>

(* An adaptation field: the packet is refused, the buffer stays. *)
PushAdaptation ==
  /\ ~crashed
  /\ inorder' = FALSE
  /\ ret' = FALSE
  /\ UNCHANGED <<open, pes, txtcc, acc, handed, crashed>>

(* Transport error indicator, or scrambled: clear and refuse. *)
PushErrored ==
  /\ ~crashed
  /\ ClearTxtBuffer
  /\ inorder' = FALSE
  /\ ret' = FALSE
  /\ UNCHANGED <<handed, crashed>>

Next ==
  \/ \E k \in Starts : PushFirstStart(k) \/ PushStart(k) \/ PushStartOnEmpty(k)
  \/ \E k \in Packets \ Starts : PushContinuation(k)
  \/ PushAdaptation
  \/ PushErrored

Spec == Init /\ [][Next]_vars

-----------------------------------------------------------------------------
(* Detection never reads a buffer that mixes two PES packets or misses a
   packet in the middle, whatever the channel loses, repeats or reorders
   within the displacement. *)
PrefixOfOnePes == Feed!PrefixOfOnePes

(* The converse: the continuity check never rejects a packet that arrives
   in order, also where the 8-bit counter wraps, so a PES that arrives
   undamaged is in the buffer up to its last packet. *)
InOrderIsKept ==
  inorder /\ ~crashed => open /\ pes # <<>> /\ pes[Len(pes)] = acc

(* push_txt_packet answers TRUE for a packet it dropped only while it waits
   for a start; with a buffer open, TRUE means that the packet is stored at
   its end.  process_buffer drops the rest of its input on FALSE. *)
TrueMeansStored ==
  [][ret' /\ open' /\ ~crashed' => pes' # <<>> /\ pes'[Len(pes')] = acc']_vars

(* The counters implement the reader that knows the true packet numbers. *)
ImplementsFeed == Feed!FeedSpec

(* x31.c:228: "We have data in txt_pes_buffer, let's process it first". *)
HandedHasData == handed.by # -1 => handed.pes # <<>>
=============================================================================
