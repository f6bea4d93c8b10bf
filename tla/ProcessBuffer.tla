--------------------------- MODULE ProcessBuffer ---------------------------
(***************************************************************************)
(* buffer.c: process_packet on every TS packet of a buffer, and the tables *)
(* that process_buffer adds at its end.  What push_pmt_packet (module Pmt) *)
(* and push_txt_packet (TxtPes, X31) do is left to their modules: here     *)
(* they append what they may append and answer TRUE or FALSE.              *)
(*                                                                         *)
(* One call of process_buffer is TakeBuffer, a step per packet, one per    *)
(* table, and Deliver.  The clock is read once per configured table, and   *)
(* time passes between these readings as it does between calls.            *)
(***************************************************************************)
EXTENDS Integers, Sequences, SequencesExt, FiniteSetsExt

CONSTANTS
  AitModes,       \* values of the ait_stream setting tried: "new", "replace"
  DefinedSets,    \* the tables that have a group in the configuration file
  MaxSize,        \* packets in a buffer, at most
  Period,         \* 250 ms
  BufferGap,      \* buffers come so often that a clock is read this often
  MaxSetBack,     \* how far the wall clock is set back in all
  MaxCommands,    \* SCTE-35 packets that one teletext packet can cause
  CCMod,          \* 16
  CounterMod      \* pid20_cc is a guint8, ait->cc a guint: 256 divides both

Tables == {"ait", "tdt", "tot"}

ASSUME ProcessBufferAssumption ==
  /\ DefinedSets \subseteq SUBSET Tables
  /\ {MaxSize, Period, BufferGap, MaxSetBack, MaxCommands} \subseteq Nat
  /\ CCMod \in Nat \ {0}
  /\ CounterMod \in Nat \ {0, 1} /\ CounterMod % CCMod = 0

(* The order in which process_buffer looks at them. *)
Order == <<"ait", "tdt", "tot">>

(* The PID a table is sent on; TDT and TOT share one, and its counter. *)
Pids == {"aitPid", "pid20"}
PidOf(t) == IF t = "ait" THEN "aitPid" ELSE "pid20"

(* Packets by what process_packet tells apart: the PMT, teletext and AIT
   PIDs, any other, and those that do not start with the sync byte. *)
Kinds == {"pmt", "txt", "ait", "other", "desync"}

VARIABLES
  aitMode,    \* data->ait->ait_stream
  defined,    \* the tables with <table>_defined
  input,      \* kinds of the packets of the buffer; empty between calls
  at,         \* packets of it processed
  refused,    \* ghost: the first packet that was answered FALSE; 0: none
  checked,    \* tables looked at in this call
  array,      \* packet_array
  cc,         \* ait->cc and pid20_cc
  age,        \* current_time - last_<table>_sent, Aged standing for more
  gap,        \* ghost: the true time since the table was sent, as age
  setBack,    \* by how much the wall clock was set back
  idle,       \* ghost: time since the clock was read for the table
  lastCc,     \* ghost: the counter of the last table pushed to appsrc on a PID
  flow        \* what on_new_sample_from_sink returned: "ok" or "error"

vars == <<aitMode, defined, input, at, refused, checked, array, cc, age, gap,
          setBack, idle, lastCc, flow>>

Aged == Period + BufferGap + MaxSetBack + 1

(* An outgoing packet: what it is, the incoming packet it stands for (0 if it
   was added), and the counter if this module sets it. *)
Out(kind, from, counter) == [kind |-> kind, from |-> from, cc |-> counter]
NoCc == -1

OutPacket ==
  [kind : {"pmt", "txt", "sit", "other"} \cup Tables,
   from : 0..MaxSize, cc : (0..(CCMod - 1)) \cup {NoCc}]

TypeOK ==
  /\ aitMode \in AitModes /\ defined \in DefinedSets
  /\ input \in Seq(Kinds) /\ Len(input) <= MaxSize
  /\ at \in 0..Len(input)
  /\ refused \in 0..Len(input)
  /\ checked \in 0..Len(Order)
  /\ array \in Seq(OutPacket)
  /\ cc \in [Pids -> 0..(CounterMod - 1)]
  /\ age \in [Tables -> (-MaxSetBack)..Aged]
  /\ gap \in [Tables -> 0..Aged]
  /\ setBack \in 0..MaxSetBack
  /\ idle \in [Tables -> 0..BufferGap]
  /\ lastCc \in [Pids -> 0..(CCMod - 1)]
  /\ flow \in {"ok", "error"}

(* construct_ait has counted one packet already when the first is sent. *)
Init ==
  /\ aitMode \in AitModes /\ defined \in DefinedSets
  /\ input = <<>> /\ at = 0 /\ refused = 0 /\ checked = 0
  /\ array = <<>>
  /\ cc = [p \in Pids |-> IF p = "aitPid" THEN 1 ELSE 0]
  /\ age = [t \in Tables |-> Aged]
  /\ gap = [t \in Tables |-> 0]
  /\ setBack = 0
  /\ idle = [t \in Tables |-> 0]
  /\ lastCc = [p \in Pids |-> IF p = "aitPid" THEN 0 ELSE CCMod - 1]
  /\ flow = "ok"

-----------------------------------------------------------------------------
(* The tables that are added at the end of a buffer, when they are due. *)
Sent(t) == t \in defined /\ (t = "ait" => aitMode = "new")

(* No packet of the call is left; between calls there is none. *)
AtEnd == at = Len(input) \/ refused # 0

Older(a) == IF a < Aged THEN a + 1 ELSE Aged

(* Time passes.  While packets are processed nobody looks at the clock. *)
Tick ==
  /\ AtEnd /\ flow = "ok"
  /\ \A t \in Tables : Sent(t) => idle[t] < BufferGap
  /\ idle' = [t \in Tables |-> IF Sent(t) THEN idle[t] + 1 ELSE 0]
  /\ age' = [t \in Tables |-> Older(age[t])]
  /\ gap' = [t \in Tables |-> IF Sent(t) THEN Older(gap[t]) ELSE 0]
  /\ UNCHANGED <<aitMode, defined, input, at, refused, checked, array, cc,
                 setBack, lastCc, flow>>

(* The wall clock is set back; a table that is long due stays due. *)
ClockSetBack(d) ==
  /\ AtEnd /\ flow = "ok"
  /\ setBack + d <= MaxSetBack
  /\ setBack' = setBack + d
  /\ age' = [t \in Tables |-> IF age[t] = Aged THEN Aged ELSE age[t] - d]
  /\ UNCHANGED <<aitMode, defined, input, at, refused, checked, array, cc, gap,
                 idle, lastCc, flow>>

TakeBuffer(kinds) ==
  /\ input = <<>> /\ flow = "ok"
  /\ "ait" \in Range(kinds) => "ait" \in defined /\ aitMode = "replace"
  /\ input' = kinds
  /\ at' = 0 /\ refused' = 0 /\ checked' = 0
  /\ array' = <<>>
  /\ UNCHANGED <<aitMode, defined, cc, age, gap, setBack, idle, lastCc, flow>>

(* A buffer that is no whole number of packets: NULL, and a flow error, upon
   which the pipeline sends no more. *)
TakeBroken ==
  /\ input = <<>> /\ flow = "ok"
  /\ flow' = "error"
  /\ UNCHANGED <<aitMode, defined, input, at, refused, checked, array, cc, age,
                 gap, setBack, idle, lastCc>>

-----------------------------------------------------------------------------
Kind == input[at + 1]

(* The end of process_packet: appended packets, and the answer. *)
Answer_TwoSteps(packets, ok) ==
  /\ array' = array \o packets
  /\ at' = Min({at + 2, Len(input)})
  /\ refused' = IF ok THEN 0 ELSE at + 1
Answer(packets, ok) ==
  /\ array' = array \o packets
  /\ at' = at + 1
  /\ refused' = IF ok THEN 0 ELSE at + 1

(* The PMT rewriter appends one packet or none, and refuses a damaged one. *)
PmtPacket ==
  /\ Kind = "pmt"
  /\ \/ Answer(<<Out("pmt", at + 1, NoCc)>>, TRUE)
     \/ \E ok \in BOOLEAN : Answer(<<>>, ok)
  /\ UNCHANGED cc

(* A teletext packet passes before the assembler sees it; commands follow
   it, whatever the assembler answers. *)
TxtPacket_After ==
  /\ Kind = "txt"
  /\ \E commands \in 0..MaxCommands, ok \in BOOLEAN :
       Answer(IF ok THEN <<Out("txt", at + 1, NoCc)>>
                            \o [i \in 1..commands |-> Out("sit", 0, NoCc)]
                    ELSE <<>>, ok)
  /\ UNCHANGED cc
TxtPacket ==
  /\ Kind = "txt"
  /\ \E commands \in 0..MaxCommands, ok \in BOOLEAN :
       Answer(<<Out("txt", at + 1, NoCc)>>
                \o [i \in 1..commands |-> Out("sit", 0, NoCc)], ok)
  /\ UNCHANGED cc

(* The counter a packet of a table is sent with, and what is left for the
   next one on its PID. *)
Sending_NoWrap(t) ==
  [cc |-> cc[PidOf(t)] % CCMod, next |-> cc[PidOf(t)] + 1]
Sending_AsPair(t) ==
  LET c == cc[PidOf(t)] IN
  CASE t = "ait" -> [cc |-> c % CCMod, next |-> (c + 1) % CounterMod]
    [] t = "tdt" -> [cc |-> c % CCMod, next |-> c]
    [] t = "tot" -> [cc |-> (c + 1) % CCMod, next |-> (c + 2) % CounterMod]
Sending(t) ==
  [cc |-> cc[PidOf(t)] % CCMod, next |-> (cc[PidOf(t)] + 1) % CounterMod]

Count(t) == cc' = [cc EXCEPT ![PidOf(t)] = Sending(t).next]

(* An AIT packet is replaced by the one constructed. *)
AitPacket ==
  /\ Kind = "ait"
  /\ Answer(<<Out("ait", at + 1, Sending("ait").cc)>>, TRUE)
  /\ Count("ait")

OtherPacket ==
  /\ Kind = "other"
  /\ Answer(<<Out("other", at + 1, NoCc)>>, TRUE)
  /\ UNCHANGED cc

NoSync ==
  /\ Kind = "desync"
  /\ Answer(<<>>, FALSE)
  /\ UNCHANGED cc

ProcessPacket ==
  /\ input # <<>> /\ ~AtEnd
  /\ PmtPacket \/ TxtPacket \/ AitPacket \/ OtherPacket \/ NoSync
  /\ UNCHANGED <<aitMode, defined, input, checked, age, gap, setBack, idle,
                 lastCc, flow>>

-----------------------------------------------------------------------------
(* What the reading of the clock for a table finds. *)
Due(t) == Sent(t) /\ age[t] > Period

(* current_time - last_<table>_sent after it, set for a table that is sent. *)
Restarted_Always(t) == 0
Restarted(t) == IF Due(t) THEN 0 ELSE age[t]

(* The end of process_buffer, one table.  A buffer that was cut short gets the
   tables too.  TDT and TOT count on one counter, each when it is sent. *)
AddTable(t) ==
  /\ input # <<>> /\ AtEnd
  /\ checked < Len(Order) /\ t = Order[checked + 1]
  /\ checked' = checked + 1
  /\ idle' = [idle EXCEPT ![t] = 0]
  /\ age' = [age EXCEPT ![t] = Restarted(t)]
  /\ \/ /\ Due(t)
        /\ array' = Append(array, Out(t, 0, Sending(t).cc))
        /\ Count(t)
        /\ gap' = [gap EXCEPT ![t] = 0]
     \/ /\ ~Due(t)
        /\ UNCHANGED <<array, cc, gap>>
  /\ UNCHANGED <<aitMode, defined, input, at, refused, setBack, lastCc, flow>>

(* Where a sequence of outgoing packets has the tables of a PID, and the
   counter of the last. *)
OnPid(p, packets) ==
  {n \in DOMAIN packets : packets[n].kind \in Tables /\ PidOf(packets[n].kind) = p}
LastOn(p, packets) ==
  LET on == OnPid(p, packets)
  IN  IF on = {} THEN lastCc[p] ELSE packets[Max(on)].cc

(* The buffer is pushed to appsrc. *)
Deliver ==
  /\ input # <<>> /\ AtEnd /\ checked = Len(Order)
  /\ lastCc' = [p \in Pids |-> LastOn(p, array)]
  /\ input' = <<>> /\ at' = 0 /\ refused' = 0 /\ checked' = 0 /\ array' = <<>>
  /\ UNCHANGED <<aitMode, defined, cc, age, gap, setBack, idle, flow>>

Next ==
  \/ Tick
  \/ \E d \in 1..MaxSetBack : ClockSetBack(d)
  \/ \E n \in 1..MaxSize : \E kinds \in [1..n -> Kinds] : TakeBuffer(kinds)
  \/ TakeBroken
  \/ ProcessPacket
  \/ \E t \in Tables : AddTable(t)
  \/ Deliver

Spec == Init /\ [][Next]_vars

-----------------------------------------------------------------------------
(* The packets of the input that outputs stand for. *)
Origins(packets) == {packets[n].from : n \in DOMAIN packets} \ {0}

InOrder(packets) ==
  \A m, n \in DOMAIN packets :
    m < n /\ packets[m].from # 0 /\ packets[n].from # 0 =>
      packets[m].from < packets[n].from

(* Packets leave in the order they came, none twice, and one that is no PMT
   packet is lost only if it or one before it in the same buffer was refused:
   a refusal costs nothing of the buffers before or after it. *)
LossNeedsRefusal ==
  [][Deliver =>
       /\ InOrder(array)
       /\ \A i \in DOMAIN input \ Origins(array) :
            input[i] = "pmt" \/ (refused # 0 /\ i >= refused)]_vars

(* A teletext packet is forwarded even when the assembler refuses it. *)
TxtIsForwarded ==
  [][Deliver =>
       \A i \in 1..at : input[i] = "txt" => i \in Origins(array)]_vars

(* Each table is repeated: with its clock read at least every BufferGap, the
   true time between two of a kind exceeds 250 ms by no more than that and
   what the wall clock was set back. *)
TablesAreRepeated ==
  \A t \in Tables : Sent(t) => gap[t] <= Period + BufferGap + setBack

(* On the AIT PID and on PID 0x14, which TDT and TOT share, a receiver sees
   counters without a gap or a repetition, within and across buffers. *)
CountsUp(before, p, packets) ==
  LET on == OnPid(p, packets) IN
  \A n \in on :
    \/ /\ \A m \in on : n <= m
       /\ packets[n].cc = (before + 1) % CCMod
    \/ \E m \in on :
         /\ m < n /\ \A k \in on : k <= m \/ n <= k
         /\ packets[n].cc = (packets[m].cc + 1) % CCMod
TablesCountUp ==
  [][Deliver => \A p \in Pids : CountsUp(lastCc[p], p, array)]_vars
=============================================================================
