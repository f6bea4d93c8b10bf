-------------------------------- MODULE Pmt --------------------------------
(***************************************************************************)
(* The PMT rewriter: push_pmt_packet, get_next_pmt_packet and process_pmt  *)
(* of pmt.c.  It buffers the section that starts in a packet; when the     *)
(* next start arrives it edits what it has buffered, and from then on      *)
(* answers every packet of the PID with the edited section, until a start  *)
(* announces another version.                                              *)
(*                                                                         *)
(* Any packet of any table may arrive at any time, so packets may be lost, *)
(* repeated and reordered.  Of the bytes copied into the section buffer,   *)
(* the model keeps whether each lies where the table has it (intact); the  *)
(* parser of the GStreamer library refuses a section for its CRC when one  *)
(* does not.  The version number drawn for the edited section is left out. *)
(***************************************************************************)
EXTENDS PmtEdit

CONSTANTS
  Tables,      \* the tables broadcast
  Afs,         \* lengths of adaptation fields of starts, with the length
               \* byte; 0: none
  Stuffed,     \* and of continuations
  MaxPackets,  \* bound on the packets of a section
  GsizeBytes,  \* sizeof(gsize): 8, or 4 on a 32-bit machine
  CCMod,       \* 16
  CounterMod   \* cc_out is a guint8: 256

(* A start holds the header of its section up to the version (Afs);
   a last continuation may be stuffed but for one byte. *)
ASSUME PmtAssumption ==
  /\ \A t \in Tables :
       /\ t.version \in 0..31    \* five bits
       /\ t.info \in Nat
       /\ t.streams \in Seq([pid : 0..8191, size : Nat])
  /\ \A t, u \in Tables : t.version = u.version => t = u
  /\ Afs \subseteq 0..177
  /\ 0 \in Stuffed /\ Stuffed \subseteq 0..183
  /\ MaxPackets \in Nat
  /\ GsizeBytes \in {4, 8}
  /\ CCMod \in Nat \ {0}
  /\ CounterMod \in Nat \ {0} /\ CounterMod % CCMod = 0

VARIABLES
  section,   \* the table whose start is in raw_section_in; NoTable: NULL
  missing,   \* missing_bytes_from_section_in
  intact,    \* no byte in raw_section_in is out of place
  out,       \* the table in raw_section_out; NoTable: NULL
  ccOut,     \* cc_out
  status,    \* "runs", or how the process ended: "exit", "crash"
  emitted,   \* what the last push appended to packet_array
  started,   \* ghost: the table of the last start that was pushed
  ret        \* what push_pmt_packet returned

vars == <<section, missing, intact, out, ccOut, status, emitted, started, ret>>

NoTable == [version |-> -1, info |-> 0, streams |-> <<>>]
Nothing == [kind |-> "nothing", table |-> NoTable, cc |-> 0]
Forwarded == [kind |-> "forwarded", table |-> NoTable, cc |-> 0]

TypeOK ==
  /\ section \in Tables \cup {NoTable}
  /\ missing \in Nat
  /\ intact \in BOOLEAN
  /\ out \in {Edit(t) : t \in Tables} \cup {NoTable}
  /\ ccOut \in 0..(CounterMod - 1)
  /\ status \in {"runs", "exit", "crash"}
  /\ emitted \in [kind : {"nothing", "forwarded", "edited"},
                  table : {Edit(t) : t \in Tables} \cup {NoTable},
                  cc : 0..(CCMod - 1)]
  /\ started \in Tables \cup {NoTable}
  /\ ret \in BOOLEAN

Init ==
  /\ section = NoTable
  /\ missing = 0
  /\ intact = TRUE
  /\ out = NoTable
  /\ ccOut = 0
  /\ status = "runs"
  /\ emitted = Nothing
  /\ started = NoTable
  /\ ret = TRUE

-----------------------------------------------------------------------------
(* get_next_pmt_packet: the whole section in one packet, or nothing.  The
   counter advances in both cases. *)
NextPmtPacket_CountTwice(table, cc) ==
  /\ ccOut' = (cc + 2) % CounterMod
  /\ emitted' = IF SectionLength(table) < 181
                THEN [kind |-> "edited", table |-> table, cc |-> cc % CCMod]
                ELSE Nothing
NextPmtPacket_Limit(table, cc) ==
  /\ ccOut' = (cc + 1) % CounterMod
  /\ emitted' = IF SectionLength(table) < 180
                THEN [kind |-> "edited", table |-> table, cc |-> cc % CCMod]
                ELSE Nothing
NextPmtPacket(table, cc) ==
  /\ ccOut' = (cc + 1) % CounterMod
  /\ emitted' = IF SectionLength(table) < 181
                THEN [kind |-> "edited", table |-> table, cc |-> cc % CCMod]
                ELSE Nothing

Forward(cc) ==
  /\ ccOut' = cc
  /\ emitted' = Forwarded

(* process_pmt writes the edited length through a gsize pointer: with eight
   bytes it clears cc_out, four members further on, as well. *)
CounterAfterEdit == IF GsizeBytes = 8 THEN 0 ELSE ccOut

(* The buffer as the start of a section leaves it. *)
Capacity(af) == 183 - af
BufferStart(t, af) ==
  LET length == SectionLength(t) IN
  /\ section' = t
  /\ IF length < 181
     THEN /\ missing' = 0
          /\ intact' = (length <= Capacity(af))
     ELSE /\ missing' = length - 180 + af
          /\ intact' = TRUE

IsComplete == intact /\ missing = 0

NewVersion_Plus1(t) == section.version # t.version + 1
NewVersion(t) == section.version # t.version

(* A start, and no section yet: buffer it and forward the packet. *)
PushFirst(t, af) ==
  /\ section = NoTable
  /\ BufferStart(t, af)
  /\ Forward(ccOut)
  /\ UNCHANGED <<out, status>>

(* A start of the buffered version: edit the section if that is not done
   yet, and answer with it. *)
PushSame(t) ==
  /\ section # NoTable /\ ~NewVersion(t)
  /\ out # NoTable \/ IsComplete
  /\ IF out = NoTable
     THEN out' = Edit(section) /\ NextPmtPacket(out', CounterAfterEdit)
     ELSE UNCHANGED out /\ NextPmtPacket(out, ccOut)
  /\ UNCHANGED <<section, missing, intact, status>>

(* A start of another version: whatever was buffered or edited goes, the new
   section is buffered and the packet forwarded. *)
PushNew_KeepsOut(t, af) ==
  /\ section # NoTable /\ NewVersion(t)
  /\ out # NoTable
  /\ BufferStart(t, af)
  /\ NextPmtPacket(out, ccOut)
  /\ UNCHANGED <<out, status>>
PushNew(t, af) ==
  /\ section # NoTable /\ NewVersion(t)
  /\ out # NoTable \/ IsComplete
  /\ out' = NoTable
  /\ BufferStart(t, af)
  /\ Forward(IF out = NoTable THEN CounterAfterEdit ELSE ccOut)
  /\ UNCHANGED status

(* A start that finds a section it cannot parse: process_pmt follows the NULL
   that the parser returns. *)
PushOnBroken ==
  /\ section # NoTable
  /\ out = NoTable /\ ~IsComplete
  /\ status' = "crash"
  /\ emitted' = Nothing
  /\ UNCHANGED <<section, missing, intact, out, ccOut>>

PushStart(t, af) ==
  /\ status = "runs"
  /\ started' = t
  /\ ret' = TRUE
  /\ \/ PushFirst(t, af)
     \/ PushSame(t)
     \/ PushNew(t, af)
     \/ PushOnBroken

(* A start whose section begins later in the packet, or is no PMT. *)
PushForeign ==
  /\ status = "runs"
  /\ status' = "exit"
  /\ emitted' = Nothing
  /\ UNCHANGED <<section, missing, intact, out, ccOut, started, ret>>

(* Where in table t's section the k-th continuation packet begins, if the
   first packet has af bytes of adaptation field. *)
ContinuesAt(af, k) == Capacity(af) + 184 * (k - 1)

(* Whether n bytes copied from a payload after af bytes land where table t's
   section has them. *)
InPlace(t, from, af, n) ==
  /\ t = section
  /\ from = SectionLength(section) - missing
  /\ n <= 184 - af

CopyBytes_Unchecked(t, from, af) ==
  LET n == 181 - af
  IN  /\ missing' = missing - n
      /\ intact' = (intact /\ (n = 0 \/ InPlace(t, from, af, n)))
(* Copying into the buffer, from a continuation whose payload follows af
   bytes and begins with byte from of table t's section. *)
CopyBytes(t, from, af) ==
  LET n == IF missing < 182 THEN missing ELSE 181 - af
  IN  /\ missing' = missing - n
      /\ intact' = (intact /\ (n = 0 \/ InPlace(t, from, af, n)))

(* A section that expects more than a packet, and a continuation stuffed to its
   last two bytes: memcpy is given a negative number of bytes. *)
CopyFails(af) == section # NoTable /\ missing >= 182 /\ af > 181

(* No start: append if there is a buffer; answer as ever. *)
PushContinuation(t, from, af) ==
  /\ status = "runs"
  /\ ~CopyFails(af)
  /\ IF section # NoTable THEN CopyBytes(t, from, af)
                          ELSE UNCHANGED <<missing, intact>>
  /\ IF out # NoTable THEN NextPmtPacket(out, ccOut) ELSE Forward(ccOut)
  /\ ret' = TRUE
  /\ UNCHANGED <<section, out, status, started>>

PushOverfull(af) ==
  /\ status = "runs"
  /\ CopyFails(af)
  /\ status' = "crash"
  /\ emitted' = Nothing
  /\ UNCHANGED <<section, missing, intact, out, ccOut, started, ret>>

(* Transport error indicator, or scrambled: refused, nothing appended. *)
PushErrored ==
  /\ status = "runs"
  /\ emitted' = Nothing
  /\ ret' = FALSE
  /\ UNCHANGED <<section, missing, intact, out, ccOut, status, started>>

(* Continuations of a section; a packet with an adaptation field alone is
   taken for one and continues nothing. *)
PushAnyContinuation ==
  \/ \E t \in Tables, first \in Afs, af \in Stuffed, k \in 1..MaxPackets :
       /\ ContinuesAt(first, k) < SectionLength(t)
       /\ PushContinuation(t, ContinuesAt(first, k), af)
  \/ PushContinuation(NoTable, -1, 0)
  \/ \E af \in Stuffed : PushOverfull(af)

Next ==
  \/ \E t \in Tables, af \in Afs : PushStart(t, af)
  \/ PushForeign
  \/ PushAnyContinuation
  \/ PushErrored

Spec == Init /\ [][Next]_vars

(* The broadcaster repeats the table. *)
FairSpec == Spec /\ WF_vars(\E t \in Tables, af \in Afs : PushStart(t, af))

-----------------------------------------------------------------------------
(* Sections that a single packet carries to its end, and that the edit keeps
   short enough to be sent. *)
FitsIn(t, af) == SectionLength(t) < 181 /\ SectionLength(t) <= Capacity(af)
FitsOut(t) == SectionLength(Edit(t)) < 181

(* An edited table that goes out has the version that the last start
   announced: after a start of a new version, no packet of any kind brings
   the old table back (pmt.c:150-155,181). *)
NoStalePmt ==
  emitted.kind = "edited" => emitted.table.version = started.version

(* The edit that is repeated is that of the section buffered. *)
OutFollowsIn == out # NoTable => out = Edit(section)

(* A section that one packet carries to its end never stops the program, with
   whatever continuations or repetitions it arrives. *)
CrashNeedsLongSection ==
  status = "crash" => \E af \in Afs : ~FitsIn(section, af)

(* The PMT PID falls silent only while an errored packet is refused or the
   edited section is too long: no other push is left unanswered. *)
Answered ==
  emitted.kind = "nothing" /\ ret /\ status = "runs" /\ started # NoTable =>
    out # NoTable /\ ~FitsOut(section)

(* Edited packets in a row count up. *)
EditsCountUp ==
  [][emitted.kind = "edited" /\ emitted'.kind = "edited" =>
       emitted'.cc = (emitted.cc + 1) % CCMod]_vars

(* A receiver of the output sees every stream of the table but the AIT, in
   order, and exactly one AIT stream behind them if no PID occurs twice in the
   table and the two configured PIDs differ. *)
Others(s) == Kept(s, {n \in DOMAIN s : s[n].pid \notin {AitPid, SctePid}})
PidsDiffer(s) == \A m, n \in DOMAIN s : s[m].pid = s[n].pid => m = n
EditKeepsStreams ==
  out # NoTable =>
    /\ Others(out.streams) = Others(section.streams)
    /\ AitDefined /\ AitPid # SctePid /\ PidsDiffer(section.streams) =>
         {n \in DOMAIN out.streams : out.streams[n].pid = AitPid} = {Len(out.streams)}

(* A table that is repeated is soon the one on the output, and stays. *)
StablePmtIsRewritten ==
  \A t \in Tables :
    FitsOut(t) =>
      (<>[](started = t /\ ret /\ status = "runs")
         => <>[](emitted.kind = "edited" /\ emitted.table = Edit(t)))

(* pmt.c:146: "We have a complete PMT section from th eincoming stream". *)
StartFindsCompleteSection ==
  [][\A t \in Tables, af \in Afs :
       PushStart(t, af) /\ section # NoTable => IsComplete]_vars
=============================================================================
