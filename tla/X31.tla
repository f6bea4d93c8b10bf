-------------------------------- MODULE X31 --------------------------------
(***************************************************************************)
(* Detection of X/31 signalling in a teletext PES packet and the SCTE-35   *)
(* commands sent for it: process_txt_pes_buffer of x31.c, add_splice and   *)
(* packetize_sit of scte35.c.                                              *)
(*                                                                         *)
(* A call of process_txt_pes_buffer is TakePes followed by one Iterate per *)
(* iteration of its loop, and nothing else happens in between.  A reading  *)
(* is what one iteration finds at txt_payload: the two Hamming-decoded     *)
(* address nibbles and the GPI byte.  Only the first reading of a PES is   *)
(* one of its data units; the later ones may be any bytes, because the     *)
(* step to the next unit is one byte short (module DataUnits) and a PES    *)
(* that lost its end is read past its buffer (module TxtPes).              *)
(***************************************************************************)
EXTENDS Integers, Sequences

CONSTANTS
  SpliceIn, SpliceOut,  \* txt->splice_in, txt->splice_out
  Levels,               \* GPI values the source signals
  Noise,                \* readings of anything but a proper X/31 unit
  MaxReadings,          \* bound on the iterations of one call
  EventIds,             \* values of g_rand_int
  NullAge,              \* 40 s without a command: send splice_null
  MaxSetBack,           \* how far the wall clock is ever set back
  SetBacks,             \* how often
  PtsMod, Preroll,      \* 2^33; txt->preroll
  CCMod, CounterMod     \* 16; scte35->cc is a guint8: 256

(* y, the number the packet was sent under, is a ghost. *)
Bad == 255    \* unham84tab of a byte with two wrong bits

Reading == [c1 : (0..15) \cup {Bad}, c2 : (0..15) \cup {Bad}, gpi : 0..255, y : 0..31]

ASSUME X31Assumption ==
  /\ SpliceIn # SpliceOut /\ SpliceIn # 0 /\ SpliceOut # 0
  /\ Levels \subseteq 0..255 /\ Noise \subseteq Reading
  /\ MaxReadings \in Nat
  /\ NullAge \in Nat /\ MaxSetBack \in Nat /\ SetBacks \in Nat
  /\ EventIds \subseteq Nat
  /\ PtsMod \in Nat \ {0} /\ Preroll \in 0..(PtsMod - 1)
  /\ CCMod \in Nat \ {0}
  /\ CounterMod \in Nat \ {0} /\ CounterMod % CCMod = 0

VARIABLES
  gpis,      \* static gpis
  event_id,  \* static event_id
  age,       \* current_time - last_scte_sent, NullAge + 1 standing for more
  cc,        \* scte35->cc
  todo,      \* readings the running call has yet to make; empty between calls
  pts,       \* PTS of the PES being processed, or processed last
  setbacks,  \* times the wall clock was set back
  source,    \* the level the broadcaster signals
  sit,       \* ghost: the last SCTE-35 packet in packet_array
  splice,    \* ghost: the last one that was no splice_null
  lastOut    \* ghost: the id of the last splice_out

vars == <<gpis, event_id, age, cc, todo, pts, setbacks, source, sit, splice, lastOut>>

(* A proper X/31 unit: magazine 8 (sent as 0), packet 31, low bit in the
   first nibble. *)
X31Reading(level) == [c1 |-> 8, c2 |-> 15, gpi |-> level, y |-> 31]

NoSit == [type |-> "-", event |-> 0, time |-> 0, cc |-> CCMod - 1]

TypeOK ==
  /\ gpis \in 0..255
  /\ event_id \in EventIds \cup {0}
  /\ age \in (-MaxSetBack)..(NullAge + 1)
  /\ cc \in 0..(CounterMod - 1)
  /\ todo \in Seq(Reading)
  /\ pts \in 0..(PtsMod - 1)
  /\ setbacks \in 0..SetBacks
  /\ source \in Levels
  /\ {sit, splice} \subseteq
       [type : {"-", "N", "I", "O"}, event : EventIds \cup {0},
        time : 0..(PtsMod - 1), cc : 0..(CCMod - 1)]
  /\ lastOut \in EventIds \cup {0}

Init ==
  /\ gpis = 0
  /\ event_id = 0
  /\ age = NullAge + 1      \* last_scte_sent is 0, the time is not
  /\ cc = 0
  /\ todo = <<>>
  /\ pts = 0
  /\ setbacks = 0
  /\ source \in Levels
  /\ sit = NoSit /\ splice = NoSit
  /\ lastOut = 0

-----------------------------------------------------------------------------
(* packetize_sit: bytes of the section.  A splice_in or splice_out is one
   program splice with a time and no duration. *)
SitLength(type) ==
  20 + (IF type = "N" THEN 0 ELSE 5 + 5 + 5)

(* None is refused for its length, so add_splice succeeds for every type
   that process_txt_pes_buffer asks for. *)
ASSUME SitFits == \A type \in {"N", "I", "O"} : SitLength(type) < 184

SpliceTime_NoWidth(t) == t
SpliceTime_LowWord(t) == t % (PtsMod \div 2)
(* The splice time has 33 bits in the section: bit 32, then the low word. *)
SpliceTime(t) == t % PtsMod

(* The commands; a splice_null has neither event nor time. *)
Sit(type, event, time, count) ==
  [type |-> type, cc |-> count % CCMod,
   event |-> IF type = "N" THEN 0 ELSE event,
   time |-> IF type = "N" THEN 0 ELSE SpliceTime(time)]

AddSplice_NoCount(type, event, time) ==
  /\ sit' = Sit(type, event, time, cc)
  /\ cc' = cc
AddSplice(type, event, time) ==
  /\ sit' = Sit(type, event, time, cc)
  /\ cc' = (cc + 1) % CounterMod

-----------------------------------------------------------------------------
(* (c >> 3) & 0x1f, where c = (c2 << 4) | (c1 & 0x0f) in 8 bits. *)
PacketNr(r) == (16 * (r.c2 % 16) + (r.c1 % 16)) \div 8

IsX31(r) == PacketNr(r) = 31

(* The source changes its level. *)
Signal(level) ==
  /\ todo = <<>>
  /\ source' = level
  /\ UNCHANGED <<gpis, event_id, age, cc, todo, pts, setbacks, sit, splice, lastOut>>

(* Time passes between calls. *)
Tick ==
  /\ todo = <<>>
  /\ age <= NullAge
  /\ age' = age + 1
  /\ UNCHANGED <<gpis, event_id, cc, todo, pts, setbacks, source, sit, splice, lastOut>>

(* g_get_real_time is the wall clock, which may be set back. *)
ClockSetBack(d) ==
  /\ todo = <<>>
  /\ setbacks < SetBacks
  /\ age - d >= -MaxSetBack
  /\ age' = age - d
  /\ setbacks' = setbacks + 1
  /\ UNCHANGED <<gpis, event_id, cc, todo, pts, source, sit, splice, lastOut>>

(* process_txt_pes_buffer is entered with a PES that has a PTS and starts
   with an X/31 unit, or with anything else.  One that has no PTS, is no
   private stream or holds no EBU data is left at once, and changes nothing. *)
TakePes(readings, t) ==
  /\ todo = <<>>
  /\ todo' = readings
  /\ pts' = t
  /\ UNCHANGED <<gpis, event_id, age, cc, setbacks, source, sit, splice, lastOut>>

Followers == UNION {[1..n -> Noise] : n \in 0..(MaxReadings - 1)}

TakeX31Pes ==
  \E f \in Followers, t \in 0..(PtsMod - 1) :
    TakePes(<<X31Reading(source)>> \o f, t)

TakeOtherPes ==
  \E r \in Noise, f \in Followers, t \in 0..(PtsMod - 1) :
    TakePes(<<r>> \o f, t)

-----------------------------------------------------------------------------
(* One iteration of the loop, by what it reads. *)
SkipUnit(r) ==
  /\ ~IsX31(r)
  /\ UNCHANGED <<gpis, event_id, age, cc, sit, splice, lastOut>>

NewLevel(r) == IsX31(r) /\ r.gpi # gpis

(* The end of a break: the command carries the id of the last splice_out. *)
SpliceInSeen_FreshId(r) ==
  /\ NewLevel(r) /\ r.gpi = SpliceIn
  /\ \E e \in EventIds \ {event_id} : AddSplice("I", e, pts + Preroll)
  /\ splice' = sit'
  /\ age' = 0
  /\ gpis' = r.gpi
  /\ UNCHANGED <<event_id, lastOut>>
SpliceInSeen_NotStored(r) ==
  /\ NewLevel(r) /\ r.gpi = SpliceIn
  /\ AddSplice("I", event_id, pts + Preroll)
  /\ splice' = sit'
  /\ age' = 0
  /\ UNCHANGED <<event_id, gpis, lastOut>>
SpliceInSeen_OnlyInBreak(r) ==
  /\ NewLevel(r) /\ r.gpi = SpliceIn
  /\ IF event_id # 0
     THEN AddSplice("I", event_id, pts + Preroll) /\ splice' = sit' /\ age' = 0
     ELSE UNCHANGED <<age, cc, sit, splice>>
  /\ gpis' = r.gpi
  /\ UNCHANGED <<event_id, lastOut>>
SpliceInSeen(r) ==
  /\ NewLevel(r) /\ r.gpi = SpliceIn
  /\ AddSplice("I", event_id, pts + Preroll)
  /\ splice' = sit'
  /\ age' = 0
  /\ gpis' = r.gpi
  /\ UNCHANGED <<event_id, lastOut>>

(* The start of a break, under a random id. *)
SpliceOutSeen(r) ==
  /\ NewLevel(r) /\ r.gpi = SpliceOut
  /\ event_id' \in EventIds
  /\ AddSplice("O", event_id', pts + Preroll)
  /\ splice' = sit'
  /\ lastOut' = event_id'
  /\ age' = 0
  /\ gpis' = r.gpi

(* A level without a command is remembered, and nothing is sent for it. *)
OtherLevelSeen_Ignored(r) ==
  /\ NewLevel(r) /\ r.gpi \notin {SpliceIn, SpliceOut}
  /\ UNCHANGED <<gpis, event_id, age, cc, sit, splice, lastOut>>
OtherLevelSeen(r) ==
  /\ NewLevel(r) /\ r.gpi \notin {SpliceIn, SpliceOut}
  /\ gpis' = r.gpi
  /\ UNCHANGED <<event_id, age, cc, sit, splice, lastOut>>

(* A level that is not new is answered by splice_null, if 40 s have passed
   since the last command, and else by nothing. *)
RepeatedLevelSeen_AlwaysReset(r) ==
  /\ IsX31(r) /\ r.gpi = gpis
  /\ IF age > NullAge THEN AddSplice("N", 0, 0) ELSE UNCHANGED <<cc, sit>>
  /\ age' = 0
  /\ UNCHANGED <<gpis, event_id, splice, lastOut>>
RepeatedLevelSeen(r) ==
  /\ IsX31(r) /\ r.gpi = gpis
  /\ IF age > NullAge THEN AddSplice("N", 0, 0) /\ age' = 0
                      ELSE UNCHANGED <<age, cc, sit>>
  /\ UNCHANGED <<gpis, event_id, splice, lastOut>>

Iterate ==
  /\ todo # <<>>
  /\ todo' = Tail(todo)
  /\ LET r == Head(todo) IN
       \/ SkipUnit(r)
       \/ SpliceInSeen(r)
       \/ SpliceOutSeen(r)
       \/ OtherLevelSeen(r)
       \/ RepeatedLevelSeen(r)
  /\ UNCHANGED <<pts, setbacks, source>>

Next ==
  \/ \E level \in Levels : Signal(level)
  \/ Tick
  \/ \E d \in 1..MaxSetBack : ClockSetBack(d)
  \/ TakeX31Pes
  \/ TakeOtherPes
  \/ Iterate

Spec == Init /\ [][Next]_vars

(* A loop that is entered is left; X/31 units keep coming, whatever comes
   between them; and time passes. *)
FairSpec ==
  Spec /\ WF_vars(Iterate) /\ SF_vars(TakeX31Pes) /\ SF_vars(Tick)

-----------------------------------------------------------------------------
(* Downstream is in a break exactly when the last level seen says so: the
   level that the detector compares with is the one it has signalled, for
   every sequence of levels, repeats, misreadings and lost PES packets
   (x31.c:119-131). *)
LevelIsSignalled ==
  /\ gpis = SpliceOut => splice.type = "O"
  /\ gpis = SpliceIn => splice.type = "I"

(* A splice_in ends the break that was announced last: it repeats the id of
   the last splice_out, also after levels without a command and after
   splice_null packets (id 0 when there was no break yet). *)
InClosesOut == splice.type = "I" => splice.event = lastOut

(* A level is signalled once, however often its X/31 packet is repeated. *)
OneCommandPerEdge == [][splice' # splice => gpis' # gpis]_vars

(* The command takes effect Preroll after the PES that carried the level,
   also where the 33-bit clock wraps (x31.c:102,122,126). *)
PrerollHonoured ==
  [][splice' # splice => (splice'.time - pts) % PtsMod = Preroll]_vars

(* Nulls and commands share one gapless continuity counter. *)
CcFollows == [][sit' # sit => sit'.cc = (sit.cc + 1) % CCMod]_vars

(* A level that the source keeps is the detector's level again and again,
   whatever PES packets and readings it misses in between. *)
LevelIsSeen == \A level \in Levels : <>[](source = level) => []<>(gpis = level)

(* While one level is repeated, SCTE-35 packets keep coming: the counter
   takes every value again and again.  (Levels without a command that take
   turns silence it: each is new, so no null is sent.) *)
OnlyReads(level) == \A i \in DOMAIN todo : IsX31(todo[i]) => todo[i].gpi = level
Heartbeat ==
  \A level \in Levels :
    <>[](source = level /\ OnlyReads(level)) =>
      \A c \in 0..(CCMod - 1) : []<>(sit.cc = c)

(* x31.c:117: "We have an X31 packet!!!!": what the detector acts on was
   sent as packet 31. *)
ActsOnX31Only ==
  [][gpis' # gpis \/ sit' # sit => Head(todo).y = 31]_vars
=============================================================================
