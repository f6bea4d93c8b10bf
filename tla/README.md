# A specification of tstk

`tstk` (`src/src/*.c`) is a GStreamer program that rewrites a live MPEG
transport stream (TS): it edits the program map table (PMT), turns X/31
signalling in teletext into SCTE-35 splice commands, and adds HbbTV (AIT) and
time tables (TDT, TOT). This directory holds TLA+ specifications of it, the
configurations under which TLC checks them, and proofs that TLAPS checks. Line
numbers below are those of `src/src/`.

    tlc -config X31.cfg MCX31      # one run; PROJECT.json lists all
    tlapm X31Proofs.tla            # one proof module

## 1. The system

All packet work happens on the streaming thread of one GStreamer pipeline.
appsink's `new-sample` signal calls `on_new_sample_from_sink` (main.c), which
hands the buffer to `process_buffer` (buffer.c). That cuts it in packets of 188
bytes, gives each to `process_packet`, adds the tables that are due, and returns
a new buffer for the appsrc of a second pipeline.

    appsink -> process_buffer -> process_packet --PMT PID--> push_pmt_packet
                    |                  |--teletext PID--> push_txt_packet
                    |                  |                   -> process_txt_pes_buffer
                    |                  |                       -> add_splice
                    |                  `--AIT PID, replace--> prepared AIT packet
                    `-- AIT (mode new), TDT, TOT -> appsrc

| Component | State it keeps | Operations | Hard part | Correct when | Module |
|---|---|---|---|---|---|
| Teletext PES assembler (x31.c) | `txt->pes_buffer`, `txt->cc` | `new_txt_buffer`, `clear_txt_buffer`, `push_txt_packet` | lost, repeated, reordered packets; 4-bit counters kept in 8 bits | what is read is one PES, and a good PES is never given up | `TxtPes`, `PesFeed` |
| X/31 detector, SCTE-35 inserter (x31.c, scte35.c) | statics `gpis`, `event_id`, `last_scte_sent`; `scte35->cc` | `process_txt_pes_buffer`, `add_splice`, `packetize_sit` | statics that outlive PES packets; repeats; wall clock; 33-bit times | commands agree with the levels read | `X31`, `DataUnits` |
| PMT rewriter (pmt.c) | buffered section, edited section, `missing_bytes...`, `cc_out` | `push_pmt_packet`, `process_pmt`, `get_next_pmt_packet` | versions change under it; sections at the packet boundary; process exits | output is a right edit of the table announced last | `Pmt`, `PmtEdit` |
| Buffer processing (buffer.c) | repetition clocks, `pid20_cc`, `ait->cc` | `process_buffer`, `process_packet` | one refused packet drops the rest; shared PID and counter; wall clock | nothing else is lost, tables are repeated in time | `ProcessBuffer` |
| The way from packets to commands | - | one call of `process_buffer` through both components above | a refusal drops the rest of a buffer; level, PTS and event id come from different calls | each command answers one PES | `Program`, `Signalling` |
| AIT, TDT and TOT contents (ait.c, tdt.c) | prepared packets | `construct_ait`, `construct_tot`, `get_tdt_packet`, `get_tot_packet` | lengths written in several places; date arithmetic | well-formed sections, right dates | `Sections`, `Dates`, `Tables` |
| EIT, NIT, SDT (eit.c, main.c) | none | sent once to mpegtsmux | lengths, the start time | well-formed sections | EIT in `Sections`, `Tables` |
| Pipelines and main loop (main.c) | two pipelines, two bus watches, the main loop | start, end of stream, error, shutdown | bus callbacks against the streaming thread | every end of the stream quits the loop, after the output has drained | `Pipeline`, `Relay` |
| Configuration (main.c, config.h) | `Settings` | read once | none | - | constants of the modules |
| `dsmcc.h` | - | - | - | an empty header | - |

The components share `ProgramData`, and the output `packet_array` of the running
call; they call each other synchronously, so the interleavings that matter are
those of packets, not of threads. What is concurrent is the wall clock, the
source (which changes levels and tables when it likes), and in main.c the main
thread with its two bus watches against the two streaming threads.

## 2. The modules

Every model's steps are the calls that one packet (or one iteration of a loop, or
one buffer) causes. Ghost variables, marked as such in the declarations, only
record history. Recursion is written as recursive functions, which can be proved
about (`Kept` and `SectionLength` of the PMT, `Joined`, `Total` and the reader of
`Sections`).

### PesFeed, TxtPes: teletext assembly

`PesFeed` is the abstract promise: a reader that knows every packet's true
number, extends its buffer by the next packet of the same PES or drops it.
`TxtPes` has what the code has: a buffer that may be allocated and empty
(`open`, `pes`), and an 8-bit counter compared modulo 16. Packet *k* carries
counter *k* mod `CCMod`; a buffer is the sequence of numbers of the packets whose
payload it holds. The actions are the paths through `push_txt_packet`: a start
with or without an open buffer, a continuation that fits, that does not fit, or
that nobody waits for, a packet with an adaptation field, and an errored or
scrambled one. The channel may lose, repeat and reorder packets, as long as a
continuation is no further than `Ahead` or `Back` from the one waited for, with
`Ahead + Back < CCMod`: beyond that a 4-bit counter cannot tell packets apart,
and no code could.

`PushStartOnEmpty` is the second of two starts of which the first had no PES
header: `g_array_steal` returns NULL for the empty array and line 95 follows it.
The model stops there, as the program does.

### X31: detection and splice commands

A call of `process_txt_pes_buffer` is one `TakePes` and one `Iterate` per data
unit looked at; a *reading* is what an iteration finds (two decoded address
nibbles, the GPI byte). The nibbles are combined as the code combines them
(`PacketNr`), with 0xff for an uncorrectable byte. Only the first reading of a PES
is surely one of its units (the step to the next is one byte short, see
`DataUnits`), so later readings are arbitrary members of `Noise`. `age` is
`current_time - last_scte_sent`; it grows between calls, and `ClockSetBack` takes
from it, because `g_get_real_time` is the wall clock. `Sit` is what `packetize_sit`
writes: the type, the event id, the 33-bit splice time, and the counter.

### DataUnits: the step to the next unit

The walk of lines 107-144 over the bytes of a PES data field: a unit is an id
byte, a length byte and that many bytes, and the code advances by length plus one.

### PmtEdit, Pmt: the PMT

`PmtEdit` is the change itself, on tables of a version, descriptor bytes and
streams: the removal loop as it is written (it skips the element after a removed
one), the SCTE-35 stream and the AIT stream. That it leaves one AIT stream needs
what `PidsDiffer` says: of two neighbours on the AIT PID the loop removes the
first only, and a table whose AIT and SCTE-35 streams share a PID has two on it.
`Pmt` is the state machine around it.
Of the bytes in `raw_section_in` it keeps whether each lies where the table has it
(`intact`), computed from the offsets that the copies use; the section parser
refuses a section for its CRC when one does not, and `process_pmt` follows the
NULL (`PushOnBroken`). Lengths are bytes, with the constants of the code (181, 182,
184). Adaptation fields are bytes with their length byte. A continuation may be
stuffed but for one byte (`Stuffed`, up to 183): beyond 181 the number of bytes to
copy, 181 less the field, is negative, and the `memcpy` of line 176 stops the
program when the section still lacks more than a packet (`PushOverfull`). A start
has at most 177 (`Afs`), so that the packet holds the section's header up to the
version. Longer ones are not modelled: the code would take version and length from
the bytes behind the packet, and from 181 on line 164 could copy a negative number
of bytes. Every packet of every table may arrive at any time. `PushForeign` is the
code's `exit(-1)`. With a `gsize` of eight bytes line 72 clears `cc_out`
(`CounterAfterEdit`). The random version number of the edited section is left out.

### ProcessBuffer: one buffer

`TakeBuffer`, one `ProcessPacket` per packet, one `AddTable` for each of AIT, TDT
and TOT, and `Deliver`. What the PMT rewriter and the assembler may append and
answer is taken from their modules as a choice; the loop ends at the first FALSE.
Which tables are configured (`defined`) is a choice from `DefinedSets`, because
their groups in the configuration file are optional; a table is sent when it is
configured, the AIT also only in mode `new` (`Sent`). Each `AddTable` is a reading
of the clock of its own (lines 60, 68 and 79), and time passes and is set back
between readings as well as between calls, so that TDT and TOT, on their one
counter, are due together or one without the other. While packets are processed
nobody looks at the clock, and time stands still. The clocks are `age` (the
program's, from the wall clock) and `gap` (the true one, a ghost); `idle`, a ghost,
is the time since a table's clock was read, which `BufferGap` bounds. A buffer has
at least one packet. In mode `new`, and for PID 0x14, the input is assumed to have
no packets of its own on the PIDs that are added, as the sample configurations
describe it. TDT and TOT contents are opaque; `get_tdt_packet` and
`get_tot_packet` always return TRUE. Order and losses are stated over the indices
of the array (`InOrder`, `Origins`), counters over those of one PID (`OnPid`).
`CounterMod` is greater than 1: with a counter of one value a table would have to
precede itself.

### Signalling, Program: from packets to commands

`Program` composes `TxtPes` and `X31` (both by `INSTANCE`) under the loop of
`process_buffer` over teletext packets. A start packet hands the assembler's
buffer to the detector (`Process`): what the detector reads is the first data
unit of the PES that the *first* packet of that buffer belongs to, and its PTS;
a buffer without a PES header is left at once. The detector's loop runs to its
end before the next packet (`Push` needs `todo = <<>>`), and on FALSE the rest of
the buffer is lost (`NextPacket`). One assumption is `Program`'s own: bytes behind
the first data unit, and data units that are not X/31, do not look like packet 31
(`ProgramAssumption`); `x31_damaged` is about what happens when they do.
`Signalling` is the abstract promise: a detector without counters, buffers or
loops that reads whole PES packets, some of those sent, in any order.

### Relay, Pipeline: the two pipelines

`Pipeline` has three threads: `main()` (`pc`), which starts the sink and then the
source, runs the loop, and stops source, then sink; the source's streaming thread
(`thread`), which runs `on_new_sample_from_sink` as `TakeSample` and one of
`PushSample`, `SourceFails` (process_buffer returned NULL) and `CallbackExits`
(`exit(-1)` in pmt.c); and the sink's (`sink`). One iteration of the main loop
dispatches at most one message of either bus. Samples are counted: queues are
FIFO. `Relay` is the abstract promise: samples are relayed, and the end is
"complete" only when the source is over and all it gave is played, and nothing
failed.

GStreamer is external, and modelled by these facts about it: a pipeline whose
streaming thread fails posts ERROR and then EOS; EOS is posted behind the last
sample; an appsrc that is not started or has ended refuses samples, whereupon
upstream pauses and posts nothing; appsrc never blocks (`block` is left FALSE);
messages posted before the loop runs are kept; setting a pipeline to NULL waits
for its streaming thread to leave the callback, and flushes its bus.

### Dates, Sections, Tables: the tables' contents

`Dates` has the two branches of tdt.c's date formula in integers (scaled by
10000; the code's `double` sum is truncated once, and no sum comes close enough to
an integer for rounding to matter), `Sections` the byte layouts of AIT, TOT and
EIT with every byte that is not a length set to 0, and a reader that follows the
length fields. `Tables` puts them together: any lengths of the three configured
strings at start (`construct_ait` refuses some), then a walk day by day, in a
calendar that is independent of the formula, with the true number of the day in
`mjd`. The event of the EIT starts when the program does; it is dated as if that
were each day of the walk. The lengths of strings are not bounded: beyond 250
bytes a descriptor's `guint8` length wraps, as in the code, and with it what
`g_new0` allocates. A URL of 251 bytes (or 256 more) has it allocate nothing, and
the program writes through NULL (`NothingAllocated`). Any other string whose
length wraps is copied past its buffer; the model follows the outcome in which
that hurts nothing else.

### Numbers and the proof modules

`Numbers` has the lemmas that several proofs need: remainders, induction over
`0..N`, and that recursion along it defines a function. `TxtPesProofs`, `X31Proofs`,
`PmtProofs`, `ProcessBufferProofs`, `ProgramProofs`, `PipelineProofs` and
`TablesProofs` hold the theorems on the module in their name. `MCTxtPes`,
`MCX31`, `MCPmt`, `MCProgram` and `MCTables` only give constants values.

## 3. What TLC checks

| Run | Question and answer | Bounds |
|---|---|---|
| `txtpes` | No splice or hole is ever read (`PrefixOfOnePes`); a PES that arrives in order is never given up (`InOrderIsKept`); TRUE with an open buffer means stored (`TrueMeansStored`); `TxtPes` implements `PesFeed` | `CCMod` 4, `CounterMod` 8, two packets ahead, one back: both counters wrap, and the window is the largest that `CCMod` allows |
| `x31` | The level compared with is the one signalled (`LevelIsSignalled`); a splice_in ends the last break (`InClosesOut`); a level is signalled once (`OneCommandPerEdge`); PTS plus preroll wraps right (`PrerollHonoured`); counters are gapless (`CcFollows`); a level that is kept is read again and again (`LevelIsSeen`); the null heartbeat does not stop while it is (`Heartbeat`) | three levels, one of them without a command; three kinds of misreading, two readings a PES; a clock of 2 values with preroll 1, so that the sum wraps from one of them; counters of 2 and 4, of which both wrap; one setback of the wall clock. Liveness needs the state space small; the safety properties are proved for every value |
| `pmt` | See the text below the table | six tables: plain, with an AIT, an edit one byte below the limit, an edit above it, a full packet, two and three packets; adaptation fields of 0, 3, 10 bytes on starts, of 0, 3, 181 and 182 on continuations |
| `buffer` | Packets keep their order and are lost only behind a refused one (`LossNeedsRefusal`); teletext is always forwarded (`TxtIsForwarded`); each table configured is repeated in time (`TablesAreRepeated`) under gapless counters (`TablesCountUp`) | TDT and TOT without the AIT, AIT and TOT without the TDT, and all three; buffers of one and two packets of five kinds (two packets suffice for one behind a refused one, and for two AIT packets); period 1, gap 1, one setback: with time between the readings of a call, TDT and TOT get out of step at once; up to one command a packet; counters of 4 and 8 |
| `program` | Losses, repeats and reorderings of teletext packets, and the ends of buffers that a refusal drops, never mix two PES in one command (`ImplementsSignalling`); the detector's level is that of the PES handed over last (`LevelOfLastPes`) | five PES over eight packets: one without a header, one without a level, one with a level that is no command; counters of 4, three places of displacement, buffers of two packets, two readings a PES |
| `pipeline` | The callback finds its objects alive (`CallbackHasSink`); the loop ends by the sink's end of stream only when every sample was played (`ImplementsRelay`); a failure or the end of either stream ends the program (`EndsOnceOver`) | three samples: one played, one queued, one in the callback |
| `tables` | A receiver that follows the length fields arrives at the CRC, and a section that is sent fits its packet, for strings up to 250 bytes (`SectionsRead`); TDT, TOT and an event that starts now carry today's date in each month from March on but those `MonthsAhead` lists (`DatesAreToday`) | every combination of seventeen lengths: around those at which the AIT outgrows its packet, and around 250; every day from March 1900 to February 2100, the range of EN 300 468's formula |

The `pmt` run: the table on the output has the version that was announced last
(`NoStalePmt`) and is the edit of the section buffered (`OutFollowsIn`); a
section that fits its packet never stops the program (`CrashNeedsLongSection`);
no packet is left unanswered, but for errors and edits that are too long
(`Answered`); the edit keeps the other streams in order and has one AIT
(`EditKeepsStreams`); edited packets count up within a version (`EditsCountUp`); a
table that is repeated ends up edited on the output and stays
(`StablePmtIsRewritten`).

Deadlock is not checked: the process may end (a crash, `exit`, a flow error),
and in `TxtPes` the stream of packets does.

### Disagreements found

Each is a run that TLC must find violated; the property quotes the code's own
comment or configuration file.

| Run | The code says | The code does |
|---|---|---|
| `txtpes_empty` | "We have data in txt_pes_buffer" (x31.c:228) | the buffer may be empty, and is read through NULL |
| `data_units` | "Move to the next txt data block" (x31.c:143) | the step is one byte short |
| `x31_damaged` | "We have an X31 packet!!!!" (x31.c:117) | an uncorrectable nibble counts as 15, so another packet can pass for packet 31 |
| `pmt_full` | "We have a complete PMT section" (pmt.c:146) | a section of 181 bytes or more is copied short, and its parse result, NULL, is followed |
| `tdt_date` | "Next 5 bytes are for UTC" (tdt.c:64) | in January and February the date is years off: 306001 stands for 30.6001 (tdt.c:47, also 72 and 93) |
| | the same | the sum is truncated once instead of each product (tdt.c:45): it is tomorrow's date in all of July and December of a year after a leap year, of May, July, October and December of the second, of March, May, July, August, October and December of the third |
| | "start_time" (eit.c:134), which main.c:124 sets to now | the month is tested against zero (tdt.c:24): an event that starts in January or February is dated one or two days early |

`YearIsUtc`, which `tdt_date` refutes, looks at the last day of a year at the ghost
`misdated`, where the walk has noted each month in which the date in TDT and TOT
("clock"), or of an event that starts that day ("event"), was not the day's. The
first year refuted is 1901, and one trace shows all three.

Five more, which need no run to see:

- "If the complete PES packet is available" (x31.c:218): a PES whose tail was
  lost is processed at the next start all the same; what is read is a prefix
  (`PrefixOfOnePes`).
- "AIT section is too long. Only <183 bytes are supported." (ait.c:212): the length
  of a descriptor has eight bits (ait.c:95,132,148), so that a path of 256 bytes
  counts as none and the section is accepted.
- "PMT is not modified" in mode `replace` (m2.conf:24): the test of `ait_stream`
  is commented out in pmt.c:51, and the PMT is edited in both modes.
- "Repetition rate is 300ms" (m2.conf:33): the period is 250 ms.
- `local_time_offset_priority` in the configuration files (m2.conf:40,
  ptv.conf:39) is never read: main.c:283 reads `local_time_offset_polarity`.

### Fairness

- `X31`: weak fairness on `Iterate`, because a loop entered is run to its end.
  Strong fairness on `TakeX31Pes`, because the source repeats its X/31 packets and
  the channel does not lose all of them; it must be strong, because other PES
  packets come between and disable it while they are processed. Strong fairness
  on `Tick`: time passes. The clock is set back finitely often (`SetBacks`).
- `Pmt`: weak fairness on a start of some table: the broadcaster repeats the PMT.
  Which table it repeats is a hypothesis of the property.

- `Pipeline`: weak fairness on the main thread, on the callback's return, on the
  source's last message, and on the sink's playing: no thread stops in the middle
  of what it does. Nothing makes the source bring samples, end or fail.
  `EndsOnceOver` therefore starts from a failure or an end.

No other run assumes fairness.

## 4. What TLAPS proves

Every invariant and every action property that a passing run checks is a theorem,
for every value of the constants that satisfies the named assumptions of the
module; TLC evaluates the assumptions on every run. Each theorem follows from an
inductive invariant, and the proofs have one lemma per action.

- `TxtPesProofs`. `IInv` adds to the types that the counter is congruent to the
  number of the packet the buffer has reached (`CounterTracks`), that the buffer
  ends there (`EndsAtAcc`), and that a closed one is empty (`ClosedIsEmpty`).
  `CheckIsExact` is the heart: within a displacement smaller than the counter's
  period the check accepts the successor and nothing else; `CounterWrap` makes
  the 8-bit wrap harmless because 16 divides 256. Theorems: `TypeCorrect`,
  `NoSplicedPes`, `NoFalseReject`, `TrueIsStored`, and `Refinement`
  (`Spec => ImplementsFeed`).
- `X31Proofs`. `IInv`: `event_id` is the id of the last splice_out (`IdIsKept`),
  and the counter is one ahead of the last packet (`CcTracks`). Theorems:
  `TypeCorrect`, `LevelSignalled`, `InEndsLastOut`, `EdgesOnly`, `PrerollKept`,
  `Gapless`.
- `PmtProofs`. `IInv`: an edit needs a section (`OutNeedsSection`), the section is
  that of the last start while the program runs (`SectionIsStarted`), the packet
  emitted is the edit with the counter before (`EmittedIsOut`), and a section that
  fits its packet is complete from its start on (`ShortIsComplete`). Theorems:
  `NeverStale`, `EditOfBuffered`, `ShortNeverCrashes`, `AlwaysAnswered`,
  `EditedInOrder`. `Typed` adds that no more bytes are missing than a section is
  long, which needs the length of any number of streams (`LengthType`):
  `TypeCorrect`. The edit is a removal loop over any number of streams.
  `RemovedSteps` says when the loop takes a stream: when it is on the AIT PID and
  the one before was not taken. From that, by induction over the streams, those on
  other PIDs are kept in order (`RemovalKeepsOthers`), and none on the AIT PID is
  left when PIDs differ (`RemovalTakesAit`): `StreamsKept`.
- `ProcessBufferProofs` has two invariants, on disjoint parts of the state. For the
  clocks, `IInv`: the program's lag behind the true ones by no more than the wall
  clock was set back (`AgeFollowsGap`), and a table was young, or was sent, when its
  clock was read last (`YoungWhenRead`): `Repeated`. For the
  packets, `CallInv`: those seen so far are in the array in their order but for
  the refused one and the PMT's (`SeenInOrder`), and the counter of a PID is the
  one due after the last packet of it in the array, or in the buffers before
  (`CountersTrack`): a table that is not due leaves both alone, one that is takes
  the counter due and is appended (`TableSent`). It holds at every point of a call
  (`CallInvariance`), and gives `LossIsBehindRefusal`, `TxtForwarded`,
  `CountersHaveNoGap`; with the clocks' bounds, `TypeCorrect`.
- `ProgramProofs`. `IInv`: what the detector has still to read is noise or an
  X/31 unit of a PES with the PTS it holds (`ReadInv`), and the level of the PES
  handed over last is the one read, or the next to be read (`LevelInv`). Theorems:
  `LevelIsOfLastPes`, `Implementation` (`Spec => ImplementsSignalling`). The
  components' own proofs are reused: `TxtPesProofs` and `X31Proofs` are
  instantiated, their actions are shown to be the composition's (`SameAssembler`,
  `SameDetector`), and their invariants hold in it (`AssemblerInvariance`,
  `DetectorInvariance`). From these: `RunsTheAssembler`, `TypeCorrect`, and
  `ComponentsKeepTheirWord`. `ComponentsAssumption` is what the two ask of the
  constants that `Program` passes on.
- `PipelineProofs`. `IInv`: what `main()` has done so far (`MainInv`), that a
  thread's end of stream is its last message (`BusInv`), and that an end of stream
  on the way through source bus, appsrc, sink and sink bus without a quit means no
  failure before it and nothing left to play (`SourceInv`, `SinkInv`): an error
  precedes the end of stream on the same bus, and the loop sees it first. Theorems:
  `TypeCorrect`, `CallbackIsSafe`, `Implementation` (`Spec => ImplementsRelay`).
- `TablesProofs`. Dates: `IInv` says that the number of the day is what the formula
  of EN 300 468 with each product truncated says (`DateInv`). The formula advances
  by one over the end of a month (`NextMonth`), of February (`FebruaryEnds`) and of
  a year (`NextYear`); the code's sum agrees with it from March on in every month
  in which what the years leave over does not carry the month's days (`NoCarry`,
  `FromMarch`). Theorems: `TypeCorrect`, `DatesToday`. Sections: the reader's recursion
  depends on the bytes it reads, so that it defines anything at all is a lemma
  (`ReaderStep`: each step goes forward, and stops at the end). Over descriptors
  behind each other, any number of any lengths, it arrives where their total
  length says (`JoinedIsRead`, by induction); the fields of a header are found
  where they were appended (`ThenField`); and the program runs only with a text
  that was accepted (`Accepted`): `SectionsAreRead`, whose hypothesis is strings
  of at most 250 bytes.

Induction over data is done with sets instead of predicates: `Induction` and
`Recursion` (`Numbers`) take the set of the numbers for which a claim holds, and
the steps of a recursive function as a function, because a theorem whose
parameter is an operator cannot be instantiated by the provers at hand.

Only model-checked: liveness (`LevelIsSeen`, `Heartbeat`, `StablePmtIsRewritten`,
`EndsOnceOver`), which needs ENABLED. The runs that find disagreements prove
nothing beyond their counterexample.

## 5. Not modelled

Memory (leaks, freed data, reading and writing past the end of a buffer: a long
string in ait.c, a continuation of the PMT with fewer bytes than are missing), bytes of sections that are no length and that no
property names, CRC computation, the BCD of the time of day, logging, GStreamer
and GLib themselves (modelled from how they are used), configuration parsing (each
value is read once, before anything runs), and NIT and SDT, which gst-mpegts
builds. appsrc's queue is unbounded, as the comment on main.c:342-345 says.
Hazards without a property are listed with the reason in `PROJECT.json`.

## 6. Plan

In the order of importance:

1. done: `PesFeed`/`TxtPes`, `X31`, `DataUnits`, `PmtEdit`/`Pmt`,
   `ProcessBuffer`, and their first proofs.
2. done: `Relay`/`Pipeline`, `Signalling`/`Program`, `Dates`/`Sections`/`Tables`,
   and their proofs.
3. Hamming 8/4 (`unham84tab`) against the code's distance, as a pure operator;
   the descriptor loops of the PMT edit with the readers of `Sections`.
4. done: proofs of order, losses and counters of `ProcessBuffer`, of the types of
   `Pmt` and `Program`, of the PMT edit and of the sections.
5. An abstract specification of a call of `process_buffer` (what one buffer becomes),
   implemented by `ProcessBuffer`; proofs about `DataUnits` for units that are whole.
