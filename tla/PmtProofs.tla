----------------------------- MODULE PmtProofs -----------------------------
(***************************************************************************)
(* Proofs about Pmt, for every set of tables and every mixture of their    *)
(* packets.  First the invariant over the buffer, the edit and the         *)
(* counter, which compares lengths and edits as wholes; then, by induction *)
(* over the streams of a table, what a length is (and with it the types)   *)
(* and what the edit keeps.                                                *)
(***************************************************************************)
EXTENDS Pmt, Numbers, SequenceTheorems, TLAPS

(* What the edit is of, and what a packet that goes out is. *)
SectionIsTable == section \in Tables \cup {NoTable} /\ started \in Tables \cup {NoTable}
OutNeedsSection == out # NoTable => section # NoTable
SectionIsStarted ==
  status = "runs" =>
    (section = NoTable <=> started = NoTable) /\ section.version = started.version
EmittedIsOut ==
  emitted.kind = "edited" =>
    /\ status = "runs" /\ out # NoTable
    /\ emitted.table = out
    /\ (emitted.cc + 1) % CCMod = ccOut % CCMod
CounterType == ccOut \in 0..(CounterMod - 1)

(* A section that one packet carries to its end is in the buffer as soon as
   its start is, and nothing that follows changes that. *)
ShortIsComplete ==
  section # NoTable /\ (\A af \in Afs : FitsIn(section, af)) =>
    missing = 0 /\ intact

IInv ==
  /\ SectionIsTable
  /\ OutNeedsSection
  /\ OutFollowsIn
  /\ SectionIsStarted
  /\ EmittedIsOut
  /\ CounterType
  /\ ShortIsComplete
  /\ CrashNeedsLongSection
  /\ Answered

-----------------------------------------------------------------------------
(* A table is not NoTable, and neither is its edit, whose version is kept. *)
LEMMA TableIsSome ==
  ASSUME NEW t \in Tables
  PROVE  t # NoTable /\ Edit(t) # NoTable /\ Edit(t).version = t.version
<1>1. t.version \in 0..31  BY PmtAssumption
<1>2. NoTable.version = -1  BY DEF NoTable
<1>3. Edit(t).version = t.version  BY DEF Edit
<1>4. QED  BY <1>1, <1>2, <1>3

(* A packet of the edited section has the counter that is due, and leaves the
   next one; none goes out only when the section is too long. *)
LEMMA NextPacket ==
  ASSUME NEW table, NEW c \in 0..(CounterMod - 1), NextPmtPacket(table, c)
  PROVE  /\ ccOut' \in 0..(CounterMod - 1)
         /\ \/ /\ emitted'.kind = "edited" /\ emitted'.table = table
               /\ emitted'.cc = c % CCMod
               /\ (emitted'.cc + 1) % CCMod = ccOut' % CCMod
            \/ emitted'.kind = "nothing" /\ ~(SectionLength(table) < 181)
<1>1. c \in Nat /\ CCMod \in Nat \ {0} /\ CounterMod \in Nat \ {0}
      /\ CounterMod % CCMod = 0
  BY PmtAssumption
<1>2. ccOut' = (c + 1) % CounterMod  BY DEF NextPmtPacket
<1>3. ccOut' \in 0..(CounterMod - 1) /\ ccOut' % CCMod = (c + 1) % CCMod
  BY <1>1, <1>2, CounterWrap
<1>4. ((c % CCMod) + 1) % CCMod = (c + 1) % CCMod  BY <1>1, ModOfMod
<1>5. QED  BY <1>3, <1>4 DEF NextPmtPacket, Nothing

(* The buffer after a start. *)
LEMMA StartFillsBuffer ==
  ASSUME NEW t \in Tables, NEW af \in Afs, BufferStart(t, af)
  PROVE  section' = t /\ ShortIsComplete'
<1>1. section' = t  BY DEF BufferStart
<1>2. ASSUME \A f \in Afs : FitsIn(t, f)  PROVE missing' = 0 /\ intact'
  <2>1. FitsIn(t, af)  BY <1>2
  <2>2. QED  BY <2>1 DEF BufferStart, FitsIn
<1>3. QED  BY <1>1, <1>2 DEF ShortIsComplete, FitsIn

-----------------------------------------------------------------------------
(* A PMT as new_pmt leaves it. *)
LEMMA InitInv == Init => IInv
  BY PmtAssumption
  DEF Init, IInv, SectionIsTable, OutNeedsSection, OutFollowsIn, SectionIsStarted,
      EmittedIsOut, CounterType, ShortIsComplete, CrashNeedsLongSection, Answered,
      Nothing

(* A start that is buffered and forwarded: the first one, or that of a new
   version. *)
LEMMA BufferedInv ==
  ASSUME IInv, NEW t \in Tables, NEW af \in Afs, BufferStart(t, af),
         NEW c \in 0..(CounterMod - 1), Forward(c), out' = NoTable,
         status = "runs", status' = status, started' = t
  PROVE  IInv'
<1>1. section' = t /\ t # NoTable /\ ShortIsComplete'
  BY StartFillsBuffer, TableIsSome
<1>2. emitted'.kind = "forwarded" /\ ccOut' = c  BY DEF Forward, Forwarded
<1>3. QED
  BY <1>1, <1>2
  DEF IInv, SectionIsTable, OutNeedsSection, OutFollowsIn, SectionIsStarted,
      EmittedIsOut, CounterType, CrashNeedsLongSection, Answered

(* A packet that is answered with the edited section, which is kept or new;
   the buffer stays, or loses nothing that it needs. *)
LEMMA AnsweredInv ==
  ASSUME IInv, section # NoTable, out' = Edit(section),
         NEW c \in 0..(CounterMod - 1), NextPmtPacket(out', c),
         section' = section, ShortIsComplete',
         status = "runs", status' = status,
         started' \in Tables, started'.version = section.version
  PROVE  IInv'
<1>1. section \in Tables  BY DEF IInv, SectionIsTable
<1>2. out' # NoTable  BY <1>1, TableIsSome
<1>3. started' # NoTable  BY TableIsSome
<1>4. CounterType' /\ EmittedIsOut'
  BY <1>2, NextPacket DEF CounterType, EmittedIsOut
<1>5. Answered'
  BY <1>2, NextPacket DEF Answered, FitsOut
<1>6. QED
  BY <1>1, <1>2, <1>3, <1>4, <1>5
  DEF IInv, SectionIsTable, OutNeedsSection, OutFollowsIn, SectionIsStarted,
      CrashNeedsLongSection

(* The counter that an edit leaves. *)
LEMMA CounterAfter == ASSUME CounterType PROVE CounterAfterEdit \in 0..(CounterMod - 1)
  BY PmtAssumption DEF CounterType, CounterAfterEdit

(* Starts. *)
LEMMA StartInv ==
  ASSUME IInv, NEW t \in Tables, NEW af \in Afs, PushStart(t, af)
  PROVE  IInv'
<1> USE DEF IInv
<1>1. status = "runs" /\ started' = t /\ ret' = TRUE  BY DEF PushStart
<1>2. ccOut \in 0..(CounterMod - 1) /\ CounterAfterEdit \in 0..(CounterMod - 1)
  BY CounterAfter DEF CounterType
<1>3. CASE PushFirst(t, af)
  <2>1. out' = NoTable /\ status' = status  BY <1>3 DEF PushFirst, OutNeedsSection
  <2>2. QED  BY <1>1, <1>2, <1>3, <2>1, BufferedInv DEF PushFirst
<1>4. CASE PushSame(t)
  <2>1. out' = Edit(section)  BY <1>4 DEF PushSame, OutFollowsIn
  <2>2. \E c \in 0..(CounterMod - 1) : NextPmtPacket(out', c)
    BY <1>2, <1>4 DEF PushSame
  <2>3. t.version = section.version  BY <1>4 DEF PushSame, NewVersion
  <2>4. section' = section /\ status' = status /\ section # NoTable
    BY <1>4 DEF PushSame
  <2>5. ShortIsComplete'  BY <1>4 DEF PushSame, ShortIsComplete, FitsIn
  <2>6. QED  BY <1>1, <2>1, <2>2, <2>3, <2>4, <2>5, AnsweredInv
<1>5. CASE PushNew(t, af)
  <2>1. \E c \in 0..(CounterMod - 1) : Forward(c)  BY <1>2, <1>5 DEF PushNew
  <2>2. QED  BY <1>1, <1>5, <2>1, BufferedInv DEF PushNew
<1>6. CASE PushOnBroken
  <2>1. ~(\A f \in Afs : FitsIn(section, f))
    BY <1>6 DEF PushOnBroken, ShortIsComplete, IsComplete
  <2>2. QED
    BY <1>1, <1>6, <2>1
    DEF PushOnBroken, SectionIsTable, OutNeedsSection, OutFollowsIn,
        SectionIsStarted, EmittedIsOut, CounterType, ShortIsComplete,
        CrashNeedsLongSection, Answered, FitsIn, Nothing
<1>7. QED  BY <1>3, <1>4, <1>5, <1>6 DEF PushStart

(* Copying a continuation never touches a section that is complete. *)
LEMMA CopyKeepsShort ==
  ASSUME ShortIsComplete, section # NoTable, section' = section,
         NEW t, NEW from, NEW af, CopyBytes(t, from, af)
  PROVE  ShortIsComplete'
<1>1. ASSUME missing = 0, intact  PROVE missing' = 0 /\ intact'
  <2> DEFINE n == IF missing < 182 THEN missing ELSE 181 - af
  <2>1. n = 0  BY <1>1
  <2>2. missing' = missing - n /\ intact' = (intact /\ (n = 0 \/ InPlace(t, from, af, n)))
    BY DEF CopyBytes
  <2>3. missing' = 0  BY <1>1, <2>1, <2>2
  <2>4. QED  BY <1>1, <2>1, <2>2, <2>3
<1>2. QED  BY <1>1 DEF ShortIsComplete, FitsIn

(* Continuations. *)
LEMMA ContinuationInv ==
  ASSUME IInv, NEW t, NEW from, NEW af, PushContinuation(t, from, af)
  PROVE  IInv'
<1> USE DEF IInv
<1>1. status = "runs" /\ UNCHANGED <<section, out, status, started>>
  BY DEF PushContinuation
<1>2. ShortIsComplete'
  <2>1. CASE section # NoTable
    BY <1>1, <2>1, CopyKeepsShort DEF PushContinuation
  <2>2. CASE section = NoTable  BY <1>1, <2>2 DEF ShortIsComplete
  <2>3. QED  BY <2>1, <2>2
<1>3. CASE out # NoTable
  <2>1. section # NoTable /\ out' = Edit(section) /\ NextPmtPacket(out', ccOut)
    BY <1>1, <1>3 DEF PushContinuation, OutNeedsSection, OutFollowsIn
  <2>2. started \in Tables /\ started.version = section.version
    BY <1>1, <2>1 DEF SectionIsStarted, SectionIsTable
  <2>3. QED
    BY <1>1, <1>2, <2>1, <2>2, AnsweredInv DEF CounterType
<1>4. CASE out = NoTable
  <2>1. emitted'.kind = "forwarded" /\ ccOut' = ccOut
    BY <1>4 DEF PushContinuation, Forward, Forwarded
  <2>2. QED
    BY <1>1, <1>2, <1>4, <2>1
    DEF SectionIsTable, OutNeedsSection, OutFollowsIn, SectionIsStarted,
        EmittedIsOut, CounterType, CrashNeedsLongSection, Answered
<1>5. QED  BY <1>3, <1>4

(* A negative copy is asked for only while a section is incomplete, which no
   section is that fits its packet. *)
LEMMA OverfullInv ==
  ASSUME IInv, NEW af, PushOverfull(af)
  PROVE  IInv'
<1>1. section # NoTable /\ ~(missing = 0)  BY DEF PushOverfull, CopyFails
<1>2. ~(\A f \in Afs : FitsIn(section, f))  BY <1>1 DEF IInv, ShortIsComplete
<1>3. QED
  BY <1>1, <1>2
  DEF PushOverfull, IInv, SectionIsTable, OutNeedsSection, OutFollowsIn,
      SectionIsStarted, EmittedIsOut, CounterType, ShortIsComplete,
      CrashNeedsLongSection, Answered, FitsIn, Nothing

(* Steps that append nothing. *)
LEMMA SilentInv ==
  ASSUME IInv, emitted' = Nothing, ~ret' \/ status' # "runs",
         status' \in {status, "exit"},
         UNCHANGED <<section, missing, intact, out, ccOut, started>>
  PROVE  IInv'
  BY DEF IInv, SectionIsTable, OutNeedsSection, OutFollowsIn, SectionIsStarted,
         EmittedIsOut, CounterType, ShortIsComplete, CrashNeedsLongSection,
         Answered, FitsIn, Nothing

(* Every step. *)
LEMMA StepInv == IInv /\ [Next]_vars => IInv'
<1> SUFFICES ASSUME IInv, [Next]_vars  PROVE IInv'  OBVIOUS
<1>1. ASSUME NEW t \in Tables, NEW af \in Afs, PushStart(t, af)  PROVE IInv'
  BY <1>1, StartInv
<1>2. CASE PushForeign  BY <1>2, SilentInv DEF PushForeign
<1>3. CASE PushAnyContinuation
  BY <1>3, ContinuationInv, OverfullInv DEF PushAnyContinuation
<1>4. CASE PushErrored  BY <1>4, SilentInv DEF PushErrored
<1>5. CASE UNCHANGED vars
  BY <1>5
  DEF vars, IInv, SectionIsTable, OutNeedsSection, OutFollowsIn, SectionIsStarted,
      EmittedIsOut, CounterType, ShortIsComplete, CrashNeedsLongSection, Answered,
      FitsIn
<1>6. QED  BY <1>1, <1>2, <1>3, <1>4, <1>5 DEF Next

-----------------------------------------------------------------------------
(* The strengthened invariant holds in every state of the program. *)
THEOREM Invariance == Spec => []IInv
<1>1. QED  BY InitInv, StepInv, PTL DEF Spec

(* An edited table that goes out has the version announced last. *)
THEOREM NeverStale == Spec => []NoStalePmt
<1>1. IInv => NoStalePmt
  <2> SUFFICES ASSUME IInv, emitted.kind = "edited"
               PROVE  emitted.table.version = started.version
    BY DEF NoStalePmt
  <2>1. status = "runs" /\ out # NoTable /\ emitted.table = out
    BY DEF IInv, EmittedIsOut
  <2>2. out = Edit(section) /\ section \in Tables
    BY <2>1 DEF IInv, OutFollowsIn, OutNeedsSection, SectionIsTable
  <2>3. section.version = started.version  BY <2>1 DEF IInv, SectionIsStarted
  <2>4. QED  BY <2>1, <2>2, <2>3, TableIsSome
<1>2. QED  BY Invariance, <1>1, PTL

(* The section repeated is the edit of the one buffered. *)
THEOREM EditOfBuffered == Spec => []OutFollowsIn
<1>1. IInv => OutFollowsIn  BY DEF IInv
<1>2. QED  BY Invariance, <1>1, PTL

(* No section that fits its packet ever stops the program. *)
THEOREM ShortNeverCrashes == Spec => []CrashNeedsLongSection
<1>1. IInv => CrashNeedsLongSection  BY DEF IInv
<1>2. QED  BY Invariance, <1>1, PTL

(* The PMT PID falls silent only for a refused packet or a long edit. *)
THEOREM AlwaysAnswered == Spec => []Answered
<1>1. IInv => Answered  BY DEF IInv
<1>2. QED  BY Invariance, <1>1, PTL

(* Edited packets in a row count up. *)
THEOREM EditedInOrder == Spec => EditsCountUp
<1>1. IInv /\ IInv' /\ [Next]_vars =>
        [emitted.kind = "edited" /\ emitted'.kind = "edited" =>
           emitted'.cc = (emitted.cc + 1) % CCMod]_vars
  <2> SUFFICES ASSUME IInv, Next, emitted.kind = "edited", emitted'.kind = "edited"
               PROVE  emitted'.cc = (emitted.cc + 1) % CCMod
    OBVIOUS
  <2>1. out # NoTable /\ (emitted.cc + 1) % CCMod = ccOut % CCMod
        /\ ccOut \in 0..(CounterMod - 1)
    BY DEF IInv, EmittedIsOut, CounterType
  <2>2. \E table : NextPmtPacket(table, ccOut)
    <3>1. ASSUME NEW t \in Tables, NEW af \in Afs, PushStart(t, af)
          PROVE  \E table : NextPmtPacket(table, ccOut)
      BY <2>1, <3>1
      DEF PushStart, PushFirst, PushSame, PushNew, PushOnBroken, Forward,
          Forwarded, Nothing
    <3>2. ASSUME NEW t, NEW from, NEW af, PushContinuation(t, from, af)
          PROVE  \E table : NextPmtPacket(table, ccOut)
      BY <2>1, <3>2 DEF PushContinuation
    <3>3. QED
      BY <3>1, <3>2
      DEF Next, PushForeign, PushErrored, PushAnyContinuation, PushOverfull, Nothing
  <2>3. QED  BY <2>1, <2>2, NextPacket
<1>2. QED  BY Invariance, <1>1, PTL DEF Spec, EditsCountUp
-----------------------------------------------------------------------------
(* The length of a section, which sums the streams' bytes up. *)
LEMMA LengthType ==
  ASSUME NEW t, t.info \in Nat, NEW P, t.streams \in Seq([pid : P, size : Nat])
  PROVE  SectionLength(t) \in Nat
<1> DEFINE s == t.streams
           N == Len(s)
           Sum(f) == [n \in 0..N |-> IF n = 0 THEN 0 ELSE f[n - 1] + s[n].size]
           size == CHOOSE f : f = Sum(f)
<1>1. N \in Nat /\ \A n \in 1..N : s[n].size \in Nat
  <2>1. \A e \in [pid : P, size : Nat] : e.size \in Nat  OBVIOUS
  <2>2. \A n \in 1..N : s[n] \in [pid : P, size : Nat]  BY ElementOfSeq
  <2>3. QED  BY <2>1, <2>2, LenProperties
<1>2. SectionLength(t) = 16 + t.info + size[N]  BY DEF SectionLength
<1> HIDE DEF s, N
<1>3. \E f : f = Sum(f)
  <2> DEFINE h == [n \in 1..N |-> [v \in Nat |-> v + s[n].size]]
  <2>1. h \in [1..N -> [Nat -> Nat]]  BY <1>1
  <2> HIDE DEF h
  <2>2. PICK f : IsRecursive(f, N, Nat, 0, h)
    <3>1. 0 \in Nat  OBVIOUS
    <3>2. QED  BY <1>1, <2>1, <3>1, Recursion, Zenon
  <2>3. f \in [0..N -> Nat] /\ f[0] = 0 /\ \A n \in 1..N : f[n] = h[n][f[n - 1]]
    BY <2>2 DEF IsRecursive
  <2>4. ASSUME NEW n \in 1..N  PROVE f[n] = f[n - 1] + s[n].size
    <3>1. f[n - 1] \in Nat  BY <1>1, <2>3
    <3>2. h[n] = [v \in Nat |-> v + s[n].size]  BY DEF h
    <3>3. f[n] = h[n][f[n - 1]]  BY <2>3
    <3>4. QED  BY <3>1, <3>2, <3>3
  <2>5. f = Sum(f)  BY <1>1, <2>3, <2>4
  <2>6. QED  BY <2>5, Zenon
<1>4. size = Sum(size)  BY <1>3, Zenon
<1> HIDE DEF size
<1>5. size[0] = 0 /\ \A n \in 1..N : size[n] = size[n - 1] + s[n].size
  <2>1. \A n \in 0..N : size[n] = IF n = 0 THEN 0 ELSE size[n - 1] + s[n].size
    BY <1>4, Zenon
  <2>2. 0 \in 0..N /\ \A n \in 1..N : n \in 0..N /\ n # 0  BY <1>1
  <2>3. QED  BY <2>1, <2>2, Zenon
<1> DEFINE S == {n \in Nat : size[n] \in Nat}
<1>6. 0 \in S  BY <1>5
<1>7. ASSUME NEW n \in 1..N, n - 1 \in S  PROVE n \in S
  BY <1>1, <1>5, <1>7
<1> HIDE DEF S
<1>8. 0..N \subseteq S  BY <1>1, <1>6, <1>7, Induction
<1>9. size[N] \in Nat  BY <1>1, <1>8 DEF S
<1>10. QED  BY <1>2, <1>9

LEMMA TableLength ==
  ASSUME NEW t \in Tables  PROVE SectionLength(t) \in Nat
<1> DEFINE P == 0..8191
<1>1. t.info \in Nat /\ t.streams \in Seq([pid : P, size : Nat])
  BY PmtAssumption
<1> HIDE DEF P
<1>2. QED  BY <1>1, LengthType, Zenon

-----------------------------------------------------------------------------
(* What is missing is a number of bytes, after a start and after a copy. *)
LEMMA StartMissing ==
  ASSUME NEW t \in Tables, NEW af \in Afs, BufferStart(t, af)
  PROVE  missing' \in Nat /\ intact' \in BOOLEAN
<1>1. SectionLength(t) \in Nat /\ af \in Nat  BY TableLength, PmtAssumption
<1>2. af \in 0..180  BY PmtAssumption
<1> DEFINE n == SectionLength(t)
<1>3. n \in Nat  BY <1>1
<1>4. \/ missing' = 0 /\ intact' = (n <= Capacity(af))
      \/ ~(n < 181) /\ missing' = n - 180 + af /\ intact' = TRUE
  BY DEF BufferStart
<1> HIDE DEF n
<1>5. missing' \in Nat  BY <1>1, <1>3, <1>4
<1>6. intact' \in BOOLEAN
  <2>1. (n <= Capacity(af)) \in BOOLEAN  OBVIOUS
  <2>2. QED  BY <1>4, <2>1, Zenon
<1>7. QED  BY <1>5, <1>6

LEMMA CopyMissing ==
  ASSUME missing \in Nat, intact \in BOOLEAN,
         NEW t, NEW from, NEW af \in Stuffed, CopyBytes(t, from, af)
  PROVE  missing' \in Nat /\ intact' \in BOOLEAN
<1>1. af \in Nat  BY PmtAssumption
<1>2. missing' \in Nat  BY <1>1 DEF CopyBytes
<1>3. intact' \in BOOLEAN  BY DEF CopyBytes, InPlace
<1>4. QED  BY <1>2, <1>3
(* What the pushes append. *)
Edits == {Edit(t) : t \in Tables} \cup {NoTable}
Packets == [kind : {"nothing", "forwarded", "edited"}, table : Edits, cc : 0..(CCMod - 1)]

LEMMA NextPacketType ==
  ASSUME NEW table \in Edits, NEW c \in 0..(CounterMod - 1), NextPmtPacket(table, c)
  PROVE  emitted' \in Packets
<1>1. c \in Nat /\ CCMod \in Nat \ {0}  BY PmtAssumption
<1>2. c % CCMod \in 0..(CCMod - 1) /\ 0 \in 0..(CCMod - 1)  BY <1>1, ModSplit
<1>3. NoTable \in Edits  BY DEF Edits
<1>4. QED  BY <1>2, <1>3 DEF NextPmtPacket, Nothing, Packets

LEMMA PlainPacketType == Forwarded \in Packets /\ Nothing \in Packets
<1>1. NoTable \in Edits  BY DEF Edits
<1>2. 0 \in 0..(CCMod - 1)  BY PmtAssumption
<1>3. QED  BY <1>1, <1>2 DEF Forwarded, Nothing, Packets

(* The part of the type invariant that the invariant above leaves open. *)
Typed ==
  /\ missing \in Nat
  /\ intact \in BOOLEAN
  /\ out \in Edits
  /\ status \in {"runs", "exit", "crash"}
  /\ emitted \in Packets
  /\ ret \in BOOLEAN

LEMMA InitTyped == Init => Typed
<1>1. NoTable \in Edits  BY DEF Edits
<1>2. QED  BY <1>1, PlainPacketType DEF Init, Typed

LEMMA StepTyped == IInv /\ Typed /\ [Next]_vars => Typed'
<1> SUFFICES ASSUME IInv, Typed, [Next]_vars  PROVE Typed'  OBVIOUS
<1> USE DEF Typed
<1>1. NoTable \in Edits  BY DEF Edits
<1>2. /\ ccOut \in 0..(CounterMod - 1) /\ CounterAfterEdit \in 0..(CounterMod - 1)
      /\ section \in Tables \cup {NoTable}
  BY CounterAfter DEF IInv, CounterType, SectionIsTable
<1>3. ASSUME NEW t \in Tables, NEW af \in Afs, PushStart(t, af)  PROVE Typed'
  <2>1. ret' = TRUE  BY <1>3 DEF PushStart
  <2>2. CASE PushFirst(t, af)
    BY <2>1, <2>2, StartMissing, PlainPacketType DEF PushFirst, Forward
  <2>3. CASE PushSame(t)
    <3>1. section \in Tables  BY <1>2, <2>3 DEF PushSame
    <3>2. Edit(section) \in Edits  BY <3>1 DEF Edits
    <3>3. out' \in Edits  BY <2>3, <3>2 DEF PushSame
    <3>4. \E c \in 0..(CounterMod - 1) : NextPmtPacket(out', c)
      BY <1>2, <2>3 DEF PushSame
    <3>5. emitted' \in Packets  BY <3>3, <3>4, NextPacketType
    <3>6. QED  BY <2>1, <2>3, <3>3, <3>5 DEF PushSame
  <2>4. CASE PushNew(t, af)
    BY <1>1, <2>1, <2>4, StartMissing, PlainPacketType DEF PushNew, Forward
  <2>5. CASE PushOnBroken
    BY <2>1, <2>5, PlainPacketType DEF PushOnBroken
  <2>6. QED  BY <1>3, <2>2, <2>3, <2>4, <2>5 DEF PushStart
<1>4. CASE PushForeign  BY <1>4, PlainPacketType DEF PushForeign
<1>5. CASE PushErrored  BY <1>5, PlainPacketType DEF PushErrored
<1>6. ASSUME NEW t, NEW from, NEW af \in Stuffed, PushContinuation(t, from, af)
      PROVE  Typed'
  <2>1. missing' \in Nat /\ intact' \in BOOLEAN
    BY <1>6, CopyMissing DEF PushContinuation
  <2>2. UNCHANGED <<out, status>> /\ ret' = TRUE  BY <1>6 DEF PushContinuation
  <2>3. emitted' \in Packets
    BY <1>2, <1>6, NextPacketType, PlainPacketType DEF PushContinuation, Forward
  <2>4. QED  BY <2>1, <2>2, <2>3
<1>7. CASE PushAnyContinuation
  <2>1. ASSUME NEW af, PushOverfull(af)  PROVE Typed'
    BY <2>1, PlainPacketType DEF PushOverfull
  <2>2. 0 \in Stuffed  BY PmtAssumption
  <2>3. QED  BY <1>6, <1>7, <2>1, <2>2 DEF PushAnyContinuation
<1>8. CASE UNCHANGED vars  BY <1>8 DEF vars
<1>9. QED  BY <1>3, <1>4, <1>5, <1>7, <1>8 DEF Next

(* Everything has its type: the buffer never lacks a negative number of
   bytes, whatever continuations are copied into it, and the section repeated
   is the edit of a table or none. *)
THEOREM TypeCorrect == Spec => []TypeOK
<1>1. Spec => []Typed  BY Invariance, InitTyped, StepTyped, PTL DEF Spec
<1>2. IInv /\ Typed => TypeOK
  BY DEF IInv, SectionIsTable, CounterType, Typed, TypeOK, Edits, Packets
<1>3. QED  BY Invariance, <1>1, <1>2, PTL
-----------------------------------------------------------------------------
(* Kept goes through the sequence from its first stream to its last. *)
IsKeeping(f, S, s, D) ==
  /\ f \in [0..Len(s) -> Seq(S)]
  /\ f[0] = <<>>
  /\ \A n \in 1..Len(s) : f[n] = IF n \in D THEN Append(f[n - 1], s[n]) ELSE f[n - 1]

LEMMA KeptSteps ==
  ASSUME NEW S, NEW s \in Seq(S), NEW D
  PROVE  \E f : IsKeeping(f, S, s, D) /\ Kept(s, D) = f[Len(s)]
<1> DEFINE N == Len(s)
           Step(f) == [n \in 0..N |->
                         IF n = 0 THEN <<>>
                         ELSE IF n \in D THEN Append(f[n - 1], s[n]) ELSE f[n - 1]]
           kept == CHOOSE f : f = Step(f)
           T == Seq(S)
           h == [n \in 1..N |-> [v \in T |-> IF n \in D THEN Append(v, s[n]) ELSE v]]
<1>1. N \in Nat /\ \A n \in 1..N : s[n] \in S  BY ElementOfSeq, LenProperties
<1>2. Kept(s, D) = kept[N]  BY DEF Kept
<1>3. <<>> \in T /\ \A v \in T, n \in 1..N : Append(v, s[n]) \in T
  BY <1>1, AppendProperties
<1> HIDE DEF N, T
<1>4. \E f : f = Step(f)
  <2>1. h \in [1..N -> [T -> T]]  BY <1>3
  <2>2. \A n \in 1..N : h[n] = [v \in T |-> IF n \in D THEN Append(v, s[n]) ELSE v]
    OBVIOUS
  <2> HIDE DEF h
  <2>3. PICK f : IsRecursive(f, N, T, <<>>, h)
    BY <1>1, <1>3, <2>1, Recursion, Zenon
  <2>4. f \in [0..N -> T] /\ f[0] = <<>> /\ \A n \in 1..N : f[n] = h[n][f[n - 1]]
    BY <2>3 DEF IsRecursive
  <2>5. ASSUME NEW n \in 1..N
        PROVE  f[n] = IF n \in D THEN Append(f[n - 1], s[n]) ELSE f[n - 1]
    <3>1. f[n - 1] \in T  BY <1>1, <2>4
    <3>2. QED  BY <2>2, <2>4, <3>1
  <2>6. ASSUME NEW n \in 0..N
        PROVE  f[n] = IF n = 0 THEN <<>>
                      ELSE IF n \in D THEN Append(f[n - 1], s[n]) ELSE f[n - 1]
    <3>1. CASE n = 0  BY <2>4, <3>1
    <3>2. CASE n # 0
      <4>1. n \in 1..N  BY <1>1, <3>2
      <4>2. QED  BY <2>5, <3>2, <4>1
    <3>3. QED  BY <3>1, <3>2
  <2>7. f = Step(f)  BY <2>4, <2>6, Zenon
  <2>8. QED  BY <2>7, Zenon
<1>5. kept = Step(kept)  BY <1>4, Zenon
<1> HIDE DEF kept
<1>6. /\ kept[0] = <<>>
      /\ \A n \in 1..N :
           kept[n] = IF n \in D THEN Append(kept[n - 1], s[n]) ELSE kept[n - 1]
      /\ kept = [n \in 0..N |-> kept[n]]
  <2>1. \A n \in 0..N :
          kept[n] = IF n = 0 THEN <<>>
                    ELSE IF n \in D THEN Append(kept[n - 1], s[n]) ELSE kept[n - 1]
    BY <1>5, Zenon
  <2>2. kept = [n \in 0..N |-> kept[n]]  BY <1>5, <2>1, Zenon
  <2>3. 0 \in 0..N /\ \A n \in 1..N : n \in 0..N /\ n # 0  BY <1>1
  <2>4. QED  BY <2>1, <2>2, <2>3, Zenon
<1> DEFINE G == {n \in 0..N : kept[n] \in T}
<1>7. 0 \in G  BY <1>1, <1>3, <1>6
<1>8. ASSUME NEW n \in 1..N, n - 1 \in G  PROVE n \in G
  <2>1. n \in 0..N /\ kept[n - 1] \in T  BY <1>1, <1>8
  <2>2. kept[n] \in {Append(kept[n - 1], s[n]), kept[n - 1]}  BY <1>6
  <2>3. Append(kept[n - 1], s[n]) \in T  BY <1>3, <2>1, Zenon
  <2>4. QED  BY <2>1, <2>2, <2>3
<1>9. 0..N \subseteq G
  <2> HIDE DEF G
  <2>1. QED  BY <1>1, <1>7, <1>8, Induction
<1>10. kept \in [0..N -> T]  BY <1>6, <1>9
<1>11. IsKeeping(kept, S, s, D)  BY <1>6, <1>10 DEF IsKeeping, N, T
<1>12. QED  BY <1>2, <1>11 DEF N

(* Removed looks at every stream with the AIT PID that does not follow a
   removed one. *)
LEMMA RemovedSteps ==
  ASSUME NEW S, NEW s \in Seq(S)
  PROVE  \E f : /\ ~f[0]
                /\ \A n \in 1..Len(s) : f[n] <=> s[n].pid = AitPid /\ ~f[n - 1]
                /\ Removed(s) = {n \in 1..Len(s) : f[n]}
<1> DEFINE N == Len(s)
           Step(f) == [n \in 0..N |-> n > 0 /\ s[n].pid = AitPid /\ ~f[n - 1]]
           gone == CHOOSE f : f = Step(f)
           h == [n \in 1..N |-> [v \in BOOLEAN |-> s[n].pid = AitPid /\ ~v]]
<1>1. N \in Nat  BY LenProperties
<1>2. Removed(s) = {n \in 1..N : gone[n]}  BY DEF Removed
<1> HIDE DEF N
<1>3. \E f : f = Step(f)
  <2>1. h \in [1..N -> [BOOLEAN -> BOOLEAN]]  OBVIOUS
  <2>2. \A n \in 1..N : h[n] = [v \in BOOLEAN |-> s[n].pid = AitPid /\ ~v]  OBVIOUS
  <2> HIDE DEF h
  <2>3. PICK f : IsRecursive(f, N, BOOLEAN, FALSE, h)
    BY <1>1, <2>1, Recursion, Zenon
  <2>4. f \in [0..N -> BOOLEAN] /\ ~f[0] /\ \A n \in 1..N : f[n] = h[n][f[n - 1]]
    BY <2>3 DEF IsRecursive
  <2>5. ASSUME NEW n \in 0..N  PROVE f[n] = (n > 0 /\ s[n].pid = AitPid /\ ~f[n - 1])
    <3>1. CASE n = 0
      <4>1. f[0] = FALSE  BY <2>3 DEF IsRecursive
      <4>2. ~(n > 0)  BY <3>1
      <4>3. QED  BY <3>1, <4>1, <4>2, Zenon
    <3>2. CASE n # 0
      <4>1. n \in 1..N /\ n - 1 \in 0..N /\ n > 0  BY <1>1, <3>2
      <4>2. f[n - 1] \in BOOLEAN  BY <2>4, <4>1
      <4>3. f[n] = (s[n].pid = AitPid /\ ~f[n - 1])
        BY <2>2, <2>4, <4>1, <4>2, Zenon
      <4>4. QED  BY <4>1, <4>3, Zenon
    <3>3. QED  BY <3>1, <3>2
  <2>6. f = Step(f)  BY <2>4, <2>5, Zenon
  <2>7. QED  BY <2>6, Zenon
<1>4. gone = Step(gone)  BY <1>3, Zenon
<1> HIDE DEF gone
<1>5. \A n \in 0..N : gone[n] = (n > 0 /\ s[n].pid = AitPid /\ ~gone[n - 1])
  BY <1>4, Zenon
<1>6. ~gone[0]
  <2>1. 0 \in 0..N /\ ~(0 > 0)  BY <1>1
  <2>2. QED  BY <1>5, <2>1, Zenon
<1>7. ASSUME NEW n \in 1..N  PROVE gone[n] <=> s[n].pid = AitPid /\ ~gone[n - 1]
  <2>1. n \in 0..N /\ n > 0  BY <1>1
  <2>2. QED  BY <1>5, <2>1, Zenon
<1>8. QED  BY <1>2, <1>6, <1>7, Zenon DEF N
-----------------------------------------------------------------------------
(* The other streams, one stream at a time. *)
LEMMA OthersAppend ==
  ASSUME NEW S, NEW u \in Seq(S), NEW e \in S
  PROVE  Others(Append(u, e)) =
           IF e.pid \notin {AitPid, SctePid} THEN Append(Others(u), e) ELSE Others(u)
<1> DEFINE w == Append(u, e)
           N == Len(u)
           D == {n \in DOMAIN w : w[n].pid \notin {AitPid, SctePid}}
           C == {n \in DOMAIN u : u[n].pid \notin {AitPid, SctePid}}
<1>1. /\ N \in Nat /\ w \in Seq(S) /\ Len(w) = N + 1 /\ w[N + 1] = e
      /\ DOMAIN u = 1..N /\ DOMAIN w = 1..(N + 1)
      /\ \A n \in 1..N : w[n] = u[n]
  BY AppendProperties, LenProperties
<1>2. Others(u) = Kept(u, C) /\ Others(w) = Kept(w, D)  BY DEF Others
<1> HIDE DEF w, N
<1>3. N + 1 \in D <=> e.pid \notin {AitPid, SctePid}  BY <1>1
<1>4. \A n \in 1..N : n \in D <=> n \in C  BY <1>1
<1> HIDE DEF C, D
<1>5. PICK g : IsKeeping(g, S, u, C) /\ Kept(u, C) = g[N]  BY KeptSteps DEF N
<1>6. PICK f : IsKeeping(f, S, w, D) /\ Kept(w, D) = f[N + 1]
  BY <1>1, KeptSteps
<1>7. /\ f[0] = <<>> /\ g[0] = <<>>
      /\ \A n \in 1..N : f[n] = IF n \in D THEN Append(f[n - 1], w[n]) ELSE f[n - 1]
      /\ \A n \in 1..N : g[n] = IF n \in C THEN Append(g[n - 1], u[n]) ELSE g[n - 1]
      /\ f[N + 1] = IF N + 1 \in D THEN Append(f[N], e) ELSE f[N]
  BY <1>1, <1>5, <1>6 DEF IsKeeping, N
<1> DEFINE G == {n \in 0..N : f[n] = g[n]}
<1>8. 0 \in G  BY <1>1, <1>7
<1>9. ASSUME NEW n \in 1..N, n - 1 \in G  PROVE n \in G
  BY <1>1, <1>4, <1>7, <1>9
<1>10. 0..N \subseteq G
  <2> HIDE DEF G
  <2>1. QED  BY <1>1, <1>8, <1>9, Induction
<1>11. f[N] = g[N]  BY <1>1, <1>10
<1>12. Others(w) = IF N + 1 \in D THEN Append(g[N], e) ELSE g[N]
  BY <1>2, <1>6, <1>7, <1>11
<1>13. QED  BY <1>2, <1>3, <1>5, <1>12 DEF w

LEMMA OthersEmpty == Others(<<>>) = <<>>
<1> DEFINE D == {n \in DOMAIN <<>> : <<>>[n].pid \notin {AitPid, SctePid}}
<1>1. Others(<<>>) = Kept(<<>>, D)  BY DEF Others
<1> HIDE DEF D
<1>2. <<>> \in Seq({}) /\ Len(<<>>) = 0  OBVIOUS
<1>3. PICK f : IsKeeping(f, {}, <<>>, D) /\ Kept(<<>>, D) = f[0]
  BY <1>2, KeptSteps
<1>4. QED  BY <1>1, <1>3 DEF IsKeeping

(* The removal loop takes no other stream away. *)
LEMMA RemovalKeepsOthers ==
  ASSUME NEW S, NEW s \in Seq(S)
  PROVE  WithoutAit(s) \in Seq(S) /\ Others(WithoutAit(s)) = Others(s)
<1> DEFINE N == Len(s)
           K == DOMAIN s \ Removed(s)
           C == {n \in DOMAIN s : s[n].pid \notin {AitPid, SctePid}}
<1>1. N \in Nat /\ DOMAIN s = 1..N /\ \A n \in 1..N : s[n] \in S
  BY ElementOfSeq, LenProperties
<1>2. WithoutAit(s) = Kept(s, K) /\ Others(s) = Kept(s, C)
  BY DEF WithoutAit, Others
<1>3. ASSUME NEW n \in 1..N, n \notin K  PROVE s[n].pid = AitPid
  <2>1. PICK r : /\ \A m \in 1..N : r[m] <=> s[m].pid = AitPid /\ ~r[m - 1]
                 /\ Removed(s) = {m \in 1..N : r[m]}
    BY RemovedSteps
  <2>2. QED  BY <1>1, <1>3, <2>1
<1>4. \A n \in 1..N : n \in C <=> s[n].pid \notin {AitPid, SctePid}  BY <1>1
<1> HIDE DEF K, C
<1>5. PICK f : IsKeeping(f, S, s, K) /\ Kept(s, K) = f[N]  BY KeptSteps
<1>6. PICK g : IsKeeping(g, S, s, C) /\ Kept(s, C) = g[N]  BY KeptSteps
<1>7. /\ f \in [0..N -> Seq(S)]
      /\ f[0] = <<>> /\ g[0] = <<>>
      /\ \A n \in 1..N : f[n] = IF n \in K THEN Append(f[n - 1], s[n]) ELSE f[n - 1]
      /\ \A n \in 1..N : g[n] = IF n \in C THEN Append(g[n - 1], s[n]) ELSE g[n - 1]
  BY <1>5, <1>6 DEF IsKeeping
<1> HIDE DEF N
<1> DEFINE G == {n \in 0..N : Others(f[n]) = g[n]}
<1>8. 0 \in G  BY <1>1, <1>7, OthersEmpty
<1>9. ASSUME NEW n \in 1..N, n - 1 \in G  PROVE n \in G
  <2>1. f[n - 1] \in Seq(S) /\ s[n] \in S /\ n \in 0..N  BY <1>1, <1>7
  <2>2. Others(f[n - 1]) = g[n - 1]  BY <1>9
  <2>3. CASE n \in K
    <3>1. f[n] = Append(f[n - 1], s[n])  BY <1>7, <2>3
    <3>2. Others(Append(f[n - 1], s[n])) =
            IF s[n].pid \notin {AitPid, SctePid}
            THEN Append(Others(f[n - 1]), s[n]) ELSE Others(f[n - 1])
      <4> DEFINE v == f[n - 1]
                 e == s[n]
      <4>1. v \in Seq(S) /\ e \in S  BY <2>1
      <4> HIDE DEF v, e
      <4>2. Others(Append(v, e)) =
              IF e.pid \notin {AitPid, SctePid} THEN Append(Others(v), e) ELSE Others(v)
        BY <4>1, OthersAppend
      <4>3. QED  BY <4>2 DEF v, e
    <3>3. Others(f[n]) = g[n]
      <4>1. g[n] = IF n \in C THEN Append(g[n - 1], s[n]) ELSE g[n - 1]  BY <1>7
      <4>2. n \in C <=> s[n].pid \notin {AitPid, SctePid}  BY <1>4
      <4>3. QED  BY <2>2, <3>1, <3>2, <4>1, <4>2, Zenon
    <3>4. QED  BY <2>1, <3>3
  <2>4. CASE n \notin K
    <3>1. n \notin C  BY <1>3, <1>4, <2>4
    <3>2. f[n] = f[n - 1] /\ g[n] = g[n - 1]  BY <1>7, <2>4, <3>1
    <3>3. QED  BY <2>1, <2>2, <3>2
  <2>5. QED  BY <2>3, <2>4
<1>10. 0..N \subseteq G
  <2> HIDE DEF G
  <2>1. QED  BY <1>1, <1>8, <1>9, Induction
<1>11. f[N] \in Seq(S) /\ Others(f[N]) = g[N]  BY <1>1, <1>7, <1>10
<1>12. QED  BY <1>2, <1>5, <1>6, <1>11

(* Without repeated PIDs it leaves no stream on the AIT PID. *)
LEMMA RemovalTakesAit ==
  ASSUME NEW S, NEW s \in Seq(S), PidsDiffer(s)
  PROVE  \A i \in DOMAIN WithoutAit(s) : WithoutAit(s)[i].pid # AitPid
<1> DEFINE N == Len(s)
           K == DOMAIN s \ Removed(s)
<1>1. N \in Nat /\ DOMAIN s = 1..N /\ \A n \in 1..N : s[n] \in S
  BY ElementOfSeq, LenProperties
<1>2. WithoutAit(s) = Kept(s, K)  BY DEF WithoutAit
<1>3. ASSUME NEW n \in 1..N, n \in K  PROVE s[n].pid # AitPid
  <2>1. PICK r : /\ ~r[0]
                 /\ \A m \in 1..N : r[m] <=> s[m].pid = AitPid /\ ~r[m - 1]
                 /\ Removed(s) = {m \in 1..N : r[m]}
    BY RemovedSteps
  <2> SUFFICES ASSUME s[n].pid = AitPid  PROVE FALSE  OBVIOUS
  <2>2. r[n - 1]  BY <1>1, <1>3, <2>1
  <2>3. n - 1 \in 1..N
    <3>1. n # 1  BY <2>1, <2>2
    <3>2. QED  BY <1>1, <3>1
  <2>4. s[n - 1].pid = AitPid  BY <2>1, <2>2, <2>3
  <2>5. n - 1 = n  BY <1>1, <2>3, <2>4 DEF PidsDiffer
  <2>6. QED  BY <1>1, <2>5
<1> HIDE DEF K
<1>4. PICK f : IsKeeping(f, S, s, K) /\ Kept(s, K) = f[N]  BY KeptSteps
<1>5. /\ f \in [0..N -> Seq(S)] /\ f[0] = <<>>
      /\ \A n \in 1..N : f[n] = IF n \in K THEN Append(f[n - 1], s[n]) ELSE f[n - 1]
  BY <1>4 DEF IsKeeping
<1> HIDE DEF N
<1> DEFINE NoAit(q) == \A i \in DOMAIN q : q[i].pid # AitPid
           G == {n \in 0..N : NoAit(f[n])}
<1>6. 0 \in G  BY <1>1, <1>5
<1>7. ASSUME NEW n \in 1..N, n - 1 \in G  PROVE n \in G
  <2>1. f[n - 1] \in Seq(S) /\ s[n] \in S /\ n \in 0..N  BY <1>1, <1>5
  <2>2. NoAit(f[n - 1])  BY <1>7
  <2>3. CASE n \in K
    <3>1. f[n] = Append(f[n - 1], s[n])  BY <1>5, <2>3
    <3>2. s[n].pid # AitPid  BY <1>3, <2>3
    <3>3. NoAit(f[n])  BY <2>1, <2>2, <3>1, <3>2, AppendProperties, LenProperties
    <3>4. QED  BY <2>1, <3>3
  <2>4. CASE n \notin K  BY <1>5, <2>1, <2>2, <2>4
  <2>5. QED  BY <2>3, <2>4
<1>8. 0..N \subseteq G
  <2> HIDE DEF G
  <2>1. QED  BY <1>1, <1>6, <1>7, Induction
<1>9. NoAit(f[N])  BY <1>1, <1>8
<1>10. QED  BY <1>2, <1>4, <1>9
(* The edit puts its own streams behind those. *)
LEMMA EditStreams ==
  ASSUME NEW t, NEW P, t.streams \in Seq([pid : P, size : Nat])
  PROVE  /\ Others(Edit(t).streams) = Others(t.streams)
         /\ AitDefined /\ AitPid # SctePid /\ PidsDiffer(t.streams) =>
              {n \in DOMAIN Edit(t).streams : Edit(t).streams[n].pid = AitPid}
                = {Len(Edit(t).streams)}
<1> DEFINE S == [pid : P, size : Nat] \cup {ScteStream, AitStream}
           a == IF AitDefined THEN WithoutAit(t.streams) ELSE t.streams
           b == IF ScteDefined THEN Append(a, ScteStream) ELSE a
           c == IF AitDefined THEN Append(b, AitStream) ELSE b
<1>1. t.streams \in Seq(S)
  <2>1. \A n \in 1..Len(t.streams) : t.streams[n] \in S  BY ElementOfSeq
  <2>2. t.streams \in [1..Len(t.streams) -> S] /\ Len(t.streams) \in Nat
    BY <2>1, LenProperties
  <2>3. QED  BY <2>2, SeqDef
<1>2. /\ ScteStream \in S /\ ScteStream.pid = SctePid
      /\ AitStream \in S /\ AitStream.pid = AitPid
  BY DEF ScteStream, AitStream
<1> HIDE DEF S
<1>3. a \in Seq(S) /\ Others(a) = Others(t.streams)
  BY <1>1, RemovalKeepsOthers
<1>4. AitDefined /\ PidsDiffer(t.streams) => \A n \in DOMAIN a : a[n].pid # AitPid
  BY <1>1, RemovalTakesAit
<1> HIDE DEF a
<1>5. b \in Seq(S) /\ Others(b) = Others(a)
      /\ b = a \o (IF ScteDefined THEN <<ScteStream>> ELSE <<>>)
  <2>1. CASE ScteDefined
    BY <1>2, <1>3, <2>1, OthersAppend, AppendProperties, AppendIsConcat
  <2>2. CASE ~ScteDefined  BY <1>3, <2>2, ConcatEmptySeq
  <2>3. QED  BY <2>1, <2>2
<1>6. (\A n \in DOMAIN a : a[n].pid # AitPid) /\ AitPid # SctePid =>
        \A n \in DOMAIN b : b[n].pid # AitPid
  <2>1. CASE ScteDefined
    <3>1. b = Append(a, ScteStream)  BY <2>1
    <3>2. QED  BY <1>2, <1>3, <3>1, AppendProperties, LenProperties
  <2>2. CASE ~ScteDefined  BY <2>2
  <2>3. QED  BY <2>1, <2>2
<1> HIDE DEF b
<1>7. c \in Seq(S) /\ Others(c) = Others(b)
      /\ c = b \o (IF AitDefined THEN <<AitStream>> ELSE <<>>)
  <2>1. CASE AitDefined
    BY <1>2, <1>5, <2>1, OthersAppend, AppendProperties, AppendIsConcat
  <2>2. CASE ~AitDefined  BY <1>5, <2>2, ConcatEmptySeq
  <2>3. QED  BY <2>1, <2>2
<1>8. AitDefined /\ (\A n \in DOMAIN b : b[n].pid # AitPid) =>
        {n \in DOMAIN c : c[n].pid = AitPid} = {Len(c)}
  <2> SUFFICES ASSUME AitDefined, \A n \in DOMAIN b : b[n].pid # AitPid
               PROVE  {n \in DOMAIN c : c[n].pid = AitPid} = {Len(c)}
    OBVIOUS
  <2>1. c = Append(b, AitStream)  OBVIOUS
  <2>2. /\ Len(b) \in Nat /\ DOMAIN b = 1..Len(b) /\ Len(c) = Len(b) + 1
        /\ DOMAIN c = 1..Len(c) /\ c[Len(c)] = AitStream
        /\ \A n \in 1..Len(b) : c[n] = b[n]
    BY <1>2, <1>5, <1>7, <2>1, AppendProperties, LenProperties
  <2> HIDE DEF c
  <2>3. \A n \in DOMAIN c : c[n].pid = AitPid <=> n = Len(c)  BY <1>2, <2>2
  <2>4. Len(c) \in DOMAIN c  BY <2>2
  <2>5. QED  BY <2>3, <2>4
<1> HIDE DEF c
<1>9. Edit(t).streams = c  BY <1>5, <1>7 DEF Edit, a
<1>10. QED  BY <1>3, <1>4, <1>5, <1>6, <1>7, <1>8, <1>9

(* A receiver of the output sees the streams of the table that came in, and
   the AIT last: for tables of every number of streams. *)
THEOREM StreamsKept == Spec => []EditKeepsStreams
<1>1. IInv => EditKeepsStreams
  <2> SUFFICES ASSUME IInv, out # NoTable
               PROVE  /\ Others(out.streams) = Others(section.streams)
                      /\ AitDefined /\ AitPid # SctePid /\ PidsDiffer(section.streams) =>
                           {n \in DOMAIN out.streams : out.streams[n].pid = AitPid}
                             = {Len(out.streams)}
    BY DEF EditKeepsStreams
  <2>1. out = Edit(section) /\ section \in Tables
    BY DEF IInv, OutFollowsIn, OutNeedsSection, SectionIsTable
  <2> DEFINE P == 0..8191
  <2>2. section.streams \in Seq([pid : P, size : Nat])  BY <2>1, PmtAssumption
  <2> HIDE DEF P
  <2>3. QED  BY <2>1, <2>2, EditStreams
<1>2. QED  BY Invariance, <1>1, PTL
=============================================================================
