--------------------------- MODULE ProgramProofs ---------------------------
(***************************************************************************)
(* The composition of assembler and detector, for every stream of PES      *)
(* packets, every channel and every size of the buffers: it answers each   *)
(* new level as Signalling says, runs the assembler unchanged, and hands   *)
(* the detector what keeps the invariant proved in X31Proofs.              *)
(***************************************************************************)
EXTENDS Program, SequenceTheorems, TLAPS

(* What the detector may still have to read of a PES with PTS t. *)
SignalsAt(t) == {Det!X31Reading(LevelOf[p]) : p \in {q \in Signals : PtsOf[q] = t}}
Readable(t) == Noise \cup SignalsAt(t)

(* The readings that are left come from one PES, and the id of the break is
   the one that was announced. *)
ReadInv ==
  /\ todo \in Seq(Readable(pts))
  /\ event_id = lastOut

(* The level of the PES handed over last is read, or the next to be read. *)
LevelInv ==
  handed.pes # <<>> /\ handed.pes[1] \in Signals =>
    LET l == LevelOf[handed.pes[1]] IN
    \/ gpis = l /\ todo \in Seq(Noise)
    \/ todo # <<>> /\ Head(todo) = Det!X31Reading(l) /\ Tail(todo) \in Seq(Noise)

IInv == ReadInv /\ LevelInv

-----------------------------------------------------------------------------
(* Noise is skipped, and an X/31 unit is recognised. *)
LEMMA Recognised ==
  /\ \A r \in Noise : ~Det!IsX31(r)
  /\ \A l : Det!IsX31(Det!X31Reading(l)) /\ Det!X31Reading(l).gpi = l
<1>1. \A r \in Noise : ~Det!IsX31(r)
  BY ProgramAssumption
<1>2. \A l : Det!PacketNr(Det!X31Reading(l)) = 31
  BY DEF Det!PacketNr, Det!X31Reading
<1>3. QED
  BY <1>1, <1>2 DEF Det!IsX31, Det!X31Reading

(* The readings that the detector is called with. *)
LEMMA Called ==
  ASSUME NEW r, NEW f \in Det!Followers
  PROVE  /\ f \in Seq(Noise)
         /\ <<r>> \o f \in Seq(Noise \cup {r})
         /\ <<r>> \o f # <<>> /\ Head(<<r>> \o f) = r
         /\ Tail(<<r>> \o f) \in Seq(Noise)
         /\ Tail(<<r>> \o f) = f
<1>1. f \in Seq(Noise)
  BY DEF Det!Followers
<1>2. f \in Seq(Noise \cup {r}) /\ <<r>> \in Seq(Noise \cup {r})
      /\ Len(<<r>>) = 1 /\ <<r>>[1] = r
  BY <1>1, SeqMonotonic
<1> DEFINE s == <<r>> \o f
<1>3. s \in Seq(Noise \cup {r}) /\ Len(s) = 1 + Len(f)
      /\ \A i \in 1..(1 + Len(f)) : s[i] = IF i <= 1 THEN <<r>>[i] ELSE f[i - 1]
  BY <1>2, ConcatProperties
<1>4. Len(f) \in Nat
  BY <1>1, LenProperties
<1>5. s # <<>> /\ Head(s) = r
  BY <1>2, <1>3, <1>4
<1>6. /\ Tail(s) \in Seq(Noise \cup {r}) /\ Len(Tail(s)) = Len(f)
      /\ \A i \in 1..Len(Tail(s)) : Tail(s)[i] = s[i + 1]
  BY <1>3, <1>4, <1>5, HeadTailProperties
<1>7. \A i \in 1..Len(Tail(s)) : Tail(s)[i] = f[i]
  BY <1>2, <1>3, <1>4, <1>6
<1>8. Tail(s) = f
  BY <1>2, <1>6, <1>7, SeqEqual
<1>9. QED
  BY <1>1, <1>3, <1>5, <1>8

(* One element less. *)
LEMMA Shorter ==
  ASSUME NEW T, NEW s \in Seq(T), s # <<>>
  PROVE  Head(s) \in T /\ Tail(s) \in Seq(T)
  BY HeadTailProperties

-----------------------------------------------------------------------------
(* Nothing has been read. *)
LEMMA InitInv == Init => IInv
<1> SUFFICES ASSUME Init PROVE IInv
  OBVIOUS
<1>1. todo = <<>> /\ event_id = lastOut /\ handed.pes = <<>>
  BY DEF Init, Det!Init, Asm!Init, Asm!Feed!NoHandover
<1>2. QED  BY <1>1, EmptySeq DEF IInv, ReadInv, LevelInv

(* Steps that leave the detector and the last handover alone. *)
LEMMA OthersKeepInv ==
  ASSUME IInv, UNCHANGED <<todo, pts, event_id, lastOut, gpis, handed>>
  PROVE  IInv'
  BY DEF IInv, ReadInv, LevelInv, Readable, SignalsAt

(* A handover: the readings to come begin with the unit of the PES. *)
LEMMA HandoverKeepsInv ==
  ASSUME IInv, todo = <<>>, NEW k \in Starts, Asm!PushStart(k), Process(k)
  PROVE  IInv'
<1>1. handed' = [pes |-> pes, by |-> k] /\ pes # <<>>
  BY DEF Asm!PushStart
<1>2. CASE pes[1] \in Headed
  <2>1. PICK r \in FirstUnit(pes[1]), f \in Det!Followers :
          Det!TakePes(<<r>> \o f, PtsOf[pes[1]])
    BY <1>2 DEF Process
  <2>2. todo' = <<r>> \o f /\ pts' = PtsOf[pes[1]]
        /\ UNCHANGED <<event_id, lastOut, gpis>>
    BY <2>1 DEF Det!TakePes
  <2>3. r \in Readable(pts')
    BY <2>2 DEF FirstUnit, Readable, SignalsAt
  <2>4. todo' \in Seq(Noise \cup {r})
    BY <2>2, Called
  <2>5. Noise \cup {r} \subseteq Readable(pts')
    BY <2>3 DEF Readable
  <2>6. todo' \in Seq(Readable(pts'))
    BY <2>4, <2>5, SeqMonotonic
  <2>7. ReadInv'
    BY <2>2, <2>6 DEF IInv, ReadInv, Readable, SignalsAt
  <2>8. ASSUME pes[1] \in Signals
        PROVE  todo' # <<>> /\ Head(todo') = Det!X31Reading(LevelOf[pes[1]])
               /\ Tail(todo') \in Seq(Noise)
    BY <2>2, <2>8, Called DEF FirstUnit
  <2>9. LevelInv'
    BY <1>1, <2>8 DEF LevelInv, Det!X31Reading
  <2>10. QED  BY <2>7, <2>9 DEF IInv
<1>3. CASE pes[1] \notin Headed
  <2>1. UNCHANGED <<todo, pts, event_id, lastOut, gpis>>
    BY <1>3 DEF Process, detVars
  <2>2. handed'.pes[1] \notin Signals
    BY <1>1, <1>3, ProgramAssumption
  <2>3. QED  BY <2>1, <2>2 DEF IInv, ReadInv, LevelInv, Readable, SignalsAt
<1>4. QED  BY <1>2, <1>3

(* What one iteration of the detector's loop finds and does. *)
LEMMA Finds ==
  ASSUME ReadInv, Detect
  PROVE  /\ todo # <<>> /\ todo' = Tail(todo) /\ UNCHANGED <<pts, handed>>
         /\ Head(todo) \in Readable(pts)
         /\ todo' \in Seq(Readable(pts))
  BY Shorter DEF ReadInv, Detect, Det!Iterate, asmVars

LEMMA SkipsNoise ==
  ASSUME ReadInv, Detect, Head(todo) \in Noise
  PROVE  UNCHANGED <<gpis, splice, lastOut, event_id>>
<1>1. ~Det!IsX31(Head(todo))
  BY Recognised
<1>2. QED
  BY <1>1
  DEF Detect, Det!Iterate, Det!SkipUnit, Det!SpliceInSeen, Det!SpliceOutSeen,
      Det!OtherLevelSeen, Det!RepeatedLevelSeen, Det!NewLevel

(* A signal is answered as Signalling says. *)
LEMMA Answers ==
  ASSUME ReadInv, Detect, NEW p \in Signals, PtsOf[p] = pts,
         Head(todo) = Det!X31Reading(LevelOf[p])
  PROVE  /\ S!ReadIn(p) \/ S!ReadOut(p) \/ S!ReadOther(p)
         /\ gpis' = LevelOf[p]
         /\ event_id' = lastOut'
<1> DEFINE r == Head(todo)
<1>1. Det!IsX31(r) /\ r.gpi = LevelOf[p]
  BY Recognised
<1>2. Det!SpliceInSeen(r) \/ Det!SpliceOutSeen(r) \/ Det!OtherLevelSeen(r)
      \/ Det!RepeatedLevelSeen(r)
  BY <1>1 DEF Detect, Det!Iterate, Det!SkipUnit
<1>3. CASE Det!SpliceInSeen(r)
  <2>1. /\ LevelOf[p] = SpliceIn /\ gpis # SpliceIn /\ gpis' = SpliceIn
        /\ splice' = Det!Sit("I", event_id, pts + Preroll, cc)
        /\ UNCHANGED <<event_id, lastOut>>
    BY <1>1, <1>3 DEF Det!SpliceInSeen, Det!NewLevel, Det!AddSplice
  <2>2. /\ splice'.type = "I" /\ splice'.event = lastOut
        /\ splice'.time = (PtsOf[p] + Preroll) % PtsMod
    BY <2>1 DEF Det!Sit, Det!SpliceTime, ReadInv
  <2>3. QED  BY <2>1, <2>2 DEF S!ReadIn, S!Command, ReadInv
<1>4. CASE Det!SpliceOutSeen(r)
  <2>1. /\ LevelOf[p] = SpliceOut /\ gpis # SpliceOut /\ gpis' = SpliceOut
        /\ event_id' \in EventIds /\ lastOut' = event_id'
        /\ splice' = Det!Sit("O", event_id', pts + Preroll, cc)
    BY <1>1, <1>4 DEF Det!SpliceOutSeen, Det!NewLevel, Det!AddSplice
  <2>2. /\ splice'.type = "O" /\ splice'.event = lastOut'
        /\ splice'.time = (PtsOf[p] + Preroll) % PtsMod
    BY <2>1 DEF Det!Sit, Det!SpliceTime
  <2>3. QED  BY <2>1, <2>2 DEF S!ReadOut, S!Command
<1>5. CASE Det!OtherLevelSeen(r)
  BY <1>1, <1>5 DEF Det!OtherLevelSeen, S!ReadOther, ReadInv
<1>6. CASE Det!RepeatedLevelSeen(r)
  BY <1>1, <1>6 DEF Det!RepeatedLevelSeen, S!ReadOther, ReadInv
<1>7. QED  BY <1>2, <1>3, <1>4, <1>5, <1>6

(* Every iteration is one of the two. *)
LEMMA NoiseOrSignal ==
  ASSUME ReadInv, Detect
  PROVE  \/ Head(todo) \in Noise
         \/ \E p \in Signals : PtsOf[p] = pts
                             /\ Head(todo) = Det!X31Reading(LevelOf[p])
  BY Finds DEF Readable, SignalsAt

(* An iteration of the detector's loop. *)
LEMMA DetectKeepsInv == ASSUME IInv, Detect PROVE IInv'
<1>1. ReadInv /\ LevelInv
  BY DEF IInv
<1>2. event_id' = lastOut'
  BY <1>1, NoiseOrSignal, SkipsNoise, Answers DEF ReadInv
<1>3. ReadInv'
  BY <1>1, <1>2, Finds DEF ReadInv, Readable, SignalsAt
<1>4. ASSUME handed.pes # <<>>, handed.pes[1] \in Signals
      PROVE  gpis' = LevelOf[handed.pes[1]] /\ todo' \in Seq(Noise)
  <2> DEFINE l == LevelOf[handed.pes[1]]
  <2>1. CASE gpis = l /\ todo \in Seq(Noise)
    <3>1. Head(todo) \in Noise /\ todo' \in Seq(Noise)
      BY <1>1, <2>1, Finds, Shorter
    <3>2. QED  BY <1>1, <2>1, <3>1, SkipsNoise
  <2>2. CASE Head(todo) = Det!X31Reading(l) /\ Tail(todo) \in Seq(Noise)
    <3>1. Head(todo) \notin Noise /\ Head(todo).gpi = l
      BY <2>2, Recognised
    <3>2. PICK p \in Signals : PtsOf[p] = pts /\ Head(todo) = Det!X31Reading(LevelOf[p])
      BY <1>1, <3>1, NoiseOrSignal
    <3>3. gpis' = LevelOf[p]
      BY <1>1, <3>2, Answers
    <3>4. LevelOf[p] = l
      BY <3>1, <3>2, Recognised
    <3>5. QED  BY <1>1, <2>2, <3>3, <3>4, Finds
  <2>3. QED  BY <1>1, <1>4, <2>1, <2>2 DEF LevelInv
<1>5. handed' = handed
  BY <1>1, Finds
<1>6. LevelInv'
  BY <1>4, <1>5 DEF LevelInv
<1>7. QED  BY <1>3, <1>6 DEF IInv

(* A packet. *)
LEMMA PushKeepsInv == ASSUME IInv, Push PROVE IInv'
<1>1. CASE PushOther
  BY <1>1, OthersKeepInv
  DEF PushOther, detVars, Asm!PushContinuation, Asm!PushAdaptation, Asm!PushErrored
<1>2. ASSUME NEW k \in Starts, PushStart(k)  PROVE IInv'
  <2>1. CASE Asm!PushFirstStart(k) /\ UNCHANGED detVars
    BY <2>1, OthersKeepInv DEF Asm!PushFirstStart, detVars
  <2>2. CASE Asm!PushStart(k) /\ Process(k)
    BY <2>2, HandoverKeepsInv DEF Push
  <2>3. CASE Asm!PushStartOnEmpty(k) /\ UNCHANGED detVars
    BY <2>3 DEF Asm!PushStartOnEmpty, detVars, IInv, ReadInv, LevelInv, Readable,
                SignalsAt
  <2>4. QED  BY <1>2, <2>1, <2>2, <2>3 DEF PushStart
<1>3. QED  BY <1>1, <1>2 DEF Push

(* Any step. *)
LEMMA StepKeepsInv == ASSUME IInv, [Next]_vars PROVE IInv'
<1>1. CASE TakeBuffer
  BY <1>1, OthersKeepInv DEF TakeBuffer, asmVars, detVars
<1>2. CASE Tick
  BY <1>2, OthersKeepInv DEF Tick, asmVars, Det!Tick
<1>3. CASE UNCHANGED vars
  BY <1>3, OthersKeepInv DEF vars, asmVars, detVars
<1>4. QED
  BY <1>1, <1>2, <1>3, PushKeepsInv, DetectKeepsInv DEF Next

(* The invariant holds in every reachable state. *)
THEOREM Invariance == Spec => []IInv
<1>1. QED  BY InitInv, StepKeepsInv, PTL DEF Spec

(* LevelOfLastPes: between calls, the level is that of the PES handed over
   last. *)
THEOREM LevelIsOfLastPes == Spec => []LevelOfLastPes
<1>1. IInv => LevelOfLastPes
  BY DEF IInv, LevelInv, LevelOfLastPes
<1>2. QED  BY <1>1, Invariance, PTL

-----------------------------------------------------------------------------
(* The abstract signalling starts with no level and no command. *)
LEMMA SignallingStarts == Init => S!SignalInit
  BY DEF Init, Det!Init, Det!NoSit, S!SignalInit, S!NoCommand

(* Only the detector's loop does anything for it. *)
LEMMA SignallingSteps == ASSUME IInv, [Next]_vars PROVE [S!SignalNext]_(S!signalVars)
<1>1. ReadInv
  BY DEF IInv
<1>2. CASE Detect
  <2>1. CASE Head(todo) \in Noise
    BY <1>1, <1>2, <2>1, SkipsNoise DEF S!signalVars
  <2>2. CASE \E p \in Signals : PtsOf[p] = pts
                               /\ Head(todo) = Det!X31Reading(LevelOf[p])
    BY <1>1, <1>2, <2>2, Answers DEF S!SignalNext
  <2>3. QED  BY <1>1, <1>2, <2>1, <2>2, NoiseOrSignal
<1>3. CASE ~Detect
  <2>1. UNCHANGED <<gpis, splice, lastOut>>
    BY <1>3
    DEF Next, vars, detVars, TakeBuffer, Tick, Det!Tick, Push, PushOther, PushStart,
        Process, Det!TakePes
  <2>2. QED  BY <2>1 DEF S!signalVars
<1>4. QED  BY <1>2, <1>3

(* ImplementsSignalling, for every stream, channel and buffer size. *)
THEOREM Implementation == Spec => ImplementsSignalling
<1>1. IInv /\ [Next]_vars => [S!SignalNext]_(S!signalVars)  BY SignallingSteps
<1>2. QED
  BY <1>1, SignallingStarts, Invariance, PTL DEF Spec, ImplementsSignalling, S!SignalSpec

(* The assembler runs here as it does in TxtPes: what is proved of it there
   holds of the whole (below). *)
THEOREM RunsTheAssembler == Spec => Asm!Spec
<1>1. Init => Asm!Init
  BY DEF Init
<1>2. [Next]_vars => [Asm!Next]_(Asm!vars)
  <2> SUFFICES ASSUME [Next]_vars PROVE [Asm!Next]_(Asm!vars)
    OBVIOUS
  <2>1. CASE Push
    BY <2>1 DEF Push, PushOther, PushStart, Asm!Next
  <2>2. CASE ~Push
    BY <2>2 DEF Next, vars, asmVars, TakeBuffer, Tick, Detect, Asm!vars
  <2>3. QED  BY <2>1, <2>2
<1>3. QED  BY <1>1, <1>2, PTL DEF Spec, Asm!Spec
-----------------------------------------------------------------------------
(* The proofs about the two components, for the instances that run here. *)
AsmP == INSTANCE TxtPesProofs
DetP == INSTANCE X31Proofs WITH source <- 0, setbacks <- 0, MaxSetBack <- 0, SetBacks <- 0

LEMMA LevelsAndNoise == Levels \subseteq 0..255 /\ Noise \subseteq DetP!Reading
  BY ProgramAssumption DEF Levels, DetP!Reading, Det!Reading, DetP!Bad, Det!Bad

LEMMA SitsFit == \A type \in {"N", "I", "O"} : DetP!SitLength(type) < 184
  BY DEF DetP!SitLength

(* They are the same components. *)
LEMMA SameAssembler ==
  /\ Asm!Init <=> AsmP!Init
  /\ [Asm!Next]_(Asm!vars) <=> [AsmP!Next]_(AsmP!vars)
  /\ Asm!TypeOK <=> AsmP!TypeOK
<1>1. Asm!Init <=> AsmP!Init
  BY DEF Asm!Init, AsmP!Init, Asm!Feed!NoHandover, AsmP!Feed!NoHandover
<1>2. \A k : Asm!NewBuffer(k) <=> AsmP!NewBuffer(k)
  BY DEF Asm!NewBuffer, AsmP!NewBuffer
<1>3. \A k : /\ Asm!PushFirstStart(k) <=> AsmP!PushFirstStart(k)
             /\ Asm!PushStart(k) <=> AsmP!PushStart(k)
             /\ Asm!PushStartOnEmpty(k) <=> AsmP!PushStartOnEmpty(k)
  BY <1>2 DEF Asm!PushFirstStart, AsmP!PushFirstStart, Asm!PushStart, AsmP!PushStart,
              Asm!PushStartOnEmpty, AsmP!PushStartOnEmpty
<1>4. Asm!ClearTxtBuffer <=> AsmP!ClearTxtBuffer
  BY DEF Asm!ClearTxtBuffer, AsmP!ClearTxtBuffer
<1>5. \A k : Asm!InSequence(k) <=> AsmP!InSequence(k)
  BY DEF Asm!InSequence, AsmP!InSequence, Asm!NextCounter, AsmP!NextCounter
<1>6. \A k : /\ Asm!Append_(k) <=> AsmP!Append_(k)
             /\ Asm!RejectCC(k) <=> AsmP!RejectCC(k)
             /\ Asm!AwaitStart <=> AsmP!AwaitStart
             /\ Asm!Displaced(k) <=> AsmP!Displaced(k)
  BY <1>4, <1>5
  DEF Asm!Append_, AsmP!Append_, Asm!RejectCC, AsmP!RejectCC, Asm!AwaitStart,
      AsmP!AwaitStart, Asm!Displaced, AsmP!Displaced, Asm!NextCounter, AsmP!NextCounter
<1>7. \A k : Asm!PushContinuation(k) <=> AsmP!PushContinuation(k)
  BY <1>6 DEF Asm!PushContinuation, AsmP!PushContinuation
<1>8. /\ Asm!PushAdaptation <=> AsmP!PushAdaptation
      /\ Asm!PushErrored <=> AsmP!PushErrored
  BY <1>4 DEF Asm!PushAdaptation, AsmP!PushAdaptation, Asm!PushErrored, AsmP!PushErrored
<1>9. [Asm!Next]_(Asm!vars) <=> [AsmP!Next]_(AsmP!vars)
  BY <1>3, <1>7, <1>8 DEF Asm!Next, AsmP!Next, Asm!vars, AsmP!vars
<1>10. Asm!TypeOK <=> AsmP!TypeOK
  BY DEF Asm!TypeOK, AsmP!TypeOK
<1>11. QED  BY <1>1, <1>9, <1>10

LEMMA SameDetector ==
  /\ Det!Init <=> DetP!Init
  /\ Det!Iterate <=> DetP!Iterate
  /\ Det!TypeOK <=> DetP!TypeOK
<1>1. Det!Init <=> DetP!Init
  BY DEF Det!Init, DetP!Init, Det!NoSit, DetP!NoSit
<1>2. \A r : Det!IsX31(r) <=> DetP!IsX31(r)
  BY DEF Det!IsX31, DetP!IsX31, Det!PacketNr, DetP!PacketNr
<1>3. \A t, e, m : Det!AddSplice(t, e, m) <=> DetP!AddSplice(t, e, m)
  BY DEF Det!AddSplice, DetP!AddSplice, Det!Sit, DetP!Sit, Det!SpliceTime, DetP!SpliceTime
<1>4. \A r : Det!NewLevel(r) <=> DetP!NewLevel(r)
  BY <1>2 DEF Det!NewLevel, DetP!NewLevel
<1>5. \A r : /\ Det!SkipUnit(r) <=> DetP!SkipUnit(r)
             /\ Det!OtherLevelSeen(r) <=> DetP!OtherLevelSeen(r)
  BY <1>2, <1>4
  DEF Det!SkipUnit, DetP!SkipUnit, Det!OtherLevelSeen, DetP!OtherLevelSeen
<1>6. \A r : Det!SpliceInSeen(r) <=> DetP!SpliceInSeen(r)
  BY <1>3, <1>4 DEF Det!SpliceInSeen, DetP!SpliceInSeen
<1>7. \A r : Det!SpliceOutSeen(r) <=> DetP!SpliceOutSeen(r)
  BY <1>3, <1>4 DEF Det!SpliceOutSeen, DetP!SpliceOutSeen
<1>8. \A r : Det!RepeatedLevelSeen(r) <=> DetP!RepeatedLevelSeen(r)
  BY <1>2, <1>3 DEF Det!RepeatedLevelSeen, DetP!RepeatedLevelSeen
<1>9. Det!Iterate <=> DetP!Iterate
  BY <1>5, <1>6, <1>7, <1>8 DEF Det!Iterate, DetP!Iterate
<1>10. Det!TypeOK <=> DetP!TypeOK
  BY DEF Det!TypeOK, DetP!TypeOK, Det!Reading, DetP!Reading, Det!Bad, DetP!Bad
<1>11. QED  BY <1>1, <1>9, <1>10

(* The assembler keeps its invariant, whatever is done with its buffers. *)
LEMMA AssemblerInvariance == Spec => []AsmP!IInv
<1>1. Asm!Init => AsmP!IInv
  BY SameAssembler, ComponentsAssumption, AsmP!InitInv
<1>2. AsmP!IInv /\ [Asm!Next]_(Asm!vars) => AsmP!IInv'
  BY SameAssembler, ComponentsAssumption, AsmP!StepInv
<1>3. QED  BY <1>1, <1>2, RunsTheAssembler, PTL DEF Asm!Spec

-----------------------------------------------------------------------------
(* What the detector is called with is made of readings and a PTS. *)
LEMMA CallTyped ==
  ASSUME NEW p \in Headed, NEW r \in FirstUnit(p), NEW f \in Det!Followers
  PROVE  <<r>> \o f \in Seq(DetP!Reading) /\ PtsOf[p] \in 0..(PtsMod - 1)
<1>1. r \in DetP!Reading
  <2>1. CASE p \in Signals
    BY <2>1, ProgramAssumption DEF FirstUnit, Det!X31Reading, DetP!Reading
  <2>2. CASE p \notin Signals
    BY <2>2, LevelsAndNoise DEF FirstUnit
  <2>3. QED  BY <2>1, <2>2
<1>2. Noise \cup {r} \subseteq DetP!Reading
  BY <1>1, LevelsAndNoise
<1>3. QED  BY <1>2, Called, SeqMonotonic, ProgramAssumption

(* The steps that leave the detector idle, take a PES or let time pass. *)
LEMMA IdleDetector ==
  ASSUME DetP!IInv, UNCHANGED detVars
  PROVE  DetP!IInv'
<1>1. DetP!TypeOK'
  BY DEF DetP!IInv, DetP!TypeOK, detVars
<1>2. QED
  BY <1>1, LevelsAndNoise, SitsFit, ComponentsAssumption, DetP!DetectorUnchanged
  DEF detVars, DetP!detector

LEMMA DetectorTakes ==
  ASSUME DetP!IInv, NEW s \in Seq(DetP!Reading), NEW t \in 0..(PtsMod - 1),
         Det!TakePes(s, t)
  PROVE  DetP!IInv'
<1>1. DetP!TypeOK'
  BY DEF DetP!IInv, DetP!TypeOK, Det!TakePes
<1>2. QED
  BY <1>1, LevelsAndNoise, SitsFit, ComponentsAssumption, DetP!DetectorUnchanged
  DEF Det!TakePes, DetP!detector

LEMMA DetectorTicks == ASSUME DetP!IInv, Det!Tick PROVE DetP!IInv'
<1>1. DetP!TypeOK'
  BY ComponentsAssumption DEF DetP!IInv, DetP!TypeOK, Det!Tick
<1>2. QED
  BY <1>1, LevelsAndNoise, SitsFit, ComponentsAssumption, DetP!DetectorUnchanged
  DEF Det!Tick, DetP!detector

(* A packet reaches the detector only by a handover. *)
LEMMA DetectorPushed == ASSUME DetP!IInv, Push PROVE DetP!IInv'
<1>1. CASE UNCHANGED detVars
  BY <1>1, IdleDetector
<1>2. ASSUME NEW k \in Starts, Process(k)  PROVE DetP!IInv'
  <2>1. CASE pes[1] \in Headed
    <3>1. PICK r \in FirstUnit(pes[1]), f \in Det!Followers :
            Det!TakePes(<<r>> \o f, PtsOf[pes[1]])
      BY <1>2, <2>1 DEF Process
    <3>2. QED  BY <2>1, <3>1, CallTyped, DetectorTakes
  <2>2. CASE pes[1] \notin Headed
    BY <1>1, <1>2, <2>2 DEF Process
  <2>3. QED  BY <2>1, <2>2
<1>3. QED  BY <1>1, <1>2 DEF Push, PushOther, PushStart

(* The detector keeps its invariant on what the assembler hands to it. *)
LEMMA DetectorInvariance == Spec => []DetP!IInv
<1>1. Init => DetP!IInv
  BY SameDetector, LevelsAndNoise, SitsFit, ComponentsAssumption, DetP!InitInv DEF Init
<1>2. DetP!IInv /\ [Next]_vars => DetP!IInv'
  <2> SUFFICES ASSUME DetP!IInv, [Next]_vars  PROVE DetP!IInv'
    OBVIOUS
  <2>1. CASE TakeBuffer  BY <2>1, IdleDetector DEF TakeBuffer
  <2>2. CASE Tick  BY <2>2, DetectorTicks DEF Tick
  <2>3. CASE Push  BY <2>3, DetectorPushed
  <2>4. CASE Detect
    BY <2>4, SameDetector, LevelsAndNoise, SitsFit, ComponentsAssumption, DetP!IterateInv
    DEF Detect
  <2>5. CASE UNCHANGED vars  BY <2>5, IdleDetector DEF vars
  <2>6. QED  BY <2>1, <2>2, <2>3, <2>4, <2>5 DEF Next
<1>3. QED  BY <1>1, <1>2, PTL DEF Spec

(* No more packets are dropped than the buffer has. *)
LEMMA LeftFits == Spec => [](left \in 0..BufferSize)
<1>1. Init => left \in 0..BufferSize
  BY ProgramAssumption DEF Init
<1>2. left \in 0..BufferSize /\ [Next]_vars => (left \in 0..BufferSize)'
  <2> SUFFICES ASSUME left \in 0..BufferSize, [Next]_vars  PROVE left' \in 0..BufferSize
    OBVIOUS
  <2>1. ASSUME left > 0, NextPacket  PROVE left' \in 0..BufferSize
    BY <2>1, ProgramAssumption DEF NextPacket
  <2>2. CASE Push
    BY <2>1, <2>2 DEF Push, PushOther, PushStart
  <2>3. CASE ~Push
    BY <2>3, ProgramAssumption DEF Next, vars, TakeBuffer, Tick, Detect
  <2>4. QED  BY <2>2, <2>3
<1>3. QED  BY <1>1, <1>2, PTL DEF Spec

(* TypeOK: between the two components nothing gets out of its type, neither
   the counters nor the readings of the PES that is handed over nor the time
   of a command, and never more of a buffer is dropped than there is. *)
THEOREM TypeCorrect == Spec => []TypeOK
<1>1. AsmP!IInv => Asm!TypeOK
  BY SameAssembler DEF AsmP!IInv
<1>2. DetP!IInv => Det!TypeOK
  BY SameDetector DEF DetP!IInv
<1>3. QED
  BY <1>1, <1>2, AssemblerInvariance, DetectorInvariance, LeftFits, PTL DEF TypeOK

(* What X31 and TxtPes promise of a stream of their own holds of the teletext
   of the program, whatever the channel does to its packets: the detector
   reads a prefix of one PES, the command sent last is that of the level seen
   last, and a splice_in ends the break announced last (x31.c:119-131,247). *)
THEOREM ComponentsKeepTheirWord ==
  Spec => [](Asm!PrefixOfOnePes /\ Det!LevelIsSignalled /\ Det!InClosesOut)
<1>1. AsmP!IInv => Asm!PrefixOfOnePes
  BY DEF AsmP!IInv, AsmP!PrefixOfOnePes, Asm!PrefixOfOnePes,
         AsmP!Feed!PrefixOfOnePes, Asm!Feed!PrefixOfOnePes,
         AsmP!Feed!IsRun, Asm!Feed!IsRun
<1>2. DetP!IInv => Det!LevelIsSignalled /\ Det!InClosesOut
  BY DEF DetP!IInv, DetP!LevelIsSignalled, Det!LevelIsSignalled,
         DetP!InClosesOut, Det!InClosesOut
<1>3. QED  BY <1>1, <1>2, AssemblerInvariance, DetectorInvariance, PTL
=============================================================================
