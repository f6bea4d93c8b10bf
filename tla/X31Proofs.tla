----------------------------- MODULE X31Proofs -----------------------------
(***************************************************************************)
(* Proofs about X31, for every set of levels, readings and event ids, and  *)
(* every width of the clocks and counters.                                 *)
(***************************************************************************)
EXTENDS X31, Numbers, TLAPS

(* The id kept in the static event_id is that of the last splice_out, and a
   splice_in sent since then carries it. *)
IdIsKept == lastOut = event_id

(* The counter is one ahead of the last packet sent. *)
CcTracks == (sit.cc + 1) % CCMod = cc % CCMod

IInv ==
  /\ TypeOK
  /\ IdIsKept
  /\ CcTracks
  /\ LevelIsSignalled
  /\ InClosesOut

(* Everything that LevelIsSignalled, InClosesOut and the counter depend on. *)
detector == <<gpis, event_id, cc, sit, splice, lastOut>>

-----------------------------------------------------------------------------
(* The readings of a PES are readings. *)
LEMMA PesReadings ==
  ASSUME TypeOK, NEW f \in Followers, NEW r \in Noise \cup {X31Reading(source)}
  PROVE  <<r>> \o f \in Seq(Reading)
<1>1. X31Reading(source) \in Reading
  BY X31Assumption DEF TypeOK, X31Reading, Reading
<1>2. r \in Reading  BY <1>1, X31Assumption
<1>3. PICK n \in 0..(MaxReadings - 1) : f \in [1..n -> Noise]  BY DEF Followers
<1>4. n \in Nat /\ f \in [1..n -> Reading]  BY <1>3, X31Assumption
<1>5. f \in Seq(Reading)  BY <1>4
<1>6. QED  BY <1>2, <1>5

(* A splice time has the width of a PTS. *)
LEMMA SpliceTimeFits ==
  ASSUME pts \in 0..(PtsMod - 1)
  PROVE  /\ SpliceTime(pts + Preroll) \in 0..(PtsMod - 1)
         /\ (SpliceTime(pts + Preroll) - pts) % PtsMod = Preroll
<1>1. pts + Preroll \in Nat /\ PtsMod \in Nat \ {0} /\ Preroll \in 0..(PtsMod - 1)
  BY X31Assumption
<1>2. SpliceTime(pts + Preroll) \in 0..(PtsMod - 1)
  BY <1>1, ModSplit DEF SpliceTime
<1>3. QED  BY <1>1, <1>2, ModDistance DEF SpliceTime

(* A packet added takes the counter that is due, and leaves the next one. *)
LEMMA AddSpliceCounts ==
  ASSUME TypeOK, CcTracks, NEW type, NEW event, NEW time,
         AddSplice(type, event, time)
  PROVE  /\ cc' \in 0..(CounterMod - 1)
         /\ sit'.cc \in 0..(CCMod - 1)
         /\ sit'.cc = (sit.cc + 1) % CCMod
         /\ CcTracks'
<1>1. cc \in 0..(CounterMod - 1) /\ cc \in Nat /\ CCMod \in Nat \ {0}
      /\ CounterMod \in Nat \ {0} /\ CounterMod % CCMod = 0
  BY X31Assumption DEF TypeOK
<1>2. sit'.cc = cc % CCMod /\ cc' = (cc + 1) % CounterMod
  BY DEF AddSplice, Sit
<1>3. cc % CCMod \in 0..(CCMod - 1)  BY <1>1, ModSplit
<1>4. cc' \in 0..(CounterMod - 1) /\ cc' % CCMod = (cc + 1) % CCMod
  BY <1>1, <1>2, CounterWrap
<1>5. ((cc % CCMod) + 1) % CCMod = (cc + 1) % CCMod  BY <1>1, ModOfMod
<1>6. QED  BY <1>2, <1>3, <1>4, <1>5 DEF CcTracks

(* The packet itself is well formed. *)
LEMMA AddSpliceSit ==
  ASSUME TypeOK, CcTracks, NEW type \in {"N", "I", "O"},
         NEW event \in EventIds \cup {0}, NEW time,
         type # "N" => SpliceTime(time) \in 0..(PtsMod - 1),
         AddSplice(type, event, time)
  PROVE  sit' \in [type : {"-", "N", "I", "O"}, event : EventIds \cup {0},
                   time : 0..(PtsMod - 1), cc : 0..(CCMod - 1)]
<1>1. sit'.cc \in 0..(CCMod - 1)  BY AddSpliceCounts
<1>2. 0 \in 0..(PtsMod - 1)  BY X31Assumption
<1>3. cc % CCMod \in 0..(CCMod - 1)  BY <1>1 DEF AddSplice, Sit
<1>4. QED  BY <1>2, <1>3 DEF AddSplice, Sit

-----------------------------------------------------------------------------
(* The statics of the program start in the invariant. *)
LEMMA InitInv == Init => IInv
<1> SUFFICES ASSUME Init  PROVE IInv  OBVIOUS
<1>1. TypeOK  BY X31Assumption DEF Init, TypeOK, NoSit
<1>2. CcTracks
  <2>1. sit.cc + 1 = CCMod * 1 + 0 /\ cc = 0 /\ sit.cc + 1 \in Nat
        /\ 0 \in 0..(CCMod - 1) /\ CCMod \in Nat \ {0}
    BY X31Assumption DEF Init, NoSit
  <2>2. (sit.cc + 1) % CCMod = 0  BY <2>1, ModOf
  <2>3. 0 % CCMod = 0  BY <2>1, ModSmall
  <2>4. QED  BY <2>1, <2>2, <2>3 DEF CcTracks
<1>3. QED
  BY <1>1, <1>2, X31Assumption
  DEF Init, IInv, IdIsKept, LevelIsSignalled, InClosesOut, NoSit

(* A step that leaves the detector alone needs its types only. *)
LEMMA DetectorUnchanged ==
  ASSUME IInv, UNCHANGED detector, TypeOK'
  PROVE  IInv'
  BY DEF IInv, detector, IdIsKept, CcTracks, LevelIsSignalled, InClosesOut

(* The end of a break. *)
LEMMA SpliceInInv ==
  ASSUME IInv, NEW r \in Reading, SpliceInSeen(r), todo' \in Seq(Reading),
         UNCHANGED <<pts, setbacks, source>>
  PROVE  IInv'
<1> USE DEF IInv
<1>1. AddSplice("I", event_id, pts + Preroll) /\ event_id \in EventIds \cup {0}
      /\ pts \in 0..(PtsMod - 1)
  BY DEF SpliceInSeen, TypeOK
<1>2. sit' \in [type : {"-", "N", "I", "O"}, event : EventIds \cup {0},
                time : 0..(PtsMod - 1), cc : 0..(CCMod - 1)]
  BY <1>1, SpliceTimeFits, AddSpliceSit
<1>3. cc' \in 0..(CounterMod - 1) /\ CcTracks'  BY <1>1, AddSpliceCounts
<1>4. TypeOK'
  BY <1>2, <1>3, X31Assumption DEF SpliceInSeen, NewLevel, TypeOK, Reading
<1>5. sit'.type = "I" /\ sit'.event = event_id  BY <1>1 DEF AddSplice, Sit
<1>6. LevelIsSignalled'
  BY <1>5, X31Assumption DEF SpliceInSeen, LevelIsSignalled
<1>7. IdIsKept' /\ InClosesOut'
  BY <1>5 DEF SpliceInSeen, IdIsKept, InClosesOut
<1>8. QED  BY <1>3, <1>4, <1>6, <1>7

(* The start of a break. *)
LEMMA SpliceOutInv ==
  ASSUME IInv, NEW r \in Reading, SpliceOutSeen(r), todo' \in Seq(Reading),
         UNCHANGED <<pts, setbacks, source>>
  PROVE  IInv'
<1> USE DEF IInv
<1>1. AddSplice("O", event_id', pts + Preroll) /\ event_id' \in EventIds \cup {0}
      /\ pts \in 0..(PtsMod - 1)
  BY DEF SpliceOutSeen, TypeOK
<1>2. sit' \in [type : {"-", "N", "I", "O"}, event : EventIds \cup {0},
                time : 0..(PtsMod - 1), cc : 0..(CCMod - 1)]
  BY <1>1, SpliceTimeFits, AddSpliceSit
<1>3. cc' \in 0..(CounterMod - 1) /\ CcTracks'  BY <1>1, AddSpliceCounts
<1>4. TypeOK'
  BY <1>1, <1>2, <1>3, X31Assumption DEF SpliceOutSeen, NewLevel, TypeOK, Reading
<1>5. sit'.type = "O"  BY <1>1 DEF AddSplice, Sit
<1>6. LevelIsSignalled'
  BY <1>5, X31Assumption DEF SpliceOutSeen, LevelIsSignalled
<1>7. IdIsKept' /\ InClosesOut'
  BY <1>5 DEF SpliceOutSeen, IdIsKept, InClosesOut
<1>8. QED  BY <1>3, <1>4, <1>6, <1>7

(* A repeated level, and with it a splice_null: the last command stays. *)
LEMMA RepeatedInv ==
  ASSUME IInv, NEW r \in Reading, RepeatedLevelSeen(r), todo' \in Seq(Reading),
         UNCHANGED <<pts, setbacks, source>>
  PROVE  IInv'
<1> USE DEF IInv
<1>1. CASE age > NullAge
  <2>1. AddSplice("N", 0, 0) /\ age' = 0  BY <1>1 DEF RepeatedLevelSeen
  <2>2. sit' \in [type : {"-", "N", "I", "O"}, event : EventIds \cup {0},
                  time : 0..(PtsMod - 1), cc : 0..(CCMod - 1)]
    BY <2>1, AddSpliceSit
  <2>3. cc' \in 0..(CounterMod - 1) /\ CcTracks'  BY <2>1, AddSpliceCounts
  <2>4. TypeOK'
    BY <2>1, <2>2, <2>3, X31Assumption DEF RepeatedLevelSeen, TypeOK
  <2>5. QED
    BY <2>3, <2>4 DEF RepeatedLevelSeen, IdIsKept, LevelIsSignalled, InClosesOut
<1>2. CASE ~(age > NullAge)
  <2>1. TypeOK'  BY <1>2 DEF RepeatedLevelSeen, TypeOK
  <2>2. QED
    BY <1>2, <2>1, DetectorUnchanged DEF RepeatedLevelSeen, detector
<1>3. QED  BY <1>1, <1>2

(* Every iteration of the loop. *)
LEMMA IterateInv == ASSUME IInv, Iterate PROVE IInv'
<1> DEFINE r == Head(todo)
<1>1. r \in Reading /\ todo' \in Seq(Reading)
  BY DEF IInv, TypeOK, Iterate
<1>2. UNCHANGED <<pts, setbacks, source>>  BY DEF Iterate
<1>3. CASE SkipUnit(r)
  <2>1. TypeOK'  BY <1>1, <1>2, <1>3 DEF SkipUnit, IInv, TypeOK
  <2>2. QED  BY <1>3, <2>1, DetectorUnchanged DEF SkipUnit, detector
<1>4. CASE OtherLevelSeen(r)
  <2>1. TypeOK'
    BY <1>1, <1>2, <1>4 DEF OtherLevelSeen, IInv, TypeOK, Reading
  <2>2. QED
    BY <1>4, <2>1
    DEF OtherLevelSeen, IInv, IdIsKept, CcTracks, LevelIsSignalled, InClosesOut
<1>5. CASE SpliceInSeen(r)  BY <1>1, <1>2, <1>5, SpliceInInv
<1>6. CASE SpliceOutSeen(r)  BY <1>1, <1>2, <1>6, SpliceOutInv
<1>7. CASE RepeatedLevelSeen(r)  BY <1>1, <1>2, <1>7, RepeatedInv
<1>8. QED  BY <1>3, <1>4, <1>5, <1>6, <1>7 DEF Iterate

(* Every step. *)
LEMMA StepInv == IInv /\ [Next]_vars => IInv'
<1> SUFFICES ASSUME IInv, [Next]_vars  PROVE IInv'  OBVIOUS
<1>1. ASSUME NEW level \in Levels, Signal(level)  PROVE IInv'
  <2>1. TypeOK'  BY <1>1 DEF Signal, IInv, TypeOK
  <2>2. QED  BY <1>1, <2>1, DetectorUnchanged DEF Signal, detector
<1>2. CASE Tick
  <2>1. TypeOK'  BY <1>2, X31Assumption DEF Tick, IInv, TypeOK
  <2>2. QED  BY <1>2, <2>1, DetectorUnchanged DEF Tick, detector
<1>3. ASSUME NEW d \in 1..MaxSetBack, ClockSetBack(d)  PROVE IInv'
  <2>1. TypeOK'  BY <1>3, X31Assumption DEF ClockSetBack, IInv, TypeOK
  <2>2. QED  BY <1>3, <2>1, DetectorUnchanged DEF ClockSetBack, detector
<1>4. ASSUME NEW s \in Seq(Reading), NEW t \in 0..(PtsMod - 1), TakePes(s, t)
      PROVE  IInv'
  <2>1. TypeOK'  BY <1>4 DEF TakePes, IInv, TypeOK
  <2>2. QED  BY <1>4, <2>1, DetectorUnchanged DEF TakePes, detector
<1>5. CASE TakeX31Pes
  <2>1. PICK f \in Followers, t \in 0..(PtsMod - 1) :
          TakePes(<<X31Reading(source)>> \o f, t)
    BY <1>5 DEF TakeX31Pes
  <2>2. <<X31Reading(source)>> \o f \in Seq(Reading)
    BY PesReadings DEF IInv
  <2>3. QED  BY <1>4, <2>1, <2>2
<1>6. CASE TakeOtherPes
  <2>1. PICK r \in Noise, f \in Followers, t \in 0..(PtsMod - 1) :
          TakePes(<<r>> \o f, t)
    BY <1>6 DEF TakeOtherPes
  <2>2. <<r>> \o f \in Seq(Reading)  BY PesReadings DEF IInv
  <2>3. QED  BY <1>4, <2>1, <2>2
<1>7. CASE Iterate  BY <1>7, IterateInv
<1>8. CASE UNCHANGED vars
  <2>1. TypeOK'  BY <1>8 DEF vars, IInv, TypeOK
  <2>2. QED  BY <1>8, <2>1, DetectorUnchanged DEF vars, detector
<1>9. QED  BY <1>1, <1>2, <1>3, <1>5, <1>6, <1>7, <1>8 DEF Next

-----------------------------------------------------------------------------
(* The strengthened invariant holds in every state of the program. *)
THEOREM Invariance == Spec => []IInv
<1>1. QED  BY InitInv, StepInv, PTL DEF Spec

(* Statics, counter and outgoing packets keep their types: no command ever
   carries a time wider than a PTS. *)
THEOREM TypeCorrect == Spec => []TypeOK
<1>1. IInv => TypeOK  BY DEF IInv
<1>2. QED  BY Invariance, <1>1, PTL

(* Downstream is in a break exactly when the last level seen says so. *)
THEOREM LevelSignalled == Spec => []LevelIsSignalled
<1>1. IInv => LevelIsSignalled  BY DEF IInv
<1>2. QED  BY Invariance, <1>1, PTL

(* Every splice_in carries the id of the last splice_out. *)
THEOREM InEndsLastOut == Spec => []InClosesOut
<1>1. IInv => InClosesOut  BY DEF IInv
<1>2. QED  BY Invariance, <1>1, PTL

(* The steps that send, and what they leave in the ghosts. *)
LEMMA OnlyIterateSends ==
  ASSUME [Next]_vars, sit' # sit \/ splice' # splice
  PROVE  Iterate /\ ~SkipUnit(Head(todo)) /\ ~OtherLevelSeen(Head(todo))
  BY DEF Next, Signal, Tick, ClockSetBack, TakeX31Pes, TakeOtherPes, TakePes,
         vars, Iterate, SkipUnit, OtherLevelSeen

(* A level is signalled once, however often its packet is repeated. *)
THEOREM EdgesOnly == Spec => OneCommandPerEdge
<1>1. [Next]_vars => [splice' # splice => gpis' # gpis]_vars
  <2> SUFFICES ASSUME [Next]_vars, splice' # splice  PROVE gpis' # gpis
    OBVIOUS
  <2>1. QED
    BY OnlyIterateSends
    DEF Iterate, NewLevel, SpliceInSeen, SpliceOutSeen, RepeatedLevelSeen
<1>2. QED  BY <1>1, PTL DEF Spec, OneCommandPerEdge

(* Commands take effect Preroll after the PES that caused them, also where
   the clock wraps. *)
THEOREM PrerollKept == Spec => PrerollHonoured
<1>1. IInv /\ [Next]_vars =>
        [splice' # splice => (splice'.time - pts) % PtsMod = Preroll]_vars
  <2> SUFFICES ASSUME IInv, [Next]_vars, splice' # splice
               PROVE  (splice'.time - pts) % PtsMod = Preroll
    OBVIOUS
  <2>1. splice'.time = SpliceTime(pts + Preroll)
    BY OnlyIterateSends
    DEF Iterate, SpliceInSeen, SpliceOutSeen, RepeatedLevelSeen, AddSplice, Sit
  <2>2. QED  BY <2>1, SpliceTimeFits DEF IInv, TypeOK
<1>2. QED  BY Invariance, <1>1, PTL DEF Spec, PrerollHonoured

(* Nulls and commands count up without a gap. *)
THEOREM Gapless == Spec => CcFollows
<1>1. IInv /\ [Next]_vars =>
        [sit' # sit => sit'.cc = (sit.cc + 1) % CCMod]_vars
  <2> SUFFICES ASSUME IInv, [Next]_vars, sit' # sit
               PROVE  sit'.cc = (sit.cc + 1) % CCMod
    OBVIOUS
  <2>1. PICK type, event, time : AddSplice(type, event, time)
    BY OnlyIterateSends
    DEF Iterate, SpliceInSeen, SpliceOutSeen, RepeatedLevelSeen
  <2>2. QED  BY <2>1, AddSpliceCounts DEF IInv
<1>2. QED  BY Invariance, <1>1, PTL DEF Spec, CcFollows
=============================================================================
