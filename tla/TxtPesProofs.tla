---------------------------- MODULE TxtPesProofs ----------------------------
(***************************************************************************)
(* Proofs about TxtPes, for every stream of packets, every counter width   *)
(* and every displacement smaller than the counter's period.               *)
(***************************************************************************)
EXTENDS TxtPes, Numbers, TLAPS

(* A buffer's counter is congruent to the number of the packet it has
   reached; that packet is the last one stored, or an unstored start. *)
CounterTracks == open => txtcc % CCMod = acc % CCMod
EndsAtAcc ==
  open => IF pes = <<>> THEN acc \in Starts \ Headed
                        ELSE pes[Len(pes)] = acc
ClosedIsEmpty == ~open => pes = <<>> /\ acc = 0

IInv ==
  /\ TypeOK
  /\ CounterTracks
  /\ EndsAtAcc
  /\ ClosedIsEmpty
  /\ PrefixOfOnePes
  /\ InOrderIsKept

-----------------------------------------------------------------------------
(* The continuity check accepts exactly the successor, within the channel's
   displacement. *)
LEMMA CheckIsExact ==
  ASSUME TypeOK, CounterTracks, open, NEW k \in Packets, Displaced(k)
  PROVE  InSequence(k) <=> k = acc + 1
<1>1. k \in Nat /\ acc \in Nat /\ acc + 1 \in Nat /\ txtcc \in 0..(CounterMod - 1)
      /\ txtcc \in Nat
  BY TxtPesAssumption DEF TypeOK
<1>2. txtcc % CCMod = acc % CCMod  BY DEF CounterTracks
<1>3. (txtcc + 1) % CCMod = (acc + 1) % CCMod
  BY <1>1, <1>2, TxtPesAssumption, ModCongruence
<1>4. NextCounter % CCMod = (acc + 1) % CCMod
  BY <1>1, <1>3, TxtPesAssumption, CounterWrap DEF NextCounter
<1>5. ASSUME k % CCMod = (acc + 1) % CCMod  PROVE k = acc + 1
  <2>1. CASE k <= acc + 1
    <3>1. (acc + 1) - k < CCMod  BY <1>1, <2>1, TxtPesAssumption DEF Displaced
    <3>2. QED  BY <1>1, <1>5, <2>1, <3>1, TxtPesAssumption, ModWindow
  <2>2. CASE acc + 1 <= k
    <3>1. k - (acc + 1) < CCMod  BY <1>1, <2>2, TxtPesAssumption DEF Displaced
    <3>2. QED  BY <1>1, <1>5, <2>2, <3>1, TxtPesAssumption, ModWindow
  <2>3. QED  BY <1>1, <2>1, <2>2
<1>6. QED  BY <1>4, <1>5 DEF InSequence

(* An empty buffer is a run. *)
LEMMA EmptyIsRun == Feed!IsRun(<<>>)
  BY DEF Feed!IsRun

(* A headed start alone is a run. *)
LEMMA HeadIsRun == ASSUME NEW k \in Headed PROVE Feed!IsRun(<<k>>)
  BY DEF Feed!IsRun

(* A run stays one when the successor of its last packet is appended; an
   empty one, when that packet follows an unstored start. *)
LEMMA AppendIsRun ==
  ASSUME NEW s \in Seq(Packets), NEW k \in Packets \ Starts, Feed!IsRun(s),
         IF s = <<>> THEN k - 1 \in Starts \ Headed ELSE s[Len(s)] = k - 1
  PROVE  Feed!IsRun(Append(s, k))
<1>1. k \in Nat /\ Len(s) \in Nat /\ \A i \in 1..Len(s) : s[i] \in Nat
  <2>1. Packets \subseteq Nat  BY TxtPesAssumption
  <2>2. \A i \in 1..Len(s) : s[i] \in Packets  OBVIOUS
  <2>3. Len(s) \in Nat /\ k \in Nat  BY <2>1
  <2>4. QED  BY <2>1, <2>2, <2>3
<1> DEFINE t == Append(s, k)
<1>2. Len(t) = Len(s) + 1 /\ t[Len(s) + 1] = k /\ \A i \in 1..Len(s) : t[i] = s[i]
  OBVIOUS
<1>3. ASSUME NEW i \in 1..Len(t), i > 1
      PROVE  t[i] = t[i-1] + 1 /\ t[i] \notin Starts
  <2>1. CASE i = Len(s) + 1
    <3>1. s # <<>> /\ i - 1 = Len(s) /\ i - 1 \in 1..Len(s)  BY <1>3, <2>1
    <3>2. t[i-1] = k - 1 /\ t[i] = k  BY <1>2, <2>1, <3>1
    <3>3. QED  BY <1>1, <3>2
  <2>2. CASE i \in 1..Len(s)
    <3>1. i - 1 \in 1..Len(s)  BY <1>3, <2>2
    <3>2. QED  BY <1>2, <1>3, <2>2, <3>1 DEF Feed!IsRun
  <2>3. i \in 1..Len(s) \/ i = Len(s) + 1  BY <1>1, <1>2
  <2>4. QED  BY <2>1, <2>2, <2>3
<1>4. t[1] \in Headed \/ t[1] - 1 \in Starts \ Headed
  <2>1. CASE s = <<>>  BY <1>2, <2>1
  <2>2. CASE s # <<>>
    <3>1. 1 \in 1..Len(s)  BY <2>2
    <3>2. t[1] = s[1]  BY <1>2, <3>1
    <3>3. QED  BY <2>2, <3>2 DEF Feed!IsRun
  <2>3. QED  BY <2>1, <2>2
<1>5. QED  BY <1>3, <1>4 DEF Feed!IsRun

-----------------------------------------------------------------------------
(* The inductive invariant, one lemma per kind of step. *)
LEMMA InitInv == Init => IInv
<1> SUFFICES ASSUME Init  PROVE IInv
  OBVIOUS
<1>1. TypeOK
  <2>1. pes \in Seq(Packets) /\ acc \in Nat  BY DEF Init
  <2>2. txtcc \in 0..(CounterMod - 1)  BY TxtPesAssumption DEF Init
  <2>3. handed \in [pes : Seq(Packets), by : Packets \cup {-1}]
    BY DEF Init, Feed!NoHandover
  <2>4. QED  BY <2>1, <2>2, <2>3 DEF Init, TypeOK
<1>2. PrefixOfOnePes
  BY EmptyIsRun DEF Init, PrefixOfOnePes, Feed!PrefixOfOnePes, Feed!NoHandover
<1>3. QED
  BY <1>1, <1>2
  DEF Init, IInv, CounterTracks, EndsAtAcc, ClosedIsEmpty, InOrderIsKept

(* The remainder a start's counter is set to. *)
LEMMA StartCounter ==
  ASSUME NEW k \in Packets
  PROVE  k % CCMod \in 0..(CounterMod - 1) /\ (k % CCMod) % CCMod = k % CCMod
<1>1. k \in Nat /\ k % CCMod \in 0..(CCMod - 1)  BY TxtPesAssumption, ModSplit
<1>2. CCMod <= CounterMod  BY TxtPesAssumption, MultipleIsLarger
<1>3. (k % CCMod) % CCMod = k % CCMod  BY <1>1, TxtPesAssumption, ModSmall
<1>4. QED  BY <1>1, <1>2, <1>3, TxtPesAssumption

(* What a start leaves behind, whether or not there was a buffer. *)
LEMMA NewBufferInv ==
  ASSUME IInv, NEW k \in Starts, NewBuffer(k), UNCHANGED crashed,
         handed' \in [pes : {pes, handed.pes}, by : Packets \cup {-1}]
  PROVE  IInv'
<1>1. k \in Packets /\ k \in Nat  BY TxtPesAssumption
<1>2. TypeOK'
  <2>1. pes' \in Seq(Packets)  BY <1>1 DEF NewBuffer
  <2>2. handed' \in [pes : Seq(Packets), by : Packets \cup {-1}]
    BY DEF IInv, TypeOK
  <2>3. txtcc' \in 0..(CounterMod - 1)  BY <1>1, StartCounter DEF NewBuffer
  <2>4. QED  BY <1>1, <2>1, <2>2, <2>3 DEF NewBuffer, IInv, TypeOK
<1>3. CounterTracks'  BY <1>1, StartCounter DEF NewBuffer, CounterTracks
<1>4. EndsAtAcc'  BY DEF NewBuffer, EndsAtAcc
<1>5. ClosedIsEmpty'  BY DEF NewBuffer, ClosedIsEmpty
<1>6. PrefixOfOnePes'
  <2>1. Feed!IsRun(pes')  BY EmptyIsRun, HeadIsRun DEF NewBuffer
  <2>2. Feed!IsRun(handed'.pes)  BY DEF IInv, PrefixOfOnePes, Feed!PrefixOfOnePes
  <2>3. QED  BY <2>1, <2>2 DEF PrefixOfOnePes, Feed!PrefixOfOnePes
<1>7. InOrderIsKept'  BY DEF NewBuffer, InOrderIsKept
<1>8. QED  BY <1>2, <1>3, <1>4, <1>5, <1>6, <1>7 DEF IInv

(* A stored continuation is the successor of what the buffer holds. *)
LEMMA AppendInv ==
  ASSUME IInv, NEW k \in Packets \ Starts, Displaced(k), Append_(k),
         UNCHANGED <<handed, crashed>>, inorder' \in BOOLEAN
  PROVE  IInv' /\ k = acc + 1
<1>1. k = acc + 1  BY CheckIsExact DEF IInv, Append_
<1>2. k \in Nat /\ acc \in Nat /\ txtcc \in 0..(CounterMod - 1) /\ pes \in Seq(Packets)
  BY TxtPesAssumption DEF IInv, TypeOK
<1>3. TypeOK'
  <2>1. txtcc' \in 0..(CounterMod - 1)  BY <1>2, TxtPesAssumption, CounterWrap DEF Append_, NextCounter
  <2>2. pes' \in Seq(Packets)  BY <1>2 DEF Append_
  <2>3. QED  BY <1>2, <2>1, <2>2 DEF Append_, IInv, TypeOK
<1>4. CounterTracks'  BY DEF CounterTracks, Append_, InSequence
<1>5. pes' # <<>> /\ pes'[Len(pes')] = k  BY <1>2 DEF Append_
<1>6. Feed!IsRun(pes')
  <2>1. acc = k - 1  BY <1>1, <1>2
  <2>2. IF pes = <<>> THEN k - 1 \in Starts \ Headed ELSE pes[Len(pes)] = k - 1
    BY <2>1 DEF IInv, EndsAtAcc, Append_
  <2>3. QED  BY <1>2, <2>2, AppendIsRun
             DEF IInv, PrefixOfOnePes, Feed!PrefixOfOnePes, Append_
<1>7. QED
  BY <1>1, <1>3, <1>4, <1>5, <1>6
  DEF IInv, EndsAtAcc, ClosedIsEmpty, InOrderIsKept, PrefixOfOnePes,
      Feed!PrefixOfOnePes, Append_

(* Giving the buffer up. *)
LEMMA ClearInv ==
  ASSUME IInv, ClearTxtBuffer, UNCHANGED <<handed, crashed>>,
         inorder' = FALSE, ret' \in BOOLEAN
  PROVE  IInv'
<1>1. TypeOK'
  <2>1. txtcc' \in 0..(CounterMod - 1)
    BY TxtPesAssumption DEF ClearTxtBuffer, IInv, TypeOK
  <2>2. pes' \in Seq(Packets) /\ acc' \in Nat  BY DEF ClearTxtBuffer
  <2>3. handed' = handed /\ crashed' = crashed  OBVIOUS
  <2>4. open' \in BOOLEAN  BY DEF ClearTxtBuffer
  <2>5. QED  BY <2>1, <2>2, <2>3, <2>4 DEF IInv, TypeOK
<1>2. PrefixOfOnePes'
  BY EmptyIsRun DEF ClearTxtBuffer, IInv, PrefixOfOnePes, Feed!PrefixOfOnePes
<1>3. QED
  BY <1>1, <1>2
  DEF IInv, CounterTracks, EndsAtAcc, ClosedIsEmpty, InOrderIsKept, ClearTxtBuffer

LEMMA ContinuationInv ==
  ASSUME IInv, NEW k \in Packets \ Starts, PushContinuation(k)
  PROVE  IInv'
<1>1. UNCHANGED <<handed, crashed>> /\ ~crashed /\ inorder' = (inorder /\ k = acc + 1)
  BY DEF PushContinuation
<1>2. CASE Append_(k)
  <2>1. Displaced(k)  BY <1>2 DEF Append_, PushContinuation
  <2>2. inorder' \in BOOLEAN  BY <1>1
  <2>3. QED  BY <1>1, <1>2, <2>1, <2>2, AppendInv
<1>3. CASE RejectCC(k)
  <2>1. Displaced(k) /\ open  BY <1>3 DEF RejectCC, PushContinuation
  <2>2. k # acc + 1  BY <1>3, <2>1, CheckIsExact DEF IInv, RejectCC
  <2>3. inorder' = FALSE  BY <1>1, <2>2
  <2>4. QED  BY <1>1, <1>3, <2>3, ClearInv DEF RejectCC
<1>4. CASE AwaitStart
  <2>1. ~inorder  BY <1>1, <1>4 DEF IInv, InOrderIsKept, AwaitStart
  <2>2. inorder' = FALSE  BY <1>1, <2>1
  <2>3. TypeOK'  BY <1>1, <1>4, <2>2 DEF IInv, TypeOK, AwaitStart
  <2>4. QED
    BY <1>1, <1>4, <2>2, <2>3
    DEF AwaitStart, IInv, CounterTracks, EndsAtAcc, ClosedIsEmpty,
        PrefixOfOnePes, Feed!PrefixOfOnePes, InOrderIsKept
<1>5. QED  BY <1>2, <1>3, <1>4 DEF PushContinuation

LEMMA StepInv == IInv /\ [Next]_vars => IInv'
<1> SUFFICES ASSUME IInv, [Next]_vars  PROVE IInv'
  OBVIOUS
<1>1. ASSUME NEW k \in Starts, PushFirstStart(k)  PROVE IInv'
  <2>1. handed' \in [pes : {pes, handed.pes}, by : Packets \cup {-1}]
    BY <1>1 DEF PushFirstStart, IInv, TypeOK
  <2>2. QED  BY <1>1, <2>1, NewBufferInv DEF PushFirstStart
<1>2. ASSUME NEW k \in Starts, PushStart(k)  PROVE IInv'
  <2>1. handed' \in [pes : {pes, handed.pes}, by : Packets \cup {-1}]
    BY <1>2, TxtPesAssumption DEF PushStart
  <2>2. QED  BY <1>2, <2>1, NewBufferInv DEF PushStart
<1>3. ASSUME NEW k \in Starts, PushStartOnEmpty(k)  PROVE IInv'
  <2>1. handed' \in [pes : Seq(Packets), by : Packets \cup {-1}]
    <3>1. pes \in Seq(Packets)  BY DEF IInv, TypeOK
    <3>2. k \in Packets  BY TxtPesAssumption
    <3>3. QED  BY <1>3, <3>1, <3>2 DEF PushStartOnEmpty
  <2>2. TypeOK'  BY <1>3, <2>1 DEF PushStartOnEmpty, IInv, TypeOK
  <2>3. PrefixOfOnePes'
    BY <1>3 DEF PushStartOnEmpty, IInv, PrefixOfOnePes, Feed!PrefixOfOnePes
  <2>4. QED
    BY <1>3, <2>2, <2>3
    DEF PushStartOnEmpty, IInv, CounterTracks, EndsAtAcc, ClosedIsEmpty, InOrderIsKept
<1>4. ASSUME NEW k \in Packets \ Starts, PushContinuation(k)  PROVE IInv'
  BY <1>4, ContinuationInv
<1>5. CASE PushAdaptation
  <2>1. TypeOK'  BY <1>5 DEF PushAdaptation, IInv, TypeOK
  <2>2. QED
    BY <1>5, <2>1
    DEF PushAdaptation, IInv, CounterTracks, EndsAtAcc, ClosedIsEmpty,
        PrefixOfOnePes, Feed!PrefixOfOnePes, InOrderIsKept
<1>6. CASE PushErrored
  BY <1>6, ClearInv DEF PushErrored
<1>7. CASE UNCHANGED vars
  BY <1>7 DEF vars, IInv, TypeOK, CounterTracks, EndsAtAcc, ClosedIsEmpty,
              PrefixOfOnePes, Feed!PrefixOfOnePes, InOrderIsKept
<1>8. QED  BY <1>1, <1>2, <1>3, <1>4, <1>5, <1>6, <1>7 DEF Next

(* Everything below follows from the invariance of IInv. *)
THEOREM Invariance == Spec => []IInv
<1>1. QED  BY InitInv, StepInv, PTL DEF Spec

(* Every variable of the assembler keeps its type; txt->cc in particular
   stays within its eight bits. *)
THEOREM TypeCorrect == Spec => []TypeOK
<1>1. IInv => TypeOK  BY DEF IInv
<1>2. QED  BY Invariance, <1>1, PTL

(* X31 detection reads a prefix of one PES packet, for every channel that
   displaces packets by less than a counter period (x31.c:247). *)
THEOREM NoSplicedPes == Spec => []PrefixOfOnePes
<1>1. IInv => PrefixOfOnePes  BY DEF IInv
<1>2. QED  BY Invariance, <1>1, PTL

(* The continuity check never gives up a PES whose packets arrive in order,
   across the wrap of the 8-bit counter (x31.c:247). *)
THEOREM NoFalseReject == Spec => []InOrderIsKept
<1>1. IInv => InOrderIsKept  BY DEF IInv
<1>2. QED  BY Invariance, <1>1, PTL

(* push_txt_packet answers TRUE with a buffer open only when the packet is
   the last one stored in it. *)
THEOREM TrueIsStored == Spec => TrueMeansStored
<1> DEFINE Stored == ret' /\ open' /\ ~crashed' => pes' # <<>> /\ pes'[Len(pes')] = acc'
<1>1. IInv /\ IInv' /\ [Next]_vars => [Stored]_vars
  <2> SUFFICES ASSUME IInv, IInv', Next, ret', open', ~crashed'  PROVE pes' # <<>>
    BY DEF IInv, EndsAtAcc
  <2>1. ASSUME NEW k \in Starts, NewBuffer(k)  PROVE pes' # <<>>
    BY <2>1 DEF NewBuffer
  <2>2. ASSUME NEW k \in Packets \ Starts, PushContinuation(k)  PROVE pes' # <<>>
    <3>1. CASE Append_(k)
      <4>1. pes \in Seq(Packets)  BY DEF IInv, TypeOK
      <4>2. QED  BY <3>1, <4>1 DEF Append_
    <3>2. QED  BY <2>2, <3>1 DEF PushContinuation, RejectCC, AwaitStart
  <2>3. QED
    BY <2>1, <2>2 DEF Next, PushFirstStart, PushStart, PushStartOnEmpty,
                      PushAdaptation, PushErrored, ClearTxtBuffer
<1>2. QED  BY Invariance, StepInv, <1>1, PTL DEF Spec, TrueMeansStored

(* The 8-bit counter and its check implement the reader that knows every
   packet's number: each step extends the buffer by the true successor,
   restarts it, drops it, or changes nothing the detector reads. *)
THEOREM Refinement == Spec => ImplementsFeed
<1>1. Init => Feed!FeedInit
  BY DEF Init, Feed!FeedInit
<1>2. IInv /\ [Next]_vars => [Feed!FeedNext]_(Feed!feedVars)
  <2> SUFFICES ASSUME IInv, [Next]_vars
               PROVE  Feed!FeedNext \/ UNCHANGED Feed!feedVars
    OBVIOUS
  <2>1. ASSUME NEW k \in Starts, PushFirstStart(k) \/ PushStart(k)
        PROVE  Feed!FeedStart(k)
    BY <2>1 DEF PushFirstStart, PushStart, NewBuffer, Feed!FeedStart
  <2>2. ASSUME NEW k \in Starts, PushStartOnEmpty(k)  PROVE Feed!FeedCrash(k)
    BY <2>2 DEF PushStartOnEmpty, Feed!FeedCrash
  <2>3. ASSUME ClearTxtBuffer, UNCHANGED handed
        PROVE  Feed!FeedDrop \/ UNCHANGED Feed!feedVars
    <3>1. CASE open  BY <2>3, <3>1 DEF ClearTxtBuffer, Feed!FeedDrop
    <3>2. CASE ~open
      BY <2>3, <3>2 DEF ClearTxtBuffer, Feed!feedVars, IInv, ClosedIsEmpty, TypeOK
    <3>3. QED  BY <3>1, <3>2
  <2>4. ASSUME NEW k \in Packets \ Starts, PushContinuation(k)
        PROVE  Feed!FeedNext \/ UNCHANGED Feed!feedVars
    <3>1. CASE Append_(k)
      <4>1. k = acc + 1
        BY <2>4, <3>1, CheckIsExact DEF IInv, Append_, PushContinuation
      <4>2. Feed!FeedExtend
        BY <2>4, <3>1, <4>1 DEF Append_, PushContinuation, Feed!FeedExtend
      <4>3. QED  BY <4>2 DEF Feed!FeedNext
    <3>2. CASE RejectCC(k)
      BY <2>3, <2>4, <3>2 DEF RejectCC, PushContinuation, Feed!FeedNext
    <3>3. CASE AwaitStart
      BY <2>4, <3>3 DEF AwaitStart, PushContinuation, Feed!feedVars
    <3>4. QED  BY <2>4, <3>1, <3>2, <3>3 DEF PushContinuation
  <2>5. CASE PushAdaptation  BY <2>5 DEF PushAdaptation, Feed!feedVars
  <2>6. CASE PushErrored  BY <2>3, <2>6 DEF PushErrored, Feed!FeedNext
  <2>7. CASE UNCHANGED vars  BY <2>7 DEF vars, Feed!feedVars
  <2>8. QED
    BY <2>1, <2>2, <2>4, <2>5, <2>6, <2>7 DEF Next, Feed!FeedNext
<1>3. QED  BY Invariance, <1>1, <1>2, PTL DEF Spec, ImplementsFeed, Feed!FeedSpec
=============================================================================
