------------------------ MODULE ProcessBufferProofs ------------------------
(***************************************************************************)
(* process_buffer for buffers of every size, every period, every distance  *)
(* of the buffers and every amount by which the wall clock is set back:    *)
(* the repetition of the tables it adds (IInv, over the clocks), and what  *)
(* a call does to the packets and to the continuity counters (CallInv,     *)
(* over the array that the call builds).                                   *)
(***************************************************************************)
EXTENDS ProcessBuffer, Numbers, SequenceTheorems, TLAPS

(* The clocks run in the integers. *)
ClockTypes ==
  /\ age \in [Tables -> Int] /\ gap \in [Tables -> Int]
  /\ setBack \in 0..MaxSetBack
  /\ idle \in [Tables -> 0..BufferGap]

(* The program's age of a table falls behind the true one by what the wall
   clock was set back, and no more. *)
AgeFollowsGap ==
  \A t \in Tables :
    /\ age[t] <= Aged /\ gap[t] <= Aged
    /\ Sent(t) => age[t] = Aged \/ gap[t] <= age[t] + setBack

(* A table is younger than the period, but for the time since its clock was
   read the last time. *)
YoungWhenRead ==
  \A t \in Tables : Sent(t) => gap[t] <= Period + idle[t] + setBack

IInv == ClockTypes /\ AgeFollowsGap /\ YoungWhenRead

-----------------------------------------------------------------------------
(* Constants are natural numbers, and Aged is past everything that is due. *)
LEMMA Constants ==
  /\ Period \in Nat /\ BufferGap \in Nat /\ MaxSetBack \in Nat
  /\ Aged = Period + BufferGap + MaxSetBack + 1
  BY ProcessBufferAssumption DEF Aged

(* All clocks start at the age at which tables are due. *)
LEMMA InitInv == Init => IInv
  BY Constants DEF Init, IInv, ClockTypes, AgeFollowsGap, YoungWhenRead

(* Which tables are sent is settled by the configuration. *)
LEMMA SentStays ==
  ASSUME UNCHANGED <<aitMode, defined>>, NEW t  PROVE Sent(t)' <=> Sent(t)
  BY DEF Sent

(* Steps that touch no clock. *)
LEMMA ClocksUnchanged ==
  ASSUME IInv, UNCHANGED <<aitMode, defined, age, gap, setBack, idle>>
  PROVE  IInv'
  BY SentStays DEF IInv, ClockTypes, AgeFollowsGap, YoungWhenRead

(* A tick. *)
LEMMA TickInv == ASSUME IInv, Tick PROVE IInv'
<1> USE Constants DEF IInv
<1>1. /\ age' = [t \in Tables |-> Older(age[t])]
      /\ gap' = [t \in Tables |-> IF Sent(t) THEN Older(gap[t]) ELSE 0]
      /\ idle' = [t \in Tables |-> IF Sent(t) THEN idle[t] + 1 ELSE 0]
      /\ \A t \in Tables : Sent(t) => idle[t] < BufferGap
      /\ UNCHANGED <<aitMode, defined, setBack>>
  BY DEF Tick
<1>2. \A t \in Tables : Older(age[t]) \in Int /\ Older(gap[t]) \in Int
  BY DEF Older, ClockTypes
<1>3. ClockTypes'  BY <1>1, <1>2 DEF ClockTypes
<1>4. ASSUME NEW t \in Tables
      PROVE  /\ age'[t] <= Aged /\ gap'[t] <= Aged
             /\ Sent(t)' => age'[t] = Aged \/ gap'[t] <= age'[t] + setBack'
             /\ Sent(t)' => gap'[t] <= Period + idle'[t] + setBack'
  <2>1. age[t] \in Int /\ gap[t] \in Int /\ setBack \in Nat /\ idle[t] \in Nat
    BY DEF ClockTypes
  <2>2. /\ age[t] <= Aged /\ gap[t] <= Aged
        /\ Sent(t) => age[t] = Aged \/ gap[t] <= age[t] + setBack
        /\ Sent(t) => gap[t] <= Period + idle[t] + setBack
    BY DEF AgeFollowsGap, YoungWhenRead
  <2>3. Sent(t)' <=> Sent(t)  BY <1>1, SentStays
  <2>4. CASE Sent(t)
    <3>1. /\ age'[t] = Older(age[t]) /\ gap'[t] = Older(gap[t])
          /\ idle'[t] = idle[t] + 1 /\ setBack' = setBack
      BY <1>1, <2>4
    <3>2. QED  BY <2>1, <2>2, <2>4, <3>1 DEF Older
  <2>5. CASE ~Sent(t)
    <3>1. age'[t] = Older(age[t]) /\ gap'[t] = 0  BY <1>1, <2>5
    <3>2. QED  BY <2>1, <2>2, <2>3, <2>5, <3>1 DEF Older
  <2>6. QED  BY <2>4, <2>5
<1>5. QED  BY <1>3, <1>4 DEF AgeFollowsGap, YoungWhenRead

(* The wall clock is set back. *)
LEMMA SetBackInv ==
  ASSUME IInv, NEW d \in 1..MaxSetBack, ClockSetBack(d)  PROVE IInv'
<1> USE Constants DEF IInv
<1>1. /\ setBack' = setBack + d /\ setBack + d <= MaxSetBack
      /\ age' = [t \in Tables |-> IF age[t] = Aged THEN Aged ELSE age[t] - d]
      /\ UNCHANGED <<aitMode, defined, gap, idle>>
  BY DEF ClockSetBack
<1>2. ClockTypes'  BY <1>1 DEF ClockTypes
<1>3. ASSUME NEW t  PROVE Sent(t)' <=> Sent(t)  BY <1>1, SentStays
<1>4. AgeFollowsGap'  BY <1>1, <1>3 DEF ClockTypes, AgeFollowsGap
<1>5. YoungWhenRead'  BY <1>1, <1>3 DEF ClockTypes, YoungWhenRead
<1>6. QED  BY <1>2, <1>4, <1>5

(* The clock is read for a table: it is sent if it is due, and young if it is
   not. *)
LEMMA ReadInv == ASSUME IInv, NEW t \in Tables, AddTable(t) PROVE IInv'
<1> USE Constants DEF IInv
<1>1. /\ idle' = [idle EXCEPT ![t] = 0]
      /\ age' = [age EXCEPT ![t] = IF Due(t) THEN 0 ELSE age[t]]
      /\ gap' = [gap EXCEPT ![t] = IF Due(t) THEN 0 ELSE gap[t]]
      /\ UNCHANGED <<aitMode, defined, setBack>>
  BY DEF AddTable, Restarted, ClockTypes
<1>2. ClockTypes'  BY <1>1 DEF ClockTypes
<1>3. ASSUME NEW u \in Tables
      PROVE  /\ age'[u] <= Aged /\ gap'[u] <= Aged
             /\ Sent(u)' => age'[u] = Aged \/ gap'[u] <= age'[u] + setBack'
             /\ Sent(u)' => gap'[u] <= Period + idle'[u] + setBack'
  <2>1. age[u] \in Int /\ gap[u] \in Int /\ setBack \in Nat /\ idle[u] \in Nat
    BY DEF ClockTypes
  <2>2. /\ age[u] <= Aged /\ gap[u] <= Aged
        /\ Sent(u) => age[u] = Aged \/ gap[u] <= age[u] + setBack
        /\ Sent(u) => gap[u] <= Period + idle[u] + setBack
    BY DEF AgeFollowsGap, YoungWhenRead
  <2>3. Sent(u)' <=> Sent(u)  BY <1>1, SentStays
  <2>4. CASE u # t
    <3>1. age'[u] = age[u] /\ gap'[u] = gap[u] /\ idle'[u] = idle[u]
          /\ setBack' = setBack
      BY <1>1, <2>4 DEF ClockTypes
    <3>2. QED  BY <2>2, <2>3, <3>1
  <2>5. CASE u = t
    <3>1. /\ age'[u] = IF Due(u) THEN 0 ELSE age[u]
          /\ gap'[u] = IF Due(u) THEN 0 ELSE gap[u]
          /\ idle'[u] = 0 /\ setBack' = setBack
      BY <1>1, <2>5 DEF ClockTypes
    <3>2. CASE Due(u)  BY <2>1, <3>1, <3>2
    <3>3. CASE ~Due(u)
      <4>1. Sent(u) => age[u] <= Period  BY <2>1, <3>3 DEF Due
      <4>2. QED  BY <2>1, <2>2, <2>3, <3>1, <3>3, <4>1
    <3>4. QED  BY <3>2, <3>3
  <2>6. QED  BY <2>4, <2>5
<1>4. QED  BY <1>2, <1>3 DEF AgeFollowsGap, YoungWhenRead

(* Every step. *)
LEMMA StepInv == IInv /\ [Next]_vars => IInv'
<1> SUFFICES ASSUME IInv, [Next]_vars  PROVE IInv'  OBVIOUS
<1>1. CASE Tick  BY <1>1, TickInv
<1>2. ASSUME NEW d \in 1..MaxSetBack, ClockSetBack(d)  PROVE IInv'
  BY <1>2, SetBackInv
<1>3. ASSUME NEW kinds, TakeBuffer(kinds)  PROVE IInv'
  BY <1>3, ClocksUnchanged DEF TakeBuffer
<1>4. CASE TakeBroken  BY <1>4, ClocksUnchanged DEF TakeBroken
<1>5. CASE ProcessPacket  BY <1>5, ClocksUnchanged DEF ProcessPacket
<1>6. ASSUME NEW t \in Tables, AddTable(t)  PROVE IInv'  BY <1>6, ReadInv
<1>7. CASE Deliver  BY <1>7, ClocksUnchanged DEF Deliver
<1>8. CASE UNCHANGED vars  BY <1>8, ClocksUnchanged DEF vars
<1>9. QED  BY <1>1, <1>2, <1>3, <1>4, <1>5, <1>6, <1>7, <1>8 DEF Next

-----------------------------------------------------------------------------
(* The clocks' invariant holds in every state. *)
THEOREM Invariance == Spec => []IInv
<1>1. QED  BY InitInv, StepInv, PTL DEF Spec

(* With its clock read at least every BufferGap, the true time between two
   tables of a kind exceeds the period by no more than that and what the wall
   clock was set back: whichever tables are configured, whatever packets the
   buffers hold and wherever one of them cuts its buffer short. *)
THEOREM Repeated == Spec => []TablesAreRepeated
<1>1. IInv => TablesAreRepeated
  <2> SUFFICES ASSUME IInv, NEW t \in Tables, Sent(t)
               PROVE  gap[t] <= Period + BufferGap + setBack
    BY DEF TablesAreRepeated
  <2>1. gap[t] \in Int /\ idle[t] \in 0..BufferGap /\ setBack \in Nat
    BY Constants DEF IInv, ClockTypes
  <2>2. QED  BY <2>1, Constants DEF IInv, YoungWhenRead
<1>2. QED  BY Invariance, <1>1, PTL

-----------------------------------------------------------------------------
(* What a call has done so far.  Between calls nothing is left of it. *)
CallTypes ==
  /\ aitMode \in AitModes /\ defined \in DefinedSets
  /\ checked \in 0..Len(Order)
  /\ input \in Seq(Kinds) /\ Len(input) <= MaxSize
  /\ at \in 0..Len(input)
  /\ refused \in {0, at}
  /\ array \in Seq(OutPacket)
  /\ cc \in [Pids -> 0..(CounterMod - 1)]
  /\ lastCc \in [Pids -> 0..(CCMod - 1)]
  /\ flow \in {"ok", "error"}
Idle == input = <<>> => array = <<>>

(* The packets seen so far are in the array in their order, but for the one
   that was refused and for those of the PMT. *)
SeenInOrder ==
  /\ InOrder(array)
  /\ \A n \in DOMAIN array : array[n].from <= at
  /\ \A i \in 1..at :
       i \in Origins(array) \/ input[i] = "pmt" \/ (i = refused /\ input[i] # "txt")

(* k is the counter that is due on PID p after the packets of s, where c was
   the last before them. *)
DueNext(k, c, p, s) ==
  LET on == OnPid(p, s) IN
  \/ on = {} /\ k % CCMod = (c + 1) % CCMod
  \/ \E m \in on : (\A n \in on : n <= m) /\ k % CCMod = (s[m].cc + 1) % CCMod

CountersTrack ==
  \A p \in Pids :
    CountsUp(lastCc[p], p, array) /\ DueNext(cc[p], lastCc[p], p, array)

CallInv == CallTypes /\ Idle /\ SeenInOrder /\ CountersTrack

-----------------------------------------------------------------------------
(* Appending packets: what comes first stays where it is. *)
LEMMA Concat ==
  ASSUME NEW s \in Seq(OutPacket), NEW t \in Seq(OutPacket)
  PROVE  /\ s \o t \in Seq(OutPacket)
         /\ Len(s) \in Nat /\ Len(t) \in Nat
         /\ DOMAIN s = 1..Len(s) /\ DOMAIN t = 1..Len(t)
         /\ DOMAIN (s \o t) = 1..(Len(s) + Len(t))
         /\ \A i \in 1..Len(s) : (s \o t)[i] = s[i]
         /\ \A i \in 1..Len(t) : (s \o t)[Len(s) + i] = t[i]
  BY ConcatProperties, LenProperties

(* Packets that are no tables of a PID change nothing on it. *)
LEMMA Quiet ==
  ASSUME NEW s \in Seq(OutPacket), NEW t \in Seq(OutPacket), NEW p,
         OnPid(p, t) = {}
  PROVE  OnPid(p, s \o t) = OnPid(p, s) /\ \A n \in OnPid(p, s) : (s \o t)[n] = s[n]
<1>1. ASSUME NEW n \in OnPid(p, s \o t)  PROVE n \in OnPid(p, s)
  <2>1. CASE n \in 1..Len(s)  BY <1>1, <2>1, Concat DEF OnPid
  <2>2. CASE n \notin 1..Len(s)
    <3>1. n \in 1..(Len(s) + Len(t))  BY <1>1, Concat DEF OnPid
    <3>2. n - Len(s) \in 1..Len(t) /\ n = Len(s) + (n - Len(s))
      BY <2>2, <3>1, Concat
    <3>3. n - Len(s) \in OnPid(p, t)  BY <1>1, <3>2, Concat DEF OnPid
    <3>4. QED  BY <3>3
  <2>3. QED  BY <2>1, <2>2
<1>2. ASSUME NEW n \in OnPid(p, s)  PROVE n \in OnPid(p, s \o t) /\ (s \o t)[n] = s[n]
  BY Concat DEF OnPid
<1>3. QED  BY <1>1, <1>2

LEMMA QuietCounts ==
  ASSUME NEW s \in Seq(OutPacket), NEW t \in Seq(OutPacket), NEW p,
         OnPid(p, t) = {}, NEW c, NEW k, CountsUp(c, p, s), DueNext(k, c, p, s)
  PROVE  CountsUp(c, p, s \o t) /\ DueNext(k, c, p, s \o t)
<1> DEFINE u == s \o t
<1>1. OnPid(p, u) = OnPid(p, s) /\ \A n \in OnPid(p, s) : u[n].cc = s[n].cc
  BY Quiet
<1> HIDE DEF u
<1>2. CountsUp(c, p, u)  BY <1>1, Zenon DEF CountsUp
<1>3. DueNext(k, c, p, u)  BY <1>1, Zenon DEF DueNext
<1>4. QED  BY <1>2, <1>3 DEF u

(* One table more, with the counter that is due. *)
LEMMA TableCounts ==
  ASSUME NEW s \in Seq(OutPacket), NEW o \in OutPacket, NEW p,
         o.kind \in Tables, PidOf(o.kind) = p,
         NEW k \in Nat, o.cc = k % CCMod,
         NEW c, CountsUp(c, p, s), DueNext(k, c, p, s)
  PROVE  CountsUp(c, p, s \o <<o>>) /\ DueNext(k + 1, c, p, s \o <<o>>)
<1> DEFINE u == s \o <<o>>
           last == Len(s) + 1
<1>1. <<o>> \in Seq(OutPacket) /\ Len(<<o>>) = 1 /\ <<o>>[1] = o  OBVIOUS
<1>2. /\ Len(s) \in Nat /\ DOMAIN s = 1..Len(s) /\ DOMAIN u = 1..last
      /\ \A i \in 1..Len(s) : u[i] = s[i]
      /\ u[last] = o
  BY <1>1, Concat
<1>3. OnPid(p, u) = OnPid(p, s) \cup {last}
      /\ \A n \in OnPid(p, s) : u[n].cc = s[n].cc /\ n \in Int /\ n < last
  BY <1>2 DEF OnPid
<1>4. last \in Int /\ u[last].cc = k % CCMod  BY <1>2
<1> HIDE DEF u, last
<1>5. (k + 1) % CCMod = (u[last].cc + 1) % CCMod
  BY <1>4, ModOfMod, ProcessBufferAssumption
<1>6. DueNext(k + 1, c, p, u)
  <2>1. last \in OnPid(p, u) /\ \A n \in OnPid(p, u) : n <= last  BY <1>3, <1>4
  <2>2. QED  BY <2>1, <1>5 DEF DueNext
<1>7. CountsUp(c, p, u)
  <2> SUFFICES ASSUME NEW n \in OnPid(p, u)
               PROVE  \/ /\ \A m \in OnPid(p, u) : n <= m
                         /\ u[n].cc = (c + 1) % CCMod
                      \/ \E m \in OnPid(p, u) :
                           /\ m < n /\ \A j \in OnPid(p, u) : j <= m \/ n <= j
                           /\ u[n].cc = (u[m].cc + 1) % CCMod
    BY Zenon DEF CountsUp
  <2>1. CASE n = last
    <3>1. CASE OnPid(p, s) = {} /\ k % CCMod = (c + 1) % CCMod
      BY <1>3, <1>4, <2>1, <3>1
    <3>2. CASE \E m \in OnPid(p, s) : (\A j \in OnPid(p, s) : j <= m)
                                      /\ k % CCMod = (s[m].cc + 1) % CCMod
      <4>1. PICK m \in OnPid(p, s) : (\A j \in OnPid(p, s) : j <= m)
                                     /\ k % CCMod = (s[m].cc + 1) % CCMod
        BY <3>2
      <4>2. m \in OnPid(p, u) /\ m < n /\ u[n].cc = (u[m].cc + 1) % CCMod
        BY <1>3, <1>4, <2>1, <4>1
      <4>3. \A j \in OnPid(p, u) : j <= m \/ n <= j
        BY <1>3, <1>4, <2>1, <4>1
      <4>4. QED  BY <4>2, <4>3
    <3>3. QED  BY <3>1, <3>2 DEF DueNext
  <2>2. CASE n # last
    <3>1. n \in OnPid(p, s)  BY <1>3, <2>2
    <3>2. CASE (\A m \in OnPid(p, s) : n <= m) /\ s[n].cc = (c + 1) % CCMod
      BY <1>3, <1>4, <3>1, <3>2
    <3>3. CASE \E m \in OnPid(p, s) :
                 /\ m < n /\ \A j \in OnPid(p, s) : j <= m \/ n <= j
                 /\ s[n].cc = (s[m].cc + 1) % CCMod
      BY <1>3, <1>4, <3>1, <3>3
    <3>4. QED  BY <3>1, <3>2, <3>3, Zenon DEF CountsUp
  <2>3. QED  BY <2>1, <2>2
<1>8. QED  BY <1>6, <1>7 DEF u

(* Only the remainder of the due counter matters. *)
LEMMA DueCongruent ==
  ASSUME NEW k, NEW j, k % CCMod = j % CCMod, NEW c, NEW p, NEW s, DueNext(k, c, p, s)
  PROVE  DueNext(j, c, p, s)
  BY Zenon DEF DueNext

(* The constants again. *)
LEMMA Moduli ==
  CCMod \in Nat \ {0} /\ CounterMod \in Nat \ {0} /\ CounterMod % CCMod = 0
  BY ProcessBufferAssumption

(* The counter that is due follows the last one sent. *)
LEMMA LastIsBeforeDue ==
  ASSUME CallTypes, NEW p \in Pids, NEW k, NEW s \in Seq(OutPacket),
         CountsUp(lastCc[p], p, s), DueNext(k, lastCc[p], p, s)
  PROVE  LastOn(p, s) \in 0..(CCMod - 1) /\ k % CCMod = (LastOn(p, s) + 1) % CCMod
<1>1. lastCc[p] \in 0..(CCMod - 1)  BY DEF CallTypes
<1>2. CASE OnPid(p, s) = {}  BY <1>1, <1>2 DEF LastOn, DueNext
<1>3. CASE OnPid(p, s) # {}
  <2>1. PICK m \in OnPid(p, s) : (\A n \in OnPid(p, s) : n <= m)
                                 /\ k % CCMod = (s[m].cc + 1) % CCMod
    BY <1>3, Zenon DEF DueNext
  <2>2. \A n \in OnPid(p, s) : n \in Nat /\ s[n] \in OutPacket
    BY LenProperties DEF OnPid
  <2>3. Max(OnPid(p, s)) = m
    <3>1. \A x \in OnPid(p, s) : (\A y \in OnPid(p, s) : x >= y) <=> x = m
      BY <2>1, <2>2
    <3>2. QED  BY <3>1 DEF Max
  <2>4. LastOn(p, s) = s[m].cc  BY <1>3, <2>3 DEF LastOn
  <2>5. \A n \in OnPid(p, s) : s[n].cc + 1 \in Nat  BY <2>2 DEF OutPacket, NoCc
  <2>6. \E b \in Nat : s[m].cc = b % CCMod
    <3>1. CASE s[m].cc = (lastCc[p] + 1) % CCMod  BY <1>1, <3>1
    <3>2. CASE \E n \in OnPid(p, s) : s[m].cc = (s[n].cc + 1) % CCMod
      BY <2>5, <3>2
    <3>3. QED  BY <3>1, <3>2 DEF CountsUp
  <2>7. s[m].cc \in 0..(CCMod - 1)  BY <2>6, Moduli, ModSplit
  <2>8. QED  BY <2>1, <2>4, <2>7
<1>4. QED  BY <1>2, <1>3
-----------------------------------------------------------------------------
(* Appended packets that stand for nothing, or the first of them for the
   packet after all that are in the array. *)
LEMMA AppendedOrder ==
  ASSUME NEW s \in Seq(OutPacket), NEW t \in Seq(OutPacket), NEW k \in Nat,
         InOrder(s), \A n \in DOMAIN s : s[n].from <= k,
         \A n \in DOMAIN t : t[n].from \in {0, k + 1} /\ (n # 1 => t[n].from = 0)
  PROVE  /\ InOrder(s \o t)
         /\ \A n \in DOMAIN (s \o t) : (s \o t)[n].from <= k + 1
         /\ Origins(s \o t) = Origins(s) \cup Origins(t)
<1> DEFINE u == s \o t
           a == Len(s)
           b == Len(t)
<1>1. /\ a \in Nat /\ b \in Nat /\ DOMAIN s = 1..a /\ DOMAIN t = 1..b
      /\ DOMAIN u = 1..(a + b)
      /\ \A i \in 1..a : u[i] = s[i]
      /\ \A i \in 1..b : u[a + i] = t[i]
  BY Concat
<1>2. /\ \A i \in 1..a : s[i].from \in Nat
      /\ \A i \in 1..b : t[i].from \in Nat
  <2>1. \A o \in OutPacket : o.from \in Nat  BY DEF OutPacket
  <2>2. /\ \A i \in 1..a : s[i] \in OutPacket
        /\ \A i \in 1..b : t[i] \in OutPacket
    BY <1>1
  <2>3. QED  BY <2>1, <2>2
<1> HIDE DEF u, a, b
<1>3. ASSUME NEW n \in DOMAIN u
      PROVE  \/ n \in 1..a /\ u[n] = s[n]
             \/ n - a \in 1..b /\ u[n] = t[n - a]
  <2>1. CASE n \in 1..a  BY <1>1, <2>1
  <2>2. CASE n \notin 1..a
    <3>1. n - a \in 1..b /\ n = a + (n - a)  BY <1>1, <2>2
    <3>2. QED  BY <1>1, <3>1
  <2>3. QED  BY <2>1, <2>2
<1>4. InOrder(u)
  <2> SUFFICES ASSUME NEW m \in DOMAIN u, NEW n \in DOMAIN u,
                      m < n, u[m].from # 0, u[n].from # 0
               PROVE  u[m].from < u[n].from
    BY DEF InOrder
  <2>1. CASE n \in 1..a
    <3>1. m \in 1..a  BY <1>1, <2>1
    <3>2. u[m] = s[m] /\ u[n] = s[n]  BY <1>1, <2>1, <3>1
    <3>3. QED  BY <1>1, <2>1, <3>1, <3>2 DEF InOrder
  <2>2. CASE n \notin 1..a
    <3>1. n - a \in 1..b /\ u[n] = t[n - a]  BY <1>3, <2>2
    <3>2. n - a = 1 /\ u[n].from = k + 1  BY <1>1, <3>1
    <3>3. m \in 1..a /\ u[m] = s[m]  BY <1>1, <3>2
    <3>4. QED  BY <1>1, <1>2, <3>2, <3>3
  <2>3. QED  BY <2>1, <2>2
<1>5. ASSUME NEW n \in DOMAIN u  PROVE u[n].from <= k + 1
  <2>1. CASE n \in 1..a /\ u[n] = s[n]  BY <1>1, <1>2, <2>1
  <2>2. CASE n - a \in 1..b /\ u[n] = t[n - a]  BY <1>1, <2>2
  <2>3. QED  BY <1>3, <2>1, <2>2
<1>6. Origins(u) = Origins(s) \cup Origins(t)
  <2>1. ASSUME NEW n \in DOMAIN u
        PROVE  u[n].from = 0 \/ u[n].from \in Origins(s) \/ u[n].from \in Origins(t)
    BY <1>1, <1>3 DEF Origins
  <2>2. ASSUME NEW n \in DOMAIN s, s[n].from # 0  PROVE s[n].from \in Origins(u)
    <3>1. n \in DOMAIN u /\ u[n] = s[n]  BY <1>1
    <3>2. QED  BY <2>2, <3>1 DEF Origins
  <2>3. ASSUME NEW n \in DOMAIN t, t[n].from # 0  PROVE t[n].from \in Origins(u)
    <3>1. a + n \in DOMAIN u /\ u[a + n] = t[n]  BY <1>1
    <3>2. QED  BY <2>3, <3>1 DEF Origins
  <2>4. Origins(u) \subseteq Origins(s) \cup Origins(t)
    BY <2>1 DEF Origins
  <2>5. Origins(s) \subseteq Origins(u)  BY <2>2 DEF Origins
  <2>6. Origins(t) \subseteq Origins(u)  BY <2>3 DEF Origins
  <2>7. QED  BY <2>4, <2>5, <2>6
<1>7. QED  BY <1>4, <1>5, <1>6 DEF u

(* Appended packets that stand for nothing. *)
LEMMA AppendedNothing ==
  ASSUME NEW s \in Seq(OutPacket), NEW t \in Seq(OutPacket), NEW k \in Nat,
         InOrder(s), \A n \in DOMAIN s : s[n].from <= k,
         \A n \in DOMAIN t : t[n].from = 0
  PROVE  /\ InOrder(s \o t) /\ Origins(s \o t) = Origins(s)
         /\ \A n \in DOMAIN (s \o t) : (s \o t)[n].from <= k
<1> DEFINE u == s \o t
<1>1. InOrder(u) /\ Origins(u) = Origins(s) \cup Origins(t)  BY AppendedOrder
<1>2. Origins(t) = {}  BY DEF Origins
<1>3. \A n \in DOMAIN u :
        \/ n \in DOMAIN s /\ u[n] = s[n]
        \/ u[n].from = 0
  <2> SUFFICES ASSUME NEW n \in DOMAIN u, n \notin DOMAIN s
               PROVE  u[n].from = 0
    BY Concat
  <2>1. n - Len(s) \in 1..Len(t) /\ n = Len(s) + (n - Len(s))  BY Concat
  <2>2. QED  BY <2>1, Concat
<1> HIDE DEF u
<1>4. \A n \in DOMAIN u : u[n].from <= k  BY <1>3
<1>5. QED  BY <1>1, <1>2, <1>4 DEF u

(* One packet of the input is answered. *)
LEMMA AnswerInv ==
  ASSUME CallTypes, SeenInOrder, input # <<>>, ~AtEnd,
         NEW packets \in Seq(OutPacket), NEW ok \in BOOLEAN,
         Answer(packets, ok), UNCHANGED input,
         \A n \in DOMAIN packets :
            packets[n].from \in {0, at + 1} /\ (n # 1 => packets[n].from = 0),
         at + 1 \in Origins(packets) \/ Kind = "pmt" \/ (~ok /\ Kind # "txt")
  PROVE  /\ array' \in Seq(OutPacket)
         /\ at' \in 0..Len(input)' /\ refused' \in {0, at'}
         /\ SeenInOrder'
<1>1. /\ array' = array \o packets /\ at' = at + 1 /\ input' = input
      /\ refused' = IF ok THEN 0 ELSE at + 1
  BY DEF Answer
<1>2. array \in Seq(OutPacket) /\ Len(input) \in Nat /\ at \in 0..Len(input)
  BY LenProperties DEF CallTypes
<1>3. at + 1 \in 0..Len(input) /\ refused = 0  BY <1>2 DEF AtEnd
<1>4. at \in Nat  BY <1>2
<1>5. InOrder(array) /\ \A n \in DOMAIN array : array[n].from <= at
  BY DEF SeenInOrder
<1>6. /\ InOrder(array') /\ Origins(array') = Origins(array) \cup Origins(packets)
      /\ \A n \in DOMAIN array' : array'[n].from <= at + 1
  BY <1>1, <1>2, <1>4, <1>5, AppendedOrder
<1>7. ASSUME NEW i \in 1..(at + 1)
      PROVE  \/ i \in Origins(array') \/ input[i] = "pmt"
             \/ i = refused' /\ input[i] # "txt"
  <2>1. CASE i = at + 1  BY <1>1, <1>6, <2>1 DEF Kind
  <2>2. CASE i # at + 1
    <3>1. i \in 1..at /\ i # refused  BY <1>3, <1>4, <2>2
    <3>2. QED  BY <1>6, <3>1 DEF SeenInOrder
  <2>3. QED  BY <2>1, <2>2
<1>8. array' \in Seq(OutPacket)  BY <1>1, <1>2, Concat
<1>9. SeenInOrder'
  <2>1. /\ InOrder(array)' /\ Origins(array)' = Origins(array')
        /\ \A n \in DOMAIN array' : array'[n].from <= at'
    BY <1>1, <1>6 DEF InOrder, Origins
  <2>2. QED  BY <1>1, <1>7, <2>1 DEF SeenInOrder
<1>10. QED  BY <1>1, <1>3, <1>8, <1>9
(* Packets that are no tables change no counter. *)
LEMMA QuietAnswer ==
  ASSUME CallInv, input # <<>>, ~AtEnd,
         NEW packets \in Seq(OutPacket), NEW ok \in BOOLEAN,
         Answer(packets, ok), UNCHANGED <<aitMode, defined, checked, input, cc, lastCc, flow>>,
         \A n \in DOMAIN packets :
            /\ packets[n].from \in {0, at + 1} /\ (n # 1 => packets[n].from = 0)
            /\ packets[n].kind \notin Tables,
         at + 1 \in Origins(packets) \/ Kind = "pmt" \/ (~ok /\ Kind # "txt")
  PROVE  CallInv'
<1>1. CallTypes /\ SeenInOrder /\ CountersTrack  BY DEF CallInv
<1>2. /\ array' \in Seq(OutPacket)
      /\ at' \in 0..Len(input)' /\ refused' \in {0, at'}
      /\ SeenInOrder'
  BY <1>1, AnswerInv
<1>3. CallTypes'  BY <1>1, <1>2 DEF CallTypes
<1>4. ASSUME NEW p \in Pids
      PROVE  CountsUp(lastCc[p], p, array)' /\ DueNext(cc[p], lastCc[p], p, array)'
  <2>1. OnPid(p, packets) = {}  BY DEF OnPid
  <2>2. CountsUp(lastCc[p], p, array) /\ DueNext(cc[p], lastCc[p], p, array)
    BY <1>1 DEF CountersTrack
  <2>3. array \in Seq(OutPacket) /\ array' = array \o packets
    BY <1>1 DEF CallTypes, Answer
  <2>4. /\ CountsUp(lastCc[p], p, array \o packets)
        /\ DueNext(cc[p], lastCc[p], p, array \o packets)
    BY <2>1, <2>2, <2>3, QuietCounts
  <2>5. QED  BY <2>3, <2>4
<1>5. CountersTrack'  BY <1>4 DEF CountersTrack
<1>6. QED  BY <1>2, <1>3, <1>5 DEF CallInv, Idle

(* A packet of a table goes behind the array, with the counter that is due on
   its PID. *)
LEMMA TableSent ==
  ASSUME CallInv, NEW t \in Tables, NEW from \in 0..MaxSize,
         array' = array \o <<Out(t, from, Sending(t).cc)>>, Count(t), UNCHANGED lastCc
  PROVE  /\ Out(t, from, Sending(t).cc) \in OutPacket
         /\ cc' \in [Pids -> 0..(CounterMod - 1)]
         /\ CountersTrack'
<1> DEFINE k == cc[PidOf(t)]
           o == Out(t, from, k % CCMod)
<1>1. CallTypes /\ CountersTrack  BY DEF CallInv
<1>2. PidOf(t) \in Pids  BY DEF PidOf, Pids
<1>3. k \in 0..(CounterMod - 1) /\ k \in Nat /\ array \in Seq(OutPacket)
  BY <1>1, <1>2, Moduli DEF CallTypes
<1>4. k % CCMod \in 0..(CCMod - 1)  BY <1>3, Moduli, ModSplit
<1>5. /\ o \in OutPacket /\ o.kind = t /\ o.from = from /\ o.cc = k % CCMod
  BY <1>4 DEF Out, OutPacket
<1>6. /\ Out(t, from, Sending(t).cc) = o /\ array' = array \o <<o>>
      /\ cc' = [cc EXCEPT ![PidOf(t)] = (k + 1) % CounterMod]
  BY DEF Count, Sending
<1> HIDE DEF o, k
<1>7. (k + 1) % CounterMod \in 0..(CounterMod - 1)
      /\ ((k + 1) % CounterMod) % CCMod = (k + 1) % CCMod
  BY <1>3, Moduli, CounterWrap
<1>8. cc' \in [Pids -> 0..(CounterMod - 1)]  BY <1>1, <1>6, <1>7 DEF CallTypes
<1>9. ASSUME NEW p \in Pids
      PROVE  /\ CountsUp(lastCc[p], p, array \o <<o>>)
             /\ DueNext(cc'[p], lastCc[p], p, array \o <<o>>)
  <2>1. CountsUp(lastCc[p], p, array) /\ DueNext(cc[p], lastCc[p], p, array)
    BY <1>1 DEF CountersTrack
  <2>2. CASE p = PidOf(t)
    <3>1. o.kind \in Tables /\ PidOf(o.kind) = p /\ k = cc[p]
      BY <1>5, <2>2 DEF k
    <3>2. /\ CountsUp(lastCc[p], p, array \o <<o>>)
          /\ DueNext(k + 1, lastCc[p], p, array \o <<o>>)
      BY <1>3, <1>5, <2>1, <3>1, TableCounts
    <3>3. cc'[p] = (k + 1) % CounterMod  BY <1>1, <1>6, <2>2 DEF CallTypes
    <3>4. QED  BY <1>7, <3>2, <3>3, DueCongruent
  <2>3. CASE p # PidOf(t)
    <3>1. OnPid(p, <<o>>) = {}  BY <1>5, <2>3 DEF OnPid
    <3>2. cc'[p] = cc[p]  BY <1>1, <1>6, <2>3 DEF CallTypes
    <3>3. <<o>> \in Seq(OutPacket)  BY <1>5
    <3>4. QED  BY <1>3, <2>1, <3>1, <3>2, <3>3, QuietCounts
  <2>4. QED  BY <2>2, <2>3
<1>10. CountersTrack'  BY <1>6, <1>9 DEF CountersTrack
<1>11. QED  BY <1>5, <1>6, <1>8, <1>10

(* An AIT packet of the input is replaced by one with the counter that is due
   on its PID. *)
LEMMA AitInv ==
  ASSUME CallInv, input # <<>>, ~AtEnd, AitPacket,
         UNCHANGED <<aitMode, defined, checked, input, lastCc, flow>>
  PROVE  CallInv'
<1> DEFINE o == Out("ait", at + 1, Sending("ait").cc)
<1>1. CallTypes /\ SeenInOrder  BY DEF CallInv
<1>2. /\ at + 1 \in 0..MaxSize /\ at \in Nat /\ "ait" \in Tables
  BY <1>1, LenProperties, ProcessBufferAssumption DEF CallTypes, AtEnd, Tables
<1>3. Answer(<<o>>, TRUE) /\ Count("ait") /\ array' = array \o <<o>>
  BY DEF AitPacket, Answer
<1>4. o \in OutPacket /\ cc' \in [Pids -> 0..(CounterMod - 1)] /\ CountersTrack'
  BY <1>2, <1>3, TableSent
<1>5. o.from = at + 1  BY DEF Out
<1> HIDE DEF o
<1>6. at + 1 \in Origins(<<o>>)  BY <1>2, <1>5 DEF Origins
<1>7. /\ array' \in Seq(OutPacket)
      /\ at' \in 0..Len(input)' /\ refused' \in {0, at'}
      /\ SeenInOrder'
  <2>1. <<o>> \in Seq(OutPacket)
        /\ \A n \in DOMAIN <<o>> : n = 1 /\ <<o>>[n].from = at + 1
    BY <1>4, <1>5
  <2>2. QED  BY <1>1, <1>3, <1>6, <2>1, AnswerInv
<1>8. CallTypes'  BY <1>1, <1>4, <1>7 DEF CallTypes
<1>9. QED  BY <1>4, <1>7, <1>8 DEF CallInv, Idle

LEMMA PacketInv == ASSUME CallInv, ProcessPacket PROVE CallInv'
<1>1. /\ input # <<>> /\ ~AtEnd /\ CallTypes
      /\ UNCHANGED <<aitMode, defined, checked, input, lastCc, flow>>
  BY DEF ProcessPacket, CallInv
<1>2. at + 1 \in Nat /\ at + 1 \in 0..MaxSize /\ at + 1 # 0
  BY <1>1, LenProperties, ProcessBufferAssumption DEF CallTypes, AtEnd
<1>3. <<>> \in Seq(OutPacket) /\ DOMAIN <<>> = {}  OBVIOUS
<1>4. ASSUME NEW kind \in {"pmt", "txt", "other"}
      PROVE  LET o == Out(kind, at + 1, NoCc) IN
             /\ <<o>> \in Seq(OutPacket) /\ DOMAIN <<o>> = {1} /\ <<o>>[1] = o
             /\ o \in OutPacket /\ o.from = at + 1 /\ o.kind \notin Tables
  BY <1>2 DEF Out, OutPacket, Tables
<1>5. CASE PmtPacket
  <2>1. UNCHANGED cc /\ Kind = "pmt"  BY <1>5 DEF PmtPacket
  <2>2. CASE Answer(<<Out("pmt", at + 1, NoCc)>>, TRUE)
    BY <1>1, <1>4, <2>1, <2>2, QuietAnswer
  <2>3. CASE \E ok \in BOOLEAN : Answer(<<>>, ok)
    BY <1>1, <1>3, <2>1, <2>3, QuietAnswer
  <2>4. QED  BY <1>5, <2>2, <2>3 DEF PmtPacket
<1>6. CASE TxtPacket
  <2> DEFINE sit(c) == [i \in 1..c |-> Out("sit", 0, NoCc)]
             o == Out("txt", at + 1, NoCc)
  <2>1. PICK commands \in 0..MaxCommands, ok \in BOOLEAN :
          Answer(<<o>> \o sit(commands), ok)
    BY <1>6 DEF TxtPacket
  <2>2. UNCHANGED cc  BY <1>6 DEF TxtPacket
  <2> DEFINE t == sit(commands)
             packets == <<o>> \o t
  <2>3. Out("sit", 0, NoCc) \in OutPacket /\ Out("sit", 0, NoCc).kind \notin Tables
        /\ Out("sit", 0, NoCc).from = 0
    BY ProcessBufferAssumption DEF Out, OutPacket, Tables
  <2>4. commands \in Nat  BY ProcessBufferAssumption
  <2>5. t \in [1..commands -> OutPacket]  BY <2>3
  <2>6. t \in Seq(OutPacket) /\ Len(t) = commands  BY <2>4, <2>5, LenProperties, SeqDef
  <2>7. \A n \in DOMAIN t : t[n].from = 0 /\ t[n].kind \notin Tables  BY <2>3
  <2>8. /\ <<o>> \in Seq(OutPacket) /\ Len(<<o>>) = 1 /\ <<o>>[1] = o
        /\ o.from = at + 1 /\ o.kind \notin Tables
    BY <1>4
  <2> HIDE DEF t, o
  <2>9. /\ packets \in Seq(OutPacket) /\ DOMAIN packets = 1..(1 + commands)
        /\ packets[1] = o
        /\ \A i \in 1..commands : packets[1 + i] = t[i]
    BY <2>6, <2>8, Concat
  <2> HIDE DEF packets
  <2>10. ASSUME NEW n \in DOMAIN packets, n # 1
         PROVE  packets[n].from = 0 /\ packets[n].kind \notin Tables
    <3>1. n - 1 \in 1..commands /\ n = 1 + (n - 1)  BY <2>4, <2>9, <2>10
    <3>2. n - 1 \in DOMAIN t  BY <2>6, <3>1, LenProperties
    <3>3. packets[n] = t[n - 1]  BY <2>9, <3>1
    <3>4. QED  BY <2>7, <3>2, <3>3
  <2>11. at + 1 \in Origins(packets)
    <3>1. 1 \in DOMAIN packets /\ packets[1].from = at + 1  BY <2>4, <2>8, <2>9
    <3>2. QED  BY <1>2, <3>1 DEF Origins
  <2>12. Answer(packets, ok)  BY <2>1 DEF packets, t
  <2>13. QED  BY <1>1, <2>2, <2>8, <2>9, <2>10, <2>11, <2>12, QuietAnswer
<1>7. CASE AitPacket  BY <1>1, <1>7, AitInv
<1>8. CASE OtherPacket
  <2>1. at + 1 \in Origins(<<Out("other", at + 1, NoCc)>>)
    BY <1>2, <1>4 DEF Origins
  <2>2. QED  BY <1>1, <1>4, <1>8, <2>1, QuietAnswer DEF OtherPacket
<1>9. CASE NoSync
  BY <1>1, <1>3, <1>9, QuietAnswer DEF NoSync
<1>10. QED  BY <1>5, <1>6, <1>7, <1>8, <1>9 DEF ProcessPacket
-----------------------------------------------------------------------------
(* The end of a call, one table: it stands for no packet of the input. *)
LEMMA AddTableInv == ASSUME CallInv, NEW t \in Tables, AddTable(t) PROVE CallInv'
<1>1. /\ input # <<>> /\ checked < Len(Order) /\ checked' = checked + 1
      /\ UNCHANGED <<aitMode, defined, input, at, refused, lastCc, flow>>
      /\ CallTypes /\ SeenInOrder /\ CountersTrack
  BY DEF AddTable, CallInv
<1>2. checked' \in 0..Len(Order)  BY <1>1 DEF CallTypes, Order
<1>3. CASE Due(t)
  <2> DEFINE o == Out(t, 0, Sending(t).cc)
  <2>1. 0 \in 0..MaxSize  BY ProcessBufferAssumption
  <2>2. array' = Append(array, o) /\ Count(t)  BY <1>3 DEF AddTable
  <2>3. array \in Seq(OutPacket) /\ at \in Nat
    BY <1>1, LenProperties DEF CallTypes
  <2>4. array' = array \o <<o>>  BY <2>2, <2>3
  <2>5. o \in OutPacket /\ cc' \in [Pids -> 0..(CounterMod - 1)] /\ CountersTrack'
    BY <1>1, <2>1, <2>2, <2>4, TableSent
  <2>6. o.from = 0  BY DEF Out
  <2> HIDE DEF o
  <2>7. /\ <<o>> \in Seq(OutPacket) /\ Origins(<<o>>) = {}
        /\ \A n \in DOMAIN <<o>> : <<o>>[n].from = 0
    BY <2>5, <2>6 DEF Origins
  <2>8. array' \in Seq(OutPacket)  BY <2>3, <2>4, <2>7, Concat
  <2>9. SeenInOrder'
    <3>1. /\ InOrder(array') /\ Origins(array') = Origins(array)
          /\ \A n \in DOMAIN array' : array'[n].from <= at
      BY <1>1, <2>3, <2>4, <2>7, AppendedNothing DEF SeenInOrder
    <3>2. InOrder(array)' /\ Origins(array)' = Origins(array')
      BY <3>1 DEF InOrder, Origins
    <3>3. QED  BY <1>1, <3>1, <3>2 DEF SeenInOrder
  <2>10. CallTypes'  BY <1>1, <1>2, <2>5, <2>8 DEF CallTypes
  <2>11. QED  BY <1>1, <2>5, <2>9, <2>10 DEF CallInv, Idle
<1>4. CASE ~Due(t)
  <2>1. UNCHANGED <<array, cc>>  BY <1>4 DEF AddTable
  <2>2. CallTypes'  BY <1>1, <1>2, <2>1 DEF CallTypes
  <2>3. SeenInOrder'  BY <1>1, <2>1 DEF SeenInOrder, InOrder, Origins
  <2>4. CountersTrack'  BY <1>1, <2>1 DEF CountersTrack, CountsUp, DueNext, OnPid
  <2>5. QED  BY <1>1, <2>2, <2>3, <2>4 DEF CallInv, Idle
<1>5. QED  BY <1>3, <1>4

(* The buffer is pushed: the counters follow the last that were sent. *)
LEMMA DeliverCallInv == ASSUME CallInv, Deliver PROVE CallInv'
<1>1. CallTypes /\ CountersTrack  BY DEF CallInv
<1>2. /\ input' = <<>> /\ at' = 0 /\ refused' = 0 /\ checked' = 0 /\ array' = <<>>
      /\ UNCHANGED <<aitMode, defined, cc, flow>>
      /\ lastCc' = [p \in Pids |-> LastOn(p, array)]
  BY DEF Deliver
<1>3. ASSUME NEW p \in Pids
      PROVE  /\ lastCc'[p] \in 0..(CCMod - 1)
             /\ cc'[p] % CCMod = (lastCc'[p] + 1) % CCMod
  <2>1. /\ array \in Seq(OutPacket)
        /\ CountsUp(lastCc[p], p, array) /\ DueNext(cc[p], lastCc[p], p, array)
    BY <1>1 DEF CallTypes, CountersTrack
  <2>2. /\ LastOn(p, array) \in 0..(CCMod - 1)
        /\ cc[p] % CCMod = (LastOn(p, array) + 1) % CCMod
    BY <1>1, <2>1, LastIsBeforeDue
  <2>3. QED  BY <1>2, <2>2
<1>4. /\ input' \in Seq(Kinds) /\ Len(input') <= MaxSize /\ at' \in 0..Len(input')
      /\ array' \in Seq(OutPacket) /\ Len(array') = 0 /\ checked' \in 0..Len(Order)
  BY <1>2, ProcessBufferAssumption DEF Order
<1>5. CallTypes'
  <2>1. lastCc' \in [Pids -> 0..(CCMod - 1)]  BY <1>2, <1>3
  <2>2. QED  BY <1>1, <1>2, <1>4, <2>1 DEF CallTypes
<1>6. SeenInOrder'  BY <1>2 DEF SeenInOrder, InOrder
<1>7. CountersTrack'
  <2>1. \A p \in Pids : OnPid(p, array') = {}  BY <1>2 DEF OnPid
  <2>2. QED  BY <1>3, <2>1 DEF CountersTrack, CountsUp, DueNext, OnPid
<1>8. QED  BY <1>2, <1>5, <1>6, <1>7 DEF CallInv, Idle

(* At the start of a call, and between calls, nothing is in the array. *)
LEMMA EmptyCall ==
  ASSUME CallInv, input = <<>>, array' = <<>>, at' = 0, refused' = 0,
         input' \in Seq(Kinds), Len(input') <= MaxSize,
         checked' = 0, UNCHANGED <<aitMode, defined, cc, lastCc>>,
         flow' \in {flow, "error"}
  PROVE  CallInv'
<1>1. CallTypes /\ array = <<>> /\ CountersTrack  BY DEF CallInv, Idle
<1>2. CallTypes'  BY <1>1, LenProperties DEF CallTypes, Order
<1>3. SeenInOrder'  BY DEF SeenInOrder, InOrder
<1>4. CountersTrack'  BY <1>1 DEF CountersTrack, CountsUp, DueNext, OnPid
<1>5. QED  BY <1>2, <1>3, <1>4 DEF CallInv, Idle

(* The start: the counters are those of the first tables. *)
LEMMA InitCallInv == Init => CallInv
<1> SUFFICES ASSUME Init  PROVE CallInv  OBVIOUS
<1>1. CallTypes
  <2>1. 0 \in 0..(CounterMod - 1) /\ 1 \in 0..(CounterMod - 1)
        /\ 0 \in 0..(CCMod - 1) /\ CCMod - 1 \in 0..(CCMod - 1)
    BY ProcessBufferAssumption
  <2>2. cc \in [Pids -> 0..(CounterMod - 1)] /\ lastCc \in [Pids -> 0..(CCMod - 1)]
    BY <2>1 DEF Init
  <2>3. Len(input) = 0 /\ MaxSize \in Nat  BY ProcessBufferAssumption DEF Init
  <2>4. QED  BY <2>2, <2>3 DEF Init, CallTypes, Order
<1>2. QED  BY <1>1, Moduli
      DEF Init, CallInv, Idle, SeenInOrder, InOrder, Origins, CountersTrack,
          CountsUp, DueNext, OnPid, Pids
(* Every step. *)
LEMMA CallStep == CallInv /\ [Next]_vars => CallInv'
<1> SUFFICES ASSUME CallInv, [Next]_vars  PROVE CallInv'  OBVIOUS
<1>0. CallTypes  BY DEF CallInv
<1>1. CASE Tick \/ TakeBroken \/ UNCHANGED vars \/ \E d \in 1..MaxSetBack : ClockSetBack(d)
  <2>1. UNCHANGED <<aitMode, defined, checked, input, at, refused, array, cc, lastCc>>
        /\ flow' \in {flow, "error"}
    BY <1>1 DEF Tick, TakeBroken, vars, ClockSetBack
  <2>2. CallTypes'  BY <1>0, <2>1 DEF CallTypes
  <2>3. Idle' /\ SeenInOrder'
    BY <2>1 DEF CallInv, Idle, SeenInOrder, InOrder, Origins
  <2>4. CountersTrack'
    BY <2>1 DEF CallInv, CountersTrack, CountsUp, DueNext, OnPid
  <2>5. QED  BY <2>2, <2>3, <2>4 DEF CallInv
<1>2. ASSUME NEW n \in 1..MaxSize, NEW kinds \in [1..n -> Kinds], TakeBuffer(kinds)
      PROVE  CallInv'
  <2>1. n \in Nat /\ n <= MaxSize  BY ProcessBufferAssumption
  <2>2. kinds \in Seq(Kinds) /\ Len(kinds) = n  BY <2>1, SeqDef, LenProperties
  <2>3. input' = kinds /\ input = <<>> /\ at' = 0 /\ refused' = 0 /\ array' = <<>>
        /\ checked' = 0 /\ UNCHANGED <<aitMode, defined, cc, lastCc, flow>>
    BY <1>2 DEF TakeBuffer
  <2>4. QED  BY <2>1, <2>2, <2>3, EmptyCall
<1>3. CASE ProcessPacket  BY <1>3, PacketInv
<1>4. CASE Deliver  BY <1>4, DeliverCallInv
<1>5. ASSUME NEW t \in Tables, AddTable(t)  PROVE CallInv'  BY <1>5, AddTableInv
<1>6. QED  BY <1>1, <1>2, <1>3, <1>4, <1>5 DEF Next

-----------------------------------------------------------------------------
(* What a call has done so far, in every state. *)
THEOREM CallInvariance == Spec => []CallInv
<1>1. QED  BY InitCallInv, CallStep, PTL DEF Spec

(* Packets leave in the order they came, and one that is no PMT packet is
   lost only behind a refusal in its own buffer: for buffers of every size,
   and whatever the rewriter and the assembler answer. *)
THEOREM LossIsBehindRefusal == Spec => LossNeedsRefusal
<1> DEFINE A == Deliver =>
       /\ InOrder(array)
       /\ \A i \in DOMAIN input \ Origins(array) :
            input[i] = "pmt" \/ (refused # 0 /\ i >= refused)
<1>1. CallInv => A
  <2> SUFFICES ASSUME CallInv, Deliver
               PROVE  /\ InOrder(array)
                      /\ \A i \in DOMAIN input \ Origins(array) :
                           input[i] = "pmt" \/ (refused # 0 /\ i >= refused)
    OBVIOUS
  <2>1. InOrder(array)  BY DEF CallInv, SeenInOrder
  <2>2. CallTypes /\ SeenInOrder /\ AtEnd  BY DEF CallInv, Deliver
  <2>3. DOMAIN input = 1..Len(input) /\ Len(input) \in Nat
    BY <2>2, LenProperties DEF CallTypes
  <2>4. at \in 0..Len(input) /\ refused \in {0, at}  BY <2>2 DEF CallTypes
  <2>6. at = Len(input) \/ refused # 0  BY <2>2 DEF AtEnd
  <2>7. at \in Nat  BY <2>3, <2>4
  <2>5. ASSUME NEW i \in 1..Len(input), i \notin Origins(array)
        PROVE  input[i] = "pmt" \/ (refused # 0 /\ i >= refused)
    <3>1. CASE i \in 1..at  BY <2>2, <2>5, <3>1 DEF SeenInOrder
    <3>2. CASE i \notin 1..at
      <4>1. i \in Nat /\ at < i /\ i <= Len(input)  BY <2>3, <2>7, <3>2
      <4>2. refused # 0
        <5>1. at # Len(input)  BY <2>7, <4>1
        <5>2. QED  BY <2>6, <5>1, Zenon
      <4>3. refused = at  BY <2>4, <4>2
      <4>4. QED  BY <2>7, <4>1, <4>2, <4>3
    <3>3. QED  BY <3>1, <3>2
  <2>8. QED  BY <2>1, <2>3, <2>5
<1>3. CallInv /\ [Next]_vars => [A]_vars  BY <1>1
<1>4. QED  BY CallInvariance, <1>3, PTL DEF Spec, LossNeedsRefusal

(* Every teletext packet that process_packet has seen is forwarded, the one
   that the assembler refuses too. *)
THEOREM TxtForwarded == Spec => TxtIsForwarded
<1> DEFINE A == Deliver =>
       \A i \in 1..at : input[i] = "txt" => i \in Origins(array)
<1>1. CallInv => A
  BY DEF CallInv, SeenInOrder
<1>2. CallInv /\ [Next]_vars => [A]_vars  BY <1>1
<1>3. QED  BY CallInvariance, <1>2, PTL DEF Spec, TxtIsForwarded

(* On each PID of the tables the continuity counter of every packet is that
   of the packet before it plus one, within a buffer and from one buffer to
   the next, whichever tables are configured, whichever of them are due at which
   reading of the clock, and however the program's wider counters wrap. *)
THEOREM CountersHaveNoGap == Spec => TablesCountUp
<1> DEFINE A == Deliver => \A p \in Pids : CountsUp(lastCc[p], p, array)
<1>1. CallInv => A  BY DEF CallInv, CountersTrack
<1>2. CallInv /\ [Next]_vars => [A]_vars  BY <1>1
<1>3. QED  BY CallInvariance, <1>2, PTL DEF Spec, TablesCountUp
-----------------------------------------------------------------------------
(* The program's clocks go no further back than the wall clock was set. *)
ClockBounds ==
  \A t \in Tables : -setBack <= age[t] /\ age[t] <= Aged /\ gap[t] \in 0..Aged

LEMMA InitBounds == Init => ClockBounds
  BY Constants DEF Init, ClockBounds

LEMMA StepBounds == ClockTypes /\ ClockBounds /\ [Next]_vars => ClockBounds'
<1> SUFFICES ASSUME ClockTypes, ClockBounds, [Next]_vars  PROVE ClockBounds'
  OBVIOUS
<1> USE Constants DEF ClockTypes, ClockBounds
<1>1. CASE Tick
  <2> SUFFICES ASSUME NEW t \in Tables
               PROVE  -setBack' <= age'[t] /\ age'[t] <= Aged /\ gap'[t] \in 0..Aged
    OBVIOUS
  <2>1. age'[t] = Older(age[t]) /\ gap'[t] \in {0, Older(gap[t])} /\ setBack' = setBack
    BY <1>1 DEF Tick
  <2>2. age[t] \in Int /\ gap[t] \in Int /\ setBack \in Nat  OBVIOUS
  <2>3. QED  BY <2>1, <2>2 DEF Older
<1>2. ASSUME NEW d \in 1..MaxSetBack, ClockSetBack(d)  PROVE ClockBounds'
  BY <1>2 DEF ClockSetBack
<1>3. ASSUME NEW t \in Tables, AddTable(t)  PROVE ClockBounds'
  <2> SUFFICES ASSUME NEW u \in Tables
               PROVE  -setBack' <= age'[u] /\ age'[u] <= Aged /\ gap'[u] \in 0..Aged
    OBVIOUS
  <2>1. setBack' = setBack /\ age' = [age EXCEPT ![t] = Restarted(t)]
    BY <1>3, Zenon DEF AddTable
  <2>2. gap' = gap \/ gap' = [gap EXCEPT ![t] = 0]  BY <1>3, Zenon DEF AddTable
  <2>3. Restarted(t) \in {0, age[t]}  BY Zenon DEF Restarted
  <2>4. age'[u] \in {0, age[u]}  BY <2>1, <2>3
  <2>5. gap'[u] \in {0, gap[u]}  BY <2>2
  <2>6. age[u] \in Int /\ gap[u] \in Int /\ setBack \in Nat  OBVIOUS
  <2>7. QED  BY <2>1, <2>4, <2>5, <2>6
<1>4. CASE UNCHANGED <<age, gap, setBack>>  BY <1>4
<1>5. QED
  BY <1>1, <1>2, <1>3, <1>4 DEF Next, TakeBuffer, TakeBroken, ProcessPacket, Deliver, vars

(* Everything has its type: the counters stay below their moduli, the array
   holds outgoing packets only, and a call never looks past its buffer. *)
THEOREM TypeCorrect == Spec => []TypeOK
<1>1. IInv => ClockTypes  BY DEF IInv
<1>2. Spec => []ClockBounds
  BY Invariance, <1>1, InitBounds, StepBounds, PTL DEF Spec
<1>3. ClockTypes /\ ClockBounds /\ CallInv => TypeOK
  <2> SUFFICES ASSUME ClockTypes, ClockBounds, CallInv  PROVE TypeOK  OBVIOUS
  <2>1. CallTypes  BY DEF CallInv
  <2>2. refused \in 0..Len(input)
    BY <2>1, LenProperties DEF CallTypes
  <2>3. age \in [Tables -> (-MaxSetBack)..Aged] /\ gap \in [Tables -> 0..Aged]
    <3>1. ASSUME NEW t \in Tables
          PROVE  age[t] \in (-MaxSetBack)..Aged /\ gap[t] \in 0..Aged
      BY Constants DEF ClockTypes, ClockBounds
    <3>2. QED  BY <3>1 DEF ClockTypes
  <2>4. QED  BY <2>1, <2>2, <2>3 DEF CallTypes, ClockTypes, TypeOK
<1>4. QED  BY Invariance, CallInvariance, <1>1, <1>2, <1>3, PTL
=============================================================================
