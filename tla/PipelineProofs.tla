--------------------------- MODULE PipelineProofs ---------------------------
(***************************************************************************)
(* Safety of the two pipelines, for any number of samples: the callback    *)
(* never runs on something freed, and the program implements Relay.        *)
(***************************************************************************)
EXTENDS Pipeline, SequenceTheorems, TLAPS

HasEos(bus) == bus \in {<<"EOS">>, <<"ERROR", "EOS">>}
HasError(bus) == bus \in {<<"ERROR">>, <<"ERROR", "EOS">>}

(* What main() has done so far. *)
MainInv ==
  /\ pc \in {"startSink", "startSource"} =>
       thread = "off" /\ srcBus = <<>> /\ appsrc # "eos" /\ quit = "no" /\ turn = {}
  /\ pc = "startSink" =>
       sink = "off" /\ sinkBus = <<>> /\ appsrc = "unstarted" /\ ~fault
  /\ turn # {} => pc \in {"loop", "exited"}
  /\ "source" \in turn => srcBus # <<>>
  /\ "sink" \in turn => sinkBus # <<>>
  /\ pc \in {"stopSource", "stopSink", "free", "returned"} => quit # "no"
  /\ pc \in {"stopSink", "free", "returned"} => thread = "over"

(* Messages come from the threads: an end of stream is a thread's last. *)
BusInv ==
  /\ thread \in {"waits", "callback"} => srcBus = <<>> /\ appsrc # "eos"
  /\ thread = "off" => appsrc # "eos" /\ taken = 0
  /\ thread = "waits" => taken = pushed
  /\ thread = "callback" => taken = pushed + 1
  /\ thread = "ending" => appsrc # "eos"
  /\ HasEos(srcBus) \/ appsrc = "eos" => thread = "over"
  /\ sink = "plays" => sinkBus = <<>>
  /\ HasEos(sinkBus) => sink = "over"
  /\ HasError(srcBus) \/ HasError(sinkBus) => fault
  /\ quit = "error" => fault

(* While the sink plays, only the source can have failed, and its error is
   still ahead of its end of stream, or has ended the loop. *)
SourceInv ==
  sink = "plays" /\ Running =>
    /\ thread \in {"waits", "callback"} => ~fault
    /\ thread = "ending" /\ srcBus = <<>> /\ quit = "no" => ~fault /\ taken = pushed
    /\ srcBus = <<"EOS">> /\ quit = "no" => ~fault /\ taken = pushed
    /\ appsrc = "eos" /\ quit = "no" => ~fault /\ taken = pushed

Drained ==
  appsrc = "eos" /\ thread = "over" /\ played = taken /\ ~fault

(* The same for the sink, and for the loop that its end of stream ends. *)
SinkInv ==
  /\ sink = "ending" /\ sinkBus = <<>> /\ quit = "no" => Drained
  /\ sinkBus = <<"EOS">> /\ quit = "no" => Drained
  /\ quit = "eos" => Drained /\ sink = "over"

(* A start that failed is on the bus, or has been noticed. *)
StartInv ==
  /\ sink = "off" => pc = "startSink" \/ fault
  /\ thread = "off" => pc \in {"startSink", "startSource"} \/ fault
  /\ appsrc = "unstarted" => pc = "startSink" \/ fault
  /\ sink = "plays" /\ pc = "startSource" => ~fault

IInv == TypeOK /\ MainInv /\ BusInv /\ SourceInv /\ SinkInv /\ StartInv

-----------------------------------------------------------------------------
(* All that can be on a bus, and what is left when its first message is
   taken, or a message is added. *)
LEMMA Buses ==
  /\ Append(<<>>, "ERROR") = <<"ERROR">>
  /\ Append(<<>>, "EOS") = <<"EOS">>
  /\ Append(<<"ERROR">>, "EOS") = <<"ERROR", "EOS">>
  /\ Head(<<"EOS">>) = "EOS" /\ Tail(<<"EOS">>) = <<>>
  /\ Head(<<"ERROR">>) = "ERROR" /\ Tail(<<"ERROR">>) = <<>>
  /\ Head(<<"ERROR", "EOS">>) = "ERROR" /\ Tail(<<"ERROR", "EOS">>) = <<"EOS">>
  /\ <<>> # <<"EOS">> /\ <<>> # <<"ERROR">> /\ <<>> # <<"ERROR", "EOS">>
  /\ <<"EOS">> # <<"ERROR">> /\ <<"EOS">> # <<"ERROR", "EOS">>
  /\ <<"ERROR">> # <<"ERROR", "EOS">>
<1>1. Append(<<>>, "ERROR") = <<"ERROR">> /\ Append(<<>>, "EOS") = <<"EOS">>
  OBVIOUS
<1>2. Append(<<"ERROR">>, "EOS") = <<"ERROR", "EOS">>
  <2> DEFINE s == Append(<<"ERROR">>, "EOS")
  <2> DEFINE M == {"ERROR", "EOS"}
  <2>1. <<"ERROR">> \in Seq(M) /\ <<"ERROR", "EOS">> \in Seq(M)
        /\ Len(<<"ERROR">>) = 1 /\ Len(<<"ERROR", "EOS">>) = 2
    OBVIOUS
  <2>2. s \in Seq(M) /\ Len(s) = 2 /\ s[1] = "ERROR" /\ s[2] = "EOS"
    BY <2>1, AppendProperties
  <2>3. \A i \in 1..Len(s) : s[i] = <<"ERROR", "EOS">>[i]
    BY <2>2
  <2>4. QED  BY <2>1, <2>2, <2>3, SeqEqual
<1>3. Head(<<"EOS">>) = "EOS" /\ Head(<<"ERROR">>) = "ERROR"
  OBVIOUS
<1>4. Tail(<<"EOS">>) = <<>> /\ Tail(<<"ERROR">>) = <<>>
  OBVIOUS
<1>5. Head(<<"ERROR", "EOS">>) = "ERROR" /\ Tail(<<"ERROR", "EOS">>) = <<"EOS">>
  OBVIOUS
<1>6. <<>> # <<"EOS">> /\ <<>> # <<"ERROR">> /\ <<>> # <<"ERROR", "EOS">>
  OBVIOUS
<1>7. <<"EOS">> # <<"ERROR">> /\ <<"EOS">> # <<"ERROR", "EOS">>
      /\ <<"ERROR">> # <<"ERROR", "EOS">>
  OBVIOUS
<1>8. QED  BY <1>1, <1>2, <1>3, <1>4, <1>5, <1>6, <1>7

(* Nothing has happened yet. *)
LEMMA InitInv == Init => IInv
<1> SUFFICES ASSUME Init PROVE IInv
  OBVIOUS
<1>1. TypeOK
  <2>1. 0 \in 0..MaxSamples /\ 0 \in 0..0  BY PipelineAssumption
  <2>2. QED  BY <2>1, Zenon DEF Init, TypeOK, BusContents
<1>2. MainInv /\ BusInv  BY Buses DEF Init, MainInv, BusInv, HasEos, HasError
<1>3. SourceInv /\ SinkInv /\ StartInv
  BY Buses DEF Init, SourceInv, SinkInv, StartInv, Drained, Running, Ended
<1>4. QED  BY <1>1, <1>2, <1>3 DEF IInv

(* The main thread. *)
LEMMA MainKeepsInv == ASSUME IInv, Main PROVE IInv'
<1> USE PipelineAssumption, Buses
    DEF IInv, TypeOK, MainInv, BusInv, SourceInv, SinkInv, StartInv, Drained, Running,
        Ended, HasEos, HasError, BusContents, samples
<1>1. CASE StartSink
  <2>1. CASE sinkBus' = <<"ERROR">> /\ fault'  BY <1>1, <2>1 DEF StartSink
  <2>2. CASE sink' = "plays" /\ UNCHANGED <<sinkBus, fault>>  BY <1>1, <2>2 DEF StartSink
  <2>3. QED  BY <1>1, <2>1, <2>2 DEF StartSink
<1>2. CASE StartSource
  <2>1. CASE srcBus' = <<"ERROR">> /\ fault'  BY <1>2, <2>1 DEF StartSource
  <2>2. CASE thread' = "waits" /\ UNCHANGED <<srcBus, fault>>
    BY <1>2, <2>2 DEF StartSource
  <2>3. QED  BY <1>2, <2>1, <2>2 DEF StartSource
<1>3. CASE Iterate  BY <1>3 DEF Iterate
<1>4. CASE DispatchSource
  <2>1. CASE srcBus = <<"EOS">>  BY <1>4, <2>1 DEF DispatchSource
  <2>2. CASE srcBus = <<"ERROR">>  BY <1>4, <2>2 DEF DispatchSource, Quit
  <2>3. CASE srcBus = <<"ERROR", "EOS">>  BY <1>4, <2>3 DEF DispatchSource, Quit
  <2>4. QED  BY <1>4, <2>1, <2>2, <2>3 DEF DispatchSource
<1>5. CASE DispatchSink
  <2>1. CASE sinkBus = <<"EOS">>  BY <1>5, <2>1 DEF DispatchSink, Quit
  <2>2. CASE sinkBus = <<"ERROR">>  BY <1>5, <2>2 DEF DispatchSink, Quit
  <2>3. CASE sinkBus = <<"ERROR", "EOS">>  BY <1>5, <2>3 DEF DispatchSink, Quit
  <2>4. QED  BY <1>5, <2>1, <2>2, <2>3 DEF DispatchSink
<1>6. CASE LeaveLoop  BY <1>6 DEF LeaveLoop
<1>7. CASE StopSource  BY <1>7 DEF StopSource
<1>8. CASE StopSink  BY <1>8 DEF StopSink
<1>9. CASE Free  BY <1>9 DEF Free
<1>10. QED
  BY <1>1, <1>2, <1>3, <1>4, <1>5, <1>6, <1>7, <1>8, <1>9 DEF Main

(* The source's streaming thread. *)
SourceThread ==
  TakeSample \/ PushSample \/ SourceFails \/ CallbackExits \/ SourceEnds
    \/ SourcePostsEos

LEMMA SourceKeepsInv == ASSUME IInv, SourceThread PROVE IInv'
<1> USE PipelineAssumption, Buses
    DEF IInv, TypeOK, MainInv, BusInv, SourceInv, SinkInv, StartInv, Drained, Running,
        Ended, HasEos, HasError, BusContents, samples, mainVars
<1>1. CASE TakeSample  BY <1>1 DEF TakeSample
<1>2. CASE PushSample  BY <1>2 DEF PushSample
<1>3. CASE SourceFails  BY <1>3 DEF SourceFails
<1>4. CASE CallbackExits  BY <1>4 DEF CallbackExits
<1>5. CASE SourceEnds  BY <1>5 DEF SourceEnds
<1>6. CASE SourcePostsEos  BY <1>6 DEF SourcePostsEos
<1>7. QED  BY <1>1, <1>2, <1>3, <1>4, <1>5, <1>6 DEF SourceThread

(* The sink's streaming thread. *)
SinkThread == Play \/ SinkDrains \/ SinkFails \/ SinkPostsEos

LEMMA SinkKeepsInv == ASSUME IInv, SinkThread PROVE IInv'
<1> USE PipelineAssumption, Buses
    DEF IInv, TypeOK, MainInv, BusInv, SourceInv, SinkInv, StartInv, Drained, Running,
        Ended, HasEos, HasError, BusContents, samples, mainVars
<1>1. CASE Play  BY <1>1 DEF Play
<1>2. CASE SinkDrains  BY <1>2 DEF SinkDrains
<1>3. CASE SinkFails  BY <1>3 DEF SinkFails
<1>4. CASE SinkPostsEos  BY <1>4 DEF SinkPostsEos
<1>5. QED  BY <1>1, <1>2, <1>3, <1>4 DEF SinkThread

(* A step of any thread, or none. *)
LEMMA StepKeepsInv == ASSUME IInv, [Next]_vars PROVE IInv'
<1>1. CASE Next
  BY <1>1, MainKeepsInv, SourceKeepsInv, SinkKeepsInv DEF Next, SourceThread, SinkThread
<1>2. CASE UNCHANGED vars
  BY <1>2
  DEF vars, samples, IInv, TypeOK, MainInv, BusInv, SourceInv, SinkInv, StartInv,
      Drained, Running, Ended
<1>3. QED  BY <1>1, <1>2

-----------------------------------------------------------------------------
(* The invariant holds in every reachable state. *)
THEOREM Invariance == Spec => []IInv
<1>1. QED  BY InitInv, StepKeepsInv, PTL DEF Spec

(* TypeOK. *)
THEOREM TypeCorrect == Spec => []TypeOK
<1>1. IInv => TypeOK  BY DEF IInv
<1>2. QED  BY <1>1, Invariance, PTL

(* CallbackHasSink: neither thread pulls the ground from under the callback. *)
THEOREM CallbackIsSafe == Spec => []CallbackHasSink
<1>1. IInv => CallbackHasSink
  BY DEF IInv, TypeOK, MainInv, BusInv, CallbackHasSink
<1>2. QED  BY <1>1, Invariance, PTL

-----------------------------------------------------------------------------
(* Relay, over this module's state. *)
End == IF pc = "exited" /\ quit = "no" THEN "aborted"
       ELSE [no |-> "open", eos |-> "complete", error |-> "aborted"][quit]

LEMMA EndIs ==
  ASSUME quit \in {"no", "eos", "error"}
  PROVE  /\ quit = "eos" => End = "complete"
         /\ quit = "error" => End = "aborted"
         /\ quit = "no" => End = IF pc = "exited" THEN "aborted" ELSE "open"
  BY DEF End

Over == thread \in {"ending", "over"}

(* How the program ends is written by the loop's quit, and by exit. *)
LEMMA EndKept ==
  ASSUME quit' = quit, pc' = "exited" <=> pc = "exited"
  PROVE  End' = End
  BY DEF End

(* The program starts where Relay does. *)
LEMMA RelayStarts == Init => R!RelayInit
  BY DEF Init, R!RelayInit

(* Every step is one of Relay's, or none. *)
LEMMA RelaySteps == ASSUME IInv, IInv', [Next]_vars PROVE [R!RelayNext]_(R!relayVars)
<1>1. /\ quit \in {"no", "eos", "error"} /\ quit' \in {"no", "eos", "error"}
      /\ taken \in Nat /\ pushed \in 0..taken /\ played \in 0..pushed
      /\ fault \in BOOLEAN /\ fault' \in BOOLEAN
  BY PipelineAssumption DEF IInv, TypeOK
<1>2. quit = "eos" => Over /\ Drained /\ sink = "over"
  BY DEF IInv, SinkInv, Drained, Over
<1>3. SUFFICES
        \/ UNCHANGED <<taken, played, Over, fault, End>>
        \/ /\ ~Over /\ End # "complete" /\ taken' = taken + 1
           /\ UNCHANGED <<played, Over, fault, End>>
        \/ /\ played < taken /\ End # "complete" /\ played' = played + 1
           /\ UNCHANGED <<taken, Over, fault, End>>
        \/ ~Over /\ Over' /\ UNCHANGED <<taken, played, fault, End>>
        \/ /\ End # "complete" /\ fault' = TRUE /\ Over' \in {Over, TRUE}
           /\ End' \in {End, "aborted"} /\ UNCHANGED <<taken, played>>
        \/ /\ End = "open" /\ Over /\ played = taken /\ ~fault /\ End' = "complete"
           /\ UNCHANGED <<taken, played, Over, fault>>
        \/ /\ End = "open" /\ fault /\ End' = "aborted"
           /\ UNCHANGED <<taken, played, Over, fault>>
  BY DEF R!RelayNext, R!relayVars, R!Hand, R!Deliver, R!SourceOver, R!Fail,
         R!Complete, R!Abort, End, Over
<1> HIDE DEF End
<1>4. CASE StartSink \/ StartSource
  <2>1. UNCHANGED <<quit, taken, played>> /\ pc # "exited" /\ pc' # "exited"
    BY <1>4 DEF StartSink, StartSource, samples
  <2>2. End' = End /\ End # "complete" /\ ~Over /\ ~Over'
    BY <1>1, <1>4, <2>1, EndKept, EndIs DEF StartSink, StartSource, IInv, MainInv, Over
  <2>3. fault' = TRUE \/ fault' = fault
    BY <1>4 DEF StartSink, StartSource
  <2>4. Over' = Over  BY <2>2 DEF Over
  <2>5. QED  BY <2>1, <2>2, <2>3, <2>4
<1>5. CASE Iterate \/ LeaveLoop \/ StopSink \/ Free
  <2>1. UNCHANGED <<quit, taken, played, thread, fault>> /\ pc # "exited" /\ pc' # "exited"
    BY <1>5 DEF Iterate, LeaveLoop, StopSink, Free, samples
  <2>2. QED  BY <2>1, EndKept DEF Over
<1>6. CASE StopSource
  <2>1. UNCHANGED <<quit, taken, played, fault>> /\ pc # "exited" /\ pc' # "exited"
        /\ (Over' = Over \/ (~Over /\ Over'))
    BY <1>6 DEF StopSource, samples, Over
  <2>2. QED  BY <2>1, EndKept
<1>7. CASE DispatchSource
  <2>1. UNCHANGED <<taken, played, thread, fault, pc>>
    BY <1>7 DEF DispatchSource, samples
  <2>2. CASE quit' = quit  BY <2>1, <2>2, EndKept DEF Over
  <2>3. CASE quit' # quit
    <3>1. quit = "no" /\ quit' = "error"
      BY <1>7, <2>3 DEF DispatchSource, Quit
    <3>2. fault'
      BY <3>1 DEF IInv, BusInv
    <3>3. End = "open" /\ End' = "aborted"
      BY <1>7, <2>1, <3>1 DEF DispatchSource, End
    <3>4. QED  BY <2>1, <3>2, <3>3 DEF Over
  <2>4. QED  BY <2>2, <2>3
<1>8. CASE DispatchSink
  <2>1. UNCHANGED <<taken, played, thread, fault, pc>>
    BY <1>8 DEF DispatchSink, samples
  <2>2. CASE quit' = quit  BY <2>1, <2>2, EndKept DEF Over
  <2>3. CASE quit' # quit
    <3>1. quit = "no" /\ quit' \in {"eos", "error"}
      BY <1>8, <2>3 DEF DispatchSink, Quit
    <3>2. quit' = "error" => fault'
      BY DEF IInv, BusInv
    <3>3. quit' = "eos" => Over /\ played = taken /\ ~fault
      BY <2>1 DEF IInv, SinkInv, Drained, Over
    <3>4. End = "open"
          /\ End' = IF quit' = "eos" THEN "complete" ELSE "aborted"
      BY <1>8, <2>1, <3>1 DEF DispatchSink, End
    <3>5. QED  BY <2>1, <3>1, <3>2, <3>3, <3>4 DEF Over
  <2>4. QED  BY <2>2, <2>3
<1>9. CASE TakeSample
  <2>1. UNCHANGED <<quit, pc, played, fault>> /\ ~Over /\ Over' = Over /\ taken' = taken + 1
    BY <1>9 DEF TakeSample, mainVars, Over
  <2>2. End' = End /\ End # "complete"  BY <1>1, <1>2, <2>1, EndKept, EndIs DEF End
  <2>3. QED  BY <2>1, <2>2
<1>10. CASE PushSample \/ SourceEnds \/ SourcePostsEos
  <2>1. UNCHANGED <<quit, pc, played, taken, fault>> /\ (Over' = Over \/ (~Over /\ Over'))
    BY <1>10 DEF PushSample, SourceEnds, SourcePostsEos, mainVars, samples, Over
  <2>2. QED  BY <2>1, EndKept
<1>11. CASE SourceFails
  <2>1. UNCHANGED <<quit, pc, played, taken>> /\ ~Over /\ Over' = TRUE /\ fault' = TRUE
    BY <1>11 DEF SourceFails, mainVars, samples, Over
  <2>2. End' = End /\ End # "complete"  BY <1>1, <1>2, <2>1, EndKept, EndIs DEF End
  <2>3. QED  BY <2>1, <2>2
<1>12. CASE CallbackExits
  <2>1. UNCHANGED <<quit, thread, played, taken>> /\ ~Over /\ fault' = TRUE
        /\ pc' = "exited"
    BY <1>12 DEF CallbackExits, samples, Over
  <2>2. quit \in {"no", "error"}  BY <1>1, <1>2, <2>1
  <2>3. End # "complete" /\ End' = "aborted"  BY <2>1, <2>2 DEF End
  <2>4. QED  BY <2>1, <2>3 DEF Over
<1>13. CASE Play
  <2>1. UNCHANGED <<quit, pc, thread, taken, fault>> /\ played' = played + 1
        /\ played < pushed /\ sink = "plays"
    BY <1>13 DEF Play, mainVars
  <2>2. End' = End /\ End # "complete"  BY <1>1, <1>2, <2>1, EndKept, EndIs DEF End
  <2>3. QED  BY <1>1, <2>1, <2>2 DEF Over
<1>14. CASE SinkFails
  <2>1. UNCHANGED <<quit, pc, thread, played, taken>> /\ fault' = TRUE /\ sink = "plays"
    BY <1>14 DEF SinkFails, mainVars, samples
  <2>2. End' = End /\ End # "complete"  BY <1>1, <1>2, <2>1, EndKept, EndIs DEF End
  <2>3. QED  BY <2>1, <2>2 DEF Over
<1>15. CASE SinkDrains \/ SinkPostsEos
  <2>1. UNCHANGED <<quit, pc, thread, played, taken, fault>>
    BY <1>15 DEF SinkDrains, SinkPostsEos, mainVars, samples
  <2>2. QED  BY <2>1, EndKept DEF Over
<1>16. CASE UNCHANGED vars
  BY <1>16, EndKept DEF vars, samples, Over
<1>17. QED
  BY <1>4, <1>5, <1>6, <1>7, <1>8, <1>9, <1>10, <1>11, <1>12, <1>13, <1>14, <1>15,
     <1>16
  DEF Next, Main

(* ImplementsRelay: when the loop ends by the end of the stream, all that the
   callback took has been played, and nothing has failed. *)
THEOREM Implementation == Spec => ImplementsRelay
<1>1. IInv /\ IInv' /\ [Next]_vars => [R!RelayNext]_(R!relayVars)  BY RelaySteps
<1>2. QED  BY <1>1, RelayStarts, Invariance, PTL DEF Spec, ImplementsRelay, R!RelaySpec
=============================================================================
