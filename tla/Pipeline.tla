------------------------------ MODULE Pipeline ------------------------------
(***************************************************************************)
(* main.c at run time: the main thread, which starts the two pipelines,    *)
(* runs the main loop with a watch on either bus, and stops them; the      *)
(* source's streaming thread, which runs on_new_sample_from_sink and posts *)
(* on the source's bus; and the sink pipeline's, which plays what is       *)
(* queued in appsrc.  What process_buffer makes of a sample is module      *)
(* ProcessBuffer.                                                          *)
(*                                                                         *)
(* Queues are FIFO, so counts say which samples are in them.  appsrc never *)
(* blocks ("block" is left FALSE).                                         *)
(***************************************************************************)
EXTENDS Naturals, Sequences

CONSTANT MaxSamples   \* bound on the samples of the source

ASSUME PipelineAssumption == MaxSamples \in Nat

VARIABLES
  pc,       \* the statement of main() under way
  turn,     \* buses that this iteration of the main loop has yet to dispatch
  quit,     \* why g_main_loop_quit was called first: "no", "eos", "error"
  srcBus,   \* messages on the source's bus, and on the sink's
  sinkBus,
  thread,   \* the source's streaming thread
  appsrc,   \* "unstarted", "open", or "eos" after gst_app_src_end_of_stream
  sink,     \* the sink's streaming thread
  taken,    \* samples that on_new_sample_from_sink was called for,
  pushed,   \*   that it pushed into appsrc,
  played,   \*   and that the sink pipeline has played
  fault     \* ghost: something has failed

vars == <<pc, turn, quit, srcBus, sinkBus, thread, appsrc, sink, taken, pushed,
          played, fault>>

mainVars == <<pc, turn, quit>>
samples == <<taken, pushed, played>>

(* A bus carries at most an error and the end of the stream behind it. *)
BusContents == {<<>>, <<"EOS">>, <<"ERROR">>, <<"ERROR", "EOS">>}

(* The process is gone: main() has returned, or the callback called exit. *)
Ended == pc \in {"returned", "exited"}
Running == ~Ended

TypeOK ==
  /\ pc \in {"startSink", "startSource", "loop", "stopSource", "stopSink",
             "free", "returned", "exited"}
  /\ turn \subseteq {"source", "sink"}
  /\ quit \in {"no", "eos", "error"}
  /\ srcBus \in BusContents /\ sinkBus \in BusContents
  /\ thread \in {"off", "waits", "callback", "ending", "over"}
  /\ appsrc \in {"unstarted", "open", "eos"}
  /\ sink \in {"off", "plays", "ending", "over"}
  /\ taken \in 0..MaxSamples /\ pushed \in 0..taken /\ played \in 0..pushed
  /\ fault \in BOOLEAN

Init ==
  /\ pc = "startSink" /\ turn = {} /\ quit = "no"
  /\ srcBus = <<>> /\ sinkBus = <<>>
  /\ thread = "off" /\ appsrc = "unstarted" /\ sink = "off"
  /\ taken = 0 /\ pushed = 0 /\ played = 0
  /\ fault = FALSE

-----------------------------------------------------------------------------
(* The main thread.  gst_element_set_state may fail; its result is ignored,
   and the bus says so. *)
StartSink ==
  /\ pc = "startSink" /\ pc' = "startSource"
  /\ \/ /\ appsrc' = "open" /\ sink' = "plays"
        /\ UNCHANGED <<sinkBus, fault>>
     \/ /\ sinkBus' = <<"ERROR">> /\ fault' = TRUE
        /\ UNCHANGED <<appsrc, sink>>
  /\ UNCHANGED <<turn, quit, srcBus, thread, samples>>

StartSource ==
  /\ pc = "startSource" /\ pc' = "loop"
  /\ \/ /\ thread' = "waits"
        /\ UNCHANGED <<srcBus, fault>>
     \/ /\ srcBus' = <<"ERROR">> /\ fault' = TRUE
        /\ UNCHANGED thread
  /\ UNCHANGED <<turn, quit, sinkBus, appsrc, sink, samples>>

(* One iteration of the main loop dispatches one message of each bus that
   has one; g_main_loop_quit takes effect at its end. *)
Iterate ==
  /\ pc = "loop" /\ quit = "no" /\ turn = {}
  /\ turn' = {b \in {"source", "sink"} :
                 IF b = "source" THEN srcBus # <<>> ELSE sinkBus # <<>>}
  /\ turn' # {}
  /\ UNCHANGED <<pc, quit, srcBus, sinkBus, thread, appsrc, sink, samples, fault>>

Quit(why) == quit' = IF quit = "no" THEN why ELSE quit

(* on_source_message: the end of the source is passed on to appsrc, which
   ends the sink pipeline when its queue is empty; an error ends the loop. *)
DispatchSource_EosQuits ==
  /\ pc = "loop" /\ "source" \in turn
  /\ turn' = turn \ {"source"}
  /\ srcBus' = Tail(srcBus)
  /\ IF Head(srcBus) = "EOS"
     THEN appsrc' = (IF appsrc = "open" THEN "eos" ELSE appsrc) /\ Quit("eos")
     ELSE Quit("error") /\ UNCHANGED appsrc
  /\ UNCHANGED <<pc, sinkBus, thread, sink, samples, fault>>
DispatchSource_EosIgnored ==
  /\ pc = "loop" /\ "source" \in turn
  /\ turn' = turn \ {"source"}
  /\ srcBus' = Tail(srcBus)
  /\ IF Head(srcBus) = "EOS"
     THEN UNCHANGED <<appsrc, quit>>
     ELSE Quit("error") /\ UNCHANGED appsrc
  /\ UNCHANGED <<pc, sinkBus, thread, sink, samples, fault>>
DispatchSource ==
  /\ pc = "loop" /\ "source" \in turn
  /\ turn' = turn \ {"source"}
  /\ srcBus' = Tail(srcBus)
  /\ IF Head(srcBus) = "EOS"
     THEN appsrc' = (IF appsrc = "open" THEN "eos" ELSE appsrc) /\ UNCHANGED quit
     ELSE Quit("error") /\ UNCHANGED appsrc
  /\ UNCHANGED <<pc, sinkBus, thread, sink, samples, fault>>

(* on_sink_message: either message ends the loop. *)
DispatchSink ==
  /\ pc = "loop" /\ "sink" \in turn
  /\ turn' = turn \ {"sink"}
  /\ sinkBus' = Tail(sinkBus)
  /\ Quit(IF Head(sinkBus) = "EOS" THEN "eos" ELSE "error")
  /\ UNCHANGED <<pc, srcBus, thread, appsrc, sink, samples, fault>>

LeaveLoop ==
  /\ pc = "loop" /\ quit # "no" /\ turn = {}
  /\ pc' = "stopSource"
  /\ UNCHANGED <<turn, quit, srcBus, sinkBus, thread, appsrc, sink, samples, fault>>

(* To set a pipeline to NULL is to wait for its streaming thread to leave the
   callback it is in; the bus is flushed. *)
StopSource_NoJoin ==
  /\ pc = "stopSource" /\ pc' = "stopSink"
  /\ thread' = (IF thread = "callback" THEN thread ELSE "over")
  /\ srcBus' = <<>>
  /\ UNCHANGED <<turn, quit, sinkBus, appsrc, sink, samples, fault>>
StopSource ==
  /\ pc = "stopSource" /\ pc' = "stopSink"
  /\ thread # "callback" /\ thread' = "over"
  /\ srcBus' = <<>>
  /\ UNCHANGED <<turn, quit, sinkBus, appsrc, sink, samples, fault>>

StopSink ==
  /\ pc = "stopSink" /\ pc' = "free"
  /\ sink' = "over"
  /\ sinkBus' = <<>>
  /\ UNCHANGED <<turn, quit, srcBus, thread, appsrc, samples, fault>>

(* Both pipelines, the loop and data itself. *)
Free ==
  /\ pc = "free" /\ pc' = "returned"
  /\ UNCHANGED <<turn, quit, srcBus, sinkBus, thread, appsrc, sink, samples, fault>>

-----------------------------------------------------------------------------
(* The source's streaming thread.  A pipeline that is being stopped hands
   over no more buffers. *)
TakeSample ==
  /\ Running /\ pc # "stopSource"
  /\ thread = "waits" /\ taken < MaxSamples
  /\ thread' = "callback"
  /\ taken' = taken + 1
  /\ UNCHANGED <<mainVars, srcBus, sinkBus, appsrc, sink, pushed, played, fault>>

(* The processed buffer is queued.  An appsrc that was never started, or has
   ended, refuses it, and the source pauses without a word. *)
PushSample_Twice ==
  /\ Running /\ thread = "callback"
  /\ IF appsrc = "open"
     THEN pushed' = pushed + 2 /\ thread' = "waits"
     ELSE thread' = "over" /\ UNCHANGED pushed
  /\ UNCHANGED <<mainVars, srcBus, sinkBus, appsrc, sink, taken, played, fault>>
PushSample ==
  /\ Running /\ thread = "callback"
  /\ IF appsrc = "open"
     THEN pushed' = pushed + 1 /\ thread' = "waits"
     ELSE thread' = "over" /\ UNCHANGED pushed
  /\ UNCHANGED <<mainVars, srcBus, sinkBus, appsrc, sink, taken, played, fault>>

(* process_buffer returns NULL, hence GST_FLOW_ERROR; or the source itself
   fails.  Upstream posts the error, and ends the stream after it. *)
SourceFails ==
  /\ Running /\ thread \in {"callback", "waits"}
  /\ srcBus' = Append(srcBus, "ERROR") /\ fault' = TRUE
  /\ thread' = "ending"
  /\ UNCHANGED <<mainVars, sinkBus, appsrc, sink, samples>>

(* push_pmt_packet calls exit(-1). *)
CallbackExits ==
  /\ Running /\ thread = "callback"
  /\ pc' = "exited" /\ fault' = TRUE
  /\ UNCHANGED <<turn, quit, srcBus, sinkBus, thread, appsrc, sink, samples>>

SourceEnds ==
  /\ Running /\ thread = "waits"
  /\ thread' = "ending"
  /\ UNCHANGED <<mainVars, srcBus, sinkBus, appsrc, sink, samples, fault>>

SourcePostsEos ==
  /\ Running /\ thread = "ending"
  /\ srcBus' = Append(srcBus, "EOS")
  /\ thread' = "over"
  /\ UNCHANGED <<mainVars, sinkBus, appsrc, sink, samples, fault>>

-----------------------------------------------------------------------------
(* The sink's streaming thread. *)
Play ==
  /\ Running /\ sink = "plays" /\ played < pushed
  /\ played' = played + 1
  /\ UNCHANGED <<mainVars, srcBus, sinkBus, thread, appsrc, sink, taken, pushed, fault>>

(* The end of the stream is queued behind the last sample. *)
SinkDrains ==
  /\ Running /\ sink = "plays" /\ appsrc = "eos" /\ played = pushed
  /\ sink' = "ending"
  /\ UNCHANGED <<mainVars, srcBus, sinkBus, thread, appsrc, samples, fault>>

SinkFails ==
  /\ Running /\ sink = "plays"
  /\ sinkBus' = Append(sinkBus, "ERROR") /\ fault' = TRUE
  /\ sink' = "ending"
  /\ UNCHANGED <<mainVars, srcBus, thread, appsrc, samples>>

SinkPostsEos ==
  /\ Running /\ sink = "ending"
  /\ sinkBus' = Append(sinkBus, "EOS")
  /\ sink' = "over"
  /\ UNCHANGED <<mainVars, srcBus, thread, appsrc, samples, fault>>

-----------------------------------------------------------------------------
Main ==
  StartSink \/ StartSource \/ Iterate \/ DispatchSource \/ DispatchSink
    \/ LeaveLoop \/ StopSource \/ StopSink \/ Free

CallbackReturns == PushSample \/ CallbackExits \/ (thread = "callback" /\ SourceFails)

SinkGoesOn == Play \/ SinkDrains \/ SinkPostsEos

Next ==
  \/ Main
  \/ TakeSample \/ PushSample \/ SourceFails \/ CallbackExits
  \/ SourceEnds \/ SourcePostsEos
  \/ Play \/ SinkDrains \/ SinkFails \/ SinkPostsEos

(* No thread stops in the middle of what it does; the source may bring
   nothing for ever, and need not fail. *)
Spec ==
  /\ Init /\ [][Next]_vars
  /\ WF_vars(Main) /\ WF_vars(CallbackReturns)
  /\ WF_vars(SourcePostsEos) /\ WF_vars(SinkGoesOn)

-----------------------------------------------------------------------------
(* The callback finds data and data->sink alive, and an appsrc that has not
   been ended, for every order in which the two threads run: the source is
   stopped before anything is freed, and ends only behind its last sample
   (main.c:156-164,185,377-383). *)
CallbackHasSink ==
  thread = "callback" =>
    appsrc # "eos" /\ pc \in {"loop", "stopSource", "exited"}

(* "Finished playback" is true: the loop ends by the sink's end of stream
   only when the source is over and every sample the callback ever took has
   been played, with no error before (main.c:174-219). *)
R == INSTANCE Relay WITH
       delivered <- played,
       over <- thread \in {"ending", "over"},
       end <- IF pc = "exited" /\ quit = "no" THEN "aborted"
              ELSE [no |-> "open", eos |-> "complete", error |-> "aborted"][quit]
ImplementsRelay == R!RelaySpec

(* main.c:371: "this loop will quit when the sink pipeline goes EOS or when
   an error occurs in the source or sink pipelines": and the program ends,
   also when the source just stops. *)
EndsOnceOver == fault \/ thread = "over" \/ sink = "over" ~> Ended
=============================================================================
