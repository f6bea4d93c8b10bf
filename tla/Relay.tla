------------------------------- MODULE Relay -------------------------------
(***************************************************************************)
(* What main.c promises: samples go from one pipeline to another in order, *)
(* and the program says that it finished playback only when the source is  *)
(* over, every sample that was ever taken from it has been played, and     *)
(* nothing has failed.                                                     *)
(***************************************************************************)
EXTENDS Naturals

VARIABLES
  taken,      \* samples taken from the source pipeline
  delivered,  \* samples played by the sink pipeline
  over,       \* the source hands over no more
  fault,      \* something has failed
  end         \* "open"; or how the program ended, "complete" or "aborted"

relayVars == <<taken, delivered, over, fault, end>>

RelayInit ==
  /\ taken = 0 /\ delivered = 0
  /\ over = FALSE /\ fault = FALSE
  /\ end = "open"

Hand ==
  /\ ~over /\ end # "complete"
  /\ taken' = taken + 1
  /\ UNCHANGED <<delivered, over, fault, end>>

Deliver ==
  /\ delivered < taken /\ end # "complete"
  /\ delivered' = delivered + 1
  /\ UNCHANGED <<taken, over, fault, end>>

SourceOver ==
  /\ ~over
  /\ over' = TRUE
  /\ UNCHANGED <<taken, delivered, fault, end>>

(* A failure may take the source, or the whole program, with it. *)
Fail ==
  /\ end # "complete"
  /\ fault' = TRUE
  /\ over' \in {over, TRUE}
  /\ end' \in {end, "aborted"}
  /\ UNCHANGED <<taken, delivered>>

Complete ==
  /\ end = "open"
  /\ over /\ delivered = taken /\ ~fault
  /\ end' = "complete"
  /\ UNCHANGED <<taken, delivered, over, fault>>

Abort ==
  /\ end = "open" /\ fault
  /\ end' = "aborted"
  /\ UNCHANGED <<taken, delivered, over, fault>>

RelayNext == Hand \/ Deliver \/ SourceOver \/ Fail \/ Complete \/ Abort

RelaySpec == RelayInit /\ [][RelayNext]_relayVars
=============================================================================
