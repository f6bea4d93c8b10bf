----------------------------- MODULE MCTables ------------------------------
(* Instance of Tables for TLC: strings around the lengths at which the AIT
   outgrows its packet, one alone or all three, and around the eight bits of
   a descriptor's length; and two centuries of days. *)
EXTENDS Tables

MCTexts == {0, 1, 2, 42, 43, 44, 45, 64, 65, 66, 67, 130, 131, 132, 250,
            251, 256}
MCDatedText == [f \in {"url", "name", "path"} |-> 1]
=============================================================================
