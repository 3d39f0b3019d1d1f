---------------------------- MODULE MCEventList ----------------------------
(* Small instances of EventList for TLC.                                   *)
EXTENDS EventList

EmptyProject == {<< >>}

(* A project whose marks were saved by the program, for a longer file.     *)
SavedProject ==
  {<< >>, <<[pic |-> 1, type |-> "start"], [pic |-> 3, type |-> "chapter"],
            [pic |-> 9, type |-> "stop"]>>}

TwoBookmarks == <<1, 3>>

(* 16:9, 4:3, 16:9; and 4:3, 16:9, 1:1, 4:3.                               *)
AspectInner == [i \in Pics |-> IF i \in 2 .. 3 THEN 2 ELSE 3]
AspectOuter == [i \in Pics |-> IF i = 2 THEN 3 ELSE IF i = 3 THEN 1 ELSE 2]

BofEof == [start_bof |-> TRUE, stop_eof |-> TRUE]
Eof    == [start_bof |-> FALSE, stop_eof |-> TRUE]
DefaultOptions == {BofEof}
Neither == [start_bof |-> FALSE, stop_eof |-> FALSE]
MostOptions    == {BofEof, Eof, Neither}
=============================================================================
