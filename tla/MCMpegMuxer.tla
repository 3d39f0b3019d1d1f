---------------------------- MODULE MCMpegMuxer ----------------------------
(* A video stream and an audio stream for the model checker.               *)
EXTENDS MpegMuxer

TwoStreams == {0, 1}
Buffers    == (0 :> 11) @@ (1 :> 7)
AuSizes    == (0 :> {2, 7}) @@ (1 :> {3})
(* Sound of 3 bytes in a pack of 5: a unit behind others begins in it only *)
(* if it fits, or if there is room for a whole one.                        *)
Whole      == (0 :> 0) @@ (1 :> 3)
AuInterval == (0 :> 4) @@ (1 :> 6)
=============================================================================
