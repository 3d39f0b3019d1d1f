---------------------------- MODULE MCInBuffer -----------------------------
(* Small instances of InBuffer for TLC.                                    *)
EXTENDS InBuffer

MCPositions == {-1, 0, 1, 3, 5, 6, 8, 11}
MCAmounts   == {0, 1, 4, 7}
=============================================================================
