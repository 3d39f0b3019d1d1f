---------------------------- MODULE MCSession ----------------------------
(* Sessions of a few recordings for the model checker.                     *)
EXTENDS Session
=============================================================================
