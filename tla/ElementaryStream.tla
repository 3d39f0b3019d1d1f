-------------------------- MODULE ElementaryStream --------------------------
(***************************************************************************)
(* What streamreader() and streamdata promise together: the bytes of an    *)
(* elementary stream come in their order and each once.  They may be left  *)
(* out only where nothing is waiting to be taken, and then it goes on with *)
(* the begin of a unit (a packet of the elementary stream).                *)
(***************************************************************************)
EXTENDS Naturals, Sequences

VARIABLES
  stream,   (* the bytes of the recording                                  *)
  units,    (* the places in it where a unit begins                        *)
  queue,    (* what was read and not yet taken                             *)
  last      (* the place of the byte that was read last                    *)

vars == <<stream, units, queue, last>>

Init == queue = << >> /\ last = 0 /\ units \subseteq DOMAIN stream

Deliver ==
  /\ \E first \in {last + 1} \cup {u \in units : queue = << >> /\ u > last} :
       \E end \in first .. Len(stream) :
         /\ queue' = queue \o SubSeq(stream, first, end)
         /\ last' = end
  /\ UNCHANGED <<stream, units>>

Take ==
  /\ \E k \in 1 .. Len(queue) : queue' = SubSeq(queue, k + 1, Len(queue))
  /\ UNCHANGED <<stream, units, last>>

Seek ==
  /\ \E u \in units : last' = u - 1
  /\ queue' = << >>
  /\ UNCHANGED <<stream, units>>

Next == Deliver \/ Take \/ Seek

Spec == Init /\ [][Next]_vars
=============================================================================
