------------------------------ MODULE MCReader -----------------------------
EXTENDS Recording

(* Blocks.                                                                 *)
Packet == [cells |-> <<1, 0>>, own |-> TRUE, start |-> TRUE, good |-> TRUE,
           hl |-> 2, len |-> 4, pts |-> NoPts, marks |-> {}, end |-> FALSE]
Unit(hl, len)   == [Packet EXCEPT !.hl = hl, !.len = len]
Timed0(hl, len, pts, marks) ==
  [Packet EXCEPT !.hl = hl, !.len = len, !.pts = pts, !.marks = marks]
BadUnit(len)    == [Unit(2, len) EXCEPT !.good = FALSE]
Part(len)       == [Packet EXCEPT !.start = FALSE, !.len = len]
Lost(block)     == [block EXCEPT !.own = FALSE]
AudioPart(len, marks) == [Part(len) EXCEPT !.marks = marks]
Other           == [Packet EXCEPT !.own = FALSE, !.len = 0]
Rubbish(cells)  == [Other EXCEPT !.cells = cells]
PsOther(cells)  == [Other EXCEPT !.cells = cells]
ProgramEnd      == [Other EXCEPT !.cells = <<1>>, !.end = TRUE]
Ps(block, size) == [block EXCEPT !.cells = [c \in 1 .. size |-> IF c = 1 THEN 1 ELSE 0]]

Ts(audio, blocks)      == [ts |-> TRUE, audio |-> audio, blocks |-> blocks]
Program(audio, blocks) == [ts |-> FALSE, audio |-> audio, blocks |-> blocks]

MCFiles == {
  (* units of several packets, between those of another stream; the header *)
  (* in one packet or in two                                               *)
  Ts(FALSE, <<Part(1), Unit(2, 4), Other, Part(1), Unit(3, 2), Part(3), Part(1)>>),
  (* a unit whose header fills the packet, one with a wrong header, and    *)
  (* one that ends before its header does                                  *)
  Ts(FALSE, <<Unit(2, 3), Unit(2, 2), Part(2), BadUnit(1), Part(2), Part(1),
              Unit(3, 1), Unit(2, 3)>>),
  (* rubbish that looks like a packet, or in which marks stand             *)
  Ts(FALSE, <<Unit(2, 3), Rubbish(<<1, 0>>), Part(1), Rubbish(<<0, 1, 0, 0, 0>>),
              Part(1), Unit(2, 4), Part(1)>>),
  Ts(FALSE, <<Unit(2, 3), Rubbish(<<0, 1>>), Part(1), Unit(2, 3), Other,
              Rubbish(<<0, 0, 0, 1>>), Part(1)>>),
  (* units whose beginnings or parts could not be read; a cut at the end   *)
  Ts(FALSE, <<Unit(2, 4), Lost(Unit(2, 3)), Part(2), Unit(3, 1), Part(4),
              Lost(Part(2)), Part(1), Unit(2, 4), Part(2), Other, Rubbish(<<1>>)>>),
  (* sound: frames of two bytes                                            *)
  Ts(TRUE, <<Timed0(2, 6, 0, {3, 5}), AudioPart(3, {1, 3}),
             Timed0(2, 5, 8, {4}), AudioPart(3, {1, 3}), Timed0(2, 4, 14, {4})>>),
  (* and with a packet missing that began a unit, or one inside it, with   *)
  (* the begin of a frame or without                                       *)
  Ts(TRUE, <<Timed0(2, 5, 0, {3, 5}), Lost(AudioPart(4, {2, 4})),
             AudioPart(3, {2}), Timed0(2, 6, 10, {3, 5}), AudioPart(2, {1})>>),
  Ts(TRUE, <<Timed0(2, 4, 0, {3}), Lost(Timed0(2, 4, 2, {3})),
             AudioPart(3, {1, 3}), Other, Timed0(2, 6, 8, {4, 6})>>),
  Ts(TRUE, <<Timed0(2, 5, 0, {3, 5}), Lost(AudioPart(1, {})),
             AudioPart(3, {1, 3}), Timed0(2, 6, 8, {4, 6})>>),
  Program(FALSE, <<Ps(PsOther(<<1>>), 2), Ps(Unit(2, 4), 2), Rubbish(<<0, 0>>),
                   Ps(Unit(1, 1), 1), Ps(Unit(1, 4), 3), Ps(Other, 2),
                   Ps(Unit(2, 4), 2), ProgramEnd, Ps(Unit(1, 2), 1), Ps(Unit(1, 2), 1)>>),
  Program(TRUE, <<Ps(Timed0(1, 5, 0, {2, 4}), 1), Ps(Timed0(1, 4, 4, {2, 4}), 2),
                  Ps(Timed0(1, 5, 8, {3, 5}), 1), Ps(Other, 3)>>)
}

MCTimes == 0 .. 16
=============================================================================
