------------------------------- MODULE PsFile -------------------------------
(***************************************************************************)
(* psfile::streamreader(): packets of any size, which are found by their   *)
(* start codes.  It goes on until it has one of the stream.                *)
(***************************************************************************)
EXTENDS Reader

CONSTANT MinBytes     (* cells that are needed to look at a packet: 14     *)

ASSUME PsFileAssumption == MinBytes \in Nat \ {0}

Size == Len(Block.cells)
AtStart == Cell(filepos).sync /\ Cell(filepos).nr = 1

(* The file ends, or the program does; nothing moves.                      *)
PsAtEnd ==
  /\ pc = "reading"
  /\ \/ Left < MinBytes
     \/ Left >= MinBytes /\ AtStart /\ (Block.end \/ (Block.own /\ Left < Size))
  /\ Return(0) /\ UNCHANGED filepos /\ Unread

PsMoved(n) == filepos' = filepos + n

PsRubbish ==
  /\ pc = "reading" /\ Left >= MinBytes /\ ~AtStart
  /\ PsMoved(1) /\ GoOn /\ UNCHANGED local /\ Unread

AtWhole ==
  /\ pc = "reading" /\ Left >= MinBytes /\ AtStart /\ ~Block.end
  /\ Block.own => Left >= Size
  /\ PsMoved(Size)

PsSkip ==
  /\ AtWhole /\ ~(Block.own /\ Block.len > Block.hl)
  /\ GoOn /\ UNCHANGED local /\ Unread

PsPacket ==
  /\ AtWhole /\ Block.own /\ Block.len > Block.hl
  /\ LET data == SubSeq(Payload, Block.hl + 1, Block.len)
     IN  /\ Read(AppendItem(sd, filepos, Block.pts, data))
         /\ Return(Len(data))

PsStreamReader == PsAtEnd \/ PsRubbish \/ PsSkip \/ PsPacket
=============================================================================
