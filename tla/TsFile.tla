------------------------------- MODULE TsFile -------------------------------
(***************************************************************************)
(* tsfile::streamreader(): packets of equal size, each with a mark at its  *)
(* begin.  It goes on until a unit has begun.  If a mark is missing it     *)
(* looks for a place from where on marks follow each other.                *)
(***************************************************************************)
EXTENDS Reader

CONSTANTS
  PacketSize, (* cells of a packet: 188                                    *)
  Search,     (* places that are tried: 2048                               *)
  Window      (* cells within which all marks must be there: 4096          *)

ASSUME TsFileAssumption ==
  /\ PacketSize \in Nat \ {0} /\ Search \in PacketSize .. Window /\ Window \in Nat

InSync(n) == Cell(n).sync

(* The marks from n on that are looked at in a search from `from' on.      *)
MarksFollow(cells, from, n) ==
  \A k \in 0 .. Window : k * PacketSize < Window - (n - from) =>
    cells[n + k * PacketSize + 1].sync

(* Mutated form: one mark is enough.                                       *)
FoundAtOnce(n) == InSync(n)
Found(n) == MarksFollow(file.cells, filepos, n)

(* How far a search gets.  Mutated form: nowhere, if nothing was found.    *)
SearchedIfFound(ts) == IF ts = Search THEN 0 ELSE ts
Searched(ts) == ts

TsAtEnd ==
  /\ pc = "reading" /\ Left < PacketSize
  /\ Return(got) /\ UNCHANGED filepos /\ Unread

TsSearch ==
  /\ pc = "reading" /\ Left >= PacketSize /\ (lostsync \/ ~InSync(filepos))
  /\ IF Left < Window
       THEN Return(got) /\ UNCHANGED filepos
       ELSE LET ts == Min({Search} \cup {k \in 0 .. Search - 1 : Found(filepos + k)})
            IN  /\ filepos' = filepos + Searched(ts)
                /\ lostsync' = (ts = Search)
                /\ GoOn /\ UNCHANGED got
  /\ Unread

-----------------------------------------------------------------------------
(* A packet.                                                               *)
AtPacket ==
  /\ pc = "reading" /\ Left >= PacketSize /\ ~lostsync /\ InSync(filepos)
  /\ filepos' = filepos + PacketSize

(* Errors, no payload, other streams.                                      *)
TsSkip ==
  /\ AtPacket /\ ~(Block.own /\ Cell(filepos).nr = 1)
  /\ GoOn /\ UNCHANGED local /\ Unread

OwnPacket == AtPacket /\ Block.own /\ Cell(filepos).nr = 1

(* What there is of the header of the unit with this packet.               *)
Header ==
  IF Block.start THEN Payload
  ELSE IF sd.header # << >> THEN sd.header \o Payload ELSE << >>

Collected ==
  [sd EXCEPT !.header = Header, !.nextfilepos = IF Block.start THEN filepos ELSE @]

UnitBlock == file.blocks[Header[1][1]]

AppendToItem(s, bytes) == IF s.items = << >> THEN s ELSE AppendBytes(s, bytes)

TsContinue ==
  /\ OwnPacket /\ Header = << >>
  /\ Read(AppendToItem(sd, Payload))
  /\ got' = got + (IF sd.items = << >> THEN 0 ELSE Len(Payload))
  /\ GoOn /\ UNCHANGED lostsync

TsCollect ==
  /\ OwnPacket /\ Header # << >>
  /\ Len(Header) < MinHeader \/ (UnitBlock.good /\ Len(Header) < UnitBlock.hl)
  /\ Read(Collected)
  /\ GoOn /\ UNCHANGED local

TsBadHeader ==
  /\ OwnPacket /\ Len(Header) >= MinHeader /\ ~UnitBlock.good
  /\ Read([Collected EXCEPT !.header = << >>])
  /\ GoOn /\ UNCHANGED local

TsUnit ==
  /\ OwnPacket /\ Len(Header) >= MinHeader /\ UnitBlock.good
  /\ Len(Header) >= UnitBlock.hl
  /\ LET data == SubSeq(Header, UnitBlock.hl + 1, Len(Header))
     IN  /\ Read(AppendItem([Collected EXCEPT !.header = << >>],
                            Collected.nextfilepos, UnitBlock.pts, data))
         /\ Return(got + Len(data))

TsStreamReader ==
  TsAtEnd \/ TsSearch \/ TsSkip \/ TsContinue \/ TsCollect \/ TsBadHeader \/ TsUnit
=============================================================================
