----------------------------- MODULE Recording ------------------------------
(***************************************************************************)
(* A recording of either format, read and used, and what the users rely    *)
(* on.                                                                     *)
(***************************************************************************)
EXTENDS TsFile, PsFile

CONSTANT Times      (* times at which a range may start                    *)

(* What a recording is taken to be: packets of the size that the format    *)
(* prescribes, each with a mark at its begin; the header of a unit is as   *)
(* long as the code reads it at least; units of sound have times.          *)
BlockTypes == [cells: Seq({0, 1}), own: BOOLEAN, start: BOOLEAN, good: BOOLEAN,
               hl: Nat, len: Nat, pts: Nat \cup {NoPts}, marks: SUBSET Nat, end: BOOLEAN]

PacketOK(f, b) ==
  /\ b.len > 0 /\ b.cells # << >> /\ b.cells[1] = 1
  /\ f.ts => Len(b.cells) = PacketSize /\ (b.start /\ b.good => b.hl >= MinHeader)
  /\ ~f.ts => b.start /\ b.good /\ b.hl > 0
  /\ f.audio /\ b.start /\ b.good => b.pts # NoPts

OwnBegins(blocks, cells, n) == blocks[cells[n + 1].block].own /\ cells[n + 1].nr = 1

(* The places at which the reader of a transport stream may look: the      *)
(* begins of its packets, behind what looks like a packet, and where a     *)
(* search ends.  It searches where there is no mark, and goes on where it  *)
(* found nothing.                                                          *)
SearchEnds(cells, n) ==
  Min({Search} \cup {k \in 0 .. Search - 1 : MarksFollow(cells, n, n + k)})

MaySearch(cells, places, n) ==
  /\ n + Window <= Len(cells)
  /\ \/ ~cells[n + 1].sync
     \/ n - Search \in places /\ SearchEnds(cells, n - Search) = Search

LooksLikePacket(cells, n) == n + PacketSize <= Len(cells) /\ cells[n + 1].sync

Behind(cells, places, n) ==
  \E m \in places : \/ LooksLikePacket(cells, m) /\ n = m + PacketSize
                    \/ MaySearch(cells, places, m) /\ n = m + SearchEnds(cells, m)

Looked(blocks, cells) ==
  LET upto[n \in 0 .. Len(cells)] ==
        IF n = 0 THEN {0}
        ELSE LET places == upto[n - 1]
             IN  IF \/ n < Len(cells) /\ OwnBegins(blocks, cells, n)
                    \/ Behind(cells, places, n)
                   THEN places \cup {n} ELSE places
  IN  upto[Len(cells)]

(* Rubbish can be told from packets: what looks like one reaches into no   *)
(* packet of the stream, and no search goes past one, but for the last.    *)
NoneBegins(blocks, cells, n, end) ==
  \A m \in n .. end - 1 : ~OwnBegins(blocks, cells, m)

MayPass(blocks, cells, n, end) ==
  NoneBegins(blocks, cells, n, end) \/ NoneBegins(blocks, cells, end, Len(cells))

Recognised(blocks, cells) ==
  \A n \in Looked(blocks, cells) : n < Len(cells) =>
    /\ LooksLikePacket(cells, n) /\ ~OwnBegins(blocks, cells, n) =>
         MayPass(blocks, cells, n, n + PacketSize)
    /\ MaySearch(cells, Looked(blocks, cells), n) =>
         MayPass(blocks, cells, n, n + SearchEnds(cells, n))

(* Frames of sound are counted over the whole recording, lost packets      *)
(* included; what is not of the stream has no bytes of it (len is 0).      *)
Marks(blocks) == UNION {{b} \X blocks[b].marks : b \in DOMAIN blocks}
Precedes(a, b) == a[1] < b[1] \/ (a[1] = b[1] /\ a[2] < b[2])
FrameNr(blocks, byte) == Cardinality({mark \in Marks(blocks) : Precedes(mark, byte)})

(* No packet is missing, and none belongs to a unit with a wrong header.   *)
Whole(blocks, first, end) ==
  \A b \in first .. end :
    blocks[b].len # 0 => b \in Own(blocks) /\ blocks[UnitOf(blocks, b)].good

(* The time of a unit is that of the first frame that begins in it, or     *)
(* behind it; no frame begins in a header, and each where the one in front *)
(* of it ends.                                                             *)
NextMark(stream, i, j) ==
  i < j /\ stream[i][3] /\ stream[j][3] /\ \A k \in i + 1 .. j - 1 : ~stream[k][3]

SoundOK(blocks, stream) ==
  /\ \A b \in DOMAIN blocks : blocks[b].marks \subseteq 1 .. blocks[b].len
  /\ \A b \in Own(blocks) :
       /\ blocks[b].start /\ blocks[b].good =>
            blocks[b].pts = FrameNr(blocks, <<b, 1>>) * FrameTime
       /\ \A m \in blocks[b].marks : UnitOf(blocks, b) # None =>
            blocks[UnitOf(blocks, b)].hl < Before(blocks, b) + m
  /\ \A i, j \in DOMAIN stream :
       NextMark(stream, i, j) /\ Whole(blocks, stream[i][1], stream[j][1]) =>
         j = i + FrameLen

FileOK(f) ==
  /\ f.ts \in BOOLEAN /\ f.audio \in BOOLEAN /\ f.blocks \in Seq(BlockTypes)
  /\ \A b \in Own(f.blocks) : PacketOK(f, f.blocks[b])
  /\ f.ts => Recognised(f.blocks, Cells(f.blocks))
  /\ f.audio => SoundOK(f.blocks, Stream(f.blocks))

ASSUME RecordingAssumption ==
  /\ MinHeader \in Nat \ {0} /\ Times \subseteq Nat
  /\ \A f \in Files : FileOK(f)

StreamReader ==
  \/ file.ts /\ TsStreamReader
  \/ ~file.ts /\ PsStreamReader

Next ==
  \/ Call \/ StreamReader
  \/ Discards \/ Note \/ Seek \/ FindNoted
  \/ AddPts \/ PopOther \/ TakeFrame \/ PopToTimed
  \/ \E t \in Times : AudioStart(t)

(* The calls are functions that run to their end.                          *)
Spec == Init /\ [][Next]_vars /\ WF_vars(StreamReader)

-----------------------------------------------------------------------------
(* The types; the items lie in the buffer, one behind the other.           *)
TypeOK ==
  /\ filepos \in Nat /\ got \in Nat /\ lostsync \in BOOLEAN
  /\ pc \in {"idle", "reading"} /\ ret \in Nat \cup {None}
  /\ last \in 0 .. Len(file.stream)
  /\ sd.offset \in 0 .. Half + Len(file.stream)
  /\ \A i \in DOMAIN sd.items :
       /\ sd.items[i].bp \in sd.offset .. EndPos(sd) - 1
       /\ \A j \in 1 .. i - 1 : sd.items[j].bp < sd.items[i].bp

(* Readers and buffer implement ElementaryStream: whatever packets are     *)
(* lost, damaged or buried in rubbish, and however the bytes are taken,    *)
(* nothing comes twice or in another order, and bytes that could be read   *)
(* are left out only where the buffer was empty (streamdata.h, tsfile.cpp, *)
(* psfile.cpp).                                                            *)
ES == INSTANCE ElementaryStream WITH
        stream <- file.stream, units <- file.units, queue <- sd.data
Delivered == ES!Spec

(* A position that was noted when the index was made leads, read with      *)
(* another handle from there or from further in front, to the same byte    *)
(* (mpgIndex.cpp:241, mpgfile.cpp:505).                                    *)
SeekFinds == [][FindNoted => sd'.data[1] = want.byte]_vars

(* A frame, and a packet with what begins in it, never has a time later    *)
(* than its own, and has its own if no packet is missing between the begin *)
(* of its unit and itself (streamdata.cpp:144, audio_addpts()).            *)
InTimeAt(it, byte) ==
  /\ it.pts <= FrameNr(file.blocks, byte) * FrameTime
  /\ Whole(file.blocks, Cell(it.file).block, byte[1]) =>
       it.pts = FrameNr(file.blocks, byte) * FrameTime

FramesTimed ==
  file.audio => \A it \in Range(sd.items) : InTimeAt(it, ByteAt(sd, it.bp))

(* The sound of a range starts with the packet or frame that is closest to *)
(* the wanted time of all that were read, and there is one if any had a    *)
(* time (mpgfile.cpp:468-478, which reads front()).                        *)
Distance(it, t) == IF it.pts > t THEN it.pts - t ELSE t - it.pts
StartsNearest ==
  [][\A t \in Times : AudioStart(t) =>
       \A it \in Range(AudioAddPts(sd).items) :
         /\ sd'.items # << >>
         /\ Distance(sd'.items[1], t) <= Distance(it, t)]_vars

(* Every call of streamreader() returns: also in rubbish it gets on.       *)
Returns == pc = "reading" ~> pc = "idle"

(* As all its callers take it (mpgfile.cpp:320: "data does not reach the   *)
(* point in time from which we like to start playing"; mpgIndex.cpp:154,   *)
(* mpgfile.cpp:527): 0 means that the recording has ended.                 *)
ZeroMeansEnd ==
  file.ts /\ ret = 0 /\ pc = "idle" => Left < Window \/ filepos = 0
=============================================================================
