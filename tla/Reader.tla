------------------------------- MODULE Reader -------------------------------
(***************************************************************************)
(* One elementary stream of a recording, from the file to those who use    *)
(* it: streamreader() is called when more is needed (modules TsFile and    *)
(* PsFile), and between its calls the bytes are taken, as the index        *)
(* generator, the export and the player do it.                             *)
(*                                                                         *)
(* A recording is a sequence of blocks: packets, and rubbish between them. *)
(* Its bytes are cells, of which one can see whether they look like the    *)
(* begin of a packet.  What a packet carries is counted in bytes of its    *)
(* own: `len' of them, the first `hl' of which are the header of the unit  *)
(* (the PES header), if a unit starts with it.                             *)
(***************************************************************************)
EXTENDS StreamData

CONSTANTS
  Files,      (* the recordings: blocks, and whether the stream is audio   *)
  MinHeader   (* bytes of a unit header before its length is known         *)

VARIABLES
  file,       (* the recording, its cells, and the stream it carries       *)
  filepos,    (* streamhandle::fileposition                                *)
  sd,         (* the stream                                                *)
  pc,         (* "idle", "reading": inside streamreader()                  *)
  got,        (* the bytes appended in this call                           *)
  lostsync,
  ret,        (* what the last call returned, None before it               *)
  last,       (* history: the place in the stream of the byte read last    *)
  want        (* a position somebody has noted, with its byte              *)

local == <<got, lostsync>>
vars  == <<file, filepos, sd, pc, local, ret, last, want>>

None == -1

-----------------------------------------------------------------------------
(* The recording.                                                          *)
Cells(blocks) ==
  FlattenSeq([b \in DOMAIN blocks |->
    [c \in DOMAIN blocks[b].cells |->
       [block |-> b, nr |-> c, sync |-> blocks[b].cells[c] = 1]]])

Left    == Len(file.cells) - filepos
Cell(n) == file.cells[n + 1]
Block   == file.blocks[Cell(filepos).block]

BlockPayload(blocks, b) ==
  [u \in 1 .. blocks[b].len |-> <<b, u, u \in blocks[b].marks>>]
Payload == BlockPayload(file.blocks, Cell(filepos).block)

(* What the user of the stream is to get, from the blocks of the stream    *)
(* that can be read: of each unit, what follows its header.  A unit whose  *)
(* header is wrong loses the packets that were collected for it.           *)
Own(blocks)       == {b \in DOMAIN blocks : blocks[b].own}
UnitOf(blocks, b) == Max({None} \cup {s \in Own(blocks) : s <= b /\ blocks[s].start})
Before(blocks, b) ==
  Total[[c \in 1 .. b - 1 |-> IF c \in Own(blocks) /\ UnitOf(blocks, c) = UnitOf(blocks, b)
                                THEN blocks[c].len ELSE 0]]

Carries(blocks, b) ==
  LET payload == BlockPayload(blocks, b)
      unit    == UnitOf(blocks, b)
      before  == Before(blocks, b)
  IN  CASE b \notin Own(blocks) \/ unit = None -> << >>
        [] OTHER ->
             IF blocks[unit].good
               THEN SubSeq(payload, Max({1, blocks[unit].hl - before + 1}), blocks[b].len)
             ELSE IF before < MinHeader THEN << >> ELSE payload

(* A unit begins in the packet in which its header ends, if there is       *)
(* something behind the header.                                            *)
Beginnings(blocks) ==
  {b \in Own(blocks) : LET s == UnitOf(blocks, b)
                       IN  /\ s # None /\ blocks[s].good
                           /\ Before(blocks, b) < blocks[s].hl
                           /\ Carries(blocks, b) # << >>}

Stream(blocks) ==
  FlattenSeq([b \in DOMAIN blocks |->
    IF \E u \in Beginnings(blocks) : u <= b THEN Carries(blocks, b) ELSE << >>])

PlaceOf(stream, byte) == CHOOSE i \in DOMAIN stream : stream[i] = byte

Opened(f) ==
  LET stream == Stream(f.blocks)
  IN  [ts |-> f.ts, audio |-> f.audio, blocks |-> f.blocks,
       cells |-> Cells(f.blocks), stream |-> stream,
       units |-> {PlaceOf(stream, Carries(f.blocks, b)[1]) : b \in Beginnings(f.blocks)}]

-----------------------------------------------------------------------------
Init ==
  /\ file \in {Opened(f) : f \in Files}
  /\ filepos = 0 /\ sd = NewStream
  /\ pc = "idle" /\ got = 0 /\ lostsync = FALSE
  /\ ret = None /\ last = 0 /\ want = << >>

Call ==
  /\ pc = "idle" /\ pc' = "reading"
  /\ UNCHANGED <<file, filepos, sd, local, ret, last, want>>

(* Steps of streamreader(): the call goes on, or returns.                  *)
Return(n) ==
  /\ ret' = n /\ pc' = "idle" /\ got' = 0 /\ lostsync' = FALSE

GoOn == UNCHANGED <<ret, pc>>

Read(new) ==
  /\ sd' = new
  /\ last' = IF Len(new.data) > Len(sd.data) THEN PlaceOf(file.stream, Last(new.data))
             ELSE last
  /\ UNCHANGED <<file, want>>

Unread == UNCHANGED <<file, sd, last, want>>

-----------------------------------------------------------------------------
(* Those who use a video stream.                                           *)
Using(new) ==
  /\ pc = "idle" /\ sd' = new
  /\ UNCHANGED <<file, filepos, pc, local, ret, last>>

Discards ==
  \E n \in 1 .. Len(sd.data) :
    ~file.audio /\ Using(Discard(sd, n)) /\ UNCHANGED want

(* The index notes where a picture begins: where the first item stands.    *)
Note ==
  /\ ~file.audio /\ want = << >> /\ sd.items # << >>
  /\ want' = [pos |-> Position(sd.items[1]), byte |-> sd.data[1]]
  /\ Using(sd)

(* Somebody looks for it, with a new handle that starts at the packet or   *)
(* in front of it ...                                                      *)
Seek ==
  /\ pc = "idle" /\ want # << >>
  /\ \E u \in file.units :
       LET s == UnitOf(file.blocks, file.stream[u][1])
           at == CHOOSE c \in 0 .. Len(file.cells) - 1 :
                   Cell(c).block = s /\ Cell(c).nr = 1
       IN  /\ at <= want.pos.file
           /\ filepos' = at /\ last' = u - 1
  /\ sd' = NewStream
  /\ UNCHANGED <<file, pc, local, ret, want>>

(* ... reads until it is there, and discards what is in front of it.       *)
FindNoted ==
  LET bp == FilePosBufferPos(sd, want.pos)
  IN  /\ want # << >> /\ sd.items # << >> /\ sd.items[1].file <= want.pos.file
      /\ sd.offset <= bp /\ bp < EndPos(sd)
      /\ Using(Discard(sd, bp - sd.offset)) /\ UNCHANGED want

-----------------------------------------------------------------------------
(* Those who use an audio stream.                                          *)
Hear(new) == file.audio /\ Using(new) /\ UNCHANGED want

AddPts == sd.items # << >> /\ Hear(AudioAddPts(sd))

(* The start of a range: everything in front of the frame closest to the   *)
(* time t is discarded, in two steps.                                      *)
AudioStart(t) ==
  LET DiscardTo(s, bp) == Discard(s, Max({0, bp - s.offset}))
      timed == AudioAddPts(sd)
      s     == AudioAddPts(DiscardTo(timed, PtsBufferPos(timed, t)))
  IN  Hear(DiscardTo(s, ClosestPtsBufferPos(s, t)))

(* savempg(): what is no frame is dropped; a frame is taken when the one   *)
(* behind it was read.                                                     *)
PopOther ==
  sd.items # << >> /\ ~sd.items[1].frame /\ Hear(Pop(sd))

TakeFrame ==
  \E i \in 2 .. Len(sd.items) :
    /\ sd.items[1].frame /\ sd.items[i].frame
    /\ \A j \in 2 .. i - 1 : ~sd.items[j].frame
    /\ Hear(Discard(sd, sd.items[i].bp - sd.items[1].bp))

(* playaudio(): to the second packet with a time, before audio_addpts().   *)
PopToTimed ==
  /\ ~sd.added
  /\ \E i \in 2 .. Len(sd.items) :
       /\ sd.items[i].pts # NoPts /\ \A j \in 2 .. i - 1 : sd.items[j].pts = NoPts
       /\ Hear(PopMany(sd, i - 1))
=============================================================================
