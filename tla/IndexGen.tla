------------------------------ MODULE IndexGen ------------------------------
(***************************************************************************)
(* mpgIndex::generate(): one pass over the video stream that numbers the   *)
(* pictures of every sequence in display order and writes the table to the *)
(* index file as it goes.                                                  *)
(*                                                                         *)
(* The stream is its start codes, in order: sequence headers, with the     *)
(* resolution they announce, and pictures, with their type and temporal    *)
(* reference.  The program reads it in chunks; a chunk may end after any   *)
(* start code.  Before it looks at a chunk it asks whether the user        *)
(* cancelled and writes to the file the pictures in front of the last      *)
(* sequence header.                                                        *)
(***************************************************************************)
EXTENDS MpgIndex

CONSTANT Streams   (* the streams that may be indexed *)

(* The program does not read gop, the number of the group of pictures; the *)
(* properties do.                                                          *)
StartCodes ==
  [code: {"seq"}, size: Nat \ {0}] \cup
  [code: {"pic"}, type: PictureType, tr: Nat, gop: Nat]

ASSUME StreamsAssumption == Streams \subseteq Seq(StartCodes)

NoPic == -1

VARIABLES
  stream,          (* the video stream of the MPEG file                    *)
  rd,              (* start codes read so far                              *)
  pc,              (* "read", "scan", "done", "cancelled", "crashed"       *)
  p,               (* the picture table, on 0 .. pictures-1                *)
  pictures,
  seqheaderpic,    (* first picture of the current sequence                *)
  seqheaderpos,    (* where the current sequence header is                 *)
  foundseqheader,  (* the next picture is the first after a header         *)
  waitforfirst,    (* no sequence header yet: pictures are ignored         *)
  maxseqnr,        (* highest rank given in the current sequence           *)
  last_non_b_pic,  (* I or P picture that has no rank yet                  *)
  last_non_b_seqnr,(* and its temporal reference                           *)
  last_seqnr,      (* temporal reference of the last picture given a rank  *)
  sizes,           (* WIDTH and HEIGHT: the resolutions found              *)
  fd,              (* "open", "closed", "none" (no file asked for)         *)
  file,            (* what is on disk: a table on 0 .. flen-1              *)
  flen,
  pictureswritten  (* pictures the program knows to be in the file         *)

genvars == <<p, pictures, seqheaderpic, seqheaderpos, foundseqheader,
             waitforfirst, maxseqnr, last_non_b_pic, last_non_b_seqnr,
             last_seqnr, sizes>>
filevars == <<fd, file, flen, pictureswritten>>
vars     == <<stream, rd, pc, genvars, filevars>>

Init ==
  /\ stream \in Streams
  /\ rd = 0
  /\ pc = "read"
  /\ p = [i \in {} |-> 0]
  /\ pictures = 0
  /\ seqheaderpic = 0
  /\ seqheaderpos = 0
  /\ foundseqheader = FALSE
  /\ waitforfirst = TRUE
  /\ maxseqnr = -1
  /\ last_non_b_pic = NoPic
  /\ last_non_b_seqnr = NoPic
  /\ last_seqnr = -1
  /\ sizes = << >>
  /\ fd \in {"open", "none"}
  /\ file = [i \in {} |-> 0]
  /\ flen = 0
  /\ pictureswritten = 0

-----------------------------------------------------------------------------
(* p[i].setsequencenumber(s)                                               *)
Numbered(q, i, s) == [q EXCEPT ![i] = SetSeqNr(@, s)]

(* The table after the delayed I or P picture, if there is one, got the    *)
(* next rank.                                                              *)
FlushDelayed ==
  IF last_non_b_pic = NoPic THEN p
  ELSE Numbered(p, last_non_b_pic, maxseqnr + 1)

(* Mutated form: the rank is given but not counted.                        *)
NextRankLost == maxseqnr

NextRank == IF last_non_b_pic = NoPic THEN maxseqnr ELSE maxseqnr + 1

(* Mutated form: the current sequence is written too.                      *)
TargetAll ==
  IF rd < Len(stream) THEN pictures
  ELSE IF pictures = 0 THEN 0 ELSE pictures + NFake

(* What a write to the index file puts there: before a chunk, the pictures *)
(* in front of the last sequence header; at the end of the stream, all     *)
(* pictures and the fake ones that carry the resolutions.                  *)
Target ==
  IF rd < Len(stream) THEN seqheaderpic
  ELSE IF pictures = 0 THEN 0 ELSE pictures + NFake

Record(i) ==
  IF rd < Len(stream) THEN p[i]
  ELSE IF i < pictures THEN FlushDelayed[i]
  ELSE FakePicture(IF i - pictures < Len(sizes)
                     THEN sizes[i - pictures + 1] ELSE 0, i - pictures + 1)

Dirty == fd = "open" /\ pictureswritten < Target

Written(k) ==
  [i \in 0 .. k - 1 |-> IF i < pictureswritten THEN file[i] ELSE Record(i)]

(* The write succeeds, or fails after some of the records, which closes    *)
(* the file and lets the generation go on.                                 *)
WriteFile ==
  IF ~Dirty THEN UNCHANGED filevars
  ELSE \/ /\ file' = Written(Target)
          /\ flen' = Target
          /\ pictureswritten' = Target
          /\ UNCHANGED fd
       \/ /\ \E k \in pictureswritten .. Target - 1 :
               file' = Written(k) /\ flen' = k
          /\ fd' = "closed"
          /\ UNCHANGED pictureswritten

-----------------------------------------------------------------------------
ReadChunk ==
  /\ pc = "read"
  /\ rd < Len(stream)
  /\ pc' = "scan"
  /\ WriteFile
  /\ UNCHANGED <<stream, rd, genvars>>

(* log->cancelled(): the table is freed, the file stays as it is.          *)
Cancel ==
  /\ pc = "read"
  /\ pc' = "cancelled"
  /\ p' = [i \in {} |-> 0]
  /\ pictures' = 0
  /\ UNCHANGED <<stream, rd, seqheaderpic, seqheaderpos, foundseqheader,
                 waitforfirst, maxseqnr, last_non_b_pic, last_non_b_seqnr,
                 last_seqnr, sizes, filevars>>

(* The process dies, possibly in the middle of a write.                    *)
Crash ==
  /\ pc \in {"read", "scan"}
  /\ pc' = "crashed"
  /\ \/ UNCHANGED <<file, flen>>
     \/ /\ pc = "read" /\ Dirty
        /\ \E k \in pictureswritten + 1 .. Target :
             file' = Written(k) /\ flen' = k
  /\ UNCHANGED <<stream, rd, genvars, fd, pictureswritten>>

(* One start code is consumed; the chunk ends here or goes on.             *)
Consume ==
  /\ pc = "scan"
  /\ rd < Len(stream)
  /\ rd' = rd + 1
  /\ pc' \in IF rd + 1 < Len(stream) THEN {"read", "scan"} ELSE {"read"}
  /\ UNCHANGED <<stream, filevars>>

SequenceHeader ==
  /\ Consume
  /\ stream[rd + 1].code = "seq"
  /\ p' = FlushDelayed
  /\ last_non_b_pic' = NoPic
  /\ last_seqnr' = -1
  /\ maxseqnr' = -1
  /\ waitforfirst' = FALSE
  /\ foundseqheader' = TRUE
  /\ seqheaderpos' = rd + 1
  /\ seqheaderpic' = pictures
  /\ sizes' = LET size == stream[rd + 1].size
              IN  IF Len(sizes) < NFake /\ \A i \in DOMAIN sizes : sizes[i] # size
                    THEN Append(sizes, size) ELSE sizes
  /\ UNCHANGED <<pictures, last_non_b_seqnr>>

(* Pictures in front of the first sequence header are passed over.         *)
PictureIgnored ==
  /\ Consume
  /\ stream[rd + 1].code = "pic"
  /\ waitforfirst
  /\ UNCHANGED genvars

(* The table with the picture at rd+1 appended; its sequence number is the *)
(* temporal reference until a rank is given.                               *)
Appended ==
  [i \in 0 .. pictures |->
     IF i < pictures THEN p[i]
     ELSE [pos   |-> IF foundseqheader THEN seqheaderpos ELSE rd + 1,
           type  |-> stream[rd + 1].type,
           seqnr |-> stream[rd + 1].tr % SeqNrs,
           hdr   |-> foundseqheader,
           res   |-> Len(sizes)]]

(* A B picture is displayed before the delayed I or P picture, unless      *)
(* temporal references are missing and the delayed one comes first.        *)
DelayedGoesFirstSwapped(tr) ==  \* mutated form: compared the other way
  /\ last_non_b_pic # NoPic
  /\ tr # last_seqnr + 1
  /\ IF tr <= last_seqnr THEN last_non_b_seqnr > last_seqnr
                         ELSE last_non_b_seqnr > tr

DelayedGoesFirst(tr) ==
  /\ last_non_b_pic # NoPic
  /\ tr # last_seqnr + 1
  /\ IF tr <= last_seqnr THEN last_non_b_seqnr > last_seqnr
                         ELSE last_non_b_seqnr < tr

BPicture ==
  LET tr == stream[rd + 1].tr
      inserted == DelayedGoesFirst(tr)
      rank == IF inserted THEN maxseqnr + 2 ELSE maxseqnr + 1
      q == IF inserted THEN Numbered(Appended, last_non_b_pic, maxseqnr + 1)
                       ELSE Appended
  IN  /\ Consume
      /\ stream[rd + 1].code = "pic" /\ stream[rd + 1].type = "B"
      /\ ~waitforfirst
      /\ p' = Numbered(q, pictures, rank)
      /\ maxseqnr' = rank
      /\ last_non_b_pic' = IF inserted THEN NoPic ELSE last_non_b_pic
      /\ last_seqnr' = tr
      /\ pictures' = pictures + 1
      /\ foundseqheader' = FALSE
      /\ UNCHANGED <<seqheaderpic, seqheaderpos, waitforfirst,
                     last_non_b_seqnr, sizes>>

(* I and P pictures are delayed until the next one arrives.                *)
ReferencePicture ==
  LET type == stream[rd + 1].type
  IN  /\ Consume
      /\ stream[rd + 1].code = "pic" /\ type # "B"
      /\ ~waitforfirst
      /\ p' = IF last_non_b_pic = NoPic THEN Appended
              ELSE Numbered(Appended, last_non_b_pic, maxseqnr + 1)
      /\ maxseqnr' = NextRank
      /\ last_non_b_pic' = pictures
      /\ last_non_b_seqnr' = stream[rd + 1].tr
      /\ last_seqnr' = IF type = "I" THEN -1
                       ELSE IF last_non_b_pic # NoPic THEN last_non_b_seqnr
                       ELSE last_seqnr
      /\ pictures' = pictures + 1
      /\ foundseqheader' = FALSE
      /\ UNCHANGED <<seqheaderpic, seqheaderpos, waitforfirst, sizes>>

(* End of the stream: the delayed picture gets its rank and the rest is    *)
(* written; what check() then makes of the table is CheckedPictures and    *)
(* CheckedSkip.                                                            *)
CheckedPictures == RealPictures(p, pictures)
CheckedSkip     == SkipFirst(p, pictures)

Finish ==
  /\ pc = "read"
  /\ rd = Len(stream)
  /\ pc' = "done"
  /\ p' = FlushDelayed
  /\ maxseqnr' = NextRank
  /\ last_non_b_pic' = NoPic
  /\ WriteFile
  /\ UNCHANGED <<stream, rd, pictures, seqheaderpic, seqheaderpos,
                 foundseqheader, waitforfirst, last_non_b_seqnr, last_seqnr,
                 sizes>>

Next ==
  \/ ReadChunk \/ Cancel \/ Crash
  \/ SequenceHeader \/ PictureIgnored \/ BPicture \/ ReferencePicture
  \/ Finish

Spec == Init /\ [][Next]_vars

-----------------------------------------------------------------------------
TypeOK ==
  /\ stream \in Seq(StartCodes)
  /\ rd \in 0 .. Len(stream)
  /\ pc \in {"read", "scan", "done", "cancelled", "crashed"}
  /\ pictures \in Nat
  /\ p \in [0 .. pictures - 1 -> Picture]
  /\ seqheaderpic \in Nat
  /\ seqheaderpos \in Nat
  /\ foundseqheader \in BOOLEAN
  /\ waitforfirst \in BOOLEAN
  /\ maxseqnr \in Nat \cup {-1}
  /\ last_non_b_pic \in Nat \cup {NoPic}
  /\ last_non_b_seqnr \in Nat \cup {NoPic}
  /\ last_seqnr \in Nat \cup {-1}
  /\ sizes \in Seq(Nat \ {0})
  /\ fd \in {"open", "closed", "none"}
  /\ flen \in Nat
  /\ file \in [0 .. flen - 1 -> Picture]
  /\ pictureswritten \in Nat

(* A picture that has been written to the index file gets no other rank    *)
(* afterwards: what is on disk and what is in memory agree, although ranks *)
(* are given out of order and late (mpgIndex.cpp:171-182, 199-202).        *)
FlushedIsFinal ==
  pc # "cancelled" =>
    \A i \in 0 .. pictures - 1 :
      i < pictureswritten => file[i] = p[i]

(* The pictures b .. e-1 are one sequence of the stream, and no picture of *)
(* it is still to come.                                                    *)
IsSequence(b, e) ==
  /\ b < e
  /\ p[b].hdr
  /\ \A i \in b + 1 .. e - 1 : ~p[i].hdr
  /\ e < pictures => p[e].hdr
  /\ e <= seqheaderpic \/ pc = "done"

Permuted(b, e) ==
  /\ \A i \in b .. e - 1 : p[i].seqnr < e - b
  /\ \A i, j \in b .. e - 1 : i # j => p[i].seqnr # p[j].seqnr

(* In every sequence that its 10-bit ranks can number, each rank appears   *)
(* exactly once: the condition load() asks of the file.                    *)
RanksPermute ==
  pc # "cancelled" =>
    \A b \in 0 .. pictures : \A e \in 0 .. pictures :
      IsSequence(b, e) /\ e - b <= SeqNrs => Permuted(b, e)

(* Within a sequence, the pictures of a group are displayed in the order   *)
(* of their temporal references, and groups in their order, even when      *)
(* pictures are missing from the stream.                                   *)
Pics == {i \in DOMAIN stream : stream[i].code = "pic"}

Code(i) ==  \* the start code of picture i of the table
  LET skipped == {k \in Pics : \A h \in 1 .. k : stream[h].code = "pic"}
      rest == Pics \ skipped
  IN  stream[CHOOSE k \in rest : Cardinality({x \in rest : x < k}) = i]

Encoded(c) == c.gop > 0  \* 0: of no group that an encoder would make

DisplayedBefore(c, d) ==
  /\ Encoded(c) /\ Encoded(d)
  /\ c.gop < d.gop \/ (c.gop = d.gop /\ c.tr < d.tr)

(* The order in which an encoder codes pictures, with any of them but the  *)
(* first of a group missing: groups follow each other, a group begins with *)
(* an I picture, and a picture is displayed before one that was coded      *)
(* earlier only if it is a B picture and the other is the I or P picture   *)
(* last coded before it.                                                   *)
CodedBefore(s, i, k) ==
  i < k /\ \A h \in i .. k : s[h].code = "pic"

InCodingOrder(s, k) ==
  /\ Encoded(s[k])
  /\ s[k].type # "I" =>
       \E i \in 1 .. k - 1 : CodedBefore(s, i, k) /\ s[i].gop = s[k].gop
  /\ \A i \in 1 .. k - 1 : CodedBefore(s, i, k) =>
       /\ s[i].gop <= s[k].gop
       /\ s[i].gop = s[k].gop =>
            /\ s[i].tr # s[k].tr
            /\ s[k].tr < s[i].tr =>
                 /\ s[k].type = "B" /\ s[i].type # "B"
                 /\ \A j \in i + 1 .. k - 1 : s[j].type = "B"

CodingOrder(s) ==
  \/ \A k \in DOMAIN s : s[k].code = "pic" => ~Encoded(s[k])
  \/ \A k \in DOMAIN s : s[k].code = "pic" => InCodingOrder(s, k)

DisplayOrder ==
  pc = "done" =>
    \A b, e \in 0 .. pictures : IsSequence(b, e) /\ e - b <= SeqNrs =>
      \A i, j \in b .. e - 1 :
        DisplayedBefore(Code(i), Code(j)) => p[i].seqnr < p[j].seqnr

(* When generate() wrote everything, load() accepts the file and arrives   *)
(* at the same pictures, the same first picture and the same resolutions   *)
(* (mpgIndex.cpp:494-625).                                                 *)
Headers == {i \in DOMAIN stream : stream[i].code = "seq"}

ShortSequences ==
  \A b, e \in 0 .. pictures : IsSequence(b, e) => e - b <= SeqNrs

LoadsBack ==
  pc = "done" /\ pictures > 0 /\ flen = pictures + NFake /\ ShortSequences =>
    Load(file, flen, Headers) =
      [ret |-> "ok", pictures |-> CheckedPictures, skip |-> CheckedSkip,
       sizes |-> sizes]

(* indexnr() and picturenr() are the reverse of each other (the comment at *)
(* mpgIndex.h:187), as long as the ranks of a sequence fit into their field.*)
ReverseFunction ==
  pc = "done" =>
    \A i \in 0 .. pictures - 1 :
      PictureNr(p, CheckedSkip, i) \in 0 .. CheckedPictures - 1 =>
        IndexNr(p, pictures, CheckedSkip, PictureNr(p, CheckedSkip, i)) = i

ReverseIfShort == ShortSequences => ReverseFunction

(* The first picture shown is the first I frame of the file; the last one  *)
(* is not a B frame, which the pictures behind it would have to complete   *)
(* (mpgIndex.cpp:627-668).                                                 *)
StartsAndEndsDecodable ==
  pc = "done" /\ CheckedPictures > 0 /\ ShortSequences =>
    /\ IndexNr(p, pictures, CheckedSkip, 0) = Min(IFrames(p, pictures))
    /\ p[IndexNr(p, pictures, CheckedSkip, CheckedPictures - 1)].type # "B"

(* README, lines 38-44: an existing file is used as index if it describes  *)
(* the chosen MPEG file.  Whatever is left on disk and loads without an    *)
(* error is the index of the whole stream.                                 *)
AcceptedIsComplete ==
  LET l == Load(file, flen, Headers)
  IN  /\ pc \in {"done", "cancelled", "crashed"}
      /\ l.ret = "ok" /\ l.pictures > 0
      =>
        flen - NFake = Cardinality({i \in Pics : \E h \in Headers : h < i})

=============================================================================
