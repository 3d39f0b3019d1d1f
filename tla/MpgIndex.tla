------------------------------ MODULE MpgIndex ------------------------------
(***************************************************************************)
(* The picture index of an MPEG file (class mpgIndex).  A picture table is *)
(* a function on 0 .. n-1, in the order in which the pictures are stored   *)
(* in the file.  This module has what the program computes from a table:   *)
(* check(), indexnr(), picturenr() and load().  How a table comes to be is *)
(* module IndexGen.                                                        *)
(***************************************************************************)
EXTENDS Integers, Sequences, FiniteSetsExt

CONSTANTS
  SeqNrs,   (* number of values of the sequence-number field (1024)        *)
  NFake     (* number of fake pictures at the end of an index file (7)     *)

ASSUME SeqNrsAssumption == SeqNrs \in Nat \ {0}
ASSUME NFakeAssumption == NFake \in Nat \ {0}

PictureType == {"-", "I", "P", "B"}

(* pos: the place of the picture (or of the sequence header in front of    *)
(* it); seqnr: its rank in display order within its sequence; hdr: it      *)
(* follows a sequence header; res: resolution number, 0 in an old index.   *)
(* In a fake picture pos stands for a WIDTHxHEIGHT pair, 0 for none.       *)
Picture == [pos: Nat, type: PictureType, seqnr: 0 .. SeqNrs - 1,
            hdr: BOOLEAN, res: Nat]

FakePicture(resolution, i) ==
  [pos |-> resolution, type |-> "-", seqnr |-> 0, hdr |-> FALSE, res |-> i]

SetSeqNrUnmasked(pic, s) == [pic EXCEPT !.seqnr = s]  \* mutated form

SetSeqNr(pic, s) == [pic EXCEPT !.seqnr = s % SeqNrs]

-----------------------------------------------------------------------------
(* First picture of the sequence that holds index i.                       *)
SeqBegin(p, i) == Max({0} \cup {j \in 0 .. i : p[j].hdr})

(* One past the last picture of the sequence that begins at i.             *)
SeqEnd(p, n, i) == Min({n} \cup {j \in i + 1 .. n - 1 : p[j].hdr})

(* Mutated form: the search starts at the beginning of the file.           *)
IndexNrFromZero(p, n, skip, pic) ==
  LET seq == SeqBegin(p, pic + skip)
  IN  Min({n} \cup {i \in 0 .. n - 1 : p[i].seqnr = pic + skip - seq})

(* indexnr(): where the pic-th displayed picture is stored; n if nowhere.  *)
IndexNr(p, n, skip, pic) ==
  LET seq == SeqBegin(p, pic + skip)
  IN  Min({n} \cup {i \in seq .. n - 1 : p[i].seqnr = pic + skip - seq})

(* picturenr(): when the picture stored at ind is displayed.               *)
PictureNr(p, skip, ind) == p[ind].seqnr + SeqBegin(p, ind) - skip

-----------------------------------------------------------------------------
(* check(): skip what is displayed before the first I frame, drop the B    *)
(* frames at the end.                                                      *)
IFrames(p, n) == {i \in 0 .. n - 1 : p[i].type = "I"}

SkipFirstToHeader(p, n) ==  \* mutated form: leading B frames are kept
  IF IFrames(p, n) = {} THEN 0 ELSE SeqBegin(p, Min(IFrames(p, n)))

SkipFirst(p, n) ==
  IF IFrames(p, n) = {} THEN 0
  ELSE LET first == Min(IFrames(p, n))
           seq   == SeqBegin(p, first)
       IN  seq + Cardinality({i \in seq .. SeqEnd(p, n, seq) - 1 :
                                p[i].seqnr < p[first].seqnr})

RealPictures(p, n) ==
  LET skip == SkipFirst(p, n)
      last(r) == IndexNr(p, n, skip, r - 1)
  IN  IF IFrames(p, n) = {} THEN 0
      ELSE Max({0} \cup {r \in 1 .. n - skip :
                           last(r) = n \/ p[last(r)].type # "B"})

-----------------------------------------------------------------------------
(* load(): the number of real pictures is the length of the file less the  *)
(* fake pictures a new index ends with.                                    *)
LoadedPicturesWithFakes(file, len) == len  \* mutated form

LoadedPictures(file, len) ==
  IF file[0].res > 0 THEN len - NFake ELSE len

LoadedSizes(file, len) ==
  LET n    == LoadedPictures(file, len)
      none == {k \in 0 .. NFake - 1 : file[n + k].pos = 0}
  IN  IF file[0].res = 0 THEN << >>
      ELSE [k \in 1 .. Min({NFake} \cup none) |-> file[n + k - 1].pos]

(* In every sequence each rank appears exactly once.                       *)
RanksOK(p, n) ==
  \A b \in {0} \cup {i \in 0 .. n - 1 : p[i].hdr} :
    LET e == SeqEnd(p, n, b)
    IN  \A j \in 0 .. e - b - 1 :
          Cardinality({i \in b .. e - 1 : p[i].seqnr = j}) = 1

(* The sequence beginnings compared with the MPEG file: the first one at   *)
(* or after picture 1, then the first at or after twice that index ...     *)
Probed(p, n) ==
  LET from[i \in Nat] ==
        LET j == Min({n} \cup {k \in i .. n - 1 : p[k].hdr})
        IN  IF j >= n THEN {} ELSE {j} \cup from[2 * j]
  IN  from[1]

(* Outcome of load() on a file of len records of an index for an MPEG file *)
(* whose sequence headers are at the places in headers.  "undefined": the  *)
(* program subtracts the fake pictures of a file that has fewer.           *)
Rejected(ret) == [ret |-> ret, pictures |-> 0, skip |-> 0, sizes |-> << >>]

Load(file, len, headers) ==
  LET n == LoadedPictures(file, len)
  IN  CASE len = 0                -> Rejected("empty")
        [] len > 0 /\ ~file[0].hdr -> Rejected("invalid")
        [] len > 0 /\ file[0].hdr /\ n < 0 -> Rejected("undefined")
        [] len > 0 /\ file[0].hdr /\ n >= 0 ->
             IF ~RanksOK(file, n) THEN Rejected("invalid")
             ELSE IF \E i \in Probed(file, n) : file[i].pos \notin headers
               THEN Rejected("mismatch")
             ELSE [ret      |-> "ok",
                   pictures |-> RealPictures(file, n),
                   skip     |-> SkipFirst(file, n),
                   sizes    |-> LoadedSizes(file, len)]

=============================================================================
