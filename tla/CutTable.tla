------------------------------ MODULE CutTable ------------------------------
(***************************************************************************)
(* What the program makes of the markers in the event list: the table of   *)
(* the ranges that are exported, the chapter list, and the translation     *)
(* between pictures of the file and pictures of the output.                *)
(*                                                                         *)
(* A picture is displayed for one unit of time, so that the time of a      *)
(* picture is its number.                                                  *)
(***************************************************************************)
EXTENDS Integers, SequencesExt

CONSTANT Pictures   (* pictures in the file *)

ASSUME CutTableAssumption == Pictures \in Nat \ {0}

Pics == 0 .. Pictures - 1
EventTypes == {"start", "stop", "chapter", "bookmark"}
Items == [pic: Pics, type: EventTypes]

(* Settings: export from the begin of the file, export to its end.         *)
CutOptions == [start_bof: BOOLEAN, stop_eof: BOOLEAN]

-----------------------------------------------------------------------------
(* The scan of the event list.  start is the first picture of the range    *)
(* that is open, -1 if there is none.                                      *)
NoStart == -1

ScanBegin(options) ==
  [start |-> IF options.start_bof THEN 0 ELSE NoStart, realzero |-> FALSE,
   out |-> 0, lastchapter |-> -2, ranges |-> << >>, chapters |-> <<0>>]

CloseRange(s, stop) ==
  LET out == s.out + stop - s.start
  IN  [s EXCEPT !.start = NoStart, !.out = out,
                !.ranges = Append(@, [start |-> s.start, stop |-> stop,
                                      out |-> out])]

(* A START opens a range, or replaces the one opened at the begin of file. *)
ScanStart(options, s, pic) ==
  IF s.start = NoStart \/ (options.start_bof /\ s.start = 0 /\ ~s.realzero)
    THEN [s EXCEPT !.start = pic, !.realzero = @ \/ pic = 0,
                   !.chapters = IF s.lastchapter = pic
                                  THEN Append(@, s.out) ELSE @]
    ELSE s

ScanChapterFileTime(s, pic) ==  \* mutated form: time in the file
  [s EXCEPT !.lastchapter = pic,
            !.chapters = IF s.start # NoStart THEN Append(@, pic) ELSE @]

ScanChapter(s, pic) ==
  [s EXCEPT !.lastchapter = pic,
            !.chapters = IF s.start # NoStart
                           THEN Append(@, pic - s.start + s.out) ELSE @]

ScanItem(options, s, item) ==
  CASE item.type = "start"    -> ScanStart(options, s, item.pic)
    [] item.type = "stop"     -> IF s.start # NoStart
                                   THEN CloseRange(s, item.pic) ELSE s
    [] item.type = "chapter"  -> ScanChapter(s, item.pic)
    [] item.type = "bookmark" -> s

Scanned(list, options) ==
  LET scanned[i \in 0 .. Len(list)] ==
        IF i = 0 THEN ScanBegin(options)
        ELSE ScanItem(options, scanned[i - 1], list[i])
  IN  scanned[Len(list)]

ScanClosesAlways(list, options) ==  \* mutated: there need not be an open range
  LET s == Scanned(list, options)
  IN  IF options.stop_eof THEN CloseRange(s, Pictures - 1) ELSE s

(* updateQuickPictureLookupTable(): a range still open ends with the file. *)
Scan(list, options) ==
  LET s == Scanned(list, options)
  IN  IF options.stop_eof /\ s.start # NoStart
        THEN CloseRange(s, Pictures - 1) ELSE s

OutPictures(table) ==
  IF table = << >> THEN 0 ELSE table[Len(table)].out

-----------------------------------------------------------------------------
(* std::upper_bound on the keys of a table: the first entry whose key is   *)
(* above x, or one past the last.                                          *)
UpperBound(keys, x) ==
  LET above == {j \in DOMAIN keys : x < keys[j]}
  IN  IF above = {} THEN Len(keys) + 1 ELSE Min(above)

StartKeys(table) == [j \in DOMAIN table |-> table[j].start]
OutKeys(table)   == [j \in DOMAIN table |-> table[j].out]

(* updateTimeDisplay(): the output picture shown for a picture.            *)
OutPictureAhead(table, pic) ==  \* mutated form: counts from the range's end
  LET j == UpperBound(StartKeys(table), pic) - 1
  IN  IF j = 0 THEN 0
      ELSE IF pic < table[j].stop THEN pic - table[j].start + table[j].out
      ELSE table[j].out

OutPicture(table, pic) ==
  LET j == UpperBound(StartKeys(table), pic) - 1
  IN  IF j = 0 THEN 0
      ELSE IF pic < table[j].stop THEN pic - table[j].stop + table[j].out
      ELSE table[j].out

(* clickedgo2(), editAutoChapters(): the picture for an output picture.    *)
HasInPicture(table, out) == UpperBound(OutKeys(table), out) <= Len(table)

InPicture(table, out) ==
  LET e == table[UpperBound(OutKeys(table), out)]
  IN  out - e.out + e.stop

-----------------------------------------------------------------------------
(* createChapterList(): what is printed of the chapter list.               *)
PrintedChapters(chapters) ==
  LET Print1(acc, t) ==
        IF acc # << >> /\ acc[Len(acc)] = t THEN acc ELSE Append(acc, t)
      printed[i \in 0 .. Len(chapters)] ==
        IF i = 0 THEN << >> ELSE Print1(printed[i - 1], chapters[i])
  IN  printed[Len(chapters)]

=============================================================================
