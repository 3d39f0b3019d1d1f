----------------------------- MODULE EventList -----------------------------
(***************************************************************************)
(* The list of START, STOP, CHAPTER and BOOKMARK markers that the user     *)
(* edits, and the cut table and chapter list kept beside it, which the     *)
(* time display, the go-to fields, automatic chapters and the export use.  *)
(*                                                                         *)
(* The picture a marker is set at is whatever the sliders show: any        *)
(* picture of the file.                                                    *)
(***************************************************************************)
EXTENDS CutTable, Totals

CONSTANTS
  Options,            (* the settings of the cut table to be checked       *)
  Projects,           (* marks of the project files that may be opened     *)
  FileBookmarks,      (* bookmarks that a Topfield recording carries       *)
  Aspect,             (* aspect ratio of every picture                     *)
  SceneChanges,       (* pictures unlike the one before                    *)
  ChapterInterval, ChapterMinimum, ChapterTolerance,  (* settings          *)
  MaxItems            (* bound: the list grows no longer                   *)

Ordered(l) == \A i, j \in DOMAIN l : i < j => l[i].pic <= l[j].pic

(* A project file holds the marks in the order of the list that was saved. *)
ASSUME EventListAssumption ==
  /\ Options \subseteq CutOptions
  /\ \A marks \in Projects : /\ marks \in Seq([pic: Int, type: EventTypes])
                             /\ Ordered(marks)
  /\ FileBookmarks \in Seq(Pics)
  /\ Aspect \in [Pics -> 1 .. 4]
  /\ SceneChanges \subseteq Pics
  /\ ChapterInterval \in Int
  /\ ChapterMinimum \in Nat
  /\ ChapterTolerance \in Nat
  /\ ChapterInterval > 0 \/ ChapterMinimum > 0
  /\ MaxItems \in Nat

VARIABLES
  options,   (* the settings; they are read when the program starts        *)
  list,      (* the event list                                             *)
  table,     (* quick_picture_lookup                                       *)
  chapters,  (* chapterlist                                                *)
  pastend    (* an entry that the table does not have was used             *)

vars == <<options, list, table, chapters, pastend>>

Without(l, types) == Kept(l, {i \in DOMAIN l : l[i].type \notin types})

(* addEventListItem(): no doubles, and behind all markers of the same or   *)
(* an earlier picture.                                                     *)
AddItem(l, item) ==
  LET later == {i \in DOMAIN l : item.pic < l[i].pic}
  IN  IF Contains(l, item) THEN l
      ELSE InsertAt(l, IF later = {} THEN Len(l) + 1 ELSE Min(later), item)

AddItems(l, items) ==
  LET added[i \in 0 .. Len(items)] ==
        IF i = 0 THEN l ELSE AddItem(added[i - 1], items[i])
  IN  added[Len(items)]

Markers(pics, type) == [i \in DOMAIN pics |-> [pic |-> pics[i], type |-> type]]

UpdateTableStale ==  \* mutated form: the old list is scanned
  LET s == Scan(list, options) IN table' = s.ranges /\ chapters' = s.chapters

UpdateTable ==
  LET s == Scan(list', options) IN table' = s.ranges /\ chapters' = s.chapters

(* Marks outside the file are dropped when a project is opened.            *)
Init ==
  /\ options \in Options
  /\ \E marks \in Projects :
       list = Kept(marks, {i \in DOMAIN marks : marks[i].pic \in Pics})
  /\ table = Scan(list, options).ranges
  /\ chapters = Scan(list, options).chapters
  /\ pastend = FALSE

-----------------------------------------------------------------------------
(* Edit menu and keys: the picture is the current one.                     *)
EditBookmark ==
  /\ ~pastend /\ Len(list) < MaxItems
  /\ \E pic \in Pics : list' = AddItem(list, [pic |-> pic, type |-> "bookmark"])
  /\ UNCHANGED <<options, table, chapters, pastend>>

EditMarker ==
  /\ ~pastend /\ Len(list) < MaxItems
  /\ \E item \in Items : item.type # "bookmark" /\ list' = AddItem(list, item)
  /\ UpdateTable
  /\ UNCHANGED <<options, pastend>>

(* A bookmark wherever the aspect ratio changes.                           *)
AspectChanges ==
  Ascending({pic \in 1 .. Pictures - 1 : Aspect[pic] # Aspect[pic - 1]})

EditSuggest ==
  /\ ~pastend /\ Len(list) + Len(AspectChanges) <= MaxItems
  /\ list' = AddItems(list, Markers(AspectChanges, "bookmark"))
  /\ UNCHANGED <<options, table, chapters, pastend>>

EditImport ==
  /\ ~pastend /\ Len(list) + Len(FileBookmarks) <= MaxItems
  /\ list' = AddItems(list, Markers(FileBookmarks, "bookmark"))
  /\ UNCHANGED <<options, table, chapters, pastend>>

-----------------------------------------------------------------------------
(* The START and STOP markers for a sorted list of cuts: alternating from  *)
(* START (option 0) or STOP (1), or START where the aspect ratio is option *)
(* (2 is 4:3, 3 is 16:9) and STOP elsewhere.                               *)
CutType(option, i, pic) ==
  CASE option = 0 -> IF i % 2 = 1 THEN "start" ELSE "stop"
    [] option = 1 -> IF i % 2 = 1 THEN "stop" ELSE "start"
    [] OTHER      -> IF Aspect[pic] = option THEN "start" ELSE "stop"

Sorted(pics) ==
  CHOOSE s \in [DOMAIN pics -> ToSet(pics)] :
    /\ \A i, j \in DOMAIN s : i < j => s[i] <= s[j]
    /\ \A pic \in ToSet(pics) : Cardinality({i \in DOMAIN s : s[i] = pic})
                               = Cardinality({i \in DOMAIN s : pics[i] = pic})

CutItems(cutlist, option) ==
  LET cuts == Sorted(cutlist)
  IN  [i \in DOMAIN cuts |->
        [pic |-> cuts[i], type |-> CutType(option, i, cuts[i])]]

AddStartStopItemsKeepOld(l, cutlist, option) ==  \* mutated: old cuts stay
  AddItems(l, CutItems(cutlist, option))

AddStartStopItems(l, cutlist, option) ==
  AddItems(Without(l, {"start", "stop"}), CutItems(cutlist, option))

Bookmarks(l) ==
  LET marks == Kept(l, {i \in DOMAIN l : l[i].type = "bookmark"})
  IN  [i \in DOMAIN marks |-> marks[i].pic]

(* The bookmarks are taken out of the list even if no START or STOP comes  *)
(* of them.                                                                *)
EditConvert(option) ==
  /\ ~pastend
  /\ Bookmarks(list) # << >>
  /\ list' = AddStartStopItems(Without(list, {"bookmark"}),
                               Bookmarks(list), option)
  /\ UpdateTable
  /\ UNCHANGED <<options, pastend>>

-----------------------------------------------------------------------------
(* editAutoChapters(): every ChapterInterval output pictures, or so many   *)
(* chapters, but none closer than ChapterMinimum to the end.               *)
ChapterStep ==
  IF ChapterInterval > 0 THEN ChapterInterval
  ELSE LET step == OutPictures(table) \div (1 - ChapterInterval)
       IN  IF step > ChapterMinimum THEN step ELSE ChapterMinimum

ChapterOutsToEnd ==  \* mutated form: the minimal length is forgotten
  Ascending({out \in 1 .. OutPictures(table) :
               out % ChapterStep = 0 /\ out < OutPictures(table)})

ChapterOuts ==
  Ascending({out \in 1 .. OutPictures(table) :
               /\ out % ChapterStep = 0
               /\ out < OutPictures(table) - ChapterMinimum})

AtEnd(out) ==
  InPicture(table, out) + ChapterTolerance
    > table[UpperBound(OutKeys(table), out)].stop

(* A chapter near the end of the last range is to come from the range      *)
(* behind it.                                                              *)
PastEnd(out) == AtEnd(out) /\ UpperBound(OutKeys(table), out) = Len(table)

(* The picture for a chapter: near the end of a range, the begin of the    *)
(* next one; else the next scene change, if there is one near enough.      *)
ChapterPic(out) ==
  LET in == InPicture(table, out)
      scenes == SceneChanges \cap (in + 1 .. in + ChapterTolerance - 1)
  IN  IF AtEnd(out) THEN table[UpperBound(OutKeys(table), out) + 1].start
      ELSE IF scenes = {} THEN in ELSE Min(scenes)

(* The number of output pictures is read from the last entry of the table. *)
EditAutoChapters ==
  LET past  == {k \in DOMAIN ChapterOuts : PastEnd(ChapterOuts[k])}
      found == IF past = {} THEN Len(ChapterOuts) ELSE Min(past) - 1
  IN  /\ ~pastend /\ Len(list) + Len(ChapterOuts) <= MaxItems
      /\ UNCHANGED options
      /\ IF table = << >>
           THEN pastend' = TRUE /\ UNCHANGED <<list, table, chapters>>
           ELSE /\ list' = AddItems(list, Markers(
                      [k \in 1 .. found |-> ChapterPic(ChapterOuts[k])],
                      "chapter"))
                /\ pastend' = (past # {})
                /\ IF ChapterOuts = << >> \/ past # {}
                     THEN UNCHANGED <<table, chapters>>
                     ELSE UpdateTable

-----------------------------------------------------------------------------
(* Delete key and context menu, for any marker of the list.                *)
DelCurrentEventItem ==
  /\ ~pastend
  /\ \E i \in DOMAIN list :
       /\ list' = RemoveAt(list, i)
       /\ IF list[i].type = "bookmark" THEN UNCHANGED <<table, chapters>>
                                       ELSE UpdateTable
  /\ UNCHANGED <<options, pastend>>

DeleteOthers ==
  /\ ~pastend
  /\ \E i \in DOMAIN list : list' = <<list[i]>>
  /\ UpdateTable
  /\ UNCHANGED <<options, pastend>>

DeleteAll ==
  /\ ~pastend /\ list # << >>
  /\ list' = << >>
  /\ UpdateTable
  /\ UNCHANGED <<options, pastend>>

DeleteTypes ==
  /\ ~pastend /\ list # << >>
  /\ \E types \in {{"start", "stop"}, {"chapter"}, {"bookmark"}} :
       /\ list' = Without(list, types)
       /\ IF types = {"bookmark"} THEN UNCHANGED <<table, chapters>>
                                  ELSE UpdateTable
  /\ UNCHANGED <<options, pastend>>

(* The marker stays where it is in the list.                               *)
ConvertItem ==
  /\ ~pastend
  /\ \E i \in DOMAIN list, type \in EventTypes :
       list' = [list EXCEPT ![i].type = type]
  /\ UpdateTable
  /\ UNCHANGED <<options, pastend>>

(* Go to an output picture: any number may be typed.                       *)
ClickedGo2 ==
  /\ ~pastend /\ table # << >>
  /\ \E out \in 0 .. Pictures : pastend' = ~HasInPicture(table, out)
  /\ UNCHANGED <<options, list, table, chapters>>

Edit ==
  \/ EditBookmark \/ EditMarker \/ EditSuggest \/ EditImport
  \/ \E option \in 0 .. 3 : EditConvert(option)
  \/ EditAutoChapters
  \/ DelCurrentEventItem \/ DeleteOthers \/ DeleteAll \/ DeleteTypes

Next == Edit \/ ConvertItem \/ ClickedGo2

Spec == Init /\ [][Next]_vars

-----------------------------------------------------------------------------
TypeOK ==
  /\ options \in CutOptions
  /\ list \in Seq(Items)
  /\ table \in Seq([start: Pics, stop: Pics, out: 0 .. Pictures])
  /\ chapters \in Seq(0 .. 2 * Pictures)
  /\ pastend \in BOOLEAN

(* README, lines 52-59: the output starts at the first START and proceeds  *)
(* to the next STOP, goes on at the next START, and so on; a START after a *)
(* START and a STOP after a STOP are meaningless.  The options put a START *)
(* at the begin of the file, unless the first marker is a START itself,    *)
(* and a STOP at its end.                                                  *)
CutsOf(l) == {i \in DOMAIN l : l[i].type \in {"start", "stop"}}

On(l, cuts, opts, pic) ==
  \/ \E i \in cuts : /\ l[i].pic <= pic /\ l[i].type = "start"
                     /\ \A k \in cuts : l[k].pic <= pic => k <= i
  \/ /\ opts.start_bof
     /\ \A i \in cuts : pic < l[i].pic
     /\ \A i \in cuts : (\A k \in cuts : i <= k) => l[i].type = "stop"

StopAhead(l, cuts, pic) == \E i \in cuts : pic < l[i].pic /\ l[i].type = "stop"

Selected(l, opts, pic) ==
  /\ On(l, CutsOf(l), opts, pic)
  /\ StopAhead(l, CutsOf(l), pic) \/ (opts.stop_eof /\ pic < Pictures - 1)

CoveredBy(ranges) ==
  {pic \in Pics : \E j \in DOMAIN ranges :
                    ranges[j].start <= pic /\ pic < ranges[j].stop}

Before(pics, pic) == Cardinality({x \in pics : x < pic})

Covered == CoveredBy(table)

SelectedBefore(pic) == Before(Covered, pic)

(* The cut table covers what the markers in the list select, in order, and *)
(* counts its pictures, after every edit (tvclipper.cpp:2533-2615).        *)
TableIsSelection ==
  /\ Covered = {pic \in Pics : Selected(list, options, pic)}
  /\ \A j \in DOMAIN table : table[j].start <= table[j].stop
  /\ \A j, k \in DOMAIN table : j < k => table[j].stop <= table[k].start
  /\ \A j \in DOMAIN table : table[j].out = SelectedBefore(table[j].stop)

(* The output picture displayed for an exported picture leads back to it   *)
(* when it is typed into the go-to field (tvclipper.cpp:1650-1668,         *)
(* 2491-2509), and counts the exported pictures in front of it.            *)
GoBack ==
  \A pic \in Covered :
    LET out == OutPicture(table, pic)
    IN  /\ out = SelectedBefore(pic)
        /\ HasInPicture(table, out) /\ InPicture(table, out) = pic

(* The printed chapter list is what dvdauthor gets for the exported file   *)
(* (tvclipper.cpp:607-634): ascending positions in it, one for every       *)
(* chapter marker on an exported picture, and none without a marker.       *)
ChapterPics == {list[i].pic : i \in {k \in DOMAIN list : list[k].type = "chapter"}}

ChaptersMatch ==
  LET printed == PrintedChapters(chapters)
  IN  /\ \A i, j \in DOMAIN printed : i < j => printed[i] < printed[j]
      /\ ToSet(printed) \subseteq
           {0} \cup {SelectedBefore(pic) : pic \in ChapterPics}
      /\ {SelectedBefore(pic) : pic \in ChapterPics \cap Covered} \subseteq
           ToSet(printed)

(* The same without the two ways in which chapters of a range are kept     *)
(* that is not exported: the range that is open at the begin of the file,  *)
(* which a START replaces, and a last START behind which no STOP comes.    *)
EndsOpen ==
  /\ ~options.stop_eof
  /\ \E i \in CutsOf(list) : /\ list[i].type = "start"
                              /\ \A k \in CutsOf(list) : k <= i

ChaptersMatchIfCut ==
  ~pastend /\ ~options.start_bof /\ ~EndsOpen => ChaptersMatch

CutList(l) == SelectSeq(l, LAMBDA item : item.type \in {"start", "stop"})

(* tvclipper.cpp:1110, 1122: bookmarks become alternating START and STOP   *)
(* markers, and no old ones are left between them.                         *)
Alternating(l, option) ==
  LET cuts == CutList(l)
  IN  /\ Len(cuts) = Len(Bookmarks(list))
      /\ \A i \in DOMAIN cuts :
           cuts[i] = [pic  |-> SortSeq(Bookmarks(list), <)[i],
                      type |-> CutType(option, i, 0)]

(* main.cpp:95: cutting at the aspect changes keeps only 4:3 (2) or only   *)
(* 16:9 (3) pictures.  The last picture of a file is never exported.       *)
OfAspect(option) == {pic \in 0 .. Pictures - 2 : Aspect[pic] = option}

(* What comes of bookmarks, whatever markers there were and in whatever    *)
(* order their types stand.  Nothing is claimed of doubles, which only a   *)
(* conversion in place leaves: the two become a START and a STOP of one    *)
(* picture, and all behind them change their types.                        *)
ConvertsCuts ==
  [][\A option \in 0 .. 3 : EditConvert(option) /\ IsInjective(Bookmarks(list)) =>
       IF option < 2 THEN Alternating(list', option)
       ELSE Bookmarks(list) = AspectChanges /\ options.start_bof =>
              Covered' = OfAspect(option)]_vars

(* tvclipper.cpp:974-1003: automatic chapters are set by entries that the  *)
(* table has, and none is closer to the end than the minimal length, but   *)
(* for the search within the tolerance.                                    *)
AutoChaptersFit ==
  [][EditAutoChapters /\ table # << >> =>
       /\ ~pastend'
       /\ \A item \in ToSet(list') \ ToSet(list) :
            OutPictures(table) - OutPicture(table, item.pic)
              > ChapterMinimum - Max({ChapterTolerance - 1, 0})]_vars
=============================================================================
