------------------------------ MODULE Session -------------------------------
(***************************************************************************)
(* The window: opening recordings, what the user may then do, and the      *)
(* player.  open() and others run the event loop while they wait, in       *)
(* dialogs or to show how far they are; a command given then runs to its   *)
(* end inside the one that waits.  `calls' are those that wait, the        *)
(* outermost first.                                                        *)
(*                                                                         *)
(* A recording (mpgfile object) is a number, None if there is none; a      *)
(* deleted one is never used again as a number.  A command that uses one   *)
(* that was deleted, or that is not there, is the end: `crashed'.          *)
(***************************************************************************)
EXTENDS Naturals, Sequences

CONSTANTS
  MaxOpens,   (* bound on the recordings that are opened                   *)
  MaxCalls,   (* bound on the calls that wait at once                      *)
  Recent      (* whether the user opens recordings from the menu of recent *)
              (* files and by dropping them, which nothing disables        *)

ASSUME SessionAssumption ==
  MaxOpens \in Nat \ {0} /\ MaxCalls \in Nat \ {0} /\ Recent \in BOOLEAN

VARIABLES
  mpg,        (* the recording                                             *)
  opened,     (* how many were opened so far                               *)
  imgp,       (* the recording whose pictures the image provider decodes   *)
  enabled,    (* the groups of actions that are enabled                    *)
  calls,
  player,     (* the recording that mplayer was started for                *)
  playing,    (* whether mplayer runs: it may not be installed             *)
  showimage,  (* pictures are shown: not while the player has the window   *)
  names,      (* the recording whose files mpgfilen names                  *)
  marks,      (* the one whose markers are in the event list               *)
  project,    (* the one that is to be saved under the name in prjfilen    *)
  crashed,
  nested,     (* history: a recording was opened while a call waited, or   *)
              (* from the menu of recent files while mplayer ran           *)
  early       (* history: the slider was moved while this recording, or    *)
              (* the one that was given up last, was indexed               *)

files   == <<names, marks, project>>
mplayer == <<player, playing, showimage>>
history == <<nested, early>>
vars    == <<mpg, opened, imgp, enabled, calls, mplayer, files, crashed, history>>

None == 0

(* save: saving and exporting; edit: markers; view: kinds of pictures.     *)
Document == {"save", "play", "edit", "view"}
All      == Document \cup {"open"}

Waits(at, own) == [at |-> at, own |-> own]
Push(at, own)  == calls' = Append(calls, Waits(at, own)) /\ Len(calls) < MaxCalls
Top            == calls[Len(calls)]
Outer          == SubSeq(calls, 1, Len(calls) - 1)
In(at)         == ~crashed /\ calls # << >> /\ Top.at = at

(* Dialogs that must be answered first.  The progress of an export is not  *)
(* one of them, nor that in the status bar.                                *)
Modal == {"files", "indexname", "message"}
Blocked == \E i \in DOMAIN calls : calls[i].at \in Modal
User(group) == ~crashed /\ group \in enabled /\ ~Blocked

Init ==
  /\ mpg = None /\ opened = 0 /\ imgp = None
  /\ enabled = {"open", "view"}
  /\ calls = << >> /\ player = None /\ playing = FALSE /\ showimage = TRUE
  /\ names = None /\ marks = None /\ project = None
  /\ crashed = FALSE /\ nested = FALSE /\ early = FALSE

-----------------------------------------------------------------------------
(* open()                                                                  *)
FileOpen ==
  /\ User("open")
  /\ Push("files", mpg)
  /\ UNCHANGED <<mpg, opened, imgp, enabled, mplayer, files, crashed, history>>

NothingChosen ==
  /\ In("files") /\ calls' = Outer
  /\ UNCHANGED <<mpg, opened, imgp, enabled, mplayer, files, crashed, history>>

(* Mutated form: what shows the pictures stays.                            *)
FreeMpg == mpg' = None
FreeMpgData == mpg' = None /\ imgp' = None

(* prepareToOpeninMpgFile(), up to the name of the index: the file may be  *)
(* a project, or one that cannot be read.  The new recording will have the *)
(* next number.                                                            *)
Prepare(outer) ==
  /\ opened < MaxOpens /\ opened' = opened + 1
  /\ FreeMpgData /\ early' = FALSE
  /\ \/ project' = None /\ calls' = Append(outer, Waits("message", None))
     \/ /\ project' \in {None, opened'}
        /\ calls' = Append(outer, Waits("indexname", opened'))
  /\ UNCHANGED <<enabled, mplayer, names, marks, crashed>>

FilesChosen ==
  /\ In("files") /\ Prepare(Outer)
  /\ nested' = (nested \/ Outer # << >>)

OpenRecent ==
  /\ Recent /\ ~crashed /\ ~Blocked /\ Len(calls) < MaxCalls
  /\ Prepare(calls)
  /\ nested' = (nested \/ calls # << >> \/ player # None)

IndexNameRejected ==
  /\ In("indexname") /\ calls' = Outer
  /\ UNCHANGED <<mpg, opened, imgp, enabled, mplayer, files, crashed, history>>

(* The event list is emptied by setUiForOpeningFile(false).  Mutated form: *)
(* it is kept.                                                             *)
ListKept == marks
ListCleared == None

(* The rest, if there is an index: the markers of a project are added and  *)
(* setUiForOpeningFile(true) shows the first picture.                      *)
Opened(id) ==
  /\ mpg' = id /\ imgp' = id /\ early' = FALSE
  /\ enabled' = All /\ showimage' = TRUE
  /\ names' = id
  /\ \/ marks' = ListCleared
     \/ project # None /\ marks' = project
  /\ calls' = Append(Outer, Waits("shown", id))

(* setUiForOpeningFile(false); the files are opened and an index looked    *)
(* for.  If there is none it is made.                                      *)
IndexNamed ==
  /\ In("indexname")
  /\ \/ Opened(Top.own)
     \/ /\ \/ mpg' = None /\ calls' = Append(Outer, Waits("message", None))
           \/ /\ mpg' = Top.own
              /\ calls' = Append(Outer, Waits("indexing", Top.own))
        /\ enabled' = {} /\ marks' = ListCleared
        /\ UNCHANGED <<imgp, names, showimage, early>>
  /\ UNCHANGED <<opened, player, playing, project, crashed, nested>>

Crash ==
  /\ crashed' = TRUE
  /\ UNCHANGED <<mpg, opened, imgp, enabled, calls, mplayer, files, history>>

(* Mutated form: as after the message, which comes behind it.              *)
NotYetEnabled == enabled
OpenEnabled == enabled \cup {"open"}

(* If it fails, finds no picture or is cancelled, the recording is deleted,*)
(* but not what was made to show its pictures.                             *)
Indexed ==
  /\ In("indexing") /\ Top.own = mpg
  /\ \/ Opened(mpg)
     \/ /\ mpg' = None
        /\ \/ /\ calls' = Append(Outer, Waits("message", None))
              /\ UNCHANGED enabled
           \/ calls' = Outer /\ enabled' = OpenEnabled
        /\ UNCHANGED <<imgp, names, marks, showimage, early>>
  /\ UNCHANGED <<opened, player, playing, project, crashed, nested>>

IndexedAfterClose == In("indexing") /\ Top.own # mpg /\ Crash

MessageRead ==
  /\ In("message") /\ calls' = Outer
  /\ enabled' = enabled \cup {"open"}
  /\ UNCHANGED <<mpg, opened, imgp, mplayer, files, crashed, history>>

(* The tracks of the recording, whichever it is now, are listed.           *)
Shown ==
  /\ In("shown")
  /\ IF mpg = None THEN Crash
     ELSE /\ calls' = Outer
          /\ UNCHANGED <<mpg, opened, imgp, enabled, mplayer, files, crashed, history>>

-----------------------------------------------------------------------------
(* updateImageDisplay(): decodes, shows, and runs the event loop.          *)
ShowImage ==
  LET shows == IF imgp = None THEN mpg ELSE imgp
  IN  IF shows = None \/ shows # mpg
      THEN /\ crashed' = TRUE
           /\ UNCHANGED <<imgp, calls>>
      ELSE /\ imgp' = shows /\ Push("image", None)
           /\ UNCHANGED crashed

Indexing == \E i \in DOMAIN calls : calls[i] = Waits("indexing", mpg)

(* linslidervalue(): looks for the I picture in front in the table of      *)
(* pictures, which is not made yet if the recording is being indexed: that *)
(* may be the end, or give any picture.                                    *)
SliderMoved(shows) ==
  /\ early' = (early \/ Indexing)
  /\ \/ Indexing /\ crashed' = TRUE /\ UNCHANGED <<imgp, calls>>
     \/ IF shows THEN ShowImage ELSE UNCHANGED <<imgp, calls, crashed>>

(* The wheel and the keys, with wheelEvent() and keyPressEvent(), move the *)
(* slider whether or not it is enabled.                                    *)
Slide ==
  /\ ~crashed /\ ~Blocked /\ mpg # None
  /\ SliderMoved(showimage)
  /\ UNCHANGED <<mpg, opened, enabled, mplayer, files, nested>>

ImageShown ==
  /\ In("image") /\ calls' = Outer
  /\ UNCHANGED <<mpg, opened, imgp, enabled, mplayer, files, crashed, history>>

(* Another kind of image provider.                                         *)
View ==
  /\ User("view")
  /\ IF mpg = None THEN Crash
     ELSE /\ imgp' = mpg
          /\ IF showimage THEN Push("image", None) ELSE UNCHANGED calls
          /\ UNCHANGED <<mpg, opened, enabled, mplayer, files, crashed, history>>

(* setViewScaleFactor(), from commands that are always enabled, or because *)
(* the window gets another size, which no dialog prevents.                 *)
Scale ==
  /\ ~crashed /\ imgp # None /\ showimage
  /\ ShowImage
  /\ UNCHANGED <<mpg, opened, enabled, mplayer, files, history>>

(* A marker, with its picture; a provider is made for it if there is none. *)
Edit ==
  /\ User("edit")
  /\ IF mpg = None \/ imgp \notin {None, mpg} THEN Crash
     ELSE /\ marks' = mpg
          /\ UNCHANGED <<mpg, opened, imgp, enabled, calls, mplayer, names,
                         project, crashed, history>>

(* A project gets a name when it is saved for the first time.              *)
Save ==
  /\ User("save") /\ project' = IF project = None THEN names ELSE project
  /\ UNCHANGED <<mpg, opened, imgp, enabled, calls, mplayer, names, marks,
                 crashed, history>>

Export ==
  /\ User("save")
  /\ IF mpg = None THEN Crash
     ELSE /\ Push("exporting", mpg)
          /\ UNCHANGED <<mpg, opened, imgp, enabled, mplayer, files, crashed, history>>

Exported ==
  /\ In("exporting")
  /\ IF mpg # Top.own THEN Crash
     ELSE /\ calls' = Outer
          /\ UNCHANGED <<mpg, opened, imgp, enabled, mplayer, files, crashed, history>>

-----------------------------------------------------------------------------
(* The player.  If it cannot be started, that it exited is never heard,    *)
(* and playPlay() does not start another.  Mutated form: a recording may   *)
(* be opened.                                                              *)
WhilePlayingOpen == {"edit", "view", "stop", "open"}
WhilePlaying == {"edit", "view", "stop"}

(* Nothing is started if the picture does not lie in any of the files.     *)
Play ==
  /\ User("play") /\ player = None
  /\ IF mpg = None THEN Crash
     ELSE /\ \/ player' = mpg /\ playing' \in BOOLEAN
             \/ UNCHANGED <<player, playing>>
          /\ showimage' = FALSE
          /\ enabled' = (enabled \cup {"stop"}) \cap WhilePlaying
          /\ UNCHANGED <<mpg, opened, imgp, calls, files, crashed, history>>

(* It prints how far it is; the slider follows.                            *)
PlayerPrints ==
  /\ ~crashed /\ playing
  /\ IF mpg = None THEN Crash
     ELSE /\ SliderMoved(showimage)
          /\ UNCHANGED <<mpg, opened, enabled, mplayer, files, nested>>

(* Mutated form: playStop() stays enabled.                                 *)
StoppedKeeps(actions) == actions
Stopped(actions) == actions \ {"stop"}

(* It ends, by itself or because of playStop(), whatever waits.            *)
PlayerExits ==
  /\ ~crashed /\ playing
  /\ player' = None /\ playing' = FALSE /\ showimage' = TRUE
  /\ enabled' = Stopped(enabled \cup (All \ WhilePlaying))
  /\ IF mpg = None THEN UNCHANGED <<imgp, calls, crashed, early>>
                   ELSE SliderMoved(TRUE)
  /\ UNCHANGED <<mpg, opened, files, nested>>

Next ==
  \/ FileOpen \/ NothingChosen \/ FilesChosen \/ OpenRecent
  \/ IndexNameRejected \/ IndexNamed \/ Indexed \/ IndexedAfterClose
  \/ MessageRead \/ Shown
  \/ Slide \/ ImageShown \/ View \/ Scale \/ Edit \/ Save \/ Export \/ Exported
  \/ Play \/ PlayerPrints \/ PlayerExits

Spec == Init /\ [][Next]_vars

-----------------------------------------------------------------------------
Places == Modal \cup {"indexing", "shown", "image", "exporting"}

(* playStop() is enabled only while the window is left to the player.      *)
TypeOK ==
  /\ opened \in 0 .. MaxOpens
  /\ {mpg, imgp, player, names, marks, project} \subseteq 0 .. opened
  /\ enabled \subseteq All \cup {"stop"}
  /\ calls \in Seq([at: Places, own: 0 .. opened])
  /\ crashed \in BOOLEAN /\ nested \in BOOLEAN /\ early \in BOOLEAN
  /\ playing \in BOOLEAN /\ (playing => player # None)
  /\ showimage \in BOOLEAN /\ ("stop" \in enabled => ~showimage)

(* When nothing waits and the window is not left to the player, a          *)
(* recording can be opened: every way out of open() gives the user the     *)
(* window back, the early returns and what was opened inside an other call *)
(* included (tvclipper.cpp:2091-2267), and so does the end of the player.  *)
(* A player that cannot be started has none (tvclipper.cpp:1293, 1320):    *)
(* nothing but the recent files is left to go on with.                     *)
CanGoOn ==
  calls = << >> /\ showimage /\ ~crashed => "open" \in enabled

(* A recording that was closed is used again only if another was opened    *)
(* while a call waited or from the menu of recent files while mplayer ran, *)
(* or if the slider was moved while it was indexed: then an index that is  *)
(* not made is read, or what shows its pictures outlives it.  The other    *)
(* crash is a command given when there is no recording.                    *)
SafeAlone ==
  crashed => nested \/ early \/ (mpg = None /\ imgp = None /\ player = None)

(* The pictures shown are those of the recording.  Only those of one that  *)
(* was given up after the slider was moved while it was indexed remain     *)
(* (tvclipper.cpp:2165-2192), and then nothing but another recording to    *)
(* open is enabled, which puts an end to it.  When nothing waits, the      *)
(* names, the markers and the name the recording is saved under are its    *)
(* own too, and it can be worked with (tvclipper.cpp:2178-2263).           *)
OneRecording ==
  ~crashed /\ ~nested =>
    /\ \/ imgp \in {None, mpg}
       \/ early /\ mpg = None /\ enabled \subseteq {"open"}
    /\ calls = << >> /\ mpg # None =>
         /\ names = mpg /\ {marks, project} \subseteq {None, mpg}
         /\ showimage => All \subseteq enabled

(* tvclipper.cpp:1906: "if an MPEG file has already been opened, close it  *)
(* and reset the UI".  What saves a recording is enabled only if there is  *)
(* one.                                                                    *)
UiReset == calls = << >> /\ ~crashed /\ mpg = None => "save" \notin enabled
=============================================================================
