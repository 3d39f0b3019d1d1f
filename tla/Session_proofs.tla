--------------------------- MODULE Session_proofs ---------------------------
(***************************************************************************)
(* Proofs about the window, for any number of recordings and of calls that *)
(* wait inside one another: it can always be used again, it belongs to one *)
(* recording, and only a recording opened inside a waiting call or while   *)
(* mplayer runs, or a slider moved while it was indexed, leads to the use  *)
(* of a deleted one or of a table that is not made yet.                    *)
(***************************************************************************)
EXTENDS Session, SequenceTheorems, TLAPS

Waiting(places) == \E i \in DOMAIN calls : calls[i].at \in places

(* As long as a recording cannot be opened, some call will see to it that  *)
(* it can.                                                                 *)
OpenComesBack ==
  ~crashed /\ showimage /\ "open" \notin enabled =>
    Waiting({"indexing", "message"})

(* What holds as long as each recording is opened by itself.               *)
Alone == ~crashed /\ ~nested

(* open() waits alone and without a player.  Only what the slider shows    *)
(* while it indexes waits inside it, and only that makes a provider of     *)
(* images.                                                                 *)
OpeningAlone ==
  Alone =>
    /\ \A i \in DOMAIN calls :
         calls[i].at \in {"indexname", "indexing", "message"} =>
           /\ player = None
           /\ \A j \in DOMAIN calls :
                j = i \/ (i < j /\ calls[i].at = "indexing" /\ calls[j].at = "image")
    /\ Waiting({"indexname"}) => imgp = None
    /\ Waiting({"indexing"}) => imgp = None \/ early
    /\ Waiting({"files"}) => player = None
    /\ player # None => "open" \notin enabled /\ ~showimage

(* A call that waits works with the recording that is open.                *)
CallOwns ==
  Alone =>
    \A i \in DOMAIN calls :
      /\ calls[i].at \in {"indexing", "shown", "exporting"} =>
           mpg # None /\ calls[i].own = mpg
      /\ calls[i].at \in {"indexname", "message"} => mpg = None
      /\ calls[i].at = "indexname" => calls[i].own # None
      /\ calls[i].at \in {"indexname", "indexing"} =>
           project \in {None, calls[i].own}
      /\ calls[i].at = "indexing" => marks = None /\ enabled = {}

(* The parts of the window belong to the recording, once it is indexed.    *)
OneOwner ==
  Alone =>
    /\ \/ imgp \in {None, mpg}
       \/ early /\ mpg = None /\ enabled \subseteq {"open"}
    /\ player \in {None, mpg}
    /\ mpg # None /\ ~Waiting({"indexing"}) =>
         /\ names = mpg /\ {marks, project} \subseteq {None, mpg}
         /\ showimage => All \subseteq enabled
         /\ {"edit", "view"} \subseteq enabled

IInv ==
  TypeOK /\ OpenComesBack /\ OpeningAlone /\ CallOwns /\ OneOwner /\ SafeAlone

Frames == [at: Places, own: 0 .. opened]

-----------------------------------------------------------------------------
(* The calls behind a push, and without the one on top.                    *)
LEMMA PushFacts ==
  ASSUME NEW S, NEW stack \in Seq(S), NEW c \in S
  PROVE  /\ Append(stack, c) \in Seq(S)
         /\ Len(stack) \in Nat /\ DOMAIN stack = 1 .. Len(stack)
         /\ DOMAIN Append(stack, c) = 1 .. Len(stack) + 1
         /\ Len(Append(stack, c)) = Len(stack) + 1
         /\ Append(stack, c) # << >>
         /\ Append(stack, c)[Len(stack) + 1] = c
         /\ \A i \in 1 .. Len(stack) : Append(stack, c)[i] = stack[i]
BY AppendProperties, LenProperties

LEMMA OuterFacts ==
  ASSUME NEW S, calls \in Seq(S), calls # << >>
  PROVE  /\ Len(calls) \in Nat \ {0} /\ DOMAIN calls = 1 .. Len(calls)
         /\ Outer \in Seq(S) /\ Len(Outer) = Len(calls) - 1
         /\ DOMAIN Outer = 1 .. Len(calls) - 1
         /\ \A i \in 1 .. Len(calls) - 1 : Outer[i] = calls[i]
         /\ Top \in S
<1>1. Len(calls) \in Nat \ {0} /\ DOMAIN calls = 1 .. Len(calls)
  BY EmptySeq, LenProperties
<1>2. \A i \in 1 .. Len(calls) - 1 : calls[i] \in S
  BY <1>1, ElementOfSeq
<1>3. /\ Outer \in Seq(S) /\ Len(Outer) = Len(calls) - 1
      /\ \A i \in 1 .. Len(calls) - 1 : Outer[i] = calls[i]
  BY <1>1, <1>2, SubSeqProperties DEF Outer
<1>4. DOMAIN Outer = 1 .. Len(calls) - 1
  BY <1>3, LenProperties
<1>5. Top \in S
  BY <1>1, ElementOfSeq DEF Top
<1>6. QED
  BY <1>1, <1>3, <1>4, <1>5

-----------------------------------------------------------------------------
(* What the steps of a call have in common.                                *)

(* The program ends: only where it may.                                    *)
LEMMA EndIInv ==
  ASSUME TypeOK', crashed',
         nested' \/ early' \/ (mpg = None /\ imgp = None /\ player = None)'
  PROVE  IInv'
BY DEF IInv, OpenComesBack, OpeningAlone, CallOwns, OneOwner, SafeAlone, Alone

LEMMA CrashIInv ==
  ASSUME IInv, Crash, nested \/ early \/ (mpg = None /\ imgp = None /\ player = None)
  PROVE  IInv'
<1>1. crashed' /\ UNCHANGED <<mpg, opened, imgp, enabled, calls, player, playing,
                              showimage, names, marks, project, nested, early>>
  BY DEF Crash, mplayer, files, history
<1>2. TypeOK'
  BY <1>1 DEF IInv, TypeOK, Crash
<1>3. QED
  BY <1>1, <1>2, EndIInv

(* Nothing is asked of it once a recording was opened inside a call.       *)
LEMMA NestedIInv ==
  ASSUME TypeOK', OpenComesBack', nested'
  PROVE  IInv'
BY DEF IInv, OpeningAlone, CallOwns, OneOwner, SafeAlone, Alone

(* A call that goes on to its end without a change.                        *)
LEMMA PopIInv ==
  ASSUME IInv, NEW at, In(at), at \notin {"indexing", "message"}, calls' = Outer,
         UNCHANGED <<mpg, opened, imgp, enabled, mplayer, files, crashed, history>>
  PROVE  IInv'
<1>1. /\ TypeOK /\ OpenComesBack /\ OpeningAlone /\ CallOwns /\ OneOwner
      /\ calls \in Seq(Frames)
  BY DEF IInv, TypeOK, Frames
<1>2. /\ ~crashed /\ Top.at = at
      /\ calls' \in Seq(Frames) /\ Len(calls) \in Nat \ {0}
      /\ DOMAIN calls = 1 .. Len(calls) /\ Len(calls') = Len(calls) - 1
      /\ DOMAIN calls' = 1 .. Len(calls) - 1
      /\ \A i \in 1 .. Len(calls) - 1 : calls'[i] = calls[i]
  BY <1>1, OuterFacts DEF In
<1>3. \A i \in DOMAIN calls' : i \in DOMAIN calls /\ calls'[i] = calls[i]
  BY <1>2
<1>4. \A i \in DOMAIN calls :
        calls[i].at \in {"indexing", "message"} => i \in DOMAIN calls'
  BY <1>2 DEF Top
<1>6. UNCHANGED <<mpg, opened, imgp, enabled, player, playing, showimage, names,
                  marks, project, crashed, nested, early>>
  BY DEF mplayer, files, history
<1>7. TypeOK'
  BY <1>1, <1>2, <1>6 DEF TypeOK, Frames
<1>8. OpenComesBack'
  BY <1>1, <1>3, <1>4, <1>6 DEF OpenComesBack, Waiting
<1>9. OpeningAlone'
  BY <1>1, <1>3, <1>6 DEF OpeningAlone, Alone, Waiting
<1>10. CallOwns'
  BY <1>1, <1>3, <1>6 DEF CallOwns, Alone
<1>11. OneOwner'
  BY <1>1, <1>3, <1>4, <1>6 DEF OneOwner, Alone, Waiting
<1>12. SafeAlone'
  BY <1>2, <1>6 DEF SafeAlone
<1>13. QED
  BY <1>7, <1>8, <1>9, <1>10, <1>11, <1>12 DEF IInv

(* A command that waits.  Only pictures are shown while a recording is     *)
(* indexed.                                                                *)
LEMMA PushIInv ==
  ASSUME IInv, ~crashed, NEW at \in {"files", "image", "exporting"},
         NEW own \in 0 .. opened, Push(at, own),
         Alone => ~Waiting({"indexname", "message"}),
         at # "image" => (Alone => ~Waiting({"indexing"})),
         at = "files" => "open" \in enabled,
         at = "exporting" => mpg # None /\ own = mpg,
         imgp' \in {imgp, mpg},
         Alone /\ Waiting({"indexing"}) => imgp' = imgp \/ early',
         early' \in BOOLEAN, early => early',
         UNCHANGED <<mpg, opened, enabled, mplayer, files, crashed, nested>>
  PROVE  IInv'
<1>1. /\ TypeOK /\ OpenComesBack /\ OpeningAlone /\ CallOwns /\ OneOwner
      /\ calls \in Seq(Frames)
  BY DEF IInv, TypeOK, Frames
<1>2. UNCHANGED <<mpg, opened, enabled, player, playing, showimage, names, marks,
                  project, crashed, nested>>
  BY DEF mplayer, files
<1>3. Waits(at, own) \in Frames
  BY DEF Waits, Frames, Places, Modal
<1>4. /\ calls' \in Seq(Frames) /\ Len(calls) \in Nat
      /\ DOMAIN calls = 1 .. Len(calls) /\ DOMAIN calls' = 1 .. Len(calls) + 1
      /\ calls'[Len(calls) + 1] = [at |-> at, own |-> own]
      /\ \A i \in 1 .. Len(calls) : calls'[i] = calls[i]
  BY <1>1, <1>3, PushFacts DEF Push, Waits
<1>5. TypeOK'
  BY <1>1, <1>2, <1>4 DEF TypeOK, Frames
<1>6. OpenComesBack' /\ SafeAlone'
  BY <1>1, <1>2, <1>4 DEF OpenComesBack, Waiting, SafeAlone
<1>7. Alone' => Alone
  BY <1>2 DEF Alone
<1>8. Alone => ~Waiting({"indexname", "message"})'
  BY <1>4 DEF Waiting
<1>9. Alone => (Waiting({"indexing"})' <=> Waiting({"indexing"}))
  BY <1>4 DEF Waiting
<1>10. OpeningAlone'
  <2> SUFFICES ASSUME Alone' PROVE OpeningAlone'
    BY DEF OpeningAlone
  <2>1. ASSUME NEW i \in DOMAIN calls',
               calls'[i].at \in {"indexname", "indexing", "message"}
        PROVE  /\ player' = None
               /\ \A j \in DOMAIN calls' :
                    j = i \/ (i < j /\ calls'[i].at = "indexing" /\ calls'[j].at = "image")
    <3>1. calls'[i].at = "indexing"
      BY <1>7, <1>8, <2>1 DEF Waiting
    <3>2. i \in DOMAIN calls /\ calls[i].at = "indexing"
      BY <1>4, <3>1
    <3>3. at = "image"
      BY <1>7, <3>2 DEF Waiting
    <3>4. player = None /\ \A j \in DOMAIN calls : j = i \/ (i < j /\ calls[j].at = "image")
      BY <1>1, <1>7, <3>2 DEF OpeningAlone
    <3>5. QED
      BY <1>2, <1>4, <3>1, <3>2, <3>3, <3>4
  <2>2. Waiting({"files"})' => player' = None
    BY <1>1, <1>2, <1>4, <1>7 DEF OpeningAlone, Waiting
  <2>3. Waiting({"indexing"})' => imgp' = None \/ early'
    BY <1>1, <1>7, <1>9 DEF OpeningAlone
  <2>4. ~Waiting({"indexname"})'
    BY <1>7, <1>8 DEF Waiting
  <2>5. player' # None => "open" \notin enabled' /\ ~showimage'
    BY <1>1, <1>2, <1>7 DEF OpeningAlone
  <2>6. QED
    BY <2>1, <2>2, <2>3, <2>4, <2>5 DEF OpeningAlone
<1>11. CallOwns'
  BY <1>1, <1>2, <1>4, <1>7 DEF CallOwns
<1>12. OneOwner'
  BY <1>1, <1>2, <1>7, <1>9 DEF OneOwner
<1>13. QED
  BY <1>5, <1>6, <1>10, <1>11, <1>12 DEF IInv

(* What is not done while a recording is opened, unless another was opened *)
(* inside it.                                                              *)
LEMMA UserFacts ==
  ASSUME IInv, NEW group, User(group)
  PROVE  /\ ~crashed /\ group \in enabled
         /\ Alone => ~Waiting({"files", "indexname", "indexing", "message"})
<1>1. CallOwns
  BY DEF IInv
<1>2. ~crashed /\ group \in enabled /\ ~Waiting(Modal)
  BY DEF User, Blocked, Waiting
<1>3. QED
  BY <1>1, <1>2 DEF CallOwns, Waiting, Modal

-----------------------------------------------------------------------------
(* open()                                                                  *)
LEMMA FileOpenIInv == IInv /\ FileOpen => IInv'
<1> SUFFICES ASSUME IInv, FileOpen PROVE IInv'
  OBVIOUS
<1>1. mpg \in 0 .. opened /\ early \in BOOLEAN
  BY DEF IInv, TypeOK
<1>2. ~crashed /\ "open" \in enabled
      /\ (Alone => ~Waiting({"indexname", "message"}) /\ ~Waiting({"indexing"}))
  BY UserFacts DEF FileOpen, Waiting
<1>3. /\ Push("files", mpg) /\ imgp' = imgp /\ early' = early
      /\ UNCHANGED <<mpg, opened, enabled, mplayer, files, crashed, nested>>
  BY DEF FileOpen, history
<1>4. QED
  BY <1>1, <1>2, <1>3, PushIInv

LEMMA NothingChosenIInv == IInv /\ NothingChosen => IInv'
BY PopIInv DEF NothingChosen

(* The calls `outer' are those that wait for this one.                     *)
LEMMA PrepareIInv ==
  ASSUME IInv, ~crashed, NEW outer \in Seq(Frames), Prepare(outer),
         \A i \in DOMAIN calls :
           calls[i].at \in {"indexing", "message"} =>
             i \in DOMAIN outer /\ outer[i] = calls[i],
         nested' \in BOOLEAN,
         ~nested' => ~nested /\ outer = << >> /\ player = None
  PROVE  IInv'
<1>1. TypeOK /\ OpenComesBack
  BY DEF IInv
<1>2. /\ opened' = opened + 1 /\ opened \in Nat /\ opened < MaxOpens
      /\ mpg' = None /\ imgp' = None /\ early' = FALSE
      /\ UNCHANGED <<enabled, player, playing, showimage, names, marks, crashed>>
  BY <1>1 DEF Prepare, FreeMpgData, TypeOK, mplayer
<1>3. PICK c : /\ calls' = Append(outer, c)
               /\ \/ project' = None /\ c = Waits("message", None)
                  \/ /\ project' \in {None, opened'}
                     /\ c = Waits("indexname", opened')
  BY DEF Prepare
<1> DEFINE S == [at: Places, own: 0 .. opened']
<1>4. c \in S
  BY <1>2, <1>3 DEF Waits, Places, Modal, None
<1>5. Frames \subseteq S
  BY <1>2 DEF Frames
<1>6. outer \in Seq(S)
  BY <1>5, SeqMonotonic
<1> HIDE DEF S
<1>7. /\ calls' \in Seq(S) /\ Len(outer) \in Nat /\ Len(calls') = Len(outer) + 1
      /\ DOMAIN outer = 1 .. Len(outer) /\ DOMAIN calls' = 1 .. Len(outer) + 1
      /\ calls'[Len(outer) + 1] = c
      /\ \A i \in 1 .. Len(outer) : calls'[i] = outer[i]
  BY <1>3, <1>4, <1>6, PushFacts
<1>8. TypeOK'
  <2>1. opened' \in 0 .. MaxOpens
    BY <1>2, SessionAssumption
  <2>2. {mpg, imgp, player, names, marks, project}' \subseteq 0 .. opened'
    BY <1>1, <1>2, <1>3 DEF TypeOK, None
  <2>3. QED
    BY <1>1, <1>2, <1>7, <2>1, <2>2 DEF TypeOK, S
<1>9. OpenComesBack'
  BY <1>1, <1>2, <1>7 DEF OpenComesBack, Waiting
<1>10. ASSUME Alone'
       PROVE  /\ Len(calls') = 1 /\ player' = None /\ calls'[1] = c
              /\ DOMAIN calls' = {1}
  <2>1. outer = << >> /\ player = None
    BY <1>10 DEF Alone
  <2>2. Len(outer) = 0
    BY <2>1
  <2>3. QED
    BY <1>2, <1>7, <2>1, <2>2
<1>11. OpeningAlone'
  <2>1. Alone' => c.at \in {"message", "indexname"}
    BY <1>3 DEF Waits
  <2>2. QED
    BY <1>2, <1>10, <2>1 DEF OpeningAlone, Waiting
<1>12. CallOwns'
  BY <1>2, <1>3, <1>10 DEF CallOwns, Waits, None
<1>13. OneOwner'
  BY <1>2, <1>10 DEF OneOwner
<1>14. SafeAlone'
  BY <1>2 DEF SafeAlone
<1>15. QED
  BY <1>8, <1>9, <1>11, <1>12, <1>13, <1>14 DEF IInv

LEMMA FilesChosenIInv == IInv /\ FilesChosen => IInv'
<1> SUFFICES ASSUME IInv, FilesChosen PROVE IInv'
  OBVIOUS
<1>1. TypeOK /\ OpeningAlone /\ calls \in Seq(Frames)
  BY DEF IInv, TypeOK, Frames
<1>2. /\ ~crashed /\ calls # << >> /\ Top.at = "files"
      /\ Prepare(Outer) /\ nested' = (nested \/ Outer # << >>)
  BY DEF FilesChosen, In
<1>3. /\ Outer \in Seq(Frames) /\ Len(calls) \in Nat \ {0}
      /\ DOMAIN calls = 1 .. Len(calls) /\ DOMAIN Outer = 1 .. Len(calls) - 1
      /\ \A i \in 1 .. Len(calls) - 1 : Outer[i] = calls[i]
  BY <1>1, <1>2, OuterFacts
<1>4. \A i \in DOMAIN calls :
        calls[i].at \in {"indexing", "message"} =>
          i \in DOMAIN Outer /\ Outer[i] = calls[i]
  BY <1>2, <1>3 DEF Top
<1>5. Waiting({"files"})
  BY <1>2, <1>3 DEF Waiting, Top
<1>6. ~nested' => ~nested /\ Outer = << >> /\ player = None
  BY <1>1, <1>2, <1>5 DEF OpeningAlone, Alone
<1>7. nested' \in BOOLEAN
  BY <1>2
<1>8. QED
  BY <1>2, <1>3, <1>4, <1>6, <1>7, PrepareIInv

LEMMA OpenRecentIInv == IInv /\ OpenRecent => IInv'
<1> SUFFICES ASSUME IInv, OpenRecent PROVE IInv'
  OBVIOUS
<1>1. calls \in Seq(Frames)
  BY DEF IInv, TypeOK, Frames
<1>2. /\ ~crashed /\ Prepare(calls)
      /\ nested' = (nested \/ calls # << >> \/ player # None)
  BY DEF OpenRecent
<1>3. nested' \in BOOLEAN
  BY <1>2
<1>4. QED
  BY <1>1, <1>2, <1>3, PrepareIInv

LEMMA IndexNameRejectedIInv == IInv /\ IndexNameRejected => IInv'
BY PopIInv DEF IndexNameRejected

(* The call on top waits in another place.                                 *)
LEMMA ReplaceFacts ==
  ASSUME calls \in Seq(Frames), calls # << >>, NEW c \in Frames,
         calls' = Append(Outer, c)
  PROVE  /\ calls' \in Seq(Frames) /\ Len(calls) \in Nat \ {0}
         /\ DOMAIN calls = 1 .. Len(calls) /\ Len(calls') = Len(calls)
         /\ DOMAIN calls' = 1 .. Len(calls) /\ calls'[Len(calls)] = c
         /\ \A i \in 1 .. Len(calls) - 1 : calls'[i] = calls[i]
         /\ Top \in Frames
<1>1. /\ Len(calls) \in Nat \ {0} /\ DOMAIN calls = 1 .. Len(calls)
      /\ Len(Outer) = Len(calls) - 1 /\ Top \in Frames
      /\ \A i \in 1 .. Len(calls) - 1 : Outer[i] = calls[i]
  BY OuterFacts
<1>2. Outer \in Seq(Frames)
  BY OuterFacts
<1>3. /\ calls' \in Seq(Frames) /\ DOMAIN calls' = 1 .. Len(Outer) + 1
      /\ Len(calls') = Len(Outer) + 1 /\ calls'[Len(Outer) + 1] = c
      /\ \A i \in 1 .. Len(Outer) : calls'[i] = Outer[i]
  BY <1>2, PushFacts
<1>4. Len(Outer) + 1 = Len(calls)
  BY <1>1
<1>5. QED
  BY <1>1, <1>3, <1>4

(* What open() relies on while it waits for the name of the index or makes *)
(* it.                                                                     *)
LEMMA OpeningFacts ==
  ASSUME IInv, Alone, calls # << >>,
         Top.at \in {"indexname", "indexing", "message"}
  PROVE  /\ Len(calls) = 1 /\ calls[1] = Top /\ player = None
         /\ \/ imgp = None
            \/ early /\ enabled \subseteq {"open"} /\ Top.at # "indexname"
         /\ Top.at # "message" => Top.own # None /\ project \in {None, Top.own}
         /\ Top.at # "indexing" => mpg = None
         /\ Top.at = "indexing" =>
              mpg = Top.own /\ marks = None /\ enabled = {}
<1>1. OpeningAlone /\ CallOwns /\ OneOwner /\ calls \in Seq(Frames)
  BY DEF IInv, TypeOK, Frames
<1>2. Len(calls) \in Nat \ {0} /\ DOMAIN calls = 1 .. Len(calls)
  BY <1>1, OuterFacts
<1>3. /\ player = None
      /\ \A j \in DOMAIN calls : j = Len(calls) \/ Len(calls) < j
  BY <1>1, <1>2 DEF OpeningAlone, Top
<1>4. Len(calls) = 1
  <2>1. 1 \in DOMAIN calls
    BY <1>2
  <2>2. QED
    BY <1>2, <1>3, <2>1
<1>5. calls[1] = Top /\ 1 \in DOMAIN calls
  BY <1>2, <1>4 DEF Top
<1>6. /\ Top.at # "message" => Top.own # None /\ project \in {None, Top.own}
      /\ Top.at # "indexing" => mpg = None
      /\ Top.at = "indexing" =>
           mpg = Top.own /\ marks = None /\ enabled = {}
  BY <1>1, <1>5 DEF CallOwns
<1>7. Top.at = "indexname" => imgp = None
  BY <1>1, <1>5 DEF OpeningAlone, Waiting
<1>8. Top.at = "indexing" => imgp = None \/ early
  BY <1>1, <1>5 DEF OpeningAlone, Waiting
<1>9. Top.at = "message" => imgp = None \/ (early /\ enabled \subseteq {"open"})
  BY <1>1, <1>6 DEF OneOwner
<1>10. QED
  BY <1>3, <1>4, <1>5, <1>6, <1>7, <1>8, <1>9

LEMMA OpenedIInv ==
  ASSUME IInv, ~crashed, calls # << >>, Top.at \in {"indexname", "indexing"},
         Opened(Top.own),
         UNCHANGED <<opened, player, playing, project, crashed, nested>>
  PROVE  IInv'
<1>1. TypeOK /\ calls \in Seq(Frames) /\ Top \in Frames
  <2>1. calls \in Seq(Frames)
    BY DEF IInv, TypeOK, Frames
  <2>2. QED
    BY <2>1, OuterFacts DEF IInv
<1>2. /\ mpg' = Top.own /\ imgp' = Top.own /\ enabled' = All /\ names' = Top.own
      /\ marks' \in {None, project} /\ calls' = Append(Outer, Waits("shown", Top.own))
      /\ early' = FALSE /\ showimage' = TRUE
      /\ UNCHANGED <<opened, player, playing, project, crashed, nested>>
  BY DEF Opened, ListCleared
<1>3. Waits("shown", Top.own) \in Frames
  BY <1>1 DEF Waits, Frames, Places
<1>4. /\ calls' \in Seq(Frames) /\ DOMAIN calls' = 1 .. Len(calls)
      /\ calls'[Len(calls)] = Waits("shown", Top.own)
  BY <1>1, <1>2, <1>3, ReplaceFacts
<1>5. TypeOK'
  <2>1. {mpg', imgp', player', names', marks', project'} \subseteq 0 .. opened'
    BY <1>1, <1>2 DEF TypeOK, Frames, None
  <2>2. enabled' \subseteq All \cup {"stop"} /\ "stop" \notin enabled'
    BY <1>2 DEF All, Document
  <2>3. calls' \in Seq([at: Places, own: 0 .. opened'])
    BY <1>2, <1>4 DEF Frames
  <2>4. /\ opened' \in 0 .. MaxOpens /\ nested' \in BOOLEAN /\ early' \in BOOLEAN
        /\ playing' \in BOOLEAN /\ showimage' \in BOOLEAN /\ crashed' \in BOOLEAN
    <3>1. /\ opened \in 0 .. MaxOpens /\ nested \in BOOLEAN /\ playing \in BOOLEAN
          /\ crashed \in BOOLEAN
      BY <1>1 DEF TypeOK
    <3>2. QED
      BY <1>2, <3>1, Zenon
  <2>5. playing' => player' # None
    BY <1>1, <1>2 DEF TypeOK
  <2>6. QED
    BY <2>1, <2>2, <2>3, <2>4, <2>5, Zenon DEF TypeOK
<1>6. OpenComesBack'
  BY <1>2 DEF OpenComesBack, All
<1>7. ASSUME Alone'
      PROVE  /\ DOMAIN calls' = {1} /\ calls'[1] = Waits("shown", mpg')
             /\ mpg' # None /\ player' = None /\ project' \in {None, mpg'}
  <2>1. Alone
    BY <1>2, <1>7 DEF Alone
  <2>2. /\ Len(calls) = 1 /\ player = None
        /\ Top.own # None /\ project \in {None, Top.own}
    BY <2>1, OpeningFacts
  <2>3. QED
    BY <1>2, <1>4, <2>2
<1>8. OpeningAlone'
  BY <1>7 DEF OpeningAlone, Waiting, Waits
<1>9. CallOwns'
  BY <1>7 DEF CallOwns, Waits
<1>10. OneOwner'
  BY <1>2, <1>7 DEF OneOwner, All, Document, None
<1>11. SafeAlone'
  BY <1>2 DEF SafeAlone
<1>12. QED
  BY <1>5, <1>6, <1>8, <1>9, <1>10, <1>11 DEF IInv

(* open() shows a message before it gives up.                              *)
LEMMA MessageIInv ==
  ASSUME IInv, ~crashed, calls # << >>, Top.at \in {"indexname", "indexing"},
         mpg' = None, calls' = Append(Outer, Waits("message", None)),
         enabled' \in {enabled, {}}, marks' \in {marks, None},
         UNCHANGED <<imgp, names, opened, player, playing, showimage, project,
                     crashed, nested, early>>
  PROVE  IInv'
<1>1. TypeOK /\ OpenComesBack /\ calls \in Seq(Frames)
  BY DEF IInv, TypeOK, Frames
<1>3. Waits("message", None) \in Frames
  BY <1>1 DEF Waits, Frames, Places, Modal, TypeOK, None
<1>4. /\ calls' \in Seq(Frames) /\ DOMAIN calls' = 1 .. Len(calls)
      /\ Len(calls') = Len(calls) /\ Len(calls) \in Nat \ {0}
      /\ calls'[Len(calls)] = Waits("message", None)
  BY <1>1, <1>3, ReplaceFacts
<1>5. TypeOK'
  BY <1>1, <1>4 DEF TypeOK, Frames, None
<1>6. OpenComesBack'
  BY <1>4 DEF OpenComesBack, Waiting, Waits
<1>7. ASSUME Alone'
      PROVE  /\ DOMAIN calls' = {1} /\ calls'[1] = Waits("message", None)
             /\ player' = None
             /\ imgp' = None \/ (early' /\ enabled' \subseteq {"open"})
  <2>1. Alone
    BY <1>7 DEF Alone
  <2>2. /\ Len(calls) = 1 /\ player = None
        /\ imgp = None \/ (early /\ enabled \subseteq {"open"})
    BY <2>1, OpeningFacts
  <2>3. QED
    BY <1>4, <2>2
<1>8. OpeningAlone'
  BY <1>7 DEF OpeningAlone, Waiting, Waits
<1>9. CallOwns'
  BY <1>7 DEF CallOwns, Waits
<1>10. OneOwner'
  BY <1>7 DEF OneOwner
<1>11. SafeAlone'
  BY DEF SafeAlone
<1>12. QED
  BY <1>5, <1>6, <1>8, <1>9, <1>10, <1>11 DEF IInv

LEMMA IndexNamedIInv == IInv /\ IndexNamed => IInv'
<1> SUFFICES ASSUME IInv, IndexNamed PROVE IInv'
  OBVIOUS
<1>1. /\ ~crashed /\ calls # << >> /\ Top.at = "indexname"
      /\ UNCHANGED <<opened, player, playing, project, crashed, nested>>
  BY DEF IndexNamed, In
<1>2. CASE Opened(Top.own)
  BY <1>1, <1>2, OpenedIInv
<1>3. CASE /\ mpg' = None /\ imgp' = imgp /\ enabled' = {}
           /\ calls' = Append(Outer, Waits("message", None))
           /\ marks' = ListCleared /\ UNCHANGED <<names, showimage, early>>
  BY <1>1, <1>3, MessageIInv DEF ListCleared
<1>4. CASE /\ mpg' = Top.own /\ imgp' = imgp /\ enabled' = {}
           /\ calls' = Append(Outer, Waits("indexing", Top.own))
           /\ marks' = ListCleared /\ UNCHANGED <<names, showimage, early>>
  <2>1. TypeOK /\ calls \in Seq(Frames) /\ Top \in Frames
    <3>1. calls \in Seq(Frames)
      BY DEF IInv, TypeOK, Frames
    <3>2. QED
      BY <1>1, <3>1, OuterFacts DEF IInv
  <2>2. UNCHANGED <<opened, player, playing, showimage, project, crashed, nested>>
    BY <1>1, <1>4
  <2>3. Waits("indexing", Top.own) \in Frames
    BY <2>1 DEF Waits, Frames, Places
  <2>4. /\ calls' \in Seq(Frames) /\ DOMAIN calls' = 1 .. Len(calls)
        /\ Len(calls') = Len(calls) /\ Len(calls) \in Nat \ {0}
        /\ calls'[Len(calls)] = Waits("indexing", Top.own)
    BY <1>1, <1>4, <2>1, <2>3, ReplaceFacts
  <2>5. TypeOK'
    BY <1>4, <2>1, <2>2, <2>4 DEF TypeOK, Frames, ListCleared, None
  <2>6. OpenComesBack'
    BY <2>4 DEF OpenComesBack, Waiting, Waits
  <2>7. ASSUME Alone'
        PROVE  /\ DOMAIN calls' = {1} /\ calls'[1] = Waits("indexing", mpg')
               /\ player' = None /\ imgp' = None /\ mpg' # None
               /\ project' \in {None, mpg'}
    <3>1. Alone
      BY <2>2, <2>7 DEF Alone
    <3>2. /\ Len(calls) = 1 /\ player = None /\ imgp = None /\ Top.own # None
          /\ project \in {None, Top.own}
      BY <1>1, <3>1, OpeningFacts
    <3>3. QED
      BY <1>4, <2>2, <2>4, <3>2
  <2>8. OpeningAlone'
    BY <2>7 DEF OpeningAlone, Waiting, Waits
  <2>9. CallOwns'
    BY <1>4, <2>7 DEF CallOwns, Waits, ListCleared
  <2>10. OneOwner'
    BY <2>7 DEF OneOwner, Waiting, Waits
  <2>11. SafeAlone'
    BY <1>1, <2>2 DEF SafeAlone
  <2>12. QED
    BY <2>5, <2>6, <2>8, <2>9, <2>10, <2>11 DEF IInv
<1>5. QED
  BY <1>1, <1>2, <1>3, <1>4 DEF IndexNamed

(* An open() that gives up, and leaves what can be enabled to be so.       *)
LEMMA GivesUpIInv ==
  ASSUME IInv, ~crashed, calls # << >>, Top.at \in {"indexing", "message"},
         calls' = Outer, enabled' = enabled \cup {"open"}, mpg' \in {mpg, None},
         Top.at = "indexing" => mpg' = None,
         UNCHANGED <<imgp, names, marks, opened, player, playing, showimage, project,
                     crashed, nested, early>>
  PROVE  IInv'
<1>1. TypeOK /\ calls \in Seq(Frames)
  BY DEF IInv, TypeOK, Frames
<1>3. /\ calls' \in Seq(Frames) /\ DOMAIN calls' = 1 .. Len(calls) - 1
      /\ Len(calls) \in Nat \ {0} /\ DOMAIN calls = 1 .. Len(calls)
  BY <1>1, OuterFacts
<1>4. TypeOK'
  BY <1>1, <1>3 DEF TypeOK, Frames, All, None
<1>5. OpenComesBack' /\ SafeAlone'
  BY DEF OpenComesBack, SafeAlone
<1>6. ASSUME Alone'
      PROVE  /\ DOMAIN calls' = {} /\ player' = None /\ mpg' = None
             /\ imgp' = None \/ (early' /\ enabled' \subseteq {"open"})
  <2>1. Alone
    BY <1>6 DEF Alone
  <2>2. /\ Len(calls) = 1 /\ player = None
        /\ imgp = None \/ (early /\ enabled \subseteq {"open"})
        /\ Top.at # "indexing" => mpg = None
    BY <2>1, OpeningFacts
  <2>3. QED
    BY <1>3, <2>2
<1>7. OpeningAlone'
  BY <1>6 DEF OpeningAlone, Waiting
<1>8. CallOwns'
  BY <1>6 DEF CallOwns
<1>9. OneOwner'
  BY <1>6 DEF OneOwner
<1>10. QED
  BY <1>4, <1>5, <1>7, <1>8, <1>9 DEF IInv

LEMMA IndexedIInv == IInv /\ Indexed => IInv'
<1> SUFFICES ASSUME IInv, Indexed PROVE IInv'
  OBVIOUS
<1>1. /\ ~crashed /\ calls # << >> /\ Top.at = "indexing" /\ Top.own = mpg
      /\ UNCHANGED <<opened, player, playing, project, crashed, nested>>
  BY DEF Indexed, In
<1>2. CASE Opened(mpg)
  BY <1>1, <1>2, OpenedIInv
<1>3. CASE /\ mpg' = None /\ imgp' = imgp
           /\ calls' = Append(Outer, Waits("message", None))
           /\ UNCHANGED <<enabled, names, marks, showimage, early>>
  BY <1>1, <1>3, MessageIInv
<1>4. CASE /\ mpg' = None /\ imgp' = imgp /\ calls' = Outer
           /\ enabled' = OpenEnabled /\ UNCHANGED <<names, marks, showimage, early>>
  BY <1>1, <1>4, GivesUpIInv DEF OpenEnabled
<1>5. QED
  BY <1>1, <1>2, <1>3, <1>4 DEF Indexed

(* If each recording is opened by itself, the one that is indexed is there *)
(* when that ends.                                                         *)
LEMMA IndexedAfterCloseIInv == IInv /\ IndexedAfterClose => IInv'
<1> SUFFICES ASSUME IInv, IndexedAfterClose PROVE IInv'
  OBVIOUS
<1>1. /\ ~crashed /\ calls # << >> /\ Top.at = "indexing" /\ Top.own # mpg
      /\ Crash
  BY DEF IndexedAfterClose, In
<1>2. ~Alone
  BY <1>1, OpeningFacts
<1>3. QED
  BY <1>1, <1>2, CrashIInv DEF Alone

LEMMA MessageReadIInv == IInv /\ MessageRead => IInv'
<1> SUFFICES ASSUME IInv, MessageRead PROVE IInv'
  OBVIOUS
<1>1. /\ ~crashed /\ calls # << >> /\ Top.at = "message" /\ calls' = Outer
      /\ enabled' = enabled \cup {"open"} /\ mpg' = mpg
      /\ UNCHANGED <<imgp, names, marks, opened, player, playing, showimage, project,
                     crashed, nested, early>>
  BY DEF MessageRead, In, mplayer, files, history
<1>2. QED
  BY <1>1, GivesUpIInv

(* A call that waits works with a recording that is there, if each         *)
(* recording is opened by itself.                                          *)
LEMMA OwnerFacts ==
  ASSUME IInv, Alone, calls # << >>, Top.at \in {"shown", "exporting"}
  PROVE  mpg # None /\ Top.own = mpg
<1>1. CallOwns /\ calls \in Seq(Frames)
  BY DEF IInv, TypeOK, Frames
<1>2. Len(calls) \in DOMAIN calls
  BY <1>1, OuterFacts
<1>3. QED
  BY <1>1, <1>2 DEF CallOwns, Top

LEMMA ShownIInv == IInv /\ Shown => IInv'
<1> SUFFICES ASSUME IInv, Shown PROVE IInv'
  OBVIOUS
<1>1. In("shown")
  BY DEF Shown
<1>2. CASE mpg = None
  <2>1. ~crashed /\ calls # << >> /\ Top.at = "shown" /\ Crash
    BY <1>2 DEF Shown, In
  <2>2. ~Alone
    BY <1>2, <2>1, OwnerFacts
  <2>3. QED
    BY <2>1, <2>2, CrashIInv DEF Alone
<1>3. CASE mpg # None
  BY <1>1, <1>3, PopIInv DEF Shown
<1>4. QED
  BY <1>2, <1>3

-----------------------------------------------------------------------------
(* Commands on a recording.                                                *)
(* Nothing is shown of what the slider is moved to.                        *)
LEMMA EarlyIInv ==
  ASSUME IInv, early' \in BOOLEAN, early => early',
         UNCHANGED <<mpg, opened, imgp, enabled, calls, mplayer, files, crashed, nested>>
  PROVE  IInv'
<1>1. /\ TypeOK /\ OpenComesBack /\ OpeningAlone /\ CallOwns /\ OneOwner
      /\ SafeAlone
  BY DEF IInv
<1>2. UNCHANGED <<mpg, opened, imgp, enabled, calls, player, playing, showimage, names,
                  marks, project, crashed, nested>>
  BY DEF mplayer, files
<1>3. TypeOK'
  BY <1>1, <1>2 DEF TypeOK
<1>4. OpenComesBack' /\ SafeAlone'
  BY <1>1, <1>2 DEF OpenComesBack, Waiting, SafeAlone
<1>5. OpeningAlone'
  BY <1>1, <1>2 DEF OpeningAlone, Alone, Waiting
<1>6. CallOwns' /\ OneOwner'
  BY <1>1, <1>2 DEF CallOwns, OneOwner, Alone, Waiting
<1>7. QED
  BY <1>3, <1>4, <1>5, <1>6 DEF IInv

(* It is shown what the slider, or the size of the picture, now asks for.  *)
LEMMA ShowImageIInv ==
  ASSUME IInv, ~crashed, ShowImage, mpg # None \/ imgp # None,
         Alone /\ mpg # None => ~Waiting({"indexname", "message"}),
         Alone /\ Waiting({"indexing"}) => imgp # None \/ early',
         early' \in BOOLEAN, early => early',
         UNCHANGED <<mpg, opened, enabled, mplayer, files, nested>>
  PROVE  IInv'
<1>1. TypeOK /\ OneOwner
  BY DEF IInv
<1>2. CASE mpg # None /\ imgp \in {None, mpg}
  <2>1. imgp' = mpg /\ Push("image", None) /\ UNCHANGED crashed
    BY <1>2 DEF ShowImage
  <2>2. None \in 0 .. opened
    BY <1>1 DEF TypeOK, None
  <2>3. Alone /\ Waiting({"indexing"}) => imgp' = imgp \/ early'
    BY <1>2, <2>1
  <2>4. QED
    BY <1>2, <2>1, <2>2, <2>3, PushIInv
<1>3. CASE mpg = None \/ imgp \notin {None, mpg}
  <2>1. crashed' = TRUE /\ UNCHANGED <<imgp, calls>>
    BY <1>3 DEF ShowImage
  <2>2. nested' \/ early'
    BY <1>1, <1>3 DEF OneOwner, Alone
  <2>3. UNCHANGED <<player, playing, showimage, names, marks, project>>
    BY DEF mplayer, files
  <2>4. TypeOK'
    BY <1>1, <2>1, <2>3 DEF TypeOK
  <2>5. QED
    BY <2>1, <2>2, <2>4, EndIInv
<1>4. QED
  BY <1>2, <1>3

(* linslidervalue().                                                       *)
LEMMA SliderIInv ==
  ASSUME IInv, ~crashed, mpg # None, SliderMoved(showimage),
         Alone => ~Waiting({"indexname", "message"}),
         UNCHANGED <<mpg, opened, enabled, mplayer, files, nested>>
  PROVE  IInv'
<1>1. TypeOK /\ CallOwns /\ OneOwner
  BY DEF IInv
<1>2. early' = (early \/ Indexing)
  BY DEF SliderMoved
<1>3. early' \in BOOLEAN /\ (early => early')
  BY <1>1, <1>2 DEF TypeOK
<1>4. Alone /\ Waiting({"indexing"}) => early'
  <2>1. ASSUME Alone, NEW i \in DOMAIN calls, calls[i].at = "indexing"
        PROVE  Indexing
    <3>1. calls[i].own = mpg
      BY <1>1, <2>1 DEF CallOwns
    <3>2. calls \in Seq(Frames)
      BY <1>1 DEF TypeOK, Frames
    <3>3. calls[i] \in Frames
      BY <2>1, <3>2, ElementOfSeq, LenProperties
    <3>4. calls[i] = Waits("indexing", mpg)
      BY <2>1, <3>1, <3>3 DEF Frames, Waits
    <3>5. QED
      BY <2>1, <3>4 DEF Indexing
  <2>2. QED
    BY <1>2, <2>1 DEF Waiting
<1>5. UNCHANGED <<player, playing, showimage, names, marks, project>>
  BY DEF mplayer, files
<1>6. CASE Indexing /\ crashed' = TRUE /\ UNCHANGED <<imgp, calls>>
  <2>1. early'
    BY <1>2, <1>6
  <2>2. TypeOK'
    BY <1>1, <1>3, <1>5, <1>6 DEF TypeOK
  <2>3. QED
    BY <1>6, <2>1, <2>2, EndIInv
<1>7. CASE showimage /\ ShowImage
  BY <1>3, <1>4, <1>7, ShowImageIInv
<1>8. CASE ~showimage /\ UNCHANGED <<imgp, calls, crashed>>
  BY <1>3, <1>8, EarlyIInv
<1>9. QED
  BY <1>6, <1>7, <1>8 DEF SliderMoved

LEMMA SlideIInv == IInv /\ Slide => IInv'
<1> SUFFICES ASSUME IInv, Slide PROVE IInv'
  OBVIOUS
<1>1. /\ ~crashed /\ ~Waiting(Modal) /\ mpg # None /\ SliderMoved(showimage)
      /\ UNCHANGED <<mpg, opened, enabled, mplayer, files, nested>>
  BY DEF Slide, Blocked, Waiting
<1>2. ~Waiting({"indexname", "message"})
  BY <1>1 DEF Waiting, Modal
<1>3. QED
  BY <1>1, <1>2, SliderIInv

LEMMA ImageShownIInv == IInv /\ ImageShown => IInv'
BY PopIInv DEF ImageShown

(* If each recording is opened by itself and there is none, nothing plays  *)
(* and no pictures are shown while there is something to do with it.       *)
LEMMA NoneToPlay ==
  ASSUME IInv, mpg = None, NEW group, User(group), group # "open"
  PROVE  nested \/ (imgp = None /\ player = None)
<1>1. ~crashed /\ group \in enabled
  BY DEF User
<1>2. QED
  BY <1>1 DEF IInv, OneOwner, Alone

LEMMA ViewIInv == IInv /\ View => IInv'
<1> SUFFICES ASSUME IInv, View PROVE IInv'
  OBVIOUS
<1>1. User("view")
  BY DEF View
<1>2. ~crashed /\ (Alone => ~Waiting({"files", "indexname", "indexing", "message"}))
  BY <1>1, UserFacts
<1>3. CASE mpg = None
  <2>1. Crash
    BY <1>3 DEF View
  <2>2. QED
    BY <1>1, <1>3, <2>1, NoneToPlay, CrashIInv
<1>4. CASE mpg # None /\ showimage
  <2>1. /\ imgp' = mpg /\ Push("image", None) /\ early' = early
        /\ UNCHANGED <<mpg, opened, enabled, mplayer, files, crashed, nested>>
    BY <1>4 DEF View, history
  <2>2. None \in 0 .. opened /\ early \in BOOLEAN
    BY DEF IInv, TypeOK, None
  <2>3. Alone => ~Waiting({"indexname", "message"}) /\ ~Waiting({"indexing"})
    BY <1>2 DEF Waiting
  <2>4. QED
    BY <1>2, <2>1, <2>2, <2>3, PushIInv
<1>5. CASE mpg # None /\ ~showimage
  <2>1. /\ imgp' = mpg
        /\ UNCHANGED <<mpg, opened, enabled, calls, player, playing, showimage, names,
                       marks, project, crashed, nested, early>>
    BY <1>5 DEF View, mplayer, files, history
  <2>2. /\ TypeOK /\ OpenComesBack /\ OpeningAlone /\ CallOwns /\ OneOwner
        /\ SafeAlone
    BY DEF IInv
  <2>3. TypeOK'
    BY <2>1, <2>2 DEF TypeOK
  <2>4. OpenComesBack' /\ SafeAlone'
    BY <1>2, <2>1, <2>2 DEF OpenComesBack, Waiting, SafeAlone
  <2>5. OpeningAlone'
    BY <1>2, <2>1, <2>2 DEF OpeningAlone, Alone, Waiting
  <2>6. CallOwns' /\ OneOwner'
    BY <2>1, <2>2 DEF CallOwns, OneOwner, Alone, Waiting
  <2>7. QED
    BY <2>3, <2>4, <2>5, <2>6 DEF IInv
<1>6. QED
  BY <1>3, <1>4, <1>5

LEMMA ScaleIInv == IInv /\ Scale => IInv'
<1> SUFFICES ASSUME IInv, Scale PROVE IInv'
  OBVIOUS
<1>1. /\ ~crashed /\ imgp # None /\ ShowImage /\ early' = early
      /\ UNCHANGED <<mpg, opened, enabled, mplayer, files, nested>>
  BY DEF Scale, history
<1>2. TypeOK /\ CallOwns
  BY DEF IInv
<1>3. Alone /\ mpg # None => ~Waiting({"indexname", "message"})
  BY <1>2 DEF CallOwns, Waiting
<1>4. early \in BOOLEAN
  BY <1>2 DEF TypeOK
<1>5. QED
  BY <1>1, <1>3, <1>4, ShowImageIInv

(* Nothing but the markers or the name of the project changes.             *)
LEMMA DocumentIInv ==
  ASSUME IInv, NEW group, User(group), marks' \in {marks, mpg},
         project' \in {project, names},
         UNCHANGED <<mpg, opened, imgp, enabled, calls, mplayer, names, crashed,
                     history>>
  PROVE  IInv'
<1>1. /\ TypeOK /\ OpenComesBack /\ OpeningAlone /\ CallOwns /\ OneOwner
      /\ SafeAlone
  BY DEF IInv
<1>2. UNCHANGED <<mpg, opened, imgp, enabled, calls, player, playing, showimage,
                  names, crashed, nested, early>>
  BY DEF mplayer, history
<1>3. Alone => ~Waiting({"files", "indexname", "indexing", "message"})
  BY UserFacts
<1>4. Alone => \A i \in DOMAIN calls : calls[i].at \notin {"indexname", "indexing"}
  BY <1>3 DEF Waiting
<1>5. TypeOK'
  BY <1>1, <1>2 DEF TypeOK
<1>6. OpenComesBack' /\ SafeAlone'
  BY <1>1, <1>2 DEF OpenComesBack, Waiting, SafeAlone
<1>7. OpeningAlone'
  BY <1>1, <1>2 DEF OpeningAlone, Alone, Waiting
<1>8. CallOwns'
  BY <1>1, <1>2, <1>4 DEF CallOwns, Alone
<1>9. OneOwner'
  BY <1>1, <1>2 DEF OneOwner, Alone, Waiting
<1>10. QED
  BY <1>5, <1>6, <1>7, <1>8, <1>9 DEF IInv

LEMMA EditIInv == IInv /\ Edit => IInv'
<1> SUFFICES ASSUME IInv, Edit PROVE IInv'
  OBVIOUS
<1>1. User("edit")
  BY DEF Edit
<1>2. CASE mpg = None \/ imgp \notin {None, mpg}
  <2>1. Crash
    BY <1>2 DEF Edit
  <2>2. imgp \notin {None, mpg} => nested
    BY <1>1 DEF IInv, OneOwner, Alone, User
  <2>3. QED
    BY <1>1, <1>2, <2>1, <2>2, NoneToPlay, CrashIInv
<1>3. CASE mpg # None /\ imgp \in {None, mpg}
  <2>1. /\ marks' = mpg
        /\ UNCHANGED <<mpg, opened, imgp, enabled, calls, mplayer, names, project,
                       crashed, history>>
    BY <1>3 DEF Edit
  <2>2. QED
    BY <1>1, <2>1, DocumentIInv
<1>4. QED
  BY <1>2, <1>3

LEMMA SaveIInv == IInv /\ Save => IInv'
<1> SUFFICES ASSUME IInv, Save PROVE IInv'
  OBVIOUS
<1>1. /\ User("save") /\ project' \in {project, names}
      /\ UNCHANGED <<mpg, opened, imgp, enabled, calls, mplayer, names, marks,
                     crashed, history>>
  BY DEF Save
<1>2. QED
  BY <1>1, DocumentIInv

LEMMA ExportIInv == IInv /\ Export => IInv'
<1> SUFFICES ASSUME IInv, Export PROVE IInv'
  OBVIOUS
<1>1. User("save")
  BY DEF Export
<1>2. CASE mpg = None
  <2>1. Crash
    BY <1>2 DEF Export
  <2>2. QED
    BY <1>1, <1>2, <2>1, NoneToPlay, CrashIInv
<1>3. CASE mpg # None
  <2>1. /\ Push("exporting", mpg) /\ imgp' = imgp /\ early' = early
        /\ UNCHANGED <<mpg, opened, enabled, mplayer, files, crashed, nested>>
    BY <1>3 DEF Export, history
  <2>2. mpg \in 0 .. opened /\ early \in BOOLEAN
    BY DEF IInv, TypeOK
  <2>3. /\ ~crashed
        /\ Alone => ~Waiting({"indexname", "message"}) /\ ~Waiting({"indexing"})
    BY <1>1, UserFacts DEF Waiting
  <2>4. QED
    BY <1>3, <2>1, <2>2, <2>3, PushIInv
<1>4. QED
  BY <1>2, <1>3

LEMMA ExportedIInv == IInv /\ Exported => IInv'
<1> SUFFICES ASSUME IInv, Exported PROVE IInv'
  OBVIOUS
<1>1. In("exporting") /\ ~crashed /\ calls # << >> /\ Top.at = "exporting"
  BY DEF Exported, In
<1>2. CASE mpg # Top.own
  <2>1. Crash
    BY <1>2 DEF Exported
  <2>2. ~Alone
    BY <1>1, <1>2, OwnerFacts
  <2>3. QED
    BY <1>1, <2>1, <2>2, CrashIInv DEF Alone
<1>3. CASE mpg = Top.own
  BY <1>1, <1>3, PopIInv DEF Exported
<1>4. QED
  BY <1>2, <1>3

-----------------------------------------------------------------------------
(* The player.                                                             *)
LEMMA PlayIInv == IInv /\ Play => IInv'
<1> SUFFICES ASSUME IInv, Play PROVE IInv'
  OBVIOUS
<1>1. User("play") /\ player = None
  BY DEF Play
<1>2. CASE mpg = None
  <2>1. Crash
    BY <1>2 DEF Play
  <2>2. QED
    BY <1>1, <1>2, <2>1, NoneToPlay, CrashIInv
<1>3. CASE mpg # None
  <2>1. /\ \/ player' = mpg /\ playing' \in BOOLEAN
           \/ player' = None /\ playing' = playing
        /\ showimage' = FALSE
        /\ enabled' = (enabled \cup {"stop"}) \cap WhilePlaying
        /\ UNCHANGED <<mpg, opened, imgp, calls, names, marks, project, crashed,
                       nested, early>>
    BY <1>1, <1>3 DEF Play, files, history
  <2>2. /\ TypeOK /\ OpenComesBack /\ OpeningAlone /\ CallOwns /\ OneOwner
        /\ SafeAlone
    BY DEF IInv
  <2>3. /\ ~crashed
        /\ Alone => ~Waiting({"files", "indexname", "indexing", "message"})
    BY <1>1, UserFacts
  <2>4. TypeOK'
    <3>1. {mpg', imgp', player', names', marks', project'} \subseteq 0 .. opened'
      BY <2>1, <2>2 DEF TypeOK, None
    <3>2. enabled' \subseteq All \cup {"stop"}
      BY <2>1 DEF WhilePlaying, All, Document
    <3>3. playing' \in BOOLEAN /\ (playing' => player' # None)
      BY <1>1, <1>3, <2>1, <2>2 DEF TypeOK
    <3>4. /\ opened' = opened /\ calls' = calls /\ crashed' = crashed /\ nested' = nested
          /\ early' = early /\ showimage' = FALSE
      BY <2>1
    <3>5. QED
      BY <2>2, <3>1, <3>2, <3>3, <3>4 DEF TypeOK
  <2>5. OpenComesBack' /\ SafeAlone'
    BY <2>1, <2>3 DEF OpenComesBack, SafeAlone
  <2>6. OpeningAlone'
    BY <2>1, <2>3 DEF OpeningAlone, Alone, Waiting, WhilePlaying
  <2>7. CallOwns'
    BY <2>1, <2>2, <2>3 DEF CallOwns, Alone, Waiting
  <2>8. OneOwner'
    BY <1>3, <2>1, <2>2 DEF OneOwner, Alone, Waiting, WhilePlaying
  <2>9. QED
    BY <2>4, <2>5, <2>6, <2>7, <2>8 DEF IInv
<1>4. QED
  BY <1>2, <1>3

(* As long as each recording is opened by itself, the player plays the one *)
(* that is open, and none is opened.                                       *)
LEMMA PlayingFacts ==
  ASSUME IInv, Alone, playing
  PROVE  /\ player = mpg /\ mpg # None /\ imgp \in {None, mpg}
         /\ ~Waiting({"indexname", "indexing", "message"}) /\ ~Indexing
<1>1. TypeOK /\ OpeningAlone /\ OneOwner
  BY DEF IInv
<1>2. player # None /\ player = mpg /\ imgp \in {None, mpg}
  BY <1>1 DEF TypeOK, OneOwner
<1>3. ~Waiting({"indexname", "indexing", "message"})
  BY <1>1, <1>2 DEF OpeningAlone, Waiting
<1>4. QED
  BY <1>2, <1>3 DEF Waiting, Indexing, Waits

LEMMA PlayerPrintsIInv == IInv /\ PlayerPrints => IInv'
<1> SUFFICES ASSUME IInv, PlayerPrints PROVE IInv'
  OBVIOUS
<1>1. ~crashed /\ playing
  BY DEF PlayerPrints
<1>2. CASE mpg = None
  <2>1. Crash
    BY <1>2 DEF PlayerPrints
  <2>2. nested
    BY <1>1, <1>2, PlayingFacts DEF Alone
  <2>3. QED
    BY <2>1, <2>2, CrashIInv
<1>3. CASE mpg # None
  <2>1. /\ SliderMoved(showimage)
        /\ UNCHANGED <<mpg, opened, enabled, mplayer, files, nested>>
    BY <1>3 DEF PlayerPrints
  <2>2. Alone => ~Waiting({"indexname", "message"})
    BY <1>1, PlayingFacts DEF Waiting
  <2>3. QED
    BY <1>1, <1>3, <2>1, <2>2, SliderIInv
<1>4. QED
  BY <1>2, <1>3

LEMMA PlayerExitsIInv == IInv /\ PlayerExits => IInv'
<1> SUFFICES ASSUME IInv, PlayerExits PROVE IInv'
  OBVIOUS
<1>1. /\ ~crashed /\ playing /\ player' = None /\ playing' = FALSE
      /\ showimage' = TRUE
      /\ enabled' = (enabled \cup {"save", "play", "open"}) \ {"stop"}
      /\ UNCHANGED <<mpg, opened, names, marks, project, nested>>
  BY DEF PlayerExits, Stopped, All, Document, WhilePlaying, files
<1>2. /\ TypeOK /\ OpeningAlone /\ CallOwns /\ OneOwner /\ calls \in Seq(Frames)
  BY DEF IInv, TypeOK, Frames
<1>3. /\ enabled' \subseteq All \cup {"stop"} /\ "stop" \notin enabled'
      /\ "open" \in enabled'
  BY <1>1, <1>2 DEF TypeOK, All, Document
<1>4. OpenComesBack'
  BY <1>3 DEF OpenComesBack
<1>5. /\ early' \in BOOLEAN /\ (early => early')
      /\ \/ imgp' = imgp /\ calls' = calls /\ crashed' \in BOOLEAN
         \/ imgp' = mpg /\ crashed' = FALSE /\ Push("image", None)
  <2>1. early \in BOOLEAN /\ crashed = FALSE
    BY <1>1, <1>2 DEF TypeOK
  <2>2. CASE mpg = None
    <3>1. UNCHANGED <<imgp, calls, crashed, early>>
      BY <2>2 DEF PlayerExits
    <3>2. QED
      BY <2>1, <3>1
  <2>3. CASE mpg # None
    <3>1. SliderMoved(TRUE)
      BY <2>3 DEF PlayerExits
    <3>2. early' = (early \/ Indexing)
      BY <3>1 DEF SliderMoved
    <3>3. \/ crashed' = TRUE /\ UNCHANGED <<imgp, calls>>
          \/ ShowImage
      BY <3>1 DEF SliderMoved
    <3>4. ShowImage => \/ crashed' = TRUE /\ UNCHANGED <<imgp, calls>>
                       \/ imgp' = mpg /\ UNCHANGED crashed /\ Push("image", None)
      BY <2>3 DEF ShowImage
    <3>5. QED
      BY <2>1, <3>2, <3>3, <3>4
  <2>4. QED
    BY <2>2, <2>3
<1>6. Waits("image", None) \in Frames
  BY <1>2 DEF Waits, Frames, Places, TypeOK, None
<1>7. calls' \in Seq(Frames)
  BY <1>2, <1>5, <1>6, PushFacts DEF Push
<1>8. TypeOK'
  <2>1. {mpg', imgp', player', names', marks', project'} \subseteq 0 .. opened'
    BY <1>1, <1>2, <1>5 DEF TypeOK, None
  <2>2. calls' \in Seq([at: Places, own: 0 .. opened'])
    BY <1>1, <1>7 DEF Frames
  <2>3. /\ opened' \in 0 .. MaxOpens /\ nested' \in BOOLEAN /\ playing' = FALSE
        /\ crashed' \in BOOLEAN /\ early' \in BOOLEAN /\ showimage' \in BOOLEAN
    BY <1>1, <1>2, <1>5 DEF TypeOK
  <2>4. QED
    BY <1>3, <2>1, <2>2, <2>3, Zenon DEF TypeOK
<1>9. CASE nested
  BY <1>1, <1>4, <1>8, <1>9, NestedIInv
<1>10. CASE ~nested
  <2>1. /\ Alone /\ mpg # None /\ imgp \in {None, mpg}
        /\ ~Waiting({"indexname", "indexing", "message"}) /\ ~Indexing
    BY <1>1, <1>10, PlayingFacts DEF Alone
  <2>2. imgp' = mpg /\ Push("image", None) /\ crashed' = FALSE
    <3>1. ShowImage
      BY <2>1 DEF PlayerExits, SliderMoved
    <3>2. QED
      BY <1>1, <2>1, <3>1 DEF ShowImage
  <2>3. /\ Len(calls) \in Nat /\ DOMAIN calls = 1 .. Len(calls)
        /\ DOMAIN calls' = 1 .. Len(calls) + 1
        /\ calls'[Len(calls) + 1] = [at |-> "image", own |-> None]
        /\ \A i \in 1 .. Len(calls) : calls'[i] = calls[i]
    BY <1>2, <1>6, <2>2, PushFacts DEF Push, Waits
  <2>4. \A i \in DOMAIN calls' :
          calls'[i].at \notin {"indexname", "indexing", "message"}
    BY <2>1, <2>3 DEF Waiting
  <2>5. OpeningAlone'
    BY <1>1, <2>4 DEF OpeningAlone, Waiting
  <2>6. CallOwns'
    BY <1>1, <1>2, <2>1, <2>3, <2>4 DEF CallOwns
  <2>7. OneOwner'
    BY <1>1, <1>2, <2>1, <2>2 DEF OneOwner, All, Document, Waiting
  <2>8. SafeAlone'
    BY <2>2 DEF SafeAlone
  <2>9. QED
    BY <1>4, <1>8, <2>5, <2>6, <2>7, <2>8 DEF IInv
<1>11. QED
  BY <1>2, <1>9, <1>10 DEF TypeOK

-----------------------------------------------------------------------------
LEMMA InitIInv == Init => IInv
<1> SUFFICES ASSUME Init PROVE IInv
  OBVIOUS
<1>1. calls \in Seq([at: Places, own: 0 .. opened]) /\ DOMAIN calls = {}
  BY EmptySeq DEF Init
<1>2. TypeOK
  <2>1. 0 \in 0 .. MaxOpens /\ 0 \in 0 .. 0
    BY SessionAssumption
  <2>2. /\ opened = 0 /\ crashed = FALSE /\ nested = FALSE /\ playing = FALSE
        /\ early = FALSE /\ showimage = TRUE
        /\ mpg = 0 /\ imgp = 0 /\ player = 0 /\ names = 0 /\ marks = 0 /\ project = 0
        /\ enabled = {"open", "view"}
    BY DEF Init, None
  <2>3. opened \in 0 .. MaxOpens
    BY <2>1, <2>2
  <2>4. {mpg, imgp, player, names, marks, project} \subseteq 0 .. opened
    BY <2>1, <2>2, Zenon
  <2>5. enabled \subseteq All \cup {"stop"} /\ "stop" \notin enabled
    BY <2>2 DEF All, Document
  <2>6. QED
    BY <1>1, <2>2, <2>3, <2>4, <2>5, Zenon DEF TypeOK
<1>3. OpenComesBack /\ SafeAlone
  BY DEF Init, OpenComesBack, SafeAlone
<1>4. OpeningAlone /\ CallOwns /\ OneOwner
  BY <1>1 DEF Init, OpeningAlone, CallOwns, OneOwner, Waiting
<1>5. QED
  BY <1>2, <1>3, <1>4 DEF IInv

LEMMA StepIInv == IInv /\ [Next]_vars => IInv'
<1> SUFFICES ASSUME IInv, [Next]_vars PROVE IInv'
  OBVIOUS
<1>1. CASE Next
  BY <1>1, FileOpenIInv, NothingChosenIInv, FilesChosenIInv, OpenRecentIInv,
     IndexNameRejectedIInv, IndexNamedIInv, IndexedIInv, IndexedAfterCloseIInv,
     MessageReadIInv, ShownIInv, SlideIInv, ImageShownIInv, ViewIInv, ScaleIInv,
     EditIInv, SaveIInv, ExportIInv, ExportedIInv, PlayIInv, PlayerPrintsIInv,
     PlayerExitsIInv DEF Next
<1>2. CASE UNCHANGED vars
  <2>1. UNCHANGED <<mpg, opened, imgp, enabled, calls, player, playing, showimage,
                    names, marks, project, crashed, nested, early>>
    BY <1>2 DEF vars, mplayer, files, history
  <2>2. TypeOK' /\ OpenComesBack' /\ SafeAlone'
    BY <2>1 DEF IInv, TypeOK, OpenComesBack, Waiting, SafeAlone
  <2>3. OpeningAlone' /\ CallOwns' /\ OneOwner'
    BY <2>1 DEF IInv, OpeningAlone, CallOwns, OneOwner, Waiting, Alone
  <2>4. QED
    BY <2>2, <2>3 DEF IInv
<1>3. QED
  BY <1>1, <1>2

(* The strengthened invariant of the session.                              *)
THEOREM SessionInvariant == Spec => []IInv
<1>1. Init => IInv
  BY InitIInv
<1>2. IInv /\ [Next]_vars => IInv'
  BY StepIInv
<1>3. QED
  BY <1>1, <1>2, PTL DEF Spec

(* Every variable has its type; playStop() is enabled only while the       *)
(* window is left to the player.                                           *)
THEOREM TypeCorrect == Spec => []TypeOK
<1>1. IInv => TypeOK
  BY DEF IInv
<1>2. QED
  BY <1>1, SessionInvariant, PTL

(* When nothing waits and the window was not left to the player, a         *)
(* recording can be opened, however many were opened before and inside one *)
(* another.                                                                *)
THEOREM AlwaysCanGoOn == Spec => []CanGoOn
<1>1. IInv => CanGoOn
  BY DEF IInv, OpenComesBack, CanGoOn, Waiting
<1>2. QED
  BY <1>1, SessionInvariant, PTL

(* A deleted recording, or a table that is not made yet, is used only if   *)
(* another was opened inside a waiting call or while mplayer ran, or if    *)
(* the slider was moved while it was indexed.                              *)
THEOREM SafeIfAlone == Spec => []SafeAlone
<1>1. IInv => SafeAlone
  BY DEF IInv
<1>2. QED
  BY <1>1, SessionInvariant, PTL

(* The window belongs to one recording, which can be worked with; the      *)
(* provider of images of one that was given up remains only if the slider  *)
(* was moved while it was indexed, and until the next is opened.           *)
THEOREM WindowOfOneRecording == Spec => []OneRecording
<1>1. IInv => OneRecording
  BY DEF IInv, OneOwner, OneRecording, Waiting, Alone
<1>2. QED
  BY <1>1, SessionInvariant, PTL
=============================================================================
