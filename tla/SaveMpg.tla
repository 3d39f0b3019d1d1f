------------------------------ MODULE SaveMpg -------------------------------
(***************************************************************************)
(* The export: exportMpgFile() hands one range of pictures after the other *)
(* to savempg(), which puts them into the multiplexer.  Of a range, what   *)
(* lies in front of a sequence header is decoded and encoded again, what   *)
(* follows is copied picture by picture in the order of the file, and B    *)
(* pictures at the end whose second reference is not copied are encoded    *)
(* again.  Audio frames are copied beside the pictures.                    *)
(*                                                                         *)
(* Picture n of the recording is displayed at n * FrameTime, frame k of    *)
(* its audio is heard at audiobegin + k * AudioTime: times are counted     *)
(* from the time stamp of the first picture, origin.                       *)
(***************************************************************************)
EXTENDS MpgIndex, Totals, SequencesExt

CONSTANTS
  Recordings,   (* what may be exported: a table p of n pictures that      *)
                (* load() accepts, its first time stamp, where audio       *)
                (* begins and its frames, 0 if no stream was chosen        *)
  FrameTime, AudioTime,
  MaxRanges     (* bound on the ranges of an export                        *)

ASSUME SaveMpgAssumption ==
  /\ FrameTime \in Nat \ {0} /\ AudioTime \in Nat \ {0}
  /\ \A r \in Recordings :
       /\ r.n \in Nat /\ r.p \in [0 .. r.n - 1 -> Picture]
       /\ r.n > 0 => r.p[0].hdr
       /\ RanksOK(r.p, r.n)
       /\ r.origin \in Nat /\ r.audiobegin \in Int /\ r.frames \in Nat
  /\ MaxRanges \in Nat

VARIABLES
  p, n,             (* the picture table                                   *)
  shown,            (* indexnr() and picturenr(), which do not change; for *)
                    (* the properties, whether an encoder made the table   *)
  ranges,           (* the ranges to export                                *)
  origin, audiobegin, frames,
  num,              (* range that is exported                              *)
  pc,               (* "range", "head", "copy" (top of the copying loop),  *)
                    (* "pass" (inside), "tail", "end", "done"              *)
  cancelled,
  mux,              (* timestamps kept by the multiplexer: the time where  *)
                    (* video and audio go on, the next decoding time       *)
  videooffset, audiooffset,
  audiostoppts,
  streampic,        (* next picture to copy, by its place in the file      *)
  isfirstpic, isfirstseq, vsd,
  audio,            (* next audio frame to copy                            *)
  sd,               (* the audio of the range goes on                      *)
  out,              (* pictures put into the multiplexer                   *)
  audioout,         (* audio frames put into it                            *)
  intact,           (* history: all that had to be encoded was encoded     *)
  whole             (* history: reading never ended before its time        *)

input  == <<p, n, shown, ranges, origin, audiobegin, frames>>
avoffset == <<videooffset, audiooffset>>
video  == <<streampic, isfirstpic, isfirstseq, vsd>>
sound  == <<audio, sd, audiostoppts>>
vars   == <<input, num, pc, cancelled, mux, avoffset, video, sound, out,
            audioout, intact, whole>>

-----------------------------------------------------------------------------
(* The table, by display numbers.                                          *)
pictures    == shown.pictures
Stored(pic) == shown.stored[pic]
Shown(i)    == shown.number[i]
Pts(i)      == Shown(i) * FrameTime

IsB(pic)   == p[Stored(pic)].type = "B"

NextSeqHeader(pic) ==
  Min({pictures - 1} \cup {i \in pic .. pictures - 1 : p[Stored(i)].hdr})

LastIFrame(pic) ==
  Max({0} \cup {i \in 0 .. pic : p[Stored(i)].type = "I"})

LastSeqHeader(pic) == Max({0} \cup {i \in 0 .. pic : p[Stored(i)].hdr})

start == ranges[num].start
stop  == ranges[num].stop
firstseqhdr == NextSeqHeader(start)
firstseqnr  == p[Stored(firstseqhdr)].seqnr

(* The first picture not to be copied: B pictures at the end are left out. *)
CopyStopAtOnce ==  \* mutated form: they are not
  Stored(stop)

CopyStop ==
  Stored(Min({pictures} \cup {i \in stop .. pictures - 1 : ~IsB(i)}))

(* The pictures at the end that were not copied.                           *)
StartRecode ==
  Max({0} \cup {i \in 1 .. stop - 1 : ~IsB(i - 1)})

TailMissing ==
  stop > firstseqhdr /\ IsB(stop - 1)

-----------------------------------------------------------------------------
(* decodegop(): the decoder (libavcodec) holds an I or P picture back until*)
(* the next one arrives, and gives a B picture at once, if it has both     *)
(* references.                                                             *)
Nothing == -1

Decode(s, i) ==
  IF p[i].type = "B"
    THEN [s EXCEPT !.given = IF s.refs = 2 THEN Append(@, i) ELSE @]
    ELSE [refs  |-> IF s.refs = 0 THEN 1 ELSE 2,
          held  |-> i,
          given |-> IF s.held = Nothing THEN s.given
                    ELSE Append(s.given, s.held)]

(* What is fed to the decoder: from the sequence header in front of the    *)
(* I picture, without the pictures that are displayed before that one.     *)
Fed(pic) ==
  LET first == Stored(LastSeqHeader(LastIFrame(pic)))
      end   == SeqEnd(p, n, first)
  IN  {i \in first .. n - 1 : i >= end \/ p[i].seqnr >= p[first].seqnr}

Decoded(fed) ==
  LET s[i \in 0 .. n] ==  \* when it was fed with the pictures before i
        IF i = 0 THEN [refs |-> 0, held |-> Nothing, given |-> << >>]
        ELSE IF i - 1 \in fed THEN Decode(s[i - 1], i - 1) ELSE s[i - 1]
  IN  s[n]

(* The pictures a .. b-1, as far as the decoder gives them; the first it   *)
(* gives is taken for the picture of the sequence header.                  *)
DecodeGop(a, b) ==
  LET s   == Decoded(Fed(a))
      all == Append(s.given, s.held)
      pic == LastSeqHeader(LastIFrame(a))
  IN  SubSeq(all, a - pic + 1, Min({b - pic, Len(all)}))

-----------------------------------------------------------------------------
(* The last I or P picture in front of picture i of table t.               *)
None == -2

LastReference(t, i) == Max({None} \cup {k \in 0 .. i - 1 : t[k].type # "B"})

(* The order in which an encoder stores pictures: as they are displayed,   *)
(* but an I or P picture in front of the B pictures that lie between it    *)
(* and the I or P picture before.  A sequence begins with an I picture.    *)
EncoderOrder(t, m) ==
  /\ \A i \in 0 .. m - 1 : t[i].hdr => t[i].type = "I"
  /\ \A i \in 0 .. m - 1 : \A k \in 0 .. i - 1 :
       PictureNr(t, 0, k) < PictureNr(t, 0, i)
         <=> ~(t[i].type = "B" /\ k = LastReference(t, i))

Init ==
  /\ \E t \in Recordings :
       LET skip == SkipFirst(t.p, t.n)
       IN  /\ p = t.p /\ n = t.n
           /\ origin = t.origin
           /\ audiobegin = t.audiobegin /\ frames = t.frames
           /\ shown = [pictures |-> RealPictures(p, n),
                       stored |-> [i \in 0 .. RealPictures(p, n) - 1 |->
                                     IndexNr(p, n, skip, i)],
                       number |-> [i \in 0 .. n - 1 |-> PictureNr(p, skip, i)],
                       ordered |-> EncoderOrder(p, n)]
  /\ LET Ranges == {r \in [start: 0 .. n, stop: 0 .. n] :
                      r.start <= r.stop /\ r.stop < pictures}
     IN  ranges \in UNION {[1 .. k -> Ranges] : k \in 1 .. MaxRanges}
  /\ \A k \in 2 .. Len(ranges) : ranges[k - 1].stop <= ranges[k].start
  /\ num = 1 /\ pc = "range"
  /\ cancelled = FALSE
  /\ mux = [empty |-> TRUE, vpts |-> 0, apts |-> 0, dts |-> 0]
  /\ videooffset = 0 /\ audiooffset = 0 /\ audiostoppts = 0
  /\ streampic = 0 /\ isfirstpic = TRUE /\ isfirstseq = TRUE
  /\ vsd = FALSE /\ audio = 0 /\ sd = FALSE
  /\ out = << >> /\ audioout = << >> /\ intact = TRUE /\ whole = TRUE

-----------------------------------------------------------------------------
AudioPts(k) == audiobegin + k * AudioTime

(* closestptsbufferpos(): the frame that is closest to time t, the later   *)
(* one of two.                                                             *)
ClosestNotBefore(t) ==  \* mutated form: the first one that is not earlier
  Min({frames - 1} \cup {k \in 0 .. frames - 1 : AudioPts(k) >= t})

Closest(t) ==
  LET later == {k \in 1 .. frames - 1 : AudioPts(k) >= t}
      k     == IF AudioPts(0) >= t THEN 0
               ELSE IF later = {} THEN frames - 1 ELSE Min(later)
  IN  IF k > 0 /\ AudioPts(k) >= t /\ t - AudioPts(k - 1) < AudioPts(k) - t
        THEN k - 1 ELSE k

NextRangeOneMore ==  \* mutated form
  /\ num' = num + 1
  /\ pc' = IF num <= Len(ranges) THEN "range" ELSE "done"

NextRange ==
  /\ num' = num + 1
  /\ pc' = IF num < Len(ranges) THEN "range" ELSE "done"

EmptyRange ==
  /\ pc = "range" /\ start = stop
  /\ NextRange
  /\ UNCHANGED <<input, cancelled, mux, avoffset, video, sound, out, audioout,
                 intact, whole>>

(* The offset of audio: in the first range that of video, which is moved   *)
(* so that no audio is lost; later such that audio goes on without a gap.  *)
(* Audio with a time stamp below 0, in front of pictures that begin when   *)
(* the clock of the stream starts anew, has no say.                        *)
AudioCounts(apts) == frames > 0 /\ origin + apts >= 0

AudioOffset(offset, tpts, apts) ==
  IF mux.empty \/ ~AudioCounts(apts) THEN offset ELSE offset - tpts + apts

Begin ==
  LET m    == IF mux.empty
                THEN [empty |-> FALSE, vpts |-> FrameTime, apts |-> FrameTime,
                      dts |-> mux.dts]
                ELSE mux
      from == Pts(Stored(start))
      tpts == from - m.vpts + m.apts
      k    == Closest(tpts)
      apts == AudioPts(k)
      shift == IF mux.empty /\ AudioCounts(apts) /\ tpts > apts
                 THEN tpts - apts ELSE 0
      voff == from - m.vpts - shift
      aoff == AudioOffset(voff, tpts, apts)
  IN  /\ pc = "range" /\ start # stop
      /\ mux' = m
      /\ videooffset' = voff
      /\ audiooffset' = aoff
      /\ audio' = IF frames = 0 THEN 0 ELSE k
      /\ sd' = (frames > 0)
      /\ audiostoppts' = Pts(Stored(stop)) - voff + aoff
      /\ streampic' = Stored(firstseqhdr)
      /\ isfirstpic' = TRUE /\ isfirstseq' = TRUE /\ vsd' = TRUE
      /\ pc' = "head"
      /\ UNCHANGED <<input, num, cancelled, out, audioout, intact, whole>>

(* recodevideo(): the pictures a .. b-1 are decoded and encoded again.     *)
(* The decoder may fail on any of them, which ends the list, the encoder   *)
(* be refused or fail on any it is given: the pictures at the places in    *)
(* kept come out, and take the times of a, a + 1, ..., a lost one leaving  *)
(* its time to the next.                                                   *)
Recode(a, b) ==
  LET given == DecodeGop(a, b)
      time(i) == Pts(Stored(i)) - videooffset
  IN  \E kept \in SUBSET (1 .. Len(given)) :
        LET pics == Kept(given, kept)
            k    == Len(pics)
        IN  /\ out' = out \o [j \in 1 .. k |->
                       [pic |-> Shown(pics[j]),
                        pts |-> time(a + j - 1),
                        dts |-> IF j = 1 THEN mux.dts ELSE time(a + j - 2),
                        copied |-> Nothing, range |-> num]]
            /\ mux' = IF k = 0 THEN mux ELSE [mux EXCEPT !.dts = time(a + k - 1)]
            /\ intact' = (intact /\ k = b - a)

RecodeHead ==
  /\ pc = "head"
  /\ pc' = "copy"
  /\ IF firstseqhdr > start THEN Recode(start, firstseqhdr)
                            ELSE UNCHANGED <<out, mux, intact>>
  /\ UNCHANGED <<input, num, cancelled, avoffset, video, sound, audioout,
                 whole>>

PutNoDelay(i) ==  \* mutated form: all are decoded when they are displayed
  /\ out' = Append(out, [pic |-> Shown(i), pts |-> Pts(i) - videooffset,
                         dts |-> Pts(i) - videooffset,
                         copied |-> i, range |-> num])
  /\ mux' = [mux EXCEPT !.dts = Pts(i) - videooffset]

Put(i) ==
  LET vidpts == Pts(i) - videooffset
      isb == p[i].type = "B"
  IN  /\ out' = Append(out, [pic |-> Shown(i), pts |-> vidpts,
                             dts |-> IF isb THEN vidpts ELSE mux.dts,
                             copied |-> i, range |-> num])
      /\ mux' = IF isb THEN mux ELSE [mux EXCEPT !.dts = vidpts]

(* Pictures displayed before the first one copied are passed over.         *)
WantedAll(i, first) == TRUE  \* mutated form: they are copied

WantedPicture(i, first) == ~first \/ p[i].seqnr >= firstseqnr

CopyPicture ==
  /\ pc = "pass" /\ vsd
  /\ streampic < CopyStop
  /\ isfirstpic' = FALSE
  /\ isfirstseq' = (isfirstseq /\ (isfirstpic \/ ~p[streampic].hdr))
  /\ IF WantedPicture(streampic, isfirstseq') THEN Put(streampic)
                                              ELSE UNCHANGED <<out, mux>>
  /\ streampic' = streampic + 1
  /\ UNCHANGED <<input, num, pc, cancelled, avoffset, vsd, sound, audioout,
                 intact, whole>>

CopyVideoEnds ==
  /\ pc = "pass" /\ vsd
  /\ streampic >= CopyStop
  /\ vsd' = FALSE
  /\ UNCHANGED <<input, num, pc, cancelled, mux, avoffset, streampic,
                 isfirstpic, isfirstseq, sound, out, audioout, intact, whole>>

PutAudio ==
  audioout' = Append(audioout, [frame |-> audio, range |-> num,
                                pts |-> AudioPts(audio) - audiooffset])

(* Audio ends with the frame that ends closest to the end of the video.    *)
WithoutLastNever(this, next) == FALSE  \* mutated form: behind the video

WithoutLast(this, next) == next - audiostoppts > audiostoppts - this

CopyAudio ==
  /\ pc = "pass" /\ sd
  /\ LET this == AudioPts(audio)
         next == AudioPts(audio + 1)
     IN  \/ /\ this >= audiostoppts
            /\ sd' = FALSE /\ audiostoppts' = this
            /\ UNCHANGED <<audio, audioout>>
         \/ /\ this < audiostoppts /\ audio + 1 < frames
            /\ next < audiostoppts
            /\ PutAudio /\ audio' = audio + 1
            /\ UNCHANGED <<sd, audiostoppts>>
         \/ /\ this < audiostoppts /\ audio + 1 < frames
            /\ next >= audiostoppts
            /\ sd' = FALSE
            /\ IF WithoutLast(this, next)
                 THEN audiostoppts' = this /\ UNCHANGED <<audio, audioout>>
                 ELSE /\ audiostoppts' = next
                      /\ PutAudio /\ audio' = audio + 1
  /\ UNCHANGED <<input, num, pc, cancelled, mux, avoffset, video, out, intact,
                 whole>>

(* The loop: after some packets were read, video and audio are copied as   *)
(* far as they are there.                                                  *)
Pass ==
  /\ pc = "copy" /\ ~cancelled
  /\ pc' = "pass"
  /\ UNCHANGED <<input, num, cancelled, mux, avoffset, video, sound, out,
                 audioout, intact, whole>>

(* It ends when video and audio have ended, if nothing more is read, or if *)
(* the user cancelled; the two latter are asked at its top only.           *)
PassEnds ==
  /\ pc = "pass"
  /\ pc' = IF vsd \/ sd THEN "copy" ELSE "tail"
  /\ UNCHANGED <<input, num, cancelled, mux, avoffset, video, sound, out,
                 audioout, intact, whole>>

(* streamreader() reads nothing: at the end of the file, which is where    *)
(* audio is exported up to its last frame, or where it cannot be read or   *)
(* understood any more.                                                    *)
AudioRead == audio + 1 >= frames /\ AudioPts(audio) < audiostoppts

ReadingEnds ==
  /\ pc = "copy" /\ ~cancelled
  /\ pc' = "tail"
  /\ whole' = (whole /\ ~vsd /\ (sd => AudioRead))
  /\ UNCHANGED <<input, num, cancelled, mux, avoffset, video, sound, out,
                 audioout, intact>>

CopyCancelled ==
  /\ pc = "copy" /\ cancelled
  /\ pc' = "tail"
  /\ UNCHANGED <<input, num, cancelled, mux, avoffset, video, sound, out,
                 audioout, intact, whole>>

(* DlgProgress::clickedcancel(), whenever progress or a message is shown.  *)
Cancel ==
  /\ pc # "done" /\ ~cancelled
  /\ cancelled' = TRUE
  /\ UNCHANGED <<input, num, pc, mux, avoffset, video, sound, out, audioout,
                 intact, whole>>

RecodeTail ==
  /\ pc = "tail"
  /\ pc' = "end"
  /\ IF TailMissing THEN Recode(StartRecode, stop)
                    ELSE UNCHANGED <<out, mux, intact>>
  /\ UNCHANGED <<input, num, cancelled, avoffset, video, sound, audioout,
                 whole>>

MuxAdvanced ==
  [mux EXCEPT !.vpts = Pts(Stored(stop)) - videooffset,
              !.apts = audiostoppts - audiooffset]

End ==
  /\ pc = "end"
  /\ mux' = MuxAdvanced
  /\ NextRange
  /\ UNCHANGED <<input, cancelled, avoffset, video, sound, out, audioout,
                 intact, whole>>

Next ==
  \/ EmptyRange \/ Begin \/ RecodeHead
  \/ Pass \/ CopyPicture \/ CopyVideoEnds \/ CopyAudio \/ PassEnds
  \/ ReadingEnds \/ CopyCancelled \/ RecodeTail \/ End \/ Cancel

Spec == Init /\ [][Next]_vars

-----------------------------------------------------------------------------
TypeOK ==
  /\ num \in 1 .. Len(ranges) + 1
  /\ pc \in {"range", "head", "copy", "pass", "tail", "end", "done"}
  /\ pc = "done" <=> num > Len(ranges)
  /\ cancelled \in BOOLEAN /\ intact \in BOOLEAN /\ whole \in BOOLEAN
  /\ mux \in [empty: BOOLEAN, vpts: Int, apts: Int, dts: Int]
  /\ videooffset \in Int /\ audiooffset \in Int /\ audiostoppts \in Int
  /\ streampic \in 0 .. n
  /\ isfirstpic \in BOOLEAN /\ isfirstseq \in BOOLEAN /\ vsd \in BOOLEAN
  /\ audio \in Nat /\ (audio < frames \/ audio = 0) /\ sd \in BOOLEAN
  /\ out \in Seq([pic: Int, pts: Int, dts: Int, copied: Int, range: Nat])
  /\ audioout \in Seq([frame: Nat, range: Nat, pts: Int])

Of(r) == {i \in DOMAIN out : out[i].range = r}

Completed == {r \in DOMAIN ranges : r < num /\ ranges[r].start < ranges[r].stop}

(* A range in which there is no sequence header up to its end.             *)
Headless(r) == NextSeqHeader(ranges[r].start) > ranges[r].stop

Untroubled == intact /\ whole /\ ~cancelled

(* README, lines 51-53: what lies between a START and the next STOP marker *)
(* is written to the new file.  Of a completed range every picture is      *)
(* written, once, and no other.                                            *)
WrittenExactly(r, b, e) ==
  /\ \A i \in Of(r) : out[i].pic \in b .. e - 1
  /\ \A pic \in b .. e - 1 : \E i \in Of(r) : out[i].pic = pic
  /\ \A i, j \in Of(r) : i # j => out[i].pic # out[j].pic

StopsAtStop ==
  Untroubled => \A r \in Completed :
    WrittenExactly(r, ranges[r].start, ranges[r].stop)

(* Whatever has to be encoded at the begin and at the end, and however an  *)
(* encoder orders the pictures in the file, every picture of a range is    *)
(* written once; if the range has no sequence header, so are those up to   *)
(* the next.                                                               *)
EachPictureOnce ==
  Untroubled /\ shown.ordered => \A r \in Completed :
    WrittenExactly(r, ranges[r].start,
      Max({ranges[r].stop, NextSeqHeader(ranges[r].start)}))

(* What a decoder of the output needs: each picture is to be decoded after *)
(* the one in front of it and not after it is displayed, over all ranges,  *)
(* whatever was cancelled, could not be read or could not be encoded.      *)
Decodable ==
  /\ \A i \in 2 .. Len(out) : out[i - 1].dts < out[i].dts
  /\ \A i \in DOMAIN out : out[i].dts <= out[i].pts

(* The pictures of the output are displayed one after the other, without a *)
(* gap where one range follows another.                                    *)
Seamless ==
  /\ \A i, j \in DOMAIN out :
       /\ out[i].pts < out[j].pts <=> out[i].pic < out[j].pic
       /\ out[i].pts = out[j].pts => i = j
  /\ \A i \in DOMAIN out :
       \/ \A j \in DOMAIN out : out[j].pts <= out[i].pts
       \/ \E j \in DOMAIN out : out[j].pts = out[i].pts + FrameTime

PictureTimes ==
  shown.ordered /\ (\A r \in DOMAIN ranges : ~Headless(r)) =>
    Decodable /\ (pc = "done" /\ Untroubled => Seamless)

(* A picture is copied only behind the pictures it refers to: the last I   *)
(* or P picture in front of it in the file, the last two of a B picture.   *)
References(i) ==
  IF p[i].type = "I" THEN {}
  ELSE LET last == LastReference(p, i)
       IN  {last} \cup IF p[i].type = "B" THEN {LastReference(p, last)} ELSE {}

ReferencesCopied ==
  shown.ordered => \A i \in DOMAIN out : out[i].copied # Nothing =>
    \A k \in References(out[i].copied) :
      \E j \in 1 .. i - 1 : out[j].copied = k /\ out[j].range = out[i].range

(* Audio and video: sound and picture of the recording are at most half an *)
(* audio frame apart from where they were, in every range: the error does  *)
(* not add up, although the sound goes on without a gap or an overlap,     *)
(* within and across ranges.  Where pictures were lost in the encoding,    *)
(* those behind them come too early, but never too late.  Where reading    *)
(* ended too early, sound that begins after the pictures may be moved, and *)
(* the sound may have a gap, as it may at a time stamp below 0.            *)
Placed  == whole \/ audiobegin <= 0
Counted == origin + audiobegin >= 0

InSync ==
  /\ shown.ordered /\ Placed =>
       \A a \in Range(audioout), o \in Range(out) : a.range = o.range =>
         LET heard == AudioPts(a.frame) - a.pts
             seen  == o.pic * FrameTime - o.pts
         IN  /\ 2 * (heard - seen) <= AudioTime
             /\ o.copied # Nothing \/ intact => 2 * (seen - heard) <= AudioTime
  /\ whole /\ Counted => \A i \in 2 .. Len(audioout) :
       audioout[i].pts = audioout[i - 1].pts + AudioTime

Near(a, b, d) == 2 * (a - b) <= d /\ 2 * (b - a) <= d

(* If there is audio all along, it ends with the video of each range, as   *)
(* closely as whole frames allow.                                          *)
AudioCovers ==
  frames > 0 /\ audiobegin <= 0 /\ AudioPts(frames - 1) >= pictures * FrameTime

EndTogether ==
  pc \in {"range", "done"} /\ AudioCovers =>
    Near(mux.apts, mux.vpts, AudioTime)

=============================================================================
