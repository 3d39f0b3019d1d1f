# TV Clipper in TLA+

TV Clipper (`src/tvclipper`) cuts MPEG-2 recordings of digital television. It makes an index of
the pictures of a recording, lets the user set START, STOP, CHAPTER and BOOKMARK markers, and
writes the selected ranges to a new file. Nearly all of the data is copied; only the pictures
next to a cut are decoded and encoded again. This directory holds TLA+ models of the parts that
decide what ends up in that file, TLC configurations that check them on small instances, and
proofs of their main invariants for all values of their constants.

## The system

| Part (source) | State it keeps | Operations | Talks to |
|---|---|---|---|
| Input buffer (`buffer.cpp`, class `inbuffer`) | list of files or one pipe, a window of bytes (mapped or read), descriptor offsets | `open`, `reset`, `providedata`, `pipedata`, `discarddata` | read by the file readers |
| Output buffer (`outbuffer`, `buffer`) | a byte queue | `putdata`, `discard` | stream data, access units |
| Stream data (`streamdata.h`) | per stream a list of items (position, time stamp) over a byte queue | `appenditem`, `pop`, `discard`, searches by time | filled by the readers, emptied by index, export, playback |
| Transport and program stream readers (`tsfile`, `psfile`) | programs, stream numbers, resynchronisation | `streamreader`, `probe` | input buffer to stream data |
| Picture index (`mpgIndex`) | the picture table, the index file on disk | `generate`, `save`, `load`, `check`, `indexnr`, `picturenr` | reads stream data; asks the log whether it was cancelled |
| MPEG file (`mpgfile`) | streams, codecs, the index | `open`, `decodegop`, `savempg`, `recodevideo`, `playaudio` | everything below it |
| Multiplexers (`mpegmuxer`, `lavfmuxer`) | access units, packs, decoder buffers, clock | `putpacket`, `flush`, destructor | fed by `savempg`; writes the output |
| Event list and cut table (`tvclipper.cpp`, `eventlistitem`) | markers; table of ranges; chapter list | edit menu, context menu, `updateQuickPictureLookupTable`, go-to fields | export takes its ranges from the table |
| Session (`tvclipper.cpp`, `main.cpp`) | `mpg`, `imgp`, `buf`, file names, current picture | open, export, save project, batch mode | nested event loops of the progress indicators |
| Image providers | cache of decoded pictures, most recent first | `getimage`, `shrinkcache` | `mpgfile::decodegop` |
| Project files, settings, dialogs, playback | - | input and output | session |

The program has one thread. What is hard is therefore not parallelism but the following.

* **Order.** Pictures lie in the file in another order than they are displayed in. Index, export
  and multiplexer each translate, with delays of one or more pictures, and must agree.
* **Derived state.** The cut table is a copy of what the event list says; the window of the input
  buffer is a copy of parts of several files; the multiplexer's idea of the decoder's buffers is a
  simulation of a machine that runs later.
* **State carried over calls.** The offsets between audio and video live in the multiplexer from
  one exported range to the next; an error of one range is the start of the next one.
* **Partial failure and crash.** An index is written while it is made; packs are written one by
  one; a decoder or an encoder may give nothing.
* **Cancelling.** The progress windows run the event loop: a cancel arrives between any two steps,
  but is seen only where the code asks for it.
* **Waiting inside a call.** Dialogs and progress windows run the event loop, and the list of recent
  files is never disabled: a recording may be opened inside the call that opens or exports another.
* **Damaged recordings.** Packets are lost, damaged or buried in rubbish; readers and index must go on
  with what is left.
* **Boundaries.** Ranges that are empty or have no sequence header, positions at the ends of files
  and pages, ten-bit ranks, past-the-end entries of the cut table.

`PROJECT.json` lists each of these hazards at its line, with the properties that watch it.

## The modules

| Module | Models | Composition |
|---|---|---|
| `MpgIndex` | the picture table and what is computed from it: `check`, `indexnr`, `picturenr`, `load` | no state; extended by `IndexGen` and `SaveMpg` |
| `IndexGen` | `mpgIndex::generate()` and its file | extends `MpgIndex` |
| `CutTable` | `updateQuickPictureLookupTable()`, both translations, `createChapterList()` | no state; extended by `EventList` |
| `EventList` | every edit of the event list, with the table kept beside it | extends `CutTable` |
| `InBuffer` | the input buffer | - |
| `StreamData` | the buffer of a stream: bytes, items, rebasing of positions, the times of audio frames, the searches | no state; extended by `Reader` |
| `Reader` | a recording, a stream of it, and those who take its bytes: index, export, player | extends `StreamData` |
| `TsFile`, `PsFile` | `streamreader()` of either format | extend `Reader` |
| `ElementaryStream` | abstract: what a reader and its buffer promise | - |
| `Recording` | both readers with all users; implements `ElementaryStream` | extends `TsFile`, `PsFile`; instantiates `ElementaryStream` |
| `SaveMpg` | `exportMpgFile()` and `mpgfile::savempg()` with `recodevideo()` and `decodegop()` | extends `MpgIndex`: it exports with the same `indexnr()` that `IndexGen` is checked against |
| `MpegMuxer` | `mpegmuxer::putpacket()`, `flush()`, `packetizer()`, destructor | - |
| `Session` | `open()`, the commands and what they enable, dialogs and other calls that wait, mplayer | - |
| `Totals` | sums of lists, sets of numbers as lists, parts of lists: what the loops of several components add up and keep | no state; used by `MpegMuxer`, `EventList` and `StreamData` |
| `..._proofs` | theorems: `InBuffer`, `IndexGen`, `EventList`, `MpegMuxer`, `SaveMpg`, `Session`, `Recording` | extend their component and `Common` |
| `Common_proofs` | lemmas about `Totals`, the library's sequences and the picture table | extends `Totals` and `MpgIndex`, so that the constants of the table are there, unused, wherever it is extended |
| `MC...` | instances for TLC | extend their component |

A definition marked "mutated form" is not part of a model. It is a plausible bug, kept so that each
property can be shown to notice one: put in place of the definition behind it, it makes the
property fail.

### IndexGen

The stream is the sequence of its start codes: sequence headers and pictures, each picture with a
type and a temporal reference. `generate()` reads in chunks that may end after any start code. A
chunk is an action `ReadChunk`, which includes the write to the index file in front of it; each
start code is an action (`SequenceHeader`, `PictureIgnored`, `BPicture`, `ReferencePicture`);
`Finish` gives the last delayed picture its rank and writes the rest. `Cancel`, `Crash` (also in the
middle of a write) and failing writes (inside `WriteFile`) may come wherever the code allows them.
The variables have the names of the program's.

Scaled: the ten-bit rank (`SeqNrs`) and the seven fake pictures at the end of an index (`NFake`).
The number of the group of pictures is part of a start code only because the property
`DisplayOrder` needs it; no action reads it.

### CutTable and EventList

The event list is a sequence of markers, an edit an action with everything the slot does, the
update of the table included (or left out, as for bookmarks). `Scan` is the loop over the list as a
recursive function of the number of items passed: the table so far, whether a range is open, and which
chapters were met (`AddItems` appends, `ChapterPic` translates a chapter into a picture of the output).
`Ascending` (of `Totals`) lists a set of numbers in order, `Kept` the items at given places, and `AddItems` puts items in at their places. A picture is displayed for one unit of time, so that a time is a picture number. The variable
`pastend` becomes true where the code reads an entry of the table that does not exist; no action
goes on from there. Projects that may be opened are constants: their marks are in the order in
which the program saves them (`EventListAssumption`; a project file edited by hand may have another). What the settings say about the begin and the end of the file is the
variable `options`, set in `Init`.

Not modelled: two pictures with equal times.

### InBuffer

Byte *k* of a recording is the number *k*, so that the window is right if `d[j] = pos + j`. `mmap`
may fail at any time; a read may be short or fail; a file may turn out shorter than it was. A round
of the read loop (`Fill`) and of the two loops for a pipe (`PipeSkip`, `PipeTake`) is a step.

`providedata()` without a position (`ProvideMore`, used by the probe of a new file) answers from the
window or goes on where it is; `discarddata()` (`DiscardData`) is called by nobody and modelled as
what a user of the class may do.

Not modelled: the signal that a mapping of a file that has been truncated raises; `setsequential()`,
which advises the kernel and changes nothing that is read.

### StreamData, Reader, TsFile, PsFile, Recording

A recording is a sequence of blocks: packets of the stream, packets of others, rubbish, and a program
end. The readers see cells, of which some look like the begin of a packet; rubbish has such cells too.
What a packet carries is counted in bytes of its own: a byte is *(packet, place, whether an audio frame
begins with it)*, so that one can see in a buffer which byte came from where. Headers of units may
fill a packet, go over several, be wrong, or be cut off by the next unit.

A call of `streamreader()` is `Call`, then a step for each packet or for each round of the search for
the next one (`TsSearch`, `TsSkip`, `TsContinue`, `TsCollect`, `TsBadHeader`, `TsUnit`, `TsAtEnd`;
`PsRubbish`, `PsSkip`, `PsPacket`, `PsAtEnd`). Between two calls the users take bytes: `Discards`,
`Note`, `Seek` and `FindNoted` are the index and those who come back to a position in it; `AddPts`,
`AudioStart`, `PopOther`, `TakeFrame` and `PopToTimed` are export and player on an audio stream.

`ElementaryStream` knows a stream as the sequence of the bytes that could be read, and a queue:
bytes are taken from its front, and added in order; some may be left out only when the queue was empty, up to
the next begin of a unit, which is what the code does with the rest of a unit whose begin has gone. `Recording!Delivered`
states that readers, buffer and users implement it.

Scaled: the position from which positions are rebased (`Half`, 2^31 in the code), sizes of packets,
headers and of the window that is searched. Not modelled: `probe()` and the constructors, which look
for the streams; start codes in rubbish of a program stream; `itemlistsize`, which `audio_addpts()`
leaves wrong, after which nothing reads it.

### Session

A recording is a number; a deleted one's is never used again. `calls` are the calls that wait, in
a dialog, in the status bar's or the export's progress, or while an image is shown: a command given then
runs to its end inside the one on top, and what that does when it goes on depends on what is left.
A use of a recording that is gone or was never there sets `crashed`. `enabled` are the groups of
actions that the code enables together. `names`, `marks` and `project` say whose file names, markers
and project name the window has. `nested` is a history variable: a recording was opened inside a
waiting call, or as a recent file while mplayer runs. Nothing in the code prevents it, and
`SafeAlone` says what else leads to the use of a deleted recording.

The wheel and the keys move the slider even while it is disabled (`wheelEvent()`, `keyPressEvent()`): `Slide` needs no group
of actions, only a recording and no dialog in front. While a recording is indexed its table is not made yet, so that `linslidervalue()` may
end the program (`SliderMoved`), and the provider of images that it makes is not deleted with the recording when indexing is
cancelled or fails. `early` is the history variable for this: the slider was moved while this recording, or the one that
was given up last, was indexed. `Scale` is what then uses that provider: commands and a change of the window's size that nothing disables.

The window is left to the player by `Play` (`showimage` is false until it ends or a recording is opened). Nothing is
started if the picture lies in none of the files: `playPlay()` returns with everything disabled, and there is no `player`. mplayer may
not start: then `player` is set, but not `playing`, and `mplayer_exited()` is never called.

Not modelled: batch mode, the bodies of the commands that other modules have.

### SaveMpg

Picture *n* is displayed at `n * FrameTime`, audio frame *k* heard at
`audiobegin + k * AudioTime`. Per range: `Begin` computes the offsets of both streams, `RecodeHead`
encodes what lies in front of the next sequence header, the copying loop (`Pass`, `CopyPicture`,
`CopyVideoEnds`, `CopyAudio`, `PassEnds`) copies pictures and frames in any interleaving, as the
file may bring them, and may be left at any pass because nothing more is read (`ReadingEnds`), `RecodeTail` encodes B pictures whose second reference is not copied, and
`End` sets the multiplexer's times for the next range. `DecodeGop` is what the decoder of libavcodec
gives: it holds a reference picture back until the next one comes. Decoder or encoder may fail on any picture (`Recode`): what
the encoder loses leaves its time to the next one, as in the code, where a failed frame is passed over without counting it.
`intact` and `whole` are history variables: no encoded picture was lost; no reading ended early.
`origin` is the time stamp of the first picture: sound stamped below 0 has no say in the offsets (`AudioCounts`).
A recording may be any table that `load()` accepts: it begins with a sequence header, and the ranks of
each sequence are a permutation (`RanksOK`), which is what `IndexGen` shows of an index that was made without a break.
`shown` keeps `indexnr()` and `picturenr()` of the table as functions, and whether it is one that an encoder makes (`EncoderOrder`).

Left out: temporal references and time codes written into copied headers, what `putpacket()`
returns (it is only logged), more than one audio stream, a chosen audio stream without any frame.
After a cancel the code still encodes begin and end of each remaining range; so does the model.

### MpegMuxer

A step of `putpacket()` (`PutPacket`) may start `flush()`, which runs through `Packetize` (one pack
at a time), `StartMux`, and one round of the multiplexing loop per step: `Filler`, `Advance`,
`BufferFull`, `WritePack`, `MuxEnds`; `WriteFails` is a failing write. Only packs of a fixed size
(DVD) are modelled, sizes without headers, and one clock for time stamps and SCR. The streams come
one beside the other, at most `Lag` apart. `MayFollow` says which unit may share a pack with those in front of it: a picture with a sequence header may not, nor a unit much later than
the first (`MaxSpan`), and one of MPEG audio begins there only if it fits to its end or there is still some room (`WholeSlack`:
50 bytes, 0 for other streams).

## The runs

`tlc -config X.cfg M` in this directory. Numbers are distinct states.

| Run | Question | States |
|---|---|---|
| `MCIndexGen_any` | Whatever the stream is, with pictures missing too, cut into whatever chunks, with crashes, cancels and failing writes: is what is on disk final, is every sequence numbered by a permutation that follows the temporal references, does the file load back to the same index, are `indexnr()` and `picturenr()` inverse, does the recording begin and end with decodable pictures? | 735 500 |
| `MCIndexGen_partial` | (violated) Is an index file that loads complete? | |
| `MCEventList_edit` | Do table, go-to field and chapter list follow the markers in every list of up to four, edited in every way, with the ranges that are open at the begin and at the end of the file and without? Do bookmarks become the right cuts, and do automatic chapters fit? | 122 500 |
| `MCEventList_chapters` | (violated) Is the chapter list right with the default options? | |
| `MCInBuffer_files` | Two files (or empty ones) or a pipe, any sequence of positions: is the window what the recording has there, and does each call get what it asked for? | 245 000 |
| `MCReader_use` | Eleven damaged recordings, read and used in every way: do readers and buffer implement `ElementaryStream`, is a noted position found again, do audio frames have their times, does a range begin with the nearest sound, does every call return? | 6 800 |
| `MCReader_zero` | (violated) Does 0 from `streamreader()` mean the end? | |
| `MCSaveMpg_ranges` | Up to three ranges of recordings of eight kinds (one has lost a picture), cancelled anywhere, with reading that ends early and codecs that fail on any picture: is each picture written once, decodable, in order and without a gap, and do sound and picture stay together, wherever audio begins and ends? | 5 890 000 |
| `MCSaveMpg_stop` | (violated) Does a range end at its STOP? | |
| `MCMpegMuxer_mux` | Is every byte written once, in time, not too early, at the rate announced, without overfilling the decoder; and does every `flush()` end? | 24 900 |
| `MCSession_use` | Three recordings, three calls inside one another: can the window always be used again, does it belong to one recording, and is a recording used after its end only if one was opened inside a waiting call, or the slider was moved while it was indexed? | 36 000 |
| `MCSession_reset` | (violated) Is saving disabled when there is no recording? | |

Deadlock is not checked where the program may stop for good: a finished, cancelled or crashed index,
a finished export, a closed multiplexer, a full event list, the end of a recording, a crashed session.
The input buffer can always be called again, and there it is checked.

### Bounds, and why they are enough

* `IndexGen`: four start codes, or five behind a header, reach every branch of the numbering in any
  order and two sequences; every four pictures that
  come in the order of an encoder (`CodedStreams`); streams with pictures left out are two whole groups of pictures; a few
  long ones have more pictures in a sequence than ranks (`SeqNrs = 10`).
* `EventList`: four markers on five (seven) pictures give two ranges with a chapter in, between,
  before or behind them, touching and empty ranges, and all repetitions of a marker.
* `InBuffer`: a buffer of 5, a mapping of 8 and pages of 2 bytes on files of 0, 3 and 6 bytes make
  windows within a file, over both, at both ends, and unaligned. The proofs cover all sizes.
* `SaveMpg`: three ranges are two transitions, so that an error that is carried on is carried on
  twice; the recordings have open and closed groups, several groups in a sequence and
  sequences of one picture. An audio frame is one and a half pictures long: frames
  and pictures never fall together for long.
* `MpegMuxer`: access units of one and of two packs, several of them in a pack, buffers for one large
  unit and one pack (`BufSize >= largest unit + Payload`, without which a unit can only come
  late), two flushes before the one that closes, one write that fails. A pack of 5 bytes takes a unit of sound of 3 and the begin of
  no other (`WholeSlack`), but the end of one and the begin of the next picture. `FillerStep` is shorter than in the
  code so that a regular stream has gaps to bridge.

* `Recording`: each recording has the shapes that one path of the readers needs (named in `MCReader`),
  several units, and one kind of damage at a time. Rubbish that looks like a packet lies at least three
  packets away from the next such place, because the search takes three marks in a row for a packet.
  Positions are rebased after three bytes, so that each run does it several times.
* `Session`: a second recording meets what the first left, a third what both left; three calls are an
  export or indexing, a dialog inside it, and an image shown inside that.

### Assumptions that the properties state

`RanksPermute`, `LoadsBack`, `ReverseIfShort`: the sequence is not longer than the rank field.
`DisplayOrder`: the pictures come in the order of an encoder, and any of them but the first of a
group may be missing (`CodingOrder`, which `AllCoded` checks of the streams of the run that need it). `EachPictureOnce`, `ReferencesCopied`, `PictureTimes` and the first half of
`InSync`: the pictures lie in the file as an encoder puts them (`shown.ordered`: an I or P picture in front of the B
pictures that are displayed before it, everything else as it is displayed); a recording that has lost pictures may
not, and then its decoder gives others than `decodegop()` counts. `PictureTimes`: also, no range without a
sequence header up to its end (see the finding), and for the part about gaps, that nothing was cancelled, lost in the encoding, or left unread (`Untroubled`).
`InSync`: encoded pictures are claimed to be no more than half a frame early only if none was lost in the encoding (`intact`; see the
code at `mpgfile.cpp:772`), while copied ones, and the other bound, need no such condition; both bounds need that reading did not end early or that there is sound
from the first picture on (`Placed`); that sound goes on without a gap needs that reading did not end early and that no sound is stamped below 0
(`Counted`). `ConvertsCuts`: no bookmark is doubled. `InTime`: no write has failed; and the access unit
behind a pack is at most a second later than the first one in it (`MaxSpan + Interval <= Second` in
the run), because that unit decides how early the pack may be sent. `ChaptersMatchIfCut`: no range is
open from the begin of the file, and none is left open at the end without a virtual STOP. `FramesTimed` claims the
exact time only if no packet of the stream is missing between the begin of the unit and the frame and none of a unit with a wrong header lies there;
units are dated by the first frame in them, and frames follow each other (`SoundOK`, part of `RecordingAssumption`). All of `Recording`:
rubbish can be told from packets (`Recognised`, part of `RecordingAssumption`, which TLC evaluates for the files of the run):
what looks like a packet, at a place at which the reader may come to look, does not reach into a packet of the stream,
and no search goes past one, unless it is the last. `AutoChaptersFit`: the table has a range.

### Fairness

Two components have liveness properties. `MpegMuxer.FlushEnds` holds under weak fairness of the steps of `flush()`, and
`Recording.Returns` under weak fairness of those of `streamreader()`: both are loops in the program's
only thread without a wait in them, so they go on. Nothing is assumed of callers (`PutPacket`, `Close`,
`Call`, the users of a stream). Safety is all that is stated of the other components: their progress
depends on the user and on the file.

## Findings

1. **Incomplete index accepted** (`MCIndexGen_partial`). The index is written in place and stays
   behind after a cancel, a crash or a failed write. `load()` takes the last seven records of any
   file for fake pictures; if the rest is consistent, the index of a part of the recording is used.
2. **Chapters before the first START** (`MCEventList_chapters`). With `start_bof`, the first START
   replaces a virtual range, but the chapters recorded for that one stay in the list. Without `stop_eof`, those
   behind a last START stay too, though no range is made of it.
3. **Pictures behind STOP** (`MCSaveMpg_stop`). A range without a sequence header is encoded up to
   the next one, behind STOP; the range after it then overlaps it in time.
4. **0 in the middle of a recording** (`MCReader_zero`). `streamreader()` of a transport stream returns
   0 for a unit whose header ends with its packet. All callers take that for the end: the index or an
   exported range may end there.
5. **Commands without a recording** (`MCSession_reset`). Opening closes the old recording before it is
   known whether there will be a new one. If the dialog for the index is rejected or the project cannot
   be read, saving, exporting and playing stay enabled without a recording, and crash.

Seen while modelling and not kept as runs: the two functions of the index are no inverses
in sequences of more than 1024 pictures; the resolution number of a picture is the number of
resolutions found so far, which is wrong once a resolution returns; converting a marker in the
context menu can make doubles; the go-to field and automatic chapters read past the end of the cut
table for the last output position and with chapters wanted behind the last range; without a
marker the last picture of a file is not exported, as the automatic STOP is there; a recording opened
inside an indexing or exporting call leads to the use of a deleted one; so does the wheel or a key that moves the disabled
slider while a recording is indexed, if indexing is then cancelled and the window gets another size (`tvclipper.cpp:2166`), and
`lastiframe()` reads the table before it is made; a picture that the encoder fails on leaves its time to the next one
(`mpgfile.cpp:772`), so that the encoded begin or end of a range comes too early against the sound; `pop(number)` with all items
clears the bytes and leaves the items, the player's search for the last time stamp leaves its
list (`mpgfile.cpp:356`); if mplayer cannot be started, `finished()` never comes, and all that
`playPlay()` disabled, opening a file too, stays disabled.

## What is proved

TLAPS checks the theorems of seven components for all values of the constants under the assumptions
named there. Each has an inductive invariant `IInv`, a lemma for each action that it keeps it, and the
properties of the runs as its consequences.

**`IndexGen_proofs`** (any set of streams, any rank field, any number of fake pictures):
`TypeCorrect`, `FlushedFinal`, `RanksArePermutations`, all from `IndexInvariant`. That a record on
disk is never renumbered is not inductive: whether a rank given now hits a written picture depends
on where the delayed picture is. The invariant adds `Layout` (the current sequence begins at
`seqheaderpic`, nothing behind it has a header, and the ranks given so far and the delayed picture
are as many as its pictures: `seqheaderpic + maxseqnr + 1 + Delayed = pictures`), `OpenRanks` (ranks of the open
sequence are distinct and at most `maxseqnr`) and `FileLayout` (nothing beyond `seqheaderpic` is
on disk before the end). A sequence is closed by giving the delayed picture the one rank that is
missing: `OpenCloses`. The proof has a lemma per action.

`ReverseWhenShort`, `DecodableEnds` and `WholeFileLoads` are about the finished table. They rest on the second half of **`Common_proofs`**,
whose lemmas hold for any table in which the ranks of each sequence are a permutation (`GoodTable`): the loop of `indexnr()`
finds the picture of a number and only that one (`IndexNrFacts`, `PictureFound`), the loops that count the pictures to skip at
the begin and the end stop at the first I picture and behind the last that is no B picture (`SkipFirstFacts`,
`RealPicturesFacts`), and `check()` accepts exactly these tables (`GoodAccepted`, `AcceptedGood`): it accepts any
with no rank twice and none beyond the sequence, and `RankCount` counts that this leaves a permutation. What `load()` computes
depends on the ranks, types and headers alone (`CheckAgrees`). For the rest of a record and the fake pictures
`LoadInvariant` says what is on disk, chunk by chunk.

`DisplayInOrder` assumes that the pictures of each stream come in the order of an encoder, any but the first of a group
missing. The argument ties picture *i* to its place in the stream, and a place to the pictures still to come: the ranks given
in the open sequence are in the order of display (`OrderInv`), the delayed picture comes behind every picture with a
rank, and so does whatever is still to come, unless it comes in front of the delayed one only. Closing a
sequence gives the delayed picture the last rank (`OpenOrderCloses`). The branch for a picture that is displayed before
the last one that got a rank is never taken in such streams.

**`InBuffer_proofs`** (any sizes of buffer, mapping, page and files): `TypeCorrect`,
`WindowAlwaysFaithful`, `CallsServed`, `PipeNothingLost`, `ReadsInsideFiles`, all from
`InputInvariant`. The invariant adds `NoGap` (the files cover the recording), `Fresh` (a window
that was never filled is empty), `Pipe` (where the pipe's descriptor is), and `Filling` and `Piping`
(inside a loop: what the call still wants lies within the files and fits into the buffer, and the
descriptor of the file that is read stands where the window ends unless it will be moved). The last
one is why a seek may be skipped between two reads of one file. `WindowBeginFacts` shows the
arithmetic of the mapped window: it holds the position and what is wanted from it on, given
`Size + PageSize <= MmapSize` and `2 * PageSize <= MmapSize`.

**`EventList_proofs`** (any number of pictures, any projects, options and tolerances): `TypeCorrect`,
`TableCorrect` (the cut table selects what the markers say), `GoBackCorrect` (the position in the
output of a picture leads back to it), `ChaptersFit` (automatic chapters lie in the output and keep their distance,
if `ChapterTolerance <= ChapterMinimum + 1`, which the default settings satisfy), all from
`EventListInvariant`: the list is sorted (`Ordered`), and the table kept beside it is one (`IsCutTable`) and covers
the selected pictures (`CoveredBy`). What the loop over the list does is described item by item: behind each
item, the ranges closed so far and the open one cover what the items passed select (`GoodRanges`, `GoodStart`, `Closed`, `Open`,
and `NoStopBehind`, `FromBegin` for the range that `start_bof` opens in advance). The edits that do not
scan the list again (a bookmark, a chapter) keep `SameSelection`: an item that is no START or STOP can come
and go without changing what any picture's last marker is (`Picks`, `PartSelects`). `OutPictureCounts`, `InPictureFound` and
`TableGoesBack` are about any table, and `ChapterPicFits` about its translation of a chapter.
`ChaptersCorrect` is about the second result of the same loop. What the loop knows of chapters behind each item is
described beside what it knows of ranges: those in closed ranges stand with their times in the output, those in the open
range with what its begin will add (`Timed`), and with no range open at either end of the file none are left of a range that is not
exported (`EndsClosed`). The list that is printed is this one in ascending order.

**`MpegMuxer_proofs`** (any finite set of streams and any access units, pack and buffer sizes that satisfy
`MpegMuxerAssumption`): `TypeCorrect`, `NothingIsLost`, `RateIsKept`, `NeverTooEarly` (the half of `InTime` that does not
depend on the input), `BufferNeverOverflows`, all from `MuxInvariant`. That the decoder's buffer holds is a statement
about sums over packs, at the time each is received; the code keeps one number per stream, counts up what it sends,
and down what it takes for decoded. The invariant says what that number is (`FillCovers`: at least what has
arrived and was not removed), that removals are taken from the list in their order and only those that were given
(`RemovalsGiven`, `GivenOrder`), that a unit's bytes are in packs or still to be packed (`Conserved`, `ListComplete`, `AllFlushed`,
`AuOrder`), and how the clock stands to the file (`ClockPastFile`, `EarliestTimes`). `RateKept` is proved as the run states it:
behind a whole bridge of fillers at least one unit of time passes, behind a bridge that failed none need. That
the total of two lists joined is the sum of both (`TotalJoin`, a lemma of `Common_proofs`) is proved by induction over a set of numbers.

**`Session_proofs`** (any number of recordings, calls nested to any depth): `TypeCorrect`, `AlwaysCanGoOn`,
`SafeIfAlone`, `WindowOfOneRecording`, all from `SessionInvariant`. The invariant says which of the calls that wait gives the
window back, what each waiting call owns, and that, unless `nested`, an indexing or exporting call's recording is the one in the
window, whose parts are all of it. While a recording is opened nothing else waits, but for pictures that the slider shows
during indexing (`OpeningAlone`); these are also the only way to a provider of images that is left behind, and as everything is
disabled then, only another recording can be opened, which deletes it (`OneOwner`).

**`SaveMpg_proofs`** (any table that `load()` accepts, any sound, any number of ranges, any lengths of picture and frame):
`TypeCorrect`, `PicturesWrittenOnce`, `ReferencesAreCopied`, `PicturesTimed`, `AudioInSync`, `AudioEndsWithVideo`: all
properties of the run. The argument has four parts.

* *The table* (no state): `TableNumbered` (file and display numbers are inverse), `TablePassed` (skipping by rank inside the
  first sequence and by nothing behind it is skipping what is displayed earlier), `TableDense`, `TableEnds`, `TableOrdered`.
  From them, where copying stops and encoding begins: `TailBegins` (B pictures are left out at the end only behind the last
  reference that is copied), `RangeCovered` and `CopiedShown` (every picture from the first header to STOP is copied or encoded, none
  both), `ReferenceWanted` (a wanted picture's references are wanted).
* *The decoder*: `DecodingStep` says what it has given after each picture fed to it: all pictures displayed from the
  header on that it has seen, except the one it holds, in display order (`GivenUpTo`). Hence `DecodeGopOrder`.
* *Pictures*: `CopyOK` and `CopiedOK` say where the copying loop is and that what it has passed is in the output; `WrittenOK` that the
  pictures of the range are exactly those of the encoded begin, of what was passed, and of the encoded end. For
  decoding times, `CopyAhead`: the time the multiplexer keeps is that of the last I or P picture
  copied, and everything in the output is decoded before anything still to come is displayed; `Ahead` links it over encoded
  parts and ranges. For gaps, `PastOK`: what is past is in order, ends where the next range goes on,
  and each of its pictures is followed by another or by that end.
* *Sound*: `InStep` bounds how far the offsets of sound and pictures are apart, on both sides while frames are left and on one side
  behind the last frame; `SoundGoesOn` says where the next frame will be heard; `SoundStops` where the sound of the
  range ends. That the bound does not grow from range to range is that `Closest` undoes what `WithoutLast` left (`ClosestFacts`).
  Of encoded pictures, `KeptPlaces` says that what comes out at place *j* was at place *j* or behind it when it was given, and `RecodeFacts` that its
  time is that of place *j*: lost pictures move the others forward only, and not at all if none was lost.

**`Recording_proofs`** (any recordings that `RecordingAssumption` admits, any sizes of packet, window, header and frame):
`ReaderTypes`, `ReadersDeliver` (the readers with all users implement `ElementaryStream`, step by step), `NotedFoundAgain`,
`SoundIsTimed`, `RangesStartNearest`, all from `ReaderInvariant`. The file is any sequence of packets, of this stream and of others, with rubbish and damage in
between; the assumption says of it what the code takes for granted (`FileOK`: sizes, marks, headers, `Recognised`,
`SoundOK`), and TLC evaluates it for the files of the run. The invariant has these parts.

* `Standing`: where the reader is. Of the packets in front of `filepos` all was read or passed over, and if the buffer has
  bytes, nothing of them is missing behind its end. `HeaderState` says what of a unit's header was collected, and that what is
  collected is the begin of a unit that is not complete; without it, a reader that drops a packet in a header could go on in the middle of a unit.
  `Looking` says at which places a search may start, and that one that found nothing goes on where it ended; that no packet of
  the stream is passed over there is what `Recognised` is for (`StandingPassed`).
* `Holding`: the buffer is a piece of the stream (`InStream`), its positions are bounded though they count on (`BufferOK`: `Rebased`
  takes them back), and each item is in it, in order (`Buffered`).
* `ItemsTell`, for streams whose users note positions: each item names the packet in which its unit began and how many bytes behind the
  header it stands (`Tells`), and every unit that begins in the buffer has an item. The second half is needed because
  `filepos2bufferpos` takes the first item that is not in front. `Noted` says of a position that was noted at what byte it stands.
* `Sounding`, for sound: each item is dated as `FramesTimed` says, at the place of its byte counted from the end of the buffer, which `Pop`,
  `Discard` and `Rebased` do not move (`Stays`). The step that needs an argument is `audio_addpts()`: it counts the frames that it
  recognises, those with another behind them in the buffer. Each stands on a mark (`FramesAre`), so it never counts too many
  (`PassedCount`); if nothing is missing, each mark in between is followed by one a frame further on, which is in the buffer
  because the frame that is dated has its own there (`MarkIsFrame`), so it counts them all.
* `Spaced`, for `RangesStartNearest`: between any two items lies at least the time of the frames between them, as they can be counted
  in the stream (`FrameCount`); order alone would not do, as `audio_addpts()` moves the time of one item on past where the next
  stood. New units keep it because their time counts all frames in front, lost ones included (`FramesInFront`).

The start of a range is then a matter of order (`Ordered`): the first search ends at an item that is not behind the wanted time, so
what is discarded in front is no nearer (`StartsAtOrBefore`); what is kept keeps its time when it is reckoned again
(`AddPtsKeeps`, `DiscardedUpTo`); and the second search ends at the nearest of those (`StartsClosest`).

The lemmas below those are about the file: packets lie one behind the other (`CellsLaid`), the stream is what they carry
(`StreamLaid`), and no frame lies in front of the end of a header (`HeaderHasNoFrame`).

### What is only model-checked

* Liveness: `FlushEnds`, `Returns`. The provers have no `ENABLED`, so fairness is out of reach.
* `ConvertsCuts`: it compares with the library's `SortSeq` and `SelectSeq`, whose parameters are operators.
* The first half of `InTime`, that no pack is late: it is a statement about all units of a stream together, that they can be sent
  in time at all. `NeverTooEarly`, the other half, is proved.
* That `libavcodec` decodes as `Decode` says is an assumption of the model.

Out of the prover's reach are `RECURSIVE` operators, and induction theorems with an operator as parameter.
Neither is used: recursion is written as functions, and induction is over a set of numbers, the ones for which
a claim holds.

## What is not modelled

`PROJECT.json` gives the reason for each component. In short: the image cache, the command line and
the search for streams in a new recording (`probe()`) are open; `lavfmuxer`, the player, dialogs, settings, XML and
conversions of times to texts are layers over libraries or pure input and output.

By far the most of the repository, more than 98 % of its lines, is a copy of FFmpeg 2.7.2 (`src/ffmpeg-2.7.2`): codecs,
formats and tables for hundreds of media types, of which the program uses one video decoder, one
encoder and two formats, through a handful of calls. It is third-party code, and arithmetic on signals rather than
control; it appears in `SaveMpg` as what the decoder gives for what it is fed, and as steps that may fail.
Of the program's own code the modules name about a quarter of the lines; the rest is mostly the layout of windows,
texts and set-up.

## Plan

Modelled so far: index, cut table, input buffer, export and multiplexer first, because what they
decide ends up in every exported file; then the readers with the buffers of streams, and the session.
Next, in this order:

1. `ImageCache`: `getimage()` and `shrinkcache()` over `DecodeGop` of `SaveMpg`; batch mode as a user of `Session`.
2. An abstract specification of the export (what a cut list selects, in order, each picture once)
   that `SaveMpg` implements, and one of a rate-limited channel with a bounded buffer for
   `MpegMuxer`.
