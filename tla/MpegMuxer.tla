----------------------------- MODULE MpegMuxer ------------------------------
(***************************************************************************)
(* The program stream multiplexer with packs of a fixed size.  Access      *)
(* units (pictures, audio frames) are collected per stream; every so often *)
(* flush() puts those into packs that no other stream can precede any more *)
(* (packetizer()) and writes the packs, the most urgent first, each with   *)
(* the system clock reference (SCR) at which it enters the decoder, whose  *)
(* buffers it keeps account of.                                            *)
(*                                                                         *)
(* One clock for time stamps and SCR; sizes are without headers.           *)
(***************************************************************************)
EXTENDS Integers, FiniteSets, SequencesExt, Totals

CONSTANTS
  Streams,       (* stream numbers, the video is 0                         *)
  BufSize,       (* decoder buffer of each stream                          *)
  Payload,       (* what a pack holds                                      *)
  Slack,         (* room that is not worth to begin an access unit in      *)
  WholeSlack,    (* for each stream the room in which only one is begun    *)
                 (* that fits: 50 bytes for mpeg audio, 0 for the others   *)
  PackTime,      (* duration of a pack: scrpack                            *)
  PtsOffset,     (* ptsoffset: time to fill the buffers at the start       *)
  SafetyMargin,  (* dts_safetymargin, 2 s                                  *)
  Second,        (* 1 s: DTSMAXDELAY, the least to process, 2nd margin     *)
  MaxSpan,       (* 0.7 s: difference of decoding times in a pack          *)
  FillerStep,    (* 0.5 s: longest time without a pack; shorter in runs    *)
  Later,         (* time after a removal when its room is used             *)
  FlushEvery,    (* access units between two calls of flush()              *)
  (* The access units:                                                     *)
  Sizes,         (* for each stream the set of their sizes                 *)
  Interval,      (* for each stream the time between two                   *)
  KeyEvery,      (* distance of key frames                                 *)
  Lag,           (* how far a stream may be behind another one             *)
  MaxTime,       (* bound on decoding times                                *)
  MaxFailures    (* bound on failed writes                                 *)

ASSUME MpegMuxerAssumption ==
  /\ Streams \subseteq Nat /\ 0 \in Streams /\ IsFiniteSet(Streams)
  /\ BufSize \in [Streams -> Nat] /\ Interval \in [Streams -> Nat \ {0}]
  /\ Sizes \in [Streams -> SUBSET (Nat \ {0})]
  /\ Payload \in Nat \ {0} /\ Slack \in Nat /\ Slack < Payload
  /\ WholeSlack \in [Streams -> Nat]
  /\ \A s \in Streams : Payload <= BufSize[s]
  /\ PackTime \in Nat \ {0} /\ FillerStep \in Nat \ {0} /\ Later \in Nat \ {0}
  /\ \A t \in {PtsOffset, SafetyMargin, Second, MaxSpan, Lag, MaxTime} : t \in Nat
  /\ FlushEvery \in Nat \ {0} /\ KeyEvery \in Nat \ {0} /\ MaxFailures \in Nat

VARIABLES
  st,          (* the streams: access units, packs, removals, fill level   *)
  scr,
  aucounter,
  pc,          (* "idle", "pack" and "mux" in flush(), "closed"            *)
  maxdts,      (* what is flushed; -1: everything                          *)
  streamlist,  (* streams with packs, the most urgent one first            *)
  given,       (* history: all access units                                *)
  file,        (* history: all packs written                               *)
  failures

vars == <<st, scr, aucounter, pc, maxdts, streamlist, given, file, failures>>

Video == 0

Least(a, b) == IF a < b THEN a ELSE b
Most(a, b)  == IF a < b THEN b ELSE a

(* What the packs or removals of a list have.                              *)
Sum(list) == Total[[i \in DOMAIN list |-> list[i].bytes]]

-----------------------------------------------------------------------------
Init ==
  /\ st = [s \in Streams |-> [aulist |-> << >>, packlist |-> << >>,
                              removals |-> << >>, fill |-> 0]]
  /\ scr = 0 /\ aucounter = 0
  /\ pc = "idle" /\ maxdts = 0 /\ streamlist = << >>
  /\ given = [s \in Streams |-> << >>] /\ file = << >> /\ failures = 0

(* The access units of a stream follow each other at equal intervals; the  *)
(* streams come one beside the other, as savempg() finds them in the file. *)
NextDts(s) == PtsOffset + Len(given[s]) * Interval[s]

(* flush(false): how far the access units can be processed.                *)
Available(streams) ==
  LET last == {Last(streams[s].aulist).dts :
                 s \in {s \in Streams : streams[s].aulist # << >>}}
  IN  Max({0} \cup last)

FlushLimit(streams) == Available(streams) - SafetyMargin

StartFlush(streams) ==
  LET limit == FlushLimit(streams)
  IN  IF limit < Second
        THEN UNCHANGED <<pc, maxdts>>
        ELSE pc' = "pack" /\ maxdts' = limit

PutPacket(s) ==
  /\ pc = "idle"
  /\ NextDts(s) <= MaxTime
  /\ \A r \in Streams : NextDts(s) <= NextDts(r) + Lag
  /\ \E size \in Sizes[s] :
       /\ st' = [st EXCEPT
            ![s].aulist = Append(@, [size |-> size, dts |-> NextDts(s),
                                     pos |-> 0,
                                     key |-> Len(given[s]) % KeyEvery = 0]),
            ![s].removals = Append(@, [scr |-> NextDts(s), bytes |-> size])]
       /\ given' = [given EXCEPT ![s] = Append(@, [size |-> size, dts |-> NextDts(s)])]
  /\ IF aucounter + 1 >= FlushEvery
       THEN aucounter' = 0 /\ StartFlush(st')
       ELSE aucounter' = aucounter + 1 /\ UNCHANGED <<pc, maxdts>>
  /\ UNCHANGED <<scr, streamlist, file, failures>>

(* The destructor flushes everything.                                      *)
Close ==
  /\ pc = "idle"
  /\ pc' = "pack" /\ maxdts' = -1
  /\ UNCHANGED <<st, scr, aucounter, streamlist, given, file, failures>>

-----------------------------------------------------------------------------
(* packetizer()                                                            *)
Rest(au) == au.size - au.pos

Bytes(aus) == Total[[i \in DOMAIN aus |-> Rest(aus[i])]]

(* The access units that go into the next pack, the last one perhaps only  *)
(* in part: up to the next key frame, and not too far apart in time.       *)
MayFollow(s, aus, k) ==
  LET before == Bytes(SubSeq(aus, 1, k - 1))
  IN  /\ ~(s = Video /\ aus[k].key)
      /\ aus[k].dts - aus[1].dts < MaxSpan
      /\ before < Payload - Slack
      /\ before + Rest(aus[k]) <= Payload \/ before <= Payload - WholeSlack[s]

Together(s, aus) ==
  CHOOSE k \in 1 .. Len(aus) :
    /\ \A j \in 2 .. k : MayFollow(s, aus, j)
    /\ k = Len(aus) \/ ~MayFollow(s, aus, k + 1)

ConsumedShort(aus, bytes) ==  \* mutated form: an empty one stays
  CHOOSE k \in 0 .. Len(aus) :
    /\ k = 0 \/ Bytes(SubSeq(aus, 1, k)) < bytes
    /\ k = Len(aus) \/ bytes <= Bytes(SubSeq(aus, 1, k + 1))

Consumed(aus, bytes) ==
  CHOOSE k \in 0 .. Len(aus) :
    /\ Bytes(SubSeq(aus, 1, k)) <= bytes
    /\ k = Len(aus) \/ bytes < Bytes(SubSeq(aus, 1, k + 1))

Remaining(aus, bytes) ==
  LET k    == Consumed(aus, bytes)
      left == SubSeq(aus, k + 1, Len(aus))
  IN  IF left = << >> THEN left
      ELSE [left EXCEPT ![1].pos = @ + bytes - Bytes(SubSeq(aus, 1, k))]

(* An access unit must not be in the buffer for more than a second: the    *)
(* last one that is begun, or could be, decides.  Field last, the decoding *)
(* time of the last byte, is a history.                                    *)
NewPack(aus, bytes) ==
  LET k == Consumed(aus, bytes)
      next == aus[Least(k + 1, Len(aus))].dts
  IN  [bytes |-> bytes, dts |-> aus[1].dts, minscr |-> next - Second,
       maxscr |-> aus[1].dts,
       last |-> IF bytes > Bytes(SubSeq(aus, 1, k)) THEN next ELSE aus[k].dts]

(* A key frame of the video is preceded by a pack with the system header.  *)
HeaderPacks(s, au) ==
  IF s = Video /\ au.key /\ au.pos = 0
    THEN <<[bytes |-> 0, dts |-> au.dts, minscr |-> au.dts - Second,
            maxscr |-> au.dts, last |-> au.dts]>>
    ELSE << >>

Pending(s) ==
  /\ st[s].aulist # << >>
  /\ maxdts < 0 \/ Head(st[s].aulist).dts < maxdts

Packetize(s) ==
  /\ pc = "pack" /\ Pending(s)
  /\ \A r \in Streams : r < s => ~Pending(r)
  /\ LET aus   == st[s].aulist
         bytes == Least(Payload, Bytes(SubSeq(aus, 1, Together(s, aus))))
     IN  st' = [st EXCEPT
           ![s].packlist = @ \o HeaderPacks(s, aus[1]) \o <<NewPack(aus, bytes)>>,
           ![s].aulist = Remaining(aus, bytes)]
  /\ UNCHANGED <<scr, aucounter, pc, maxdts, streamlist, given, file, failures>>

-----------------------------------------------------------------------------
(* A pack must be early enough for all behind it to be in time.            *)
Urgent(packs) ==
  [i \in DOMAIN packs |->
     [packs[i] EXCEPT !.maxscr =
        Min({packs[j].maxscr - (j - i) * PackTime : j \in i .. Len(packs)})]]

First(streams, s) == Head(streams[s].packlist)

(* operator< of two streams: those without packs are last.                 *)
BeforeByStart(streams, r, s) ==  \* mutated form: the one that may come first
  /\ streams[r].packlist # << >>
  /\ streams[s].packlist = << >>
     \/ First(streams, r).minscr < First(streams, s).minscr

Before(streams, r, s) ==
  /\ streams[r].packlist # << >>
  /\ streams[s].packlist = << >>
     \/ First(streams, r).maxscr < First(streams, s).maxscr

(* A stream goes back into the list in front of all that are less urgent.  *)
Insert(streams, list, s) ==
  LET less == {i \in DOMAIN list : Before(streams, s, list[i])}
  IN  IF less = {} THEN Append(list, s)
      ELSE InsertAt(list, Min(less), s)

(* The streams with packs, the most urgent first, each once; those that    *)
(* are as urgent as each other in the order of their numbers.              *)
Sorted(streams) ==
  LET filled == {s \in Streams : streams[s].packlist # << >>}
  IN  {list \in [1 .. Cardinality(filled) -> filled] :
         /\ Range(list) = filled
         /\ \A i, j \in DOMAIN list :
              i < j => /\ ~Before(streams, list[j], list[i])
                       /\ Before(streams, list[i], list[j]) \/ list[i] < list[j]}

StartMux ==
  /\ pc = "pack"
  /\ \A s \in Streams : ~Pending(s)
  /\ st' = [s \in Streams |-> [st[s] EXCEPT !.packlist = Urgent(@)]]
  /\ streamlist' \in Sorted(st')
  /\ pc' = "mux"
  /\ UNCHANGED <<scr, aucounter, maxdts, given, file, failures>>

stopscr == IF maxdts < 0 THEN -1 ELSE maxdts - Second

More ==
  /\ streamlist # << >>
  /\ st[Head(streamlist)].packlist # << >>
  /\ First(st, Head(streamlist)).maxscr < stopscr \/ stopscr < 0

WithPacks == {i \in DOMAIN streamlist :
                \A j \in 1 .. i : st[streamlist[j]].packlist # << >>}
ReadyLater ==  \* mutated form: a pack is late by one
  {i \in WithPacks : First(st, streamlist[i]).minscr < scr}

Ready == {i \in WithPacks : First(st, streamlist[i]).minscr <= scr}

minscr == Min({First(st, streamlist[i]).minscr : i \in WithPacks})

Done == pc' = IF maxdts < 0 THEN "closed" ELSE "idle"

MuxEnds ==
  /\ pc = "mux" /\ ~More
  /\ Done
  /\ streamlist' = << >>
  /\ UNCHANGED <<st, scr, aucounter, maxdts, given, file, failures>>

Written(s, pack, time, whole) ==
  [stream |-> s, bytes |-> pack.bytes, scr |-> time, whole |-> whole,
   dts |-> pack.dts, last |-> pack.last]

Bridge(time, whole) ==
  Written(-1, [bytes |-> 0, dts |-> time + PackTime, last |-> time], time, whole)

(* Nothing may be sent yet: packs without a payload bridge long gaps.      *)
Filler ==
  /\ pc = "mux" /\ More /\ Ready = {}
  /\ minscr - scr > FillerStep
  /\ scr' = scr + FillerStep
  /\ file' = Append(file, Bridge(scr', TRUE))
  /\ UNCHANGED <<st, aucounter, pc, maxdts, streamlist, given, failures>>

Advance ==
  /\ pc = "mux" /\ More /\ Ready = {}
  /\ minscr - scr <= FillerStep
  /\ scr' = minscr
  /\ UNCHANGED <<st, aucounter, pc, maxdts, streamlist, given, file, failures>>

(* What the decoder has decoded leaves its buffer; what has come late was  *)
(* not there.                                                              *)
Removed(stream) ==
  LET k == CHOOSE k \in 0 .. Len(stream.removals) :
             /\ \A i \in 1 .. k : stream.removals[i].scr <= scr
             /\ k = Len(stream.removals) \/ stream.removals[k + 1].scr > scr
  IN  IF stream.removals = << >> THEN stream
      ELSE IF Last(stream.removals).scr <= scr
        THEN [stream EXCEPT !.removals = << >>, !.fill = 0]
        ELSE [stream EXCEPT
               !.removals = SubSeq(@, k + 1, Len(@)),
               !.fill = Most(0, @ - Sum(SubSeq(stream.removals, 1, k)))]

(* When there will be room for a pack, if there is none now.               *)
RoomAt(s, stream) ==
  LET free == BufSize[s] - stream.fill
      need == Head(stream.packlist).bytes
      enough == {k \in DOMAIN stream.removals :
                   free + Sum(SubSeq(stream.removals, 1, k)) >= need}
      k    == IF enough = {} THEN Len(stream.removals) ELSE Min(enough)
  IN  stream.removals[k].scr + Later

FullNever(s, stream) == FALSE  \* mutated form: the buffer is not looked at

Full(s, stream) ==
  /\ stream.removals # << >>
  /\ Head(stream.packlist).bytes > BufSize[s] - stream.fill

Chosen == streamlist[Min(Ready)]

BufferFull ==
  /\ pc = "mux" /\ More /\ Ready # {}
  /\ LET s == Chosen
         stream == Removed(st[s])
     IN  /\ Full(s, stream)
         /\ RoomAt(s, stream) > scr
         /\ st' = [st EXCEPT ![s] =
              [stream EXCEPT !.packlist[1].minscr = Most(@, RoomAt(s, stream))]]
  /\ UNCHANGED <<scr, aucounter, pc, maxdts, streamlist, given, file, failures>>

AfterPackShort == scr + PackTime \div 2  \* mutated form

AfterPack == scr + PackTime

MaySend(s, stream) == Full(s, stream) => RoomAt(s, stream) <= scr

SentPack(stream) ==
  [stream EXCEPT !.packlist = Tail(@), !.fill = @ + Head(stream.packlist).bytes]

WritePack ==
  /\ pc = "mux" /\ More /\ Ready # {}
  /\ LET s == Chosen
         stream == Removed(st[s])
     IN  /\ MaySend(s, stream)
         /\ file' = Append(file, Written(s, Head(stream.packlist), scr, TRUE))
         /\ st' = [st EXCEPT ![s] = SentPack(stream)]
         /\ streamlist' = Insert(st', RemoveAt(streamlist, Min(Ready)), s)
  /\ scr' = AfterPack
  /\ UNCHANGED <<aucounter, pc, maxdts, given, failures>>

(* A write that fails leaves a part of the pack in the file and the pack   *)
(* in the list.                                                            *)
WriteFailsDropped(s, stream) == SentPack(stream)  \* mutated form

Unsent(s, stream) == stream

WriteFails ==
  /\ pc = "mux" /\ More
  /\ failures < MaxFailures
  /\ failures' = failures + 1
  /\ \/ /\ Ready # {}
        /\ LET s == Chosen
               stream == Removed(st[s])
           IN  /\ MaySend(s, stream)
               /\ file' = Append(file, Written(s, Head(stream.packlist), scr, FALSE))
               /\ st' = [st EXCEPT ![s] = Unsent(s, stream)]
        /\ scr' = AfterPack
     \/ /\ Ready = {} /\ minscr - scr > FillerStep
        /\ scr' = scr + FillerStep
        /\ file' = Append(file, Bridge(scr', FALSE))
        /\ UNCHANGED st
  /\ Done
  /\ streamlist' = << >>
  /\ UNCHANGED <<aucounter, maxdts, given>>

Next ==
  \/ \E s \in Streams : PutPacket(s) \/ Packetize(s)
  \/ Close \/ StartMux \/ MuxEnds \/ Filler \/ Advance
  \/ BufferFull \/ WritePack \/ WriteFails

Spec == Init /\ [][Next]_vars

(* flush() is a loop without a wait in it: it goes on by itself.           *)
Flush ==
  \/ \E s \in Streams : Packetize(s)
  \/ StartMux \/ MuxEnds \/ Filler \/ Advance \/ BufferFull
  \/ WritePack \/ WriteFails

FairSpec == Spec /\ WF_vars(Flush)

-----------------------------------------------------------------------------
TypeOK ==
  /\ st \in [Streams -> [aulist: Seq([size: Nat, dts: Nat, pos: Nat, key: BOOLEAN]),
                        packlist: Seq([bytes: Nat, dts: Nat, last: Nat,
                                       minscr: Int, maxscr: Int]),
                        removals: Seq([scr: Nat, bytes: Nat]), fill: Nat]]
  /\ \A s \in Streams : \A i \in DOMAIN st[s].aulist :
       st[s].aulist[i].pos < st[s].aulist[i].size
  /\ scr \in Nat /\ aucounter \in 0 .. FlushEvery - 1
  /\ pc \in {"idle", "pack", "mux", "closed"}
  /\ maxdts \in Nat \cup {-1}
  /\ streamlist \in Seq(Streams)
  /\ failures \in 0 .. MaxFailures
  /\ given \in [Streams -> Seq([size: Nat, dts: Nat])]
  /\ file \in Seq([stream: Streams \cup {-1}, bytes: Nat, scr: Nat, whole: BOOLEAN,
                    dts: Nat, last: Nat])

(* What a stream has got, what of it is in the file, and what of it has    *)
(* been decoded.                                                           *)
Given(s) == Total[[i \in DOMAIN given[s] |-> given[s][i].size]]

Carried(s) ==
  Total[[i \in DOMAIN file |->
           IF file[i].stream = s /\ file[i].whole THEN file[i].bytes ELSE 0]]

Decoded(s, t) ==
  Total[[i \in DOMAIN given[s] |->
           IF given[s][i].dts <= t THEN given[s][i].size ELSE 0]]

(* Every byte of every access unit is in the file, in a pack or in its     *)
(* list, once: also after a write that failed and is repeated.  If none    *)
(* has failed, all of them are in the file when it is closed.              *)
NothingLost ==
  \A s \in Streams :
    /\ Carried(s) + Sum(st[s].packlist) + Bytes(st[s].aulist) = Given(s)
    /\ pc = "closed" /\ failures = 0 =>
         Carried(s) = Given(s) /\ st[s].aulist = << >>

(* The multiplex has the rate that its packs announce: they are at least   *)
(* the duration of a pack apart, over all calls of flush() and behind the  *)
(* part of a pack that a write left.  Only a pack that bridges a gap may   *)
(* be followed sooner, but not by one with the same SCR if it is whole.    *)
RateKept ==
  \A i \in 2 .. Len(file) :
    file[i].scr - file[i - 1].scr >=
      CASE file[i - 1].stream # -1 -> PackTime
        [] file[i - 1].stream = -1 /\ file[i - 1].whole -> 1
        [] OTHER -> 0

(* Nothing is in the decoder's buffer for more than a second.              *)
NotTooEarly ==
  \A i \in DOMAIN file : file[i].last - Second <= file[i].scr

(* If nothing has to be written twice, everything has arrived before it is *)
(* decoded, and nothing is in the decoder's buffer for more than a second. *)
InTime ==
  /\ NotTooEarly
  /\ failures = 0 =>
       \A i \in DOMAIN file : file[i].scr + PackTime <= file[i].dts

(* The decoder's buffer never overflows: what has arrived and has not been *)
(* decoded fits into it, whenever a pack has arrived.                      *)
BufferHolds ==
  file # << >> /\ Last(file).stream # -1 =>
    LET s == Last(file).stream
    IN  Carried(s) - Decoded(s, Last(file).scr) <= BufSize[s]

(* flush() comes to an end.                                                *)
FlushEnds == pc = "pack" ~> pc \in {"idle", "closed"}
=============================================================================
