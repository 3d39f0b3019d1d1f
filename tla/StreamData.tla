----------------------------- MODULE StreamData -----------------------------
(***************************************************************************)
(* The bytes of one elementary stream between a reader and whoever takes   *)
(* them: `data', and the items, which say at which buffer position a       *)
(* packet of the file (later: an audio frame) begins, where it lies in the *)
(* file and what its time stamp is.  Buffer positions count on while bytes *)
(* are taken; `offset' is that of the first byte in `data'.                *)
(*                                                                         *)
(* A byte is a triple: packet of the file, place in its payload, and       *)
(* whether an audio frame begins with it.                                  *)
(* curpos, which nothing reads, is left out, and so is itemlistsize: it is *)
(* Len(items) until audio_addpts() is called (`added'), which does not     *)
(* count, and is not read after that.                                      *)
(***************************************************************************)
EXTENDS Totals, FiniteSetsExt, SequencesExt

CONSTANTS
  Half,       (* buffer positions are rebased from here on: 2^31           *)
  FrameLen,   (* bytes of an audio frame                                   *)
  FrameTime   (* and its duration                                          *)

ASSUME StreamDataAssumption ==
  Half \in Nat \ {0} /\ FrameLen \in Nat \ {0} /\ FrameTime \in Nat \ {0}

NoPts == -1

(* filepos_t: an offset in the payload that begins with a packet.          *)
Position(it) == [file |-> it.file, off |-> it.off]

NewStream == [items |-> << >>, data |-> << >>, offset |-> 0,
              header |-> << >>, nextfilepos |-> 0, added |-> FALSE]

EndPos(sd) == sd.offset + Len(sd.data)
ByteAt(sd, bp) == sd.data[bp - sd.offset + 1]
From(sd, bp) == SubSeq(sd.data, bp - sd.offset + 1, Len(sd.data))

AppendBytes(sd, bytes) == [sd EXCEPT !.data = @ \o bytes]

AppendItem(sd, file, pts, bytes) ==
  IF bytes = << >> THEN sd
  ELSE AppendBytes([sd EXCEPT !.items = Append(@, [file |-> file, off |-> 0,
                                                   bp |-> EndPos(sd), pts |-> pts,
                                                   frame |-> FALSE])],
                   bytes)

(***************************************************************************)
(* Taking bytes.                                                           *)
(***************************************************************************)
Emptied(sd) == [sd EXCEPT !.items = << >>, !.data = << >>, !.offset = 0]

(* Mutated form: the items keep their buffer positions.                    *)
RebasedOffsetOnly(sd) ==
  IF sd.offset >= Half THEN [sd EXCEPT !.offset = 0] ELSE sd

Rebased(sd) ==
  IF sd.offset < Half THEN sd
  ELSE [sd EXCEPT !.items = [i \in DOMAIN sd.items |->
                               [sd.items[i] EXCEPT !.bp = @ - sd.offset]],
                  !.offset = 0]

(* pop(): the first item and its bytes.                                    *)
Pop(sd) ==
  LET rest == Tail(sd.items)
  IN  IF rest = << >> THEN Emptied(sd)
      ELSE Rebased([sd EXCEPT !.items = rest, !.data = From(sd, Head(rest).bp),
                              !.offset = Head(rest).bp])

(* pop(number); with all items it clears the data only.                    *)
PopMany(sd, n) ==
  CASE n = 0 -> sd
    [] n > 0 /\ n >= Len(sd.items) -> [sd EXCEPT !.data = << >>, !.offset = 0]
    [] OTHER -> Pop([sd EXCEPT !.items = SubSeq(@, n, Len(@))])

(* The item that a byte at the new offset belongs to moves up to it.       *)
(* Mutated form: it says where its packet began, not where it stands now.  *)
AdvancedNotInFile(it, offset) ==
  IF it.bp < offset THEN [it EXCEPT !.bp = offset] ELSE it

Advanced(it, offset) ==
  IF it.bp < offset
  THEN [it EXCEPT !.off = @ + offset - it.bp, !.bp = offset]
  ELSE it

(* The items that begin behind the new offset stay, and the one before.    *)
Discard(sd, n) ==
  LET offset == sd.offset + n
      first  == Max({1} \cup {i \in DOMAIN sd.items : sd.items[i].bp <= offset})
      kept   == SubSeq(sd.items, first, Len(sd.items))
      left   == [sd EXCEPT !.data = From(sd, offset), !.offset = offset]
  IN  CASE n = 0 -> sd
        [] n > 0 /\ n >= Len(sd.data) -> Emptied(sd)
        [] OTHER ->
             IF sd.items = << >> THEN left
             ELSE Rebased([left EXCEPT !.items = [kept EXCEPT ![1] = Advanced(@, offset)]])

(***************************************************************************)
(* Audio frames.  A frame is recognised by the header behind it; the first *)
(* one that begins in a packet has the packet's time stamp.                *)
(***************************************************************************)
Timed(items) == Kept(items, {i \in DOMAIN items : items[i].pts # NoPts})

Begins(sd, bp) == bp \in sd.offset .. EndPos(sd) - 1 /\ ByteAt(sd, bp)[3]
Frames(sd) == {bp \in sd.offset .. EndPos(sd) - 1 :
                 Begins(sd, bp) /\ Begins(sd, bp + FrameLen)}

(* What an item becomes, and what one for a frame behind it is: each frame *)
(* in front of bp moves the time on.  Mutated form: the frame at bp too.   *)
FrameItemLate(sd, it, bp) ==
  LET passed == {f \in Frames(sd) : it.bp <= f /\ f <= bp /\ it.bp # bp}
  IN  [it EXCEPT !.off = @ + (bp - it.bp), !.bp = bp,
                 !.pts = @ + Cardinality(passed) * FrameTime,
                 !.frame = (@ /\ it.bp = bp) \/ bp \in Frames(sd)]

FrameItem(sd, it, bp) ==
  LET passed == {f \in Frames(sd) : it.bp <= f /\ f < bp}
  IN  [it EXCEPT !.off = @ + (bp - it.bp), !.bp = bp,
                 !.pts = @ + Cardinality(passed) * FrameTime,
                 !.frame = (@ /\ it.bp = bp) \/ bp \in Frames(sd)]

(* The item with a time that a byte belongs to.                            *)
ItemOf(timed, bp) == timed[Max({i \in DOMAIN timed : timed[i].bp <= bp})]

(* audio_addpts(): items without a time go, and behind the others an item  *)
(* for each frame comes.  Its parameters have no effect in any call: the   *)
(* first is always 0, and the second is looked at before there is anything *)
(* to stop at, and then no more.                                           *)
AudioAddPts(sd) ==
  LET timed == Timed(sd.items)
      at    == Ascending({timed[i].bp : i \in DOMAIN timed} \cup
                         {f \in Frames(sd) : \E i \in DOMAIN timed : timed[i].bp <= f})
  IN  [sd EXCEPT !.items = [k \in DOMAIN at |-> FrameItem(sd, ItemOf(timed, at[k]), at[k])],
                 !.added = TRUE]

(***************************************************************************)
(* Searches: the buffer position of a position in the file, and of a time. *)
(***************************************************************************)
FilePosBufferPos(sd, p) ==
  LET found == {i \in DOMAIN sd.items : sd.items[i].file >= p.file}
      it    == sd.items[Min(found)]
  IN  IF found = {} THEN EndPos(sd)
      ELSE IF it.file = p.file THEN it.bp + p.off - it.off
      ELSE it.bp

(* The first packet from which the search for a time does not go on.       *)
StopAt(timed, t) ==
  Min({i \in DOMAIN timed : \/ timed[i].pts >= t \/ i = Len(timed)
                            \/ timed[i + 1].pts >= t})

(* ptsbufferpos(): the packet with the highest time not above t.           *)
PtsBufferPos(sd, t) ==
  LET timed == Timed(sd.items)
      i     == StopAt(timed, t)
  IN  IF timed = << >> THEN sd.offset
      ELSE IF timed[i].pts < t /\ i < Len(timed) /\ timed[i + 1].pts = t
             THEN timed[i + 1].bp
      ELSE timed[i].bp

(* closestptsbufferpos().  Mutated form: the packet before, as in          *)
(* ptsbufferpos().                                                         *)
NearerNever(it, nx, t) == FALSE
Nearer(it, nx, t) == t - it.pts >= nx.pts - t

ClosestPtsBufferPos(sd, t) ==
  LET timed == Timed(sd.items)
      i     == StopAt(timed, t)
      nx    == timed[i + 1]
  IN  IF timed = << >> THEN sd.offset
      ELSE IF /\ timed[i].pts < t /\ i < Len(timed)
              /\ nx.pts = t \/ Nearer(timed[i], nx, t)
             THEN nx.bp
      ELSE IF i = 1 THEN sd.offset
      ELSE timed[i].bp
=============================================================================
