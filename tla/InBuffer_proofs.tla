-------------------------- MODULE InBuffer_proofs --------------------------
(***************************************************************************)
(* Proofs about the input buffer, for every size of buffer, mapped window, *)
(* page and files: the window holds the bytes of the recording, a call     *)
(* delivers what it was asked for, and nothing of a pipe is lost.          *)
(***************************************************************************)
EXTENDS InBuffer, SequenceTheorems, TLAPS

(* The files leave no gap.                                                 *)
NoGap == \A p \in 0 .. filesize - 1 : \E i \in DOMAIN files : Holds(i, p)

(* Before a file is opened there is nothing in the window.                 *)
Fresh ==
  files = << >> =>
    filesize = 0 /\ ~pipe_mode /\ pos = 0 /\ writepos = 0 /\ pc = "idle"

(* A pipe is the only file, and its descriptor is where the window ends.   *)
Pipe ==
  pipe_mode => Len(files) = 1 /\ fpos[1] = pos + writepos

(* The loop over the files: the window begins at the position, the wanted  *)
(* bytes exist, and a descriptor that is not seeked is where it should be. *)
Filling ==
  pc = "fill" =>
    /\ ~pipe_mode /\ readpos = 0
    /\ pos = position
    /\ amount <= Size
    /\ position + amount <= filesize
    /\ cur \in DOMAIN files
    /\ ~needseek => fpos[cur] = pos + writepos - files[cur].off

(* The loops over the pipe.                                                *)
Piping ==
  /\ pc \in {"skip", "take"} =>
       pipe_mode /\ readpos = 0 /\ pos <= position /\ amount <= Size
  /\ pc = "take" => pos = position

IInv ==
  /\ TypeOK
  /\ NoGap /\ Fresh /\ Pipe /\ Filling /\ Piping
  /\ WindowFaithful /\ Served
-----------------------------------------------------------------------------
(* A page boundary in front of an offset.                                  *)
LEMMA PageFacts ==
  ASSUME NEW r \in Nat
  PROVE  r % PageSize \in 0 .. PageSize - 1 /\ r % PageSize <= r
<1>1. PageSize \in Nat \ {0}
  BY InBufferAssumption
<1>2. r % PageSize \in 0 .. PageSize - 1
  BY <1>1
<1>3. CASE r < PageSize
  BY <1>1, <1>2, <1>3
<1>4. CASE r >= PageSize
  BY <1>1, <1>2, <1>4
<1>5. QED
  BY <1>1, <1>2, <1>3, <1>4

(* Every offset of the recording lies in a file.                           *)
LEMMA FileAtFacts ==
  ASSUME TypeOK, NoGap, NEW p \in Nat, p < filesize
  PROVE  /\ FileAt(p) \in DOMAIN files
         /\ files[FileAt(p)].off \in Nat /\ files[FileAt(p)].end \in Nat
         /\ files[FileAt(p)].off <= p /\ p < files[FileAt(p)].end
<1>1. p \in 0 .. filesize - 1
  BY DEF TypeOK
<1>2. \E i \in DOMAIN files : Holds(i, p)
  BY <1>1 DEF NoGap
<1>3. FileAt(p) \in DOMAIN files /\ Holds(FileAt(p), p)
  BY <1>2 DEF FileAt
<1>4. files[FileAt(p)].off \in Nat /\ files[FileAt(p)].end \in Nat
  <2>1. files \in Seq([off: Nat, end: Nat])
    BY DEF TypeOK
  <2>2. FileAt(p) \in 1 .. Len(files)
    BY <1>3, <2>1
  <2>3. files[FileAt(p)] \in [off: Nat, end: Nat]
    BY <2>1, <2>2, ElementOfSeq
  <2>4. QED
    BY <2>3
<1>5. QED
  BY <1>3, <1>4 DEF Holds

(* Dropping bytes at the front of the window.                              *)
LEMMA ShiftedFacts ==
  ASSUME TypeOK, WindowFaithful, NEW n \in 0 .. writepos
  PROVE  /\ writepos - n \in Nat
         /\ Shifted(n) \in [0 .. writepos - n - 1 -> Int]
         /\ \A j \in 0 .. writepos - n - 1 : Shifted(n)[j] = pos + n + j
<1>1. writepos \in Nat /\ pos \in Nat /\ d \in [0 .. writepos - 1 -> Int]
  BY DEF TypeOK
<1>2. ASSUME NEW j \in 0 .. writepos - n - 1
      PROVE  d[j + n] \in Int /\ d[j + n] = pos + n + j
  <2>1. j + n \in 0 .. writepos - 1
    BY <1>1
  <2>2. d[j + n] = pos + (j + n)
    BY <2>1 DEF WindowFaithful
  <2>3. QED
    BY <1>1, <2>1, <2>2
<1>3. Shifted(n) = [j \in 0 .. writepos - n - 1 |-> d[j + n]]
  BY DEF Shifted
<1>4. Shifted(n) \in [0 .. writepos - n - 1 -> Int]
  BY <1>2, <1>3
<1>5. ASSUME NEW j \in 0 .. writepos - n - 1
      PROVE  Shifted(n)[j] = pos + n + j
  BY <1>2, <1>3
<1>6. QED
  BY <1>1, <1>4, <1>5

(* Reading on at the end of the window.                                    *)
LEMMA ExtendedFacts ==
  ASSUME TypeOK, WindowFaithful, NEW n \in Nat,
         NEW first \in Int, first = pos + writepos
  PROVE  /\ Extended(first, n) \in [0 .. writepos + n - 1 -> Int]
         /\ \A j \in 0 .. writepos + n - 1 : Extended(first, n)[j] = pos + j
<1>1. writepos \in Nat /\ pos \in Nat /\ d \in [0 .. writepos - 1 -> Int]
  BY DEF TypeOK
<1>2. ASSUME NEW j \in 0 .. writepos + n - 1
      PROVE  Extended(first, n)[j] = pos + j
  <2>1. CASE j < writepos
    BY <1>1, <2>1 DEF Extended, WindowFaithful
  <2>2. CASE ~(j < writepos)
    BY <1>1, <2>2 DEF Extended
  <2>3. QED
    BY <2>1, <2>2
<1>3. Extended(first, n) \in [0 .. writepos + n - 1 -> Int]
  BY <1>1 DEF Extended
<1>4. QED
  BY <1>2, <1>3

(* The mapped window begins in the file and not behind p, and reaches far  *)
(* enough.                                                                 *)
LEMMA WindowBeginFacts ==
  ASSUME NEW a \in Nat, NEW p \in Nat, TypeOK, NoGap, p < filesize,
         MmapSize > 0
  PROVE  /\ WindowBegin(a, p) \in Int
         /\ files[FileAt(p)].off <= WindowBegin(a, p)
         /\ WindowBegin(a, p) <= p
         /\ p < WindowBegin(a, p) + MmapSize
         /\ p + Lesser(Wanted(a, p), Size) <= WindowBegin(a, p) + MmapSize
<1> DEFINE off == files[FileAt(p)].off
           W == Wanted(a, p)
           new == IF Before(a, p) > p THEN p
                  ELSE IF Before(a, p) < off THEN off ELSE Before(a, p)
           m == (new - off) % PageSize
<1>1. off \in Nat /\ off <= p
  BY FileAtFacts
<1>2. /\ MmapSize \in Nat /\ PageSize \in Nat \ {0} /\ Size \in Nat \ {0}
      /\ Size + PageSize <= MmapSize /\ 2 * PageSize <= MmapSize
  BY InBufferAssumption
<1>3. W \in Nat /\ W >= 0
  BY DEF TypeOK, Wanted, Lesser
<1>4. Before(a, p) = p + W - (MmapSize \div 2)
  BY DEF Before
<1>5. new \in Nat /\ off <= new /\ new <= p
  BY <1>1, <1>2, <1>3, <1>4
<1>6. m \in Nat /\ m <= PageSize - 1 /\ m <= new - off
  <2>1. new - off \in Nat
    BY <1>1, <1>5
  <2> HIDE DEF new, off
  <2>2. m \in 0 .. PageSize - 1 /\ m <= new - off
    BY <2>1, PageFacts
  <2>3. QED
    BY <1>2, <2>2
<1>7. WindowBegin(a, p) = new - m
  BY DEF WindowBegin
<1>8. p + Lesser(W, Size) <= new - m + MmapSize
  <2>1. CASE Before(a, p) > p
    BY <1>2, <1>3, <1>6, <2>1 DEF Lesser
  <2>2. CASE Before(a, p) <= p /\ Before(a, p) < off
    <3>1. new = off /\ m = 0
      BY <1>1, <1>2, <1>3, <1>4, <1>6, <2>2
    <3>2. QED
      BY <1>1, <1>2, <1>3, <1>4, <2>2, <3>1 DEF Lesser
  <2>3. CASE Before(a, p) <= p /\ Before(a, p) >= off
    <3>1. new = Before(a, p)
      BY <1>1, <1>2, <1>3, <1>4, <2>3
    <3>2. QED
      BY <1>1, <1>2, <1>3, <1>4, <1>6, <3>1 DEF Lesser
  <2>4. QED
    BY <1>1, <1>2, <1>3, <1>4, <2>1, <2>2, <2>3
<1>9. p < new - m + MmapSize
  <2>1. CASE W > 0
    BY <1>2, <1>3, <1>5, <1>6, <1>8, <2>1 DEF Lesser
  <2>2. CASE W = 0
    BY <1>1, <1>2, <1>3, <1>4, <1>5, <1>6, <2>2
  <2>3. QED
    BY <1>3, <2>1, <2>2
<1> HIDE DEF off, W, new, m
<1>10. QED
  BY <1>1, <1>5, <1>6, <1>7, <1>8, <1>9 DEF off, W

-----------------------------------------------------------------------------
LEMMA InitIInv == Init => IInv
<1> SUFFICES ASSUME Init PROVE IInv
  OBVIOUS
<1>1. /\ files = << >> /\ filesize = 0 /\ pipe_mode = FALSE /\ source = 0
      /\ fpos = << >> /\ alloc = "none" /\ d = [j \in {} |-> 0]
      /\ pos = 0 /\ readpos = 0 /\ writepos = 0 /\ eof = FALSE /\ pc = "idle"
      /\ amount = 0 /\ position = 0 /\ cur = 1 /\ needseek = FALSE /\ ret = 0
  BY DEF Init, InitWindow, NoBytes
<1>2. 0 .. writepos - 1 = {}
  BY <1>1
<1>3. TypeOK
  <2>1. d \in [0 .. writepos - 1 -> Int]
    BY <1>1, <1>2
  <2>2. /\ files \in Seq([off: Nat, end: Nat]) /\ fpos \in Seq(Nat)
        /\ Len(fpos) = Len(files)
    BY <1>1
  <2>3. readpos \in 0 .. writepos
    BY <1>1
  <2>4. /\ filesize \in Nat /\ source \in Nat /\ pos \in Nat /\ writepos \in Nat
        /\ amount \in Nat /\ position \in Int /\ cur \in Nat \ {0} /\ ret \in Int
    BY <1>1
  <2>5. /\ pipe_mode \in BOOLEAN /\ eof \in BOOLEAN /\ needseek \in BOOLEAN
        /\ pc \in {"idle", "fill", "skip", "take"}
        /\ alloc \in {"none", "heap", "map"}
    BY <1>1
  <2>6. QED
    BY <2>1, <2>2, <2>3, <2>4, <2>5 DEF TypeOK
<1>4. NoGap /\ Fresh /\ Pipe /\ Filling /\ Piping
  BY <1>1 DEF NoGap, Fresh, Pipe, Filling, Piping
<1>5. WindowFaithful
  BY <1>2 DEF WindowFaithful
<1>6. Served
  BY <1>1, InBufferAssumption DEF Served, Lesser, inbytes
<1>7. QED
  BY <1>3, <1>4, <1>5, <1>6 DEF IInv

LEMMA OpenFileIInv == IInv /\ OpenFile => IInv'
<1> SUFFICES ASSUME IInv, OpenFile PROVE IInv'
  OBVIOUS
<1>1. TypeOK /\ NoGap /\ Fresh /\ WindowFaithful /\ Served
  BY DEF IInv
<1>2. PICK len \in FileLens :
        /\ files' = Append(files, [off |-> filesize, end |-> filesize + len])
        /\ filesize' = filesize + len
  BY DEF OpenFile
<1>3. /\ pc = "idle" /\ ~pipe_mode /\ fpos' = Append(fpos, 0)
      /\ UNCHANGED <<pipe_mode, source, window, eof, pc, callvars, readvars, ret>>
  BY DEF OpenFile
<1>4. len \in Nat /\ filesize \in Nat
  BY <1>1, InBufferAssumption DEF TypeOK
<1>5. files \in Seq([off: Nat, end: Nat]) /\ fpos \in Seq(Nat) /\ Len(fpos) = Len(files)
  BY <1>1 DEF TypeOK
<1>6. /\ files' \in Seq([off: Nat, end: Nat]) /\ fpos' \in Seq(Nat)
      /\ Len(fpos') = Len(files')
  <2>1. [off |-> filesize, end |-> filesize + len] \in [off: Nat, end: Nat]
    BY <1>4
  <2>2. QED
    BY <1>2, <1>3, <1>5, <2>1
<1>7. TypeOK'
  BY <1>1, <1>2, <1>3, <1>4, <1>6 DEF TypeOK, window, callvars, readvars
<1>8. NoGap'
  <2> SUFFICES ASSUME NEW p \in 0 .. filesize' - 1
               PROVE  \E i \in DOMAIN files' : files'[i].off <= p /\ p < files'[i].end
    BY DEF NoGap, Holds
  <2>0. p \in Nat /\ p < filesize + len
    BY <1>2, <1>4
  <2>1. CASE p < filesize
    <3>1. PICK i \in DOMAIN files : files[i].off <= p /\ p < files[i].end
      BY <1>1, <1>4, <2>0, <2>1 DEF NoGap, Holds
    <3>2. i \in DOMAIN files' /\ files'[i] = files[i]
      BY <1>2, <1>5
    <3>3. QED
      BY <3>1, <3>2
  <2>2. CASE ~(p < filesize)
    <3>1. /\ Len(files) + 1 \in DOMAIN files'
          /\ files'[Len(files) + 1] = [off |-> filesize, end |-> filesize + len]
      BY <1>2, <1>5
    <3>2. QED
      BY <1>4, <2>0, <2>2, <3>1
  <2>3. QED
    BY <2>1, <2>2
<1>9. files' # << >>
  BY <1>2, <1>5
<1>10. Fresh' /\ Pipe' /\ Filling' /\ Piping'
  BY <1>3, <1>9 DEF Fresh, Pipe, Filling, Piping, window, callvars, readvars
<1>11. WindowFaithful' /\ Served'
  BY <1>1, <1>3 DEF WindowFaithful, Served, inbytes, window, callvars
<1>12. QED
  BY <1>7, <1>8, <1>10, <1>11 DEF IInv

LEMMA OpenPipeIInv == IInv /\ OpenPipe => IInv'
<1> SUFFICES ASSUME IInv, OpenPipe PROVE IInv'
  OBVIOUS
<1>1. TypeOK /\ Fresh /\ WindowFaithful /\ Served
  BY DEF IInv
<1>2. /\ pc = "idle" /\ files = << >> /\ pipe_mode' = TRUE /\ source' \in PipeLens
      /\ files' = <<[off |-> 0, end |-> Endless]>> /\ filesize' = Endless
      /\ fpos' = <<0>>
      /\ UNCHANGED <<window, eof, pc, callvars, readvars, ret>>
  BY DEF OpenPipe
<1>3. /\ files' \in Seq([off: Nat, end: Nat]) /\ filesize' \in Nat /\ source' \in Nat
      /\ fpos' \in Seq(Nat) /\ Len(fpos') = Len(files')
  BY <1>2, InBufferAssumption
<1>4. TypeOK'
  BY <1>1, <1>2, <1>3 DEF TypeOK, window, callvars, readvars
<1>5. NoGap'
  <2> SUFFICES ASSUME NEW p \in 0 .. filesize' - 1
               PROVE  \E i \in DOMAIN files' : files'[i].off <= p /\ p < files'[i].end
    BY DEF NoGap, Holds
  <2>1. 1 \in DOMAIN files' /\ files'[1].off = 0 /\ files'[1].end = Endless
    BY <1>2
  <2>2. 0 <= p /\ p < Endless
    BY <1>2, InBufferAssumption
  <2>3. QED
    BY <2>1, <2>2
<1>6. files' # << >> /\ fpos'[1] = pos + writepos /\ Len(files') = 1
  BY <1>1, <1>2 DEF Fresh
<1>7. Fresh' /\ Pipe' /\ Filling' /\ Piping'
  BY <1>2, <1>6 DEF Fresh, Pipe, Filling, Piping, window, callvars, readvars
<1>8. WindowFaithful' /\ Served'
  BY <1>1, <1>2 DEF WindowFaithful, Served, inbytes, window, callvars
<1>9. QED
  BY <1>4, <1>5, <1>7, <1>8 DEF IInv

LEMMA ResetIInv == IInv /\ Reset => IInv'
<1> SUFFICES ASSUME IInv, Reset PROVE IInv'
  OBVIOUS
<1>1. /\ files' = << >> /\ filesize' = 0 /\ pipe_mode' = FALSE /\ source' = 0
      /\ fpos' = << >> /\ alloc' = "none" /\ d' = [j \in {} |-> 0]
      /\ pos' = 0 /\ readpos' = 0 /\ writepos' = 0 /\ eof' = FALSE /\ pc = "idle"
      /\ amount' = 0 /\ position' = 0 /\ ret' = 0
      /\ UNCHANGED <<pc, readvars>>
  BY DEF Reset, NoBytes
<1>2. 0 .. writepos' - 1 = {}
  BY <1>1
<1>3. TypeOK'
  <2>1. d' \in [0 .. writepos' - 1 -> Int]
    BY <1>1, <1>2
  <2>2. TypeOK
    BY DEF IInv
  <2>3. /\ files' \in Seq([off: Nat, end: Nat]) /\ fpos' \in Seq(Nat)
        /\ Len(fpos') = Len(files')
    BY <1>1
  <2>4. readpos' \in 0 .. writepos'
    BY <1>1
  <2>5. /\ filesize' \in Nat /\ source' \in Nat /\ pos' \in Nat /\ writepos' \in Nat
        /\ amount' \in Nat /\ position' \in Int /\ ret' \in Int
    BY <1>1
  <2>6. cur' \in Nat \ {0} /\ needseek' \in BOOLEAN
    BY <1>1, <2>2 DEF TypeOK, readvars
  <2>7. /\ pipe_mode' \in BOOLEAN /\ eof' \in BOOLEAN
        /\ pc' \in {"idle", "fill", "skip", "take"}
        /\ alloc' \in {"none", "heap", "map"}
    BY <1>1
  <2>8. QED
    BY <2>1, <2>3, <2>4, <2>5, <2>6, <2>7 DEF TypeOK
<1>4. NoGap' /\ Fresh' /\ Pipe' /\ Filling' /\ Piping'
  BY <1>1 DEF NoGap, Fresh, Pipe, Filling, Piping
<1>5. WindowFaithful'
  BY <1>2 DEF WindowFaithful
<1>6. Served'
  BY <1>1, InBufferAssumption DEF Served, Lesser, inbytes
<1>7. QED
  BY <1>3, <1>4, <1>5, <1>6 DEF IInv
-----------------------------------------------------------------------------
(* What a call returns at once, or starts.                                 *)
LEMMA OutOfRangeIInv ==
  ASSUME IInv, NEW a \in Nat, NEW p \in Int, pc = "idle",
         OutOfRange(a, p), position' = p, amount' = 0,
         UNCHANGED <<filevars, fpos, eof>>
  PROVE  IInv'
<1>1. /\ TypeOK /\ NoGap /\ Fresh /\ Pipe /\ WindowFaithful
  BY DEF IInv
<1>2. /\ pc' = "idle" /\ ret' = 0 /\ UNCHANGED <<window, readvars>>
  BY DEF OutOfRange, Return
<1>3. TypeOK'
  BY <1>1, <1>2 DEF TypeOK, window, readvars, filevars
<1>4. NoGap' /\ Fresh' /\ Pipe' /\ Filling' /\ Piping'
  BY <1>1, <1>2 DEF NoGap, Holds, Fresh, Pipe, Filling, Piping, window, filevars
<1>5. WindowFaithful'
  BY <1>1, <1>2 DEF WindowFaithful, window
<1>6. Served'
  BY <1>2, InBufferAssumption DEF Served, Lesser
<1>7. QED
  BY <1>3, <1>4, <1>5, <1>6 DEF IInv

LEMMA HitIInv ==
  ASSUME IInv, NEW a \in Nat, NEW p \in Nat, pc = "idle", p < filesize,
         Hit(a, p), position' = p, amount' = Wanted(a, p),
         UNCHANGED <<filevars, fpos, eof>>
  PROVE  IInv'
<1>1. /\ TypeOK /\ NoGap /\ Fresh /\ Pipe /\ WindowFaithful
  BY DEF IInv
<1>2. /\ readpos' = p - pos /\ pc' = "idle" /\ ret' = writepos - (p - pos)
      /\ UNCHANGED <<alloc, d, pos, writepos, readvars>>
      /\ p >= pos /\ p + Wanted(a, p) <= pos + writepos
  BY DEF Hit, Present, Return
<1>3. pos \in Nat /\ writepos \in Nat /\ filesize \in Nat
  BY <1>1 DEF TypeOK
<1>4. Wanted(a, p) \in Nat
  BY <1>3 DEF Wanted, Lesser
<1>5. readpos' \in 0 .. writepos' /\ ret' \in Int /\ amount' \in Nat /\ position' \in Int
  BY <1>2, <1>3, <1>4
<1>6. TypeOK'
  BY <1>1, <1>2, <1>5 DEF TypeOK, readvars, filevars
<1>7. NoGap' /\ Fresh' /\ Pipe' /\ Filling' /\ Piping'
  BY <1>1, <1>2 DEF NoGap, Holds, Fresh, Pipe, Filling, Piping, filevars
<1>8. WindowFaithful'
  BY <1>1, <1>2 DEF WindowFaithful
<1>9. Served'
  <2>1. pos' + readpos' = position' /\ ret' = inbytes'
    BY <1>2, <1>3 DEF inbytes
  <2>2. ret' >= amount'
    BY <1>2, <1>3, <1>4
  <2>3. ~(ret' < Lesser(amount', Size))
    BY <2>2, <1>5, InBufferAssumption DEF Lesser
  <2>4. QED
    BY <2>1, <2>3 DEF Served
<1>10. QED
  BY <1>6, <1>7, <1>8, <1>9 DEF IInv

LEMMA BackwardsIInv ==
  ASSUME IInv, NEW a \in Nat, NEW p \in Nat, pc = "idle", p < filesize,
         Backwards(a, p), position' = p, amount' = Wanted(a, p),
         UNCHANGED <<filevars, fpos, eof>>
  PROVE  IInv'
<1>1. /\ TypeOK /\ NoGap /\ Fresh /\ Pipe /\ WindowFaithful
  BY DEF IInv
<1>2. /\ pc' = "idle" /\ ret' = -1 /\ UNCHANGED <<window, readvars>>
  BY DEF Backwards, Return
<1>3. amount' \in Nat
  BY <1>1 DEF TypeOK, Wanted, Lesser
<1>4. TypeOK'
  BY <1>1, <1>2, <1>3 DEF TypeOK, window, readvars, filevars
<1>5. NoGap' /\ Fresh' /\ Pipe' /\ Filling' /\ Piping'
  BY <1>1, <1>2 DEF NoGap, Holds, Fresh, Pipe, Filling, Piping, window, filevars
<1>6. WindowFaithful' /\ Served'
  BY <1>1, <1>2 DEF WindowFaithful, Served, window
<1>7. QED
  BY <1>4, <1>5, <1>6 DEF IInv

(* A call is cut to the buffer before a loop is entered.                   *)
LEMMA CutFacts ==
  ASSUME TypeOK, NEW a \in Nat, NEW p \in Nat, p < filesize
  PROVE  /\ Wanted(a, p) \in Nat
         /\ Lesser(Wanted(a, p), Size) \in Nat
         /\ Lesser(Wanted(a, p), Size) <= Size
         /\ p + Lesser(Wanted(a, p), Size) <= filesize
<1>1. filesize \in Nat /\ Size \in Nat
  BY InBufferAssumption DEF TypeOK
<1>2. QED
  BY <1>1 DEF Wanted, Lesser

LEMMA StartPipeIInv ==
  ASSUME IInv, NEW a \in Nat, NEW p \in Nat, pc = "idle", p < filesize,
         StartPipe(a, p), position' = p, amount' = Lesser(Wanted(a, p), Size),
         UNCHANGED <<filevars, fpos, eof>>
  PROVE  IInv'
<1>1. /\ TypeOK /\ NoGap /\ Fresh /\ Pipe /\ WindowFaithful
  BY DEF IInv
<1>2. /\ pipe_mode /\ p >= pos /\ alloc' = "heap" /\ readpos' = 0 /\ pc' = "skip"
      /\ UNCHANGED <<d, pos, writepos, readvars, ret>>
  BY DEF StartPipe
<1>3. amount' \in Nat /\ amount' <= Size
  BY <1>1, CutFacts
<1>4. TypeOK'
  BY <1>1, <1>2, <1>3 DEF TypeOK, readvars, filevars
<1>5. NoGap' /\ Pipe' /\ Filling' /\ WindowFaithful' /\ Served'
  BY <1>1, <1>2 DEF NoGap, Holds, Pipe, Filling, WindowFaithful, Served, filevars
<1>6. Fresh'
  BY <1>1, <1>2 DEF Fresh, filevars
<1>7. Piping'
  BY <1>2, <1>3 DEF Piping, filevars
<1>8. QED
  BY <1>4, <1>5, <1>6, <1>7 DEF IInv

(* A mapped window reaches as far as it has to.                            *)
LEMMA MapIInv ==
  ASSUME IInv, NEW a \in Nat, NEW p \in Nat, pc = "idle", p < filesize,
         Map(a, p), position' = p, amount' = Wanted(a, p),
         UNCHANGED <<filevars, fpos, eof>>
  PROVE  IInv'
<1> DEFINE off == files[FileAt(p)].off
           end == files[FileAt(p)].end
           newpos == WindowBegin(a, p)
           len == Lesser(MmapSize, end - newpos)
<1>1. /\ TypeOK /\ NoGap /\ Fresh /\ Pipe /\ WindowFaithful
  BY DEF IInv
<1>2. /\ ~pipe_mode /\ MmapSize > 0 /\ p + Wanted(a, p) <= end
      /\ alloc' = "map"
      /\ d' = [j \in 0 .. len - 1 |-> off + (newpos - off) + j]
      /\ pos' = newpos
      /\ readpos' = p - newpos
      /\ writepos' = len
      /\ pc' = "idle" /\ ret' = len - (p - newpos)
      /\ UNCHANGED readvars
  BY DEF Map, Return
<1>3. off \in Nat /\ end \in Nat /\ off <= p /\ p < end
  BY <1>1, FileAtFacts
<1>4. /\ newpos \in Int /\ off <= newpos /\ newpos <= p
      /\ p < newpos + MmapSize
      /\ p + Lesser(Wanted(a, p), Size) <= newpos + MmapSize
  BY <1>1, <1>2, WindowBeginFacts
<1>5. MmapSize \in Nat /\ Size \in Nat
  BY InBufferAssumption
<1>6. Wanted(a, p) \in Nat
  BY <1>1, CutFacts
<1>7. len \in Nat /\ p - newpos <= len /\ newpos \in Nat
  BY <1>3, <1>4, <1>5 DEF Lesser
<1>8. len - (p - newpos) >= Lesser(Wanted(a, p), Size)
  <2> DEFINE W == Wanted(a, p)
             L == Lesser(W, Size)
  <2>1. L \in Nat /\ L <= W
    BY <1>5, <1>6 DEF Lesser
  <2>2. len = MmapSize \/ len = end - newpos
    BY DEF Lesser
  <2>3. p + W <= end /\ p + L <= newpos + MmapSize /\ W \in Nat
    BY <1>2, <1>4, <1>6
  <2> HIDE DEF len, end, newpos, W, L
  <2>4. len - (p - newpos) >= L
    BY <1>3, <1>4, <1>5, <2>1, <2>2, <2>3
  <2>5. QED
    BY <2>4 DEF L, W
<1>9. files # << >>
  <2>1. FileAt(p) \in DOMAIN files
    BY <1>1, FileAtFacts
  <2>2. QED
    BY <2>1
<1> HIDE DEF off, end, newpos, len
<1>10. /\ writepos' \in Nat /\ readpos' \in 0 .. writepos' /\ pos' \in Nat
       /\ ret' \in Int /\ amount' \in Nat /\ position' \in Int
  BY <1>2, <1>4, <1>6, <1>7
<1>11. ASSUME NEW j \in 0 .. writepos' - 1
       PROVE  d'[j] \in Int /\ d'[j] = pos' + j
  BY <1>2, <1>3, <1>7
<1>12. d' \in [0 .. writepos' - 1 -> Int]
  BY <1>2, <1>11
<1>13. TypeOK'
  BY <1>1, <1>2, <1>10, <1>12 DEF TypeOK, readvars, filevars
<1>14. NoGap' /\ Fresh' /\ Pipe' /\ Filling' /\ Piping'
  BY <1>1, <1>2, <1>9 DEF NoGap, Holds, Fresh, Pipe, Filling, Piping, filevars
<1>15. WindowFaithful'
  BY <1>11 DEF WindowFaithful
<1>16. Served'
  <2>1. pos' + readpos' = position' /\ ret' = inbytes'
    BY <1>2, <1>4, <1>7 DEF inbytes
  <2>2. Lesser(amount', Size) = Lesser(Wanted(a, p), Size)
    OBVIOUS
  <2>3. Lesser(Wanted(a, p), Size) \in Nat
    BY <1>5, <1>6 DEF Lesser
  <2>4. ~(ret' < Lesser(amount', Size))
    BY <1>2, <1>4, <1>7, <1>8, <2>2, <2>3
  <2>5. QED
    BY <2>1, <2>4 DEF Served
<1>17. QED
  BY <1>13, <1>14, <1>15, <1>16 DEF IInv
(* What the buffer has of the new window moves to its front.               *)
LEMMA StartFillIInv ==
  ASSUME IInv, NEW a \in Nat, NEW p \in Nat, pc = "idle", p < filesize,
         StartFill(a, p), position' = p, amount' = Lesser(Wanted(a, p), Size),
         UNCHANGED <<filevars, fpos, eof>>
  PROVE  IInv'
<1> DEFINE reuse == alloc = "heap" /\ p >= pos /\ p < pos + writepos
<1>1. /\ TypeOK /\ NoGap /\ Fresh /\ Pipe /\ WindowFaithful
  BY DEF IInv
<1>2. /\ ~pipe_mode /\ alloc' = "heap"
      /\ d' = IF reuse THEN Shifted(p - pos) ELSE NoBytes
      /\ writepos' = IF reuse THEN writepos - (p - pos) ELSE 0
      /\ pos' = p /\ readpos' = 0 /\ pc' = "fill"
      /\ cur' = FileAt(p) /\ needseek' = TRUE /\ UNCHANGED ret
  BY DEF StartFill
<1>3. FileAt(p) \in DOMAIN files /\ files \in Seq([off: Nat, end: Nat])
  BY <1>1, FileAtFacts DEF TypeOK
<1>4. FileAt(p) \in Nat \ {0} /\ files # << >>
  BY <1>3
<1>5. /\ amount' \in Nat /\ amount' <= Size /\ p + amount' <= filesize
  BY <1>1, CutFacts
<1>6. /\ writepos' \in Nat
      /\ d' \in [0 .. writepos' - 1 -> Int]
      /\ \A j \in 0 .. writepos' - 1 : d'[j] = pos' + j
  <2>1. CASE reuse
    <3>1. pos \in Nat /\ writepos \in Nat
      BY <1>1 DEF TypeOK
    <3>2. p - pos \in 0 .. writepos /\ pos + (p - pos) = p
      BY <2>1, <3>1
    <3>3. d' = Shifted(p - pos) /\ writepos' = writepos - (p - pos) /\ pos' = p
      BY <1>2, <2>1
    <3>4. PICK n \in 0 .. writepos : n = p - pos
      BY <3>2
    <3>5. /\ writepos - n \in Nat
          /\ Shifted(n) \in [0 .. writepos - n - 1 -> Int]
          /\ \A j \in 0 .. writepos - n - 1 : Shifted(n)[j] = pos + n + j
      BY <1>1, ShiftedFacts
    <3>6. d' = Shifted(n) /\ writepos' = writepos - n /\ pos' = pos + n
      BY <3>2, <3>3, <3>4
    <3>7. QED
      BY <3>5, <3>6
  <2>2. CASE ~reuse
    <3>1. writepos' = 0 /\ d' = [j \in {} |-> 0]
      BY <1>2, <2>2 DEF NoBytes
    <3>2. 0 .. writepos' - 1 = {}
      BY <3>1
    <3>3. QED
      BY <3>1, <3>2
  <2>3. QED
    BY <2>1, <2>2
<1>7. TypeOK'
  <2>1. readpos' \in 0 .. writepos' /\ pos' \in Nat /\ position' \in Int
        /\ cur' \in Nat \ {0} /\ needseek' \in BOOLEAN
        /\ alloc' \in {"none", "heap", "map"}
        /\ pc' \in {"idle", "fill", "skip", "take"}
    BY <1>2, <1>4, <1>6
  <2>2. /\ files' \in Seq([off: Nat, end: Nat]) /\ filesize' \in Nat
        /\ pipe_mode' \in BOOLEAN /\ source' \in Nat
        /\ fpos' \in Seq(Nat) /\ Len(fpos') = Len(files')
        /\ eof' \in BOOLEAN /\ ret' \in Int
    BY <1>1, <1>2 DEF TypeOK, filevars
  <2>3. QED
    BY <1>5, <1>6, <2>1, <2>2 DEF TypeOK
<1>8. NoGap' /\ Fresh' /\ Pipe' /\ Piping' /\ Served'
  BY <1>1, <1>2, <1>4 DEF NoGap, Holds, Fresh, Pipe, Piping, Served, filevars
<1>9. Filling'
  BY <1>2, <1>3, <1>5 DEF Filling, filevars
<1>10. WindowFaithful'
  BY <1>6 DEF WindowFaithful
<1>11. QED
  BY <1>7, <1>8, <1>9, <1>10 DEF IInv

LEMMA ProvideIInv ==
  ASSUME IInv, NEW a \in Nat, NEW p \in Int, pc = "idle", Provide(a, p)
  PROVE  IInv'
<1>1. position' = p /\ UNCHANGED <<filevars, fpos, eof>>
  BY DEF Provide
<1>2. CASE OutOfRange(a, p) /\ amount' = 0
  BY <1>1, <1>2, OutOfRangeIInv
<1>3. ASSUME p >= 0, p < filesize, amount' = Wanted(a, p),
             Hit(a, p) \/ Backwards(a, p) \/ Map(a, p)
      PROVE  IInv'
  <2>1. p \in Nat
    BY <1>3
  <2>2. QED
    BY <1>1, <1>3, <2>1, HitIInv, BackwardsIInv, MapIInv
<1>4. ASSUME p >= 0, p < filesize, amount' = Lesser(Wanted(a, p), Size),
             StartPipe(a, p) \/ StartFill(a, p)
      PROVE  IInv'
  <2>1. p \in Nat
    BY <1>4
  <2>2. QED
    BY <1>1, <1>4, <2>1, StartPipeIInv, StartFillIInv
<1>5. QED
  BY <1>2, <1>3, <1>4 DEF Provide

LEMMA ProvideDataIInv == IInv /\ ProvideData => IInv'
<1> SUFFICES ASSUME IInv, ProvideData PROVE IInv'
  OBVIOUS
<1>1. pc = "idle"
  BY DEF ProvideData
<1>2. PICK a \in Amounts, p \in Positions : Provide(a, p)
  BY DEF ProvideData
<1>3. a \in Nat /\ p \in Int
  BY InBufferAssumption
<1>4. QED
  BY <1>1, <1>2, <1>3, ProvideIInv

(* The answer is what is in the window from the read position on.          *)
LEMMA RemainingIInv ==
  ASSUME IInv, pc = "idle", NEW a \in Nat, Remaining(a)
  PROVE  IInv'
<1>1. /\ TypeOK /\ NoGap /\ Fresh /\ Pipe /\ WindowFaithful
  BY DEF IInv
<1>2. /\ a <= inbytes
      /\ position' = pos + readpos /\ amount' = a /\ ret' = inbytes
      /\ UNCHANGED <<filevars, fpos, window, eof, pc, readvars>>
  BY DEF Remaining, getfilepos
<1>3. position' \in Int /\ amount' \in Nat /\ ret' \in Int
  BY <1>1, <1>2 DEF TypeOK, inbytes
<1>4. TypeOK'
  BY <1>1, <1>2, <1>3 DEF TypeOK, window, readvars, filevars
<1>5. NoGap' /\ Fresh' /\ Pipe' /\ Filling' /\ Piping' /\ WindowFaithful'
  BY <1>1, <1>2 DEF NoGap, Holds, Fresh, Pipe, Filling, Piping, WindowFaithful,
                    filevars, window
<1>6. Served'
  <2>1. pos' + readpos' = position' /\ ret' = inbytes'
    BY <1>2 DEF inbytes, window
  <2>2. ~(ret' < Lesser(amount', Size))
    BY <1>2, <1>3, InBufferAssumption DEF Lesser
  <2>3. QED
    BY <2>1, <2>2 DEF Served
<1>7. QED
  BY <1>4, <1>5, <1>6 DEF IInv

LEMMA ProvideMoreIInv == IInv /\ ProvideMore => IInv'
<1> SUFFICES ASSUME IInv, ProvideMore PROVE IInv'
  OBVIOUS
<1>1. pc = "idle"
  BY DEF ProvideMore
<1>2. PICK a \in Amounts : Remaining(a) \/ (a > inbytes /\ Provide(a, getfilepos))
  BY DEF ProvideMore
<1>3. a \in Nat /\ getfilepos \in Int
  BY InBufferAssumption DEF IInv, TypeOK, getfilepos
<1>4. QED
  BY <1>1, <1>2, <1>3, RemainingIInv, ProvideIInv

(* What is passed over is not shown again; at the end of the window nothing*)
(* is left of it, and a pipe is read on from there.                        *)
LEMMA DiscardDataIInv == IInv /\ DiscardData => IInv'
<1> SUFFICES ASSUME IInv, DiscardData PROVE IInv'
  OBVIOUS
<1>1. /\ TypeOK /\ NoGap /\ Fresh /\ Pipe /\ WindowFaithful
  BY DEF IInv
<1>2. /\ pc = "idle"
      /\ position' = pos' + readpos' /\ amount' = 0 /\ ret' = 0
      /\ UNCHANGED <<filevars, fpos, alloc, eof, pc, readvars>>
  BY DEF DiscardData
<1>3. PICK n \in Amounts :
        IF n < inbytes
          THEN readpos' = readpos + n /\ UNCHANGED <<d, pos, writepos>>
          ELSE /\ pos' = pos + writepos
               /\ readpos' = 0 /\ writepos' = 0 /\ d' = NoBytes
  BY DEF DiscardData
<1>4. n \in Nat
  BY InBufferAssumption
<1>5. /\ readpos \in Nat /\ writepos \in Nat /\ pos \in Nat
      /\ d \in [0 .. writepos - 1 -> Int]
  BY <1>1 DEF TypeOK
<1>6. /\ readpos' \in 0 .. writepos' /\ writepos' \in Nat /\ pos' \in Nat
      /\ pos' + writepos' = pos + writepos
      /\ d' \in [0 .. writepos' - 1 -> Int]
      /\ \A j \in 0 .. writepos' - 1 : d'[j] = pos' + j
  <2>1. CASE n < inbytes
    <3>1. readpos' = readpos + n /\ UNCHANGED <<d, pos, writepos>>
      BY <1>3, <2>1
    <3>2. readpos + n < writepos
      BY <1>4, <1>5, <2>1 DEF inbytes
    <3>3. QED
      BY <1>1, <1>4, <1>5, <3>1, <3>2 DEF WindowFaithful
  <2>2. CASE ~(n < inbytes)
    <3>1. pos' = pos + writepos /\ readpos' = 0 /\ writepos' = 0 /\ d' = NoBytes
      BY <1>3, <2>2
    <3>2. 0 .. writepos' - 1 = {}
      BY <3>1
    <3>3. d' \in [0 .. writepos' - 1 -> Int]
      BY <3>1, <3>2 DEF NoBytes
    <3>4. QED
      BY <1>5, <3>1, <3>2, <3>3
  <2>3. QED
    BY <2>1, <2>2
<1>7. position' \in Int
  BY <1>2, <1>6
<1>8. TypeOK'
  <2>1. /\ files' \in Seq([off: Nat, end: Nat]) /\ filesize' \in Nat
        /\ pipe_mode' \in BOOLEAN /\ source' \in Nat
        /\ fpos' \in Seq(Nat) /\ Len(fpos') = Len(files')
        /\ alloc' \in {"none", "heap", "map"} /\ eof' \in BOOLEAN
        /\ pc' \in {"idle", "fill", "skip", "take"}
        /\ cur' \in Nat \ {0} /\ needseek' \in BOOLEAN
    BY <1>1, <1>2 DEF TypeOK, readvars, filevars
  <2>2. amount' \in Nat /\ ret' \in Int
    BY <1>2
  <2>3. QED
    BY <1>6, <1>7, <2>1, <2>2 DEF TypeOK
<1>9. NoGap' /\ Filling' /\ Piping'
  BY <1>1, <1>2 DEF NoGap, Holds, Filling, Piping, filevars
<1>10. Fresh'
  <2>1. CASE files # << >>
    BY <1>2, <2>1 DEF Fresh, filevars
  <2>2. CASE files = << >>
    <3>1. pos = 0 /\ writepos = 0 /\ filesize = 0 /\ ~pipe_mode
      BY <1>1, <2>2 DEF Fresh
    <3>2. ~(n < inbytes)
      BY <1>4, <1>5, <3>1 DEF inbytes
    <3>3. pos' = 0 /\ writepos' = 0
      BY <1>3, <3>1, <3>2
    <3>4. QED
      BY <1>2, <3>1, <3>3 DEF Fresh, filevars
  <2>3. QED
    BY <2>1, <2>2
<1>11. Pipe'
  BY <1>1, <1>2, <1>6 DEF Pipe, filevars
<1>12. WindowFaithful'
  BY <1>6 DEF WindowFaithful
<1>13. Served'
  BY <1>2, InBufferAssumption DEF Served, Lesser
<1>14. QED
  BY <1>8, <1>9, <1>10, <1>11, <1>12, <1>13 DEF IInv

-----------------------------------------------------------------------------
(* The loops.                                                              *)
LEMMA FillDoneIInv == IInv /\ FillDone => IInv'
<1> SUFFICES ASSUME IInv, FillDone PROVE IInv'
  OBVIOUS
<1>1. /\ TypeOK /\ NoGap /\ Fresh /\ Pipe /\ Filling /\ WindowFaithful
  BY DEF IInv
<1>2. /\ pc = "fill" /\ writepos >= amount /\ pc' = "idle" /\ ret' = inbytes
      /\ UNCHANGED <<filevars, fpos, window, eof, callvars, readvars>>
  BY DEF FillDone, Return
<1>3. inbytes \in Int /\ inbytes >= amount /\ readpos = 0 /\ pos = position
  BY <1>1, <1>2 DEF Filling, TypeOK, inbytes
<1>4. TypeOK'
  BY <1>1, <1>2, <1>3 DEF TypeOK, filevars, window, callvars, readvars
<1>5. NoGap' /\ Fresh' /\ Pipe' /\ Filling' /\ Piping' /\ WindowFaithful'
  BY <1>1, <1>2 DEF NoGap, Holds, Fresh, Pipe, Filling, Piping, WindowFaithful,
                    filevars, window
<1>6. Served'
  <2>1. pos' + readpos' = position' /\ ret' = inbytes'
    BY <1>1, <1>2, <1>3 DEF inbytes, window, callvars, TypeOK
  <2>2. amount' \in Nat /\ ret' >= amount' /\ ret' \in Int
    BY <1>1, <1>2, <1>3 DEF callvars, TypeOK
  <2>3. ~(ret' < Lesser(amount', Size))
    BY <2>2, InBufferAssumption DEF Lesser
  <2>4. QED
    BY <2>1, <2>3 DEF Served
<1>7. QED
  BY <1>4, <1>5, <1>6 DEF IInv

LEMMA FillFailsIInv == IInv /\ FillFails => IInv'
<1> SUFFICES ASSUME IInv, FillFails PROVE IInv'
  OBVIOUS
<1>1. /\ TypeOK /\ NoGap /\ Fresh /\ Pipe /\ Filling /\ WindowFaithful
  BY DEF IInv
<1>2. /\ pc = "fill" /\ pc' = "idle"
      /\ UNCHANGED <<filevars, fpos, window, callvars, readvars>>
      /\ \/ ret' = -1 /\ eof' = eof
         \/ ret' = inbytes /\ eof' = TRUE
  BY DEF FillFails, Return
<1>3. /\ inbytes \in Int /\ readpos = 0 /\ pos = position /\ ret' \in Int
      /\ eof' \in BOOLEAN
  <2>1. inbytes \in Int
    BY <1>1 DEF TypeOK, inbytes
  <2>2. ret' \in Int
    BY <1>2, <2>1
  <2>3. eof \in BOOLEAN
    BY <1>1 DEF TypeOK
  <2>4. QED
    BY <1>1, <1>2, <2>1, <2>2, <2>3 DEF Filling
<1>4. TypeOK'
  BY <1>1, <1>2, <1>3 DEF TypeOK, filevars, window, callvars, readvars
<1>5. NoGap' /\ Fresh' /\ Pipe' /\ Filling' /\ Piping' /\ WindowFaithful'
  BY <1>1, <1>2 DEF NoGap, Holds, Fresh, Pipe, Filling, Piping, WindowFaithful,
                    filevars, window
<1>6. pos' + readpos' = position'
  BY <1>1, <1>2, <1>3 DEF window, callvars, TypeOK
<1>7. Served'
  <2>1. CASE ret' = -1
    BY <2>1 DEF Served
  <2>2. CASE ret' = inbytes /\ eof' = TRUE
    <3>1. ret' = inbytes'
      BY <1>2, <2>2 DEF inbytes, window
    <3>2. QED
      BY <1>6, <2>2, <3>1 DEF Served
  <2>3. QED
    BY <1>2, <2>1, <2>2
<1>8. QED
  BY <1>4, <1>5, <1>7 DEF IInv

(* The file that is read holds the end of the window, and is read there.   *)
LEMMA FillIInv == IInv /\ Fill => IInv'
<1> SUFFICES ASSUME IInv, Fill PROVE IInv'
  OBVIOUS
<1> DEFINE i == FileAt(pos + writepos)
           off == files[i].off
           end == files[i].end
           at == Offset(i)
<1>1. /\ TypeOK /\ NoGap /\ Fresh /\ Pipe /\ Filling /\ WindowFaithful
  BY DEF IInv
<1>2. /\ pc = "fill" /\ writepos < amount
      /\ cur' = i /\ needseek' = FALSE
      /\ UNCHANGED <<filevars, alloc, pos, readpos, eof, pc, callvars, ret>>
  BY DEF Fill
<1>3. /\ pos \in Nat /\ writepos \in Nat /\ filesize \in Nat /\ amount \in Nat
      /\ position \in Int /\ Size \in Nat
      /\ files \in Seq([off: Nat, end: Nat])
      /\ fpos \in Seq(Nat) /\ Len(fpos) = Len(files)
  BY <1>1, InBufferAssumption DEF TypeOK
<1>4. /\ ~pipe_mode /\ readpos = 0 /\ pos = position /\ amount <= Size
      /\ position + amount <= filesize
      /\ cur \in DOMAIN files
      /\ ~needseek => fpos[cur] = pos + writepos - files[cur].off
  BY <1>1, <1>2 DEF Filling
<1>5. pos + writepos \in Nat /\ pos + writepos < filesize
  <2>1. /\ pos \in Nat /\ writepos \in Nat /\ filesize \in Nat
        /\ amount \in Nat /\ writepos < amount
    BY <1>2, <1>3
  <2>2. pos + amount <= filesize
    BY <1>4
  <2>3. QED
    BY <2>1, <2>2
<1>6. /\ i \in DOMAIN files /\ off \in Nat /\ end \in Nat
      /\ off <= pos + writepos /\ pos + writepos < end
  BY <1>1, <1>5, FileAtFacts
<1>7. at = pos + writepos - off
  BY <1>4 DEF Offset
<1>8. PICK n \in 1 .. Lesser(Size - writepos, end - (pos + writepos)) :
        /\ d' = Extended(off + at, n)
        /\ writepos' = writepos + n
        /\ fpos' = [fpos EXCEPT ![i] = at + n]
  BY DEF Fill, ReadFile
<1>9. i \in Nat \ {0} /\ i \in DOMAIN fpos
  BY <1>3, <1>6, SMTT(30)
<1>10. n \in Nat
  OBVIOUS
<1>a. PICK w \in Nat : w = writepos + n
  BY <1>3, <1>10
<1> HIDE DEF i, off, end, at
<1>b. writepos' = w /\ d' = Extended(off + at, n)
  BY <1>8, <1>a
<1>11. off + at = pos + writepos /\ off + at \in Int /\ at + n \in Nat
  BY <1>3, <1>6, <1>7, <1>10
<1>12. /\ Extended(off + at, n) \in [0 .. writepos + n - 1 -> Int]
       /\ \A j \in 0 .. writepos + n - 1 : Extended(off + at, n)[j] = pos + j
  BY <1>1, <1>10, <1>11, ExtendedFacts
<1>13. fpos' \in Seq(Nat) /\ Len(fpos') = Len(fpos) /\ fpos'[i] = at + n
  BY <1>3, <1>8, <1>9, <1>11
<1>14. TypeOK'
  <2>1. /\ writepos' \in Nat /\ readpos' = 0 /\ pos' \in Nat
        /\ cur' \in Nat \ {0} /\ needseek' \in BOOLEAN
    BY <1>2, <1>3, <1>4, <1>9, <1>a, <1>b
  <2>a. readpos' \in 0 .. writepos'
    BY <2>1
  <2>2. d' \in [0 .. writepos' - 1 -> Int]
    BY <1>3, <1>10, <1>12, <1>a, <1>b
  <2>3. /\ fpos' \in Seq(Nat) /\ Len(fpos') = Len(files')
    BY <1>2, <1>3, <1>13 DEF filevars
  <2>4. QED
    BY <1>1, <1>2, <2>1, <2>a, <2>2, <2>3 DEF TypeOK, filevars, callvars
<1>15. NoGap' /\ Fresh' /\ Pipe' /\ Piping' /\ Served'
  <2>1. files # << >>
    BY <1>3, <1>6
  <2>2. QED
    BY <1>1, <1>2, <1>4, <2>1 DEF NoGap, Holds, Fresh, Pipe, Piping, Served, filevars
<1>16. Filling'
  <2>1. at + n = pos + (writepos + n) - off
    BY <1>3, <1>6, <1>7, <1>10
  <2>2. fpos'[cur'] = pos' + writepos' - files'[cur'].off
    BY <1>2, <1>8, <1>13, <2>1 DEF filevars, off
  <2>3. QED
    BY <1>2, <1>4, <1>6, <2>2 DEF Filling, filevars, callvars
<1>17. WindowFaithful'
  BY <1>2, <1>3, <1>10, <1>12, <1>a, <1>b DEF WindowFaithful
<1>18. QED
  BY <1>14, <1>15, <1>16, <1>17 DEF IInv
(* A pipe is read on, in front of the position or behind it.               *)
LEMMA PipeSkipIInv == IInv /\ PipeSkip => IInv'
<1> SUFFICES ASSUME IInv, PipeSkip PROVE IInv'
  OBVIOUS
<1>1. /\ TypeOK /\ NoGap /\ Fresh /\ Pipe /\ Piping /\ WindowFaithful
  BY DEF IInv
<1>2. /\ pc = "skip" /\ pos + writepos <= position /\ pos' = pos + writepos
      /\ UNCHANGED <<filevars, alloc, readpos, callvars, readvars>>
  BY DEF PipeSkip
<1>3. /\ pos \in Nat /\ writepos \in Nat /\ position \in Int /\ amount \in Nat
      /\ source \in Nat /\ Size \in Nat
      /\ fpos \in Seq(Nat) /\ Len(fpos) = Len(files)
  BY <1>1, InBufferAssumption DEF TypeOK
<1>4. /\ pipe_mode /\ readpos = 0 /\ amount <= Size
      /\ Len(files) = 1 /\ fpos[1] = pos + writepos
  BY <1>1, <1>2 DEF Piping, Pipe
<1>5. 1 \in DOMAIN fpos /\ fpos[1] \in Nat /\ files # << >>
  <2>1. 1 \in 1 .. Len(fpos)
    BY <1>3, <1>4
  <2>2. fpos[1] \in Nat
    BY <1>3, <2>1, ElementOfSeq
  <2>3. 1 \in DOMAIN fpos
    BY <1>3, <2>1
  <2>4. files # << >>
    BY <1>4
  <2>5. QED
    BY <2>2, <2>3, <2>4
<1>6. ASSUME NEW n \in 1 .. Lesser(Size, source - fpos[1]),
             d' = [j \in 0 .. n - 1 |-> fpos[1] + j],
             writepos' = n,
             fpos' = [fpos EXCEPT ![1] = @ + n],
             UNCHANGED <<eof, pc, ret>>
      PROVE  IInv'
  <2>1. n \in Nat
    OBVIOUS
  <2>2. PICK q \in Nat : q = pos + writepos
    BY <1>3
  <2>3. fpos[1] = q /\ pos' = q
    BY <1>2, <1>4, <2>2
  <2>4. d' \in [0 .. n - 1 -> Int] /\ \A j \in 0 .. n - 1 : d'[j] = q + j
    BY <1>6, <2>1, <2>3
  <2>5. fpos' \in Seq(Nat) /\ Len(fpos') = Len(fpos) /\ fpos'[1] = q + n
    BY <1>3, <1>5, <1>6, <2>1, <2>3
  <2>6. readpos' = 0 /\ readpos' \in 0 .. writepos' /\ pos' \in Nat /\ writepos' \in Nat
    BY <1>2, <1>4, <1>6, <2>1, <2>3
  <2>7. TypeOK'
    BY <1>1, <1>2, <1>6, <2>4, <2>5, <2>6
       DEF TypeOK, filevars, callvars, readvars
  <2>8. NoGap' /\ Fresh' /\ Filling' /\ Served'
    BY <1>1, <1>2, <1>5, <1>6 DEF NoGap, Holds, Fresh, Filling, Served, filevars
  <2>9. Pipe' /\ Piping'
    BY <1>2, <1>3, <1>4, <1>6, <2>2, <2>3, <2>5
       DEF Pipe, Piping, filevars, callvars
  <2>10. WindowFaithful'
    BY <1>6, <2>3, <2>4 DEF WindowFaithful
  <2>11. QED
    BY <2>7, <2>8, <2>9, <2>10 DEF IInv
<1>7. ASSUME PipeEnds(0), d' = NoBytes, writepos' = 0, UNCHANGED fpos
      PROVE  IInv'
  <2>1. /\ pc' = "idle" /\ ret' \in {-1, 0} /\ (ret' = -1 \/ eof' = TRUE)
        /\ eof' \in BOOLEAN
    BY <1>1, <1>7 DEF PipeEnds, Return, TypeOK
  <2>2. d' = [j \in {} |-> 0]
    BY <1>7 DEF NoBytes
  <2>3. 0 .. writepos' - 1 = {}
    BY <1>7
  <2>4. d' \in [0 .. writepos' - 1 -> Int]
    BY <2>2, <2>3
  <2>5. PICK q \in Nat : q = pos + writepos
    BY <1>3
  <2>6. pos' = q /\ fpos[1] = q
    BY <1>2, <1>4, <2>5
  <2>7. readpos' \in 0 .. writepos' /\ writepos' \in Nat /\ ret' \in Int
    BY <1>2, <1>4, <1>7, <2>1
  <2>8. TypeOK'
    BY <1>1, <1>2, <1>7, <2>1, <2>4, <2>6, <2>7
       DEF TypeOK, filevars, callvars, readvars
  <2>9. NoGap' /\ Fresh' /\ Filling' /\ Piping'
    BY <1>1, <1>2, <1>5, <2>1 DEF NoGap, Holds, Fresh, Filling, Piping, filevars
  <2>10. Pipe'
    BY <1>2, <1>4, <1>7, <2>6 DEF Pipe, filevars
  <2>11. WindowFaithful'
    BY <2>3 DEF WindowFaithful
  <2>12. Served'
    BY <2>1 DEF Served
  <2>13. QED
    BY <2>8, <2>9, <2>10, <2>11, <2>12 DEF IInv
<1>8. QED
  BY <1>6, <1>7 DEF PipeSkip

LEMMA PipeShiftIInv == IInv /\ PipeShift => IInv'
<1> SUFFICES ASSUME IInv, PipeShift PROVE IInv'
  OBVIOUS
<1>1. /\ TypeOK /\ NoGap /\ Fresh /\ Pipe /\ Piping /\ WindowFaithful
  BY DEF IInv
<1>2. /\ pc = "skip" /\ pos + writepos > position /\ pos' = position
      /\ d' = Shifted(position - pos)
      /\ writepos' = writepos - (position - pos)
      /\ pc' = "take"
      /\ UNCHANGED <<filevars, fpos, alloc, readpos, eof, callvars, readvars, ret>>
  BY DEF PipeShift
<1>3. /\ pos \in Nat /\ writepos \in Nat /\ position \in Int /\ amount \in Nat
  BY <1>1 DEF TypeOK
<1>4. /\ pipe_mode /\ readpos = 0 /\ amount <= Size /\ pos <= position
      /\ Len(files) = 1 /\ fpos[1] = pos + writepos
  BY <1>1, <1>2 DEF Piping, Pipe
<1>5. position - pos \in 0 .. writepos
  BY <1>2, <1>3, <1>4
<1>6. PICK n \in 0 .. writepos : n = position - pos
  BY <1>5
<1>7. /\ writepos - n \in Nat
      /\ Shifted(n) \in [0 .. writepos - n - 1 -> Int]
      /\ \A j \in 0 .. writepos - n - 1 : Shifted(n)[j] = pos + n + j
  BY <1>1, ShiftedFacts
<1>8. PICK w \in Nat : w = writepos - n
  BY <1>7
<1>9. writepos' = w /\ d' = Shifted(n) /\ position = pos + n
  BY <1>2, <1>3, <1>6, <1>8
<1>10. d' \in [0 .. w - 1 -> Int] /\ \A j \in 0 .. w - 1 : d'[j] = position + j
  BY <1>7, <1>8, <1>9
<1>11. pos' \in Nat /\ readpos' = 0 /\ readpos' \in 0 .. writepos' /\ writepos' \in Nat
  BY <1>2, <1>3, <1>4, <1>9
<1>12. TypeOK'
  BY <1>1, <1>2, <1>9, <1>10, <1>11 DEF TypeOK, filevars, callvars, readvars
<1>13. NoGap' /\ Fresh' /\ Filling' /\ Served'
  BY <1>1, <1>2 DEF NoGap, Holds, Fresh, Filling, Served, filevars
<1>14. Pipe'
  <2>1. position + w = pos + writepos
    BY <1>3, <1>8, <1>9
  <2>2. pos' + writepos' = fpos[1]
    BY <1>2, <1>4, <1>9, <2>1
  <2>3. QED
    BY <1>2, <1>4, <2>2 DEF Pipe, filevars
<1>15. Piping'
  BY <1>2, <1>3, <1>4 DEF Piping, filevars, callvars
<1>16. WindowFaithful'
  BY <1>2, <1>9, <1>10 DEF WindowFaithful
<1>17. QED
  BY <1>12, <1>13, <1>14, <1>15, <1>16 DEF IInv

LEMMA PipeTakeIInv == IInv /\ PipeTake => IInv'
<1> SUFFICES ASSUME IInv, PipeTake PROVE IInv'
  OBVIOUS
<1>1. /\ TypeOK /\ NoGap /\ Fresh /\ Pipe /\ Piping /\ WindowFaithful
  BY DEF IInv
<1>2. /\ pc = "take"
      /\ UNCHANGED <<filevars, alloc, pos, readpos, callvars, readvars>>
  BY DEF PipeTake
<1>3. /\ pos \in Nat /\ writepos \in Nat /\ position \in Int /\ amount \in Nat
      /\ source \in Nat /\ Size \in Nat
      /\ fpos \in Seq(Nat) /\ Len(fpos) = Len(files)
  BY <1>1, InBufferAssumption DEF TypeOK
<1>4. /\ pipe_mode /\ readpos = 0 /\ amount <= Size /\ pos = position
      /\ Len(files) = 1 /\ fpos[1] = pos + writepos
  BY <1>1, <1>2 DEF Piping, Pipe
<1>5. 1 \in DOMAIN fpos /\ fpos[1] \in Nat /\ files # << >>
  <2>1. 1 \in 1 .. Len(fpos)
    BY <1>3, <1>4
  <2>2. fpos[1] \in Nat
    BY <1>3, <2>1, ElementOfSeq
  <2>3. 1 \in DOMAIN fpos
    BY <1>3, <2>1
  <2>4. files # << >>
    BY <1>4
  <2>5. QED
    BY <2>2, <2>3, <2>4
<1>6. inbytes = writepos /\ pos + readpos = position
  BY <1>3, <1>4 DEF inbytes
<1>7. ASSUME UNCHANGED <<d, writepos, fpos>>, pc' = "idle", ret' \in Int,
             eof' \in BOOLEAN,
             \/ ret' = -1
             \/ ret' = inbytes /\ (writepos >= amount \/ eof' = TRUE)
      PROVE  IInv'
  <2>1. TypeOK'
    BY <1>1, <1>2, <1>7 DEF TypeOK, filevars, callvars, readvars
  <2>2. NoGap' /\ Fresh' /\ Filling' /\ Piping' /\ Pipe' /\ WindowFaithful'
    BY <1>1, <1>2, <1>5, <1>7
       DEF NoGap, Holds, Fresh, Filling, Piping, Pipe, WindowFaithful, filevars
  <2>3. pos' + readpos' = position' /\ inbytes' = writepos /\ amount' = amount
    BY <1>2, <1>6, <1>7 DEF callvars, inbytes
  <2>4. Served'
    <3>1. CASE ret' = -1
      BY <3>1 DEF Served
    <3>2. CASE ret' = inbytes /\ eof' = TRUE
      BY <1>6, <2>3, <3>2 DEF Served
    <3>3. CASE ret' = inbytes /\ writepos >= amount
      <4>1. ~(ret' < Lesser(amount', Size))
        BY <1>3, <1>6, <2>3, <3>3 DEF Lesser
      <4>2. QED
        BY <1>6, <2>3, <3>3, <4>1 DEF Served
    <3>4. QED
      BY <1>7, <3>1, <3>2, <3>3
  <2>5. QED
    BY <2>1, <2>2, <2>4 DEF IInv
<1>8. ASSUME NEW n \in 1 .. Lesser(Size - writepos, source - fpos[1]), FromPipe(n),
             UNCHANGED <<eof, pc, ret>>
      PROVE  IInv'
  <2>1. n \in Nat
    OBVIOUS
  <2>2. /\ d' = Extended(fpos[1], n) /\ writepos' = writepos + n
        /\ fpos' = [fpos EXCEPT ![1] = @ + n]
    BY <1>8 DEF FromPipe
  <2>3. PICK w \in Nat : w = writepos + n
    BY <1>3, <2>1
  <2>4. writepos' = w
    BY <2>2, <2>3
  <2>5. /\ Extended(fpos[1], n) \in [0 .. writepos + n - 1 -> Int]
        /\ \A j \in 0 .. writepos + n - 1 : Extended(fpos[1], n)[j] = pos + j
    BY <1>1, <1>4, <1>5, <2>1, ExtendedFacts
  <2>6. d' \in [0 .. w - 1 -> Int] /\ \A j \in 0 .. w - 1 : d'[j] = pos + j
    BY <1>3, <2>1, <2>2, <2>3, <2>5
  <2>7. /\ fpos' \in Seq(Nat) /\ Len(fpos') = Len(fpos)
        /\ fpos'[1] = fpos[1] + n
    BY <1>3, <1>5, <2>1, <2>2
  <2>8. fpos'[1] = pos + w
    BY <1>3, <1>4, <2>1, <2>3, <2>7
  <2>9. readpos' = 0 /\ readpos' \in 0 .. writepos' /\ writepos' \in Nat
    BY <1>2, <1>4, <2>4
  <2>10. TypeOK'
    BY <1>1, <1>2, <1>8, <2>4, <2>6, <2>7, <2>9
       DEF TypeOK, filevars, callvars, readvars
  <2>11. NoGap' /\ Fresh' /\ Filling' /\ Served' /\ Piping'
    BY <1>1, <1>2, <1>5, <1>8
       DEF NoGap, Holds, Fresh, Filling, Served, Piping, filevars, callvars
  <2>12. Pipe'
    BY <1>2, <1>4, <2>4, <2>8 DEF Pipe, filevars
  <2>13. WindowFaithful'
    BY <1>2, <2>4, <2>6 DEF WindowFaithful
  <2>14. QED
    BY <2>10, <2>11, <2>12, <2>13 DEF IInv
<1>9. CASE writepos >= amount
  <2>1. ret' = inbytes /\ pc' = "idle" /\ UNCHANGED <<d, writepos, fpos, eof>>
    BY <1>9 DEF PipeTake, Return
  <2>2. eof \in BOOLEAN
    BY <1>1 DEF TypeOK
  <2>3. QED
    BY <1>3, <1>6, <1>7, <1>9, <2>1, <2>2
<1>10. ASSUME PipeEnds(inbytes), UNCHANGED <<d, writepos, fpos>>
       PROVE  IInv'
  <2>1. /\ pc' = "idle"
        /\ (ret' = -1 /\ eof' = eof) \/ (ret' = inbytes /\ eof' = TRUE)
    BY Zenon, <1>10 DEF PipeEnds, Return
  <2>2. eof \in BOOLEAN
    BY <1>1 DEF TypeOK
  <2>3. ret' \in Int /\ eof' \in BOOLEAN
    <3>1. inbytes \in Int
      BY <1>3, <1>6
    <3>2. ret' \in Int
      BY <2>1, <3>1
    <3>3. eof' \in BOOLEAN
      BY <2>1, <2>2
    <3>4. QED
      BY <3>2, <3>3
  <2>4. QED
    BY <1>7, <1>10, <2>1, <2>3
<1>11. QED
  BY <1>8, <1>9, <1>10 DEF PipeTake

LEMMA StepIInv == IInv /\ [Next]_vars => IInv'
<1> SUFFICES ASSUME IInv, [Next]_vars PROVE IInv'
  OBVIOUS
<1>1. CASE Next
  BY <1>1, OpenFileIInv, OpenPipeIInv, ResetIInv, ProvideDataIInv,
     ProvideMoreIInv, DiscardDataIInv, FillIInv, FillDoneIInv, FillFailsIInv,
     PipeSkipIInv, PipeShiftIInv, PipeTakeIInv
     DEF Next
<1>2. CASE UNCHANGED vars
  <2>1. UNCHANGED <<files, filesize, pipe_mode, source, fpos, alloc, d, pos,
                    readpos, writepos, eof, pc, amount, position, cur, needseek,
                    ret>>
    BY <1>2 DEF vars, filevars, window, callvars, readvars
  <2>2. /\ TypeOK /\ NoGap /\ Fresh /\ Pipe /\ Filling /\ Piping
        /\ WindowFaithful /\ Served
    BY DEF IInv
  <2>3. TypeOK'
    BY <2>1, <2>2 DEF TypeOK
  <2>4. NoGap' /\ Fresh' /\ Pipe' /\ Filling' /\ Piping'
    BY <2>1, <2>2 DEF NoGap, Holds, Fresh, Pipe, Filling, Piping
  <2>5. WindowFaithful' /\ Served'
    BY <2>1, <2>2 DEF WindowFaithful, Served, inbytes
  <2>6. QED
    BY <2>3, <2>4, <2>5 DEF IInv
<1>3. QED
  BY <1>1, <1>2

-----------------------------------------------------------------------------
(* The strengthened invariant of the buffer.                               *)
THEOREM InputInvariant == Spec => []IInv
<1>1. Init => IInv
  BY InitIInv
<1>2. IInv /\ [Next]_vars => IInv'
  BY StepIInv
<1>3. QED
  BY <1>1, <1>2, PTL DEF Spec

(* Every variable has its type; the read position lies in the window.      *)
THEOREM TypeCorrect == Spec => []TypeOK
<1>1. IInv => TypeOK
  BY DEF IInv
<1>2. QED
  BY <1>1, InputInvariant, PTL

(* The window holds the bytes of the recording from offset pos on.         *)
THEOREM WindowAlwaysFaithful == Spec => []WindowFaithful
<1>1. IInv => WindowFaithful
  BY DEF IInv
<1>2. QED
  BY <1>1, InputInvariant, PTL

(* A call delivers what it was asked for.                                  *)
THEOREM CallsServed == Spec => []Served
<1>1. IInv => Served
  BY DEF IInv
<1>2. QED
  BY <1>1, InputInvariant, PTL

(* What was taken from a pipe is in the window or has been passed over.    *)
THEOREM PipeNothingLost == Spec => []NothingLost
<1>1. IInv => NothingLost
  BY DEF IInv, Pipe, NothingLost
<1>2. QED
  BY <1>1, InputInvariant, PTL

(* The assertions of the loop that reads the files hold.                   *)
THEOREM ReadsInsideFiles == Spec => []ReadsInFile
<1>1. IInv => ReadsInFile
  <2> SUFFICES ASSUME IInv, pc = "fill", writepos < amount
               PROVE  /\ \E i \in DOMAIN files : Holds(i, pos + writepos)
                      /\ writepos < Size
    BY DEF ReadsInFile
  <2>1. TypeOK /\ NoGap /\ Filling
    BY DEF IInv
  <2>2. pos \in Nat /\ writepos \in Nat /\ amount \in Nat /\ filesize \in Nat
    BY <2>1 DEF TypeOK
  <2>3. amount <= Size /\ pos + amount <= filesize
    BY <2>1 DEF Filling
  <2>4. Size \in Nat
    BY InBufferAssumption
  <2>5. pos + writepos \in 0 .. filesize - 1
    BY <2>2, <2>3
  <2>6. QED
    BY <2>1, <2>2, <2>3, <2>4, <2>5 DEF NoGap
<1>2. QED
  BY <1>1, InputInvariant, PTL
=============================================================================
