--------------------------- MODULE IndexGen_proofs ---------------------------
(***************************************************************************)
(* Proofs about mpgIndex::generate(), for every set of streams: the table  *)
(* stays well-typed, what is on disk is never outdated, every sequence     *)
(* short enough for the rank field is numbered by a permutation, and what  *)
(* was written is loaded as the same index.  For streams in the order of   *)
(* an encoder, the permutation is the order of display.                    *)
(***************************************************************************)
EXTENDS IndexGen, Common_proofs

(* Where the pass stands: the current sequence is seqheaderpic ..          *)
(* pictures-1, and it has given all its ranks but the delayed one.         *)
Delayed == IF last_non_b_pic = NoPic THEN 0 ELSE 1

Layout ==
  /\ seqheaderpic <= pictures
  /\ waitforfirst => pictures = 0 /\ ~foundseqheader
  /\ ~waitforfirst => (foundseqheader <=> seqheaderpic = pictures)
  /\ \A i \in 0 .. pictures - 1 : p[i].hdr => i <= seqheaderpic
  /\ seqheaderpic < pictures => p[seqheaderpic].hdr
  /\ seqheaderpic + maxseqnr + 1 + Delayed = pictures
  /\ last_non_b_pic # NoPic => last_non_b_pic \in seqheaderpic .. pictures - 1

(* The ranks given in the current sequence.                                *)
Ranked == {i \in seqheaderpic .. pictures - 1 : i # last_non_b_pic}

OpenRanks ==
  pictures - seqheaderpic <= SeqNrs =>
    /\ \A i \in Ranked : p[i].seqnr <= maxseqnr
    /\ \A i, j \in Ranked : i # j => p[i].seqnr # p[j].seqnr

(* The file never holds more than what is final.                           *)
FileLayout ==
  /\ pictureswritten <= flen
  /\ pc # "done" => pictureswritten <= seqheaderpic

IInv ==
  /\ TypeOK
  /\ pc # "cancelled" =>
       /\ Layout
       /\ OpenRanks
       /\ RanksPermute
       /\ FileLayout
       /\ FlushedIsFinal
-----------------------------------------------------------------------------
(* What the 10-bit field keeps of a rank.                                  *)
LEMMA RankFits ==
  ASSUME NEW r \in Nat
  PROVE  /\ r % SeqNrs \in 0 .. SeqNrs - 1
         /\ r < SeqNrs => r % SeqNrs = r
  BY SeqNrsAssumption

(* setsequencenumber() changes the rank and nothing else.                  *)
LEMMA SetSeqNrFacts ==
  ASSUME NEW pic \in Picture, NEW r \in Nat
  PROVE  /\ SetSeqNr(pic, r) \in Picture
         /\ SetSeqNr(pic, r).seqnr = r % SeqNrs
         /\ SetSeqNr(pic, r).hdr = pic.hdr
  BY RankFits DEF SetSeqNr, Picture

(* The same for a picture in a table.                                      *)
LEMMA NumberedFacts ==
  ASSUME NEW n \in Nat, NEW q \in [0 .. n - 1 -> Picture],
         NEW k \in 0 .. n - 1, NEW r \in Nat
  PROVE  /\ Numbered(q, k, r) \in [0 .. n - 1 -> Picture]
         /\ Numbered(q, k, r)[k].seqnr = r % SeqNrs
         /\ \A i \in 0 .. n - 1 :
              /\ Numbered(q, k, r)[i].hdr = q[i].hdr
              /\ i # k => Numbered(q, k, r)[i] = q[i]
<1>1. q[k] \in Picture
  OBVIOUS
<1>2. QED
  BY <1>1, SetSeqNrFacts DEF Numbered

(* A start code read from the stream.                                      *)
LEMMA NextCode ==
  ASSUME TypeOK, rd < Len(stream)
  PROVE  /\ stream[rd + 1] \in StartCodes
         /\ stream[rd + 1].code = "pic" =>
              stream[rd + 1].type \in PictureType /\ stream[rd + 1].tr \in Nat
         /\ stream[rd + 1].code = "seq" => stream[rd + 1].size \in Nat \ {0}
<1>1. stream[rd + 1] \in StartCodes
  BY DEF TypeOK
<1>2. QED
  BY <1>1 DEF StartCodes
-----------------------------------------------------------------------------
(* The delayed picture gets the next rank, the others keep theirs.         *)
LEMMA FlushDelayedFacts ==
  ASSUME TypeOK, Layout
  PROVE  /\ FlushDelayed \in [0 .. pictures - 1 -> Picture]
         /\ \A i \in 0 .. pictures - 1 :
              /\ FlushDelayed[i].hdr = p[i].hdr
              /\ i # last_non_b_pic => FlushDelayed[i] = p[i]
         /\ last_non_b_pic # NoPic =>
              FlushDelayed[last_non_b_pic].seqnr = (maxseqnr + 1) % SeqNrs
<1>1. CASE last_non_b_pic = NoPic
  BY <1>1 DEF FlushDelayed, TypeOK
<1>2. CASE last_non_b_pic # NoPic
  <2>1. last_non_b_pic \in 0 .. pictures - 1
    BY <1>2 DEF Layout, TypeOK
  <2>2. maxseqnr + 1 \in Nat /\ pictures \in Nat /\ p \in [0 .. pictures - 1 -> Picture]
    BY DEF TypeOK
  <2>3. FlushDelayed = Numbered(p, last_non_b_pic, maxseqnr + 1)
    BY <1>2 DEF FlushDelayed
  <2>4. QED
    BY <2>1, <2>2, <2>3, NumberedFacts
<1>3. QED
  BY <1>1, <1>2

(* The table with one more picture.                                        *)
LEMMA AppendedFacts ==
  ASSUME TypeOK, rd < Len(stream), stream[rd + 1].code = "pic"
  PROVE  /\ Appended \in [0 .. pictures -> Picture]
         /\ \A i \in 0 .. pictures - 1 : Appended[i] = p[i]
         /\ Appended[pictures].hdr = foundseqheader
<1> DEFINE new == [pos   |-> IF foundseqheader THEN seqheaderpos ELSE rd + 1,
                   type  |-> stream[rd + 1].type,
                   seqnr |-> stream[rd + 1].tr % SeqNrs,
                   hdr   |-> foundseqheader,
                   res   |-> Len(sizes)]
<1>1. new \in Picture
  <2>1. stream[rd + 1].type \in PictureType /\ stream[rd + 1].tr \in Nat
    BY NextCode
  <2>2. stream[rd + 1].tr % SeqNrs \in 0 .. SeqNrs - 1
    BY <2>1, RankFits
  <2>3. Len(sizes) \in Nat /\ rd + 1 \in Nat /\ seqheaderpos \in Nat
        /\ foundseqheader \in BOOLEAN
    BY DEF TypeOK
  <2>4. (IF foundseqheader THEN seqheaderpos ELSE rd + 1) \in Nat
    BY <2>3
  <2>5. QED
    BY <2>1, <2>2, <2>3, <2>4 DEF Picture
<1>2. pictures \in Nat /\ p \in [0 .. pictures - 1 -> Picture]
  BY DEF TypeOK
<1>3. Appended = [i \in 0 .. pictures |-> IF i < pictures THEN p[i] ELSE new]
  BY DEF Appended
<1> HIDE DEF new
<1>4. /\ Appended \in [0 .. pictures -> Picture]
      /\ \A i \in 0 .. pictures - 1 : Appended[i] = p[i]
      /\ Appended[pictures] = new
  BY <1>1, <1>2, <1>3
<1>5. new.hdr = foundseqheader
  BY DEF new
<1>6. QED
  BY <1>4, <1>5

-----------------------------------------------------------------------------
(* Sequences in front of the current one keep their ranks as long as a     *)
(* step leaves that part of the table alone.                               *)
LEMMA ClosedKept ==
  ASSUME TypeOK, Layout, RanksPermute, pc # "cancelled", pc' # "done",
         pictures' \in Nat, pictures' >= pictures,
         seqheaderpic' = seqheaderpic,
         \A i \in 0 .. seqheaderpic - 1 : p'[i] = p[i]
  PROVE  RanksPermute'
<1> SUFFICES ASSUME NEW b \in 0 .. pictures', NEW e \in 0 .. pictures',
                    IsSequence(b, e)', e - b <= SeqNrs
             PROVE  Permuted(b, e)'
  BY DEF RanksPermute
<1>1. /\ b < e /\ e <= seqheaderpic /\ seqheaderpic <= pictures
      /\ pictures \in Nat /\ seqheaderpic \in Nat /\ b \in Nat /\ e \in Nat
  BY DEF IsSequence, Layout, TypeOK
<1>2. \A i \in b .. e - 1 : p'[i] = p[i]
  BY <1>1
<1>3. IsSequence(b, e)
  <2>1. p[b].hdr /\ \A i \in b + 1 .. e - 1 : ~p[i].hdr
    BY <1>1, <1>2 DEF IsSequence
  <2>2. e < pictures => p[e].hdr
    <3>1. CASE e < seqheaderpic
      BY <1>1, <3>1 DEF IsSequence
    <3>2. CASE e = seqheaderpic
      BY <3>2 DEF Layout
    <3>3. QED
      BY <1>1, <3>1, <3>2
  <2>3. QED
    BY <1>1, <2>1, <2>2 DEF IsSequence
<1>4. Permuted(b, e)
  BY <1>1, <1>3, e - b <= SeqNrs DEF RanksPermute
<1>5. QED
  BY <1>2, <1>4 DEF Permuted

(* When the delayed picture gets its rank, the current sequence is         *)
(* numbered like the ones in front of it.                                  *)
LEMMA OpenCloses ==
  ASSUME TypeOK, Layout, OpenRanks, RanksPermute, pc # "cancelled",
         p' = FlushDelayed, pictures' = pictures
  PROVE  RanksPermute'
<1> SUFFICES ASSUME NEW b \in 0 .. pictures, NEW e \in 0 .. pictures,
                    IsSequence(b, e)', e - b <= SeqNrs
             PROVE  Permuted(b, e)'
  BY DEF RanksPermute
<1>1. /\ b < e /\ seqheaderpic <= pictures
      /\ pictures \in Nat /\ seqheaderpic \in Nat /\ b \in Nat /\ e \in Nat
      /\ SeqNrs \in Nat
  BY SeqNrsAssumption DEF IsSequence, Layout, TypeOK
<1>2. /\ \A i \in 0 .. pictures - 1 :
           /\ p'[i].hdr = p[i].hdr
           /\ i # last_non_b_pic => p'[i] = p[i]
      /\ last_non_b_pic # NoPic =>
           p'[last_non_b_pic].seqnr = (maxseqnr + 1) % SeqNrs
  BY FlushDelayedFacts
<1>3. last_non_b_pic # NoPic => last_non_b_pic >= seqheaderpic
  BY <1>1 DEF Layout
<1>4. /\ p[b].hdr
      /\ \A i \in b + 1 .. e - 1 : ~p[i].hdr
      /\ e < pictures => p[e].hdr
  BY <1>1, <1>2 DEF IsSequence
<1>5. CASE e <= seqheaderpic
  <2>1. IsSequence(b, e)
    BY <1>1, <1>4, <1>5 DEF IsSequence
  <2>2. Permuted(b, e)
    BY <1>1, <2>1, e - b <= SeqNrs DEF RanksPermute
  <2>3. \A i \in b .. e - 1 : p'[i] = p[i]
    BY <1>1, <1>2, <1>3, <1>5 DEF NoPic
  <2>4. QED
    BY <2>2, <2>3 DEF Permuted
<1>6. CASE e > seqheaderpic
  <2>1. b = seqheaderpic
    BY <1>1, <1>4, <1>6 DEF Layout
  <2>2. e = pictures
    BY <1>1, <1>4, <1>6 DEF Layout
  <2>3. /\ \A i \in Ranked : p[i].seqnr <= maxseqnr
        /\ \A i, j \in Ranked : i # j => p[i].seqnr # p[j].seqnr
    BY <2>1, <2>2, e - b <= SeqNrs DEF OpenRanks
  <2>4. \A i \in b .. e - 1 : i # last_non_b_pic => p'[i] = p[i] /\ i \in Ranked
    BY <1>1, <1>2, <2>1, <2>2 DEF Ranked
  <2>5. \A i \in b .. e - 1 : p[i].seqnr \in Nat
    BY <1>1 DEF TypeOK, Picture
  <2>6. maxseqnr + 1 + Delayed = e - b /\ maxseqnr \in Int /\ maxseqnr + 1 \in Nat
    BY <1>1, <2>1, <2>2 DEF Layout, TypeOK, Delayed, NoPic
  <2>7. CASE last_non_b_pic = NoPic
    <3>1. \A i \in b .. e - 1 : p'[i] = p[i] /\ i \in Ranked
      BY <1>1, <2>4, <2>7 DEF NoPic
    <3>2. maxseqnr < e - b
      BY <2>6, <2>7, <1>1 DEF Delayed
    <3>3. QED
      BY <1>1, <2>3, <2>5, <2>6, <3>1, <3>2 DEF Permuted
  <2>8. CASE last_non_b_pic # NoPic
    <3>1. maxseqnr + 1 < e - b /\ maxseqnr + 1 < SeqNrs
      BY <1>1, <2>6, <2>8, e - b <= SeqNrs DEF Delayed
    <3>2. p'[last_non_b_pic].seqnr = maxseqnr + 1
      BY <1>2, <2>6, <2>8, <3>1, RankFits
    <3>3. QED
      BY <1>1, <2>3, <2>4, <2>5, <2>6, <3>1, <3>2 DEF Permuted
  <2>9. QED
    BY <2>7, <2>8
<1>7. QED
  BY <1>1, <1>5, <1>6
-----------------------------------------------------------------------------
(* What a write to the file leaves there.                                  *)
LEMMA RecordFacts ==
  ASSUME TypeOK, Layout, NEW i \in 0 .. Target - 1
  PROVE  /\ Record(i) \in Picture
         /\ i < seqheaderpic => Record(i) = p[i]
         /\ rd = Len(stream) /\ i < pictures => Record(i) = FlushDelayed[i]
<1>1. /\ pictures \in Nat /\ seqheaderpic \in Nat /\ rd \in 0 .. Len(stream)
      /\ seqheaderpic <= pictures /\ Len(stream) \in Nat
      /\ p \in [0 .. pictures - 1 -> Picture]
      /\ FlushDelayed \in [0 .. pictures - 1 -> Picture]
  BY FlushDelayedFacts DEF TypeOK, Layout
<1>2. \A j \in 0 .. seqheaderpic - 1 : FlushDelayed[j] = p[j]
  BY <1>1, FlushDelayedFacts DEF Layout, NoPic
<1>3. CASE rd < Len(stream)
  BY <1>1, <1>3 DEF Record, Target
<1>4. CASE ~(rd < Len(stream))
  <2>1. CASE i < pictures
    BY <1>1, <1>2, <1>4, <2>1 DEF Record
  <2>2. CASE ~(i < pictures)
    <3>1. i - pictures + 1 \in Nat \ {0}
      BY <1>1, <2>2, NFakeAssumption DEF Target
    <3>2. (IF i - pictures < Len(sizes) THEN sizes[i - pictures + 1] ELSE 0) \in Nat
      <4>1. sizes \in Seq(Nat \ {0}) /\ Len(sizes) \in Nat
        BY DEF TypeOK
      <4>2. i - pictures < Len(sizes) => i - pictures + 1 \in 1 .. Len(sizes)
        BY <1>1, <3>1, <4>1, NFakeAssumption DEF Target
      <4>3. QED
        BY <4>1, <4>2
    <3>3. \A w \in Nat, k \in Nat : FakePicture(w, k) \in Picture
      BY SeqNrsAssumption DEF FakePicture, Picture, PictureType
    <3>4. QED
      BY <1>1, <1>4, <2>2, <3>1, <3>2, <3>3 DEF Record
  <2>3. QED
    BY <2>1, <2>2
<1>5. QED
  BY <1>3, <1>4

LEMMA WrittenFacts ==
  ASSUME TypeOK, Layout, pictureswritten <= flen,
         NEW k \in Nat, k <= Target, pictureswritten <= k
  PROVE  /\ Written(k) \in [0 .. k - 1 -> Picture]
         /\ \A i \in 0 .. k - 1 :
              Written(k)[i] = IF i < pictureswritten THEN file[i] ELSE Record(i)
<1>1. \A i \in 0 .. k - 1 : i >= pictureswritten => Record(i) \in Picture
  <2>1. Target \in Int
    BY NFakeAssumption DEF Target, TypeOK
  <2>2. QED
    BY <2>1, RecordFacts
<1>2. \A i \in 0 .. k - 1 : i < pictureswritten => file[i] \in Picture
  BY DEF TypeOK
<1>3. pictureswritten \in Nat
  BY DEF TypeOK
<1>4. QED
  BY <1>1, <1>2, <1>3 DEF Written

(* Every write leaves the final records as they are and adds final ones.   *)
LEMMA WriteFileFacts ==
  ASSUME TypeOK, Layout, FileLayout, WriteFile, pc = "read"
  PROVE  /\ fd' \in {"open", "closed", "none"}
         /\ flen' \in Nat
         /\ file' \in [0 .. flen' - 1 -> Picture]
         /\ pictureswritten' \in Nat
         /\ pictureswritten' <= flen'
         /\ pictureswritten' \in {pictureswritten, Target}
         /\ \A i \in 0 .. pictureswritten' - 1 :
              file'[i] = IF i < pictureswritten THEN file[i] ELSE Record(i)
<1>0. /\ Target \in Nat /\ pictureswritten \in Nat /\ flen \in Nat
      /\ pictureswritten <= flen
      /\ file \in [0 .. flen - 1 -> Picture] /\ fd \in {"open", "closed", "none"}
  BY NFakeAssumption DEF Target, TypeOK, FileLayout
<1>1. CASE ~Dirty
  BY <1>0, <1>1 DEF WriteFile, filevars
<1>2. CASE /\ Dirty
           /\ file' = Written(Target)
           /\ flen' = Target
           /\ pictureswritten' = Target
           /\ UNCHANGED fd
  <2>1. pictureswritten <= Target
    BY <1>0, <1>2 DEF Dirty
  <2>2. QED
    BY <1>0, <1>2, <2>1, WrittenFacts
<1>3. ASSUME Dirty, NEW k \in pictureswritten .. Target - 1,
             file' = Written(k), flen' = k, fd' = "closed",
             UNCHANGED pictureswritten
      PROVE  /\ fd' \in {"open", "closed", "none"}
             /\ flen' \in Nat
             /\ file' \in [0 .. flen' - 1 -> Picture]
             /\ pictureswritten' \in Nat
             /\ pictureswritten' <= flen'
             /\ pictureswritten' \in {pictureswritten, Target}
             /\ \A i \in 0 .. pictureswritten' - 1 :
                  file'[i] = IF i < pictureswritten THEN file[i] ELSE Record(i)
  <2>1. k \in Nat /\ k <= Target /\ pictureswritten <= k
    BY <1>0, <1>3
  <2>2. QED
    BY <1>0, <1>3, <2>1, WrittenFacts
<1>4. QED
  BY <1>1, <1>2, <1>3 DEF WriteFile
-----------------------------------------------------------------------------
(* A picture leaves the records on disk alone.                             *)
LEMMA FlushedKept ==
  ASSUME TypeOK, Layout, FileLayout, FlushedIsFinal, pc = "scan",
         UNCHANGED filevars,
         \A i \in 0 .. seqheaderpic - 1 : p'[i] = p[i],
         pictures' \in Nat, seqheaderpic <= pictures'
  PROVE  FlushedIsFinal'
<1>1. /\ pictures \in Nat /\ seqheaderpic \in Nat /\ pictureswritten \in Nat
      /\ pictureswritten <= seqheaderpic /\ seqheaderpic <= pictures
  BY DEF FileLayout, Layout, TypeOK
<1>2. ASSUME NEW i \in 0 .. pictures' - 1, i < pictureswritten
      PROVE  file[i] = p'[i]
  <2>1. i \in 0 .. seqheaderpic - 1 /\ i \in 0 .. pictures - 1
    BY <1>1, <1>2
  <2>2. QED
    BY <1>2, <2>1 DEF FlushedIsFinal
<1>3. QED
  BY <1>2 DEF FlushedIsFinal, filevars

LEMMA InitIInv == Init => IInv
<1> SUFFICES ASSUME Init PROVE IInv
  OBVIOUS
<1>1. TypeOK
  <2>1. stream \in Seq(StartCodes) /\ rd \in 0 .. Len(stream)
    BY StreamsAssumption DEF Init
  <2>2. << >> \in Seq(Nat \ {0})
    OBVIOUS
  <2>3. pictures = 0 /\ p \in [0 .. pictures - 1 -> Picture]
    BY DEF Init
  <2>4. flen = 0 /\ file \in [0 .. flen - 1 -> Picture]
    BY DEF Init
  <2>5. /\ pc = "read" /\ seqheaderpic = 0 /\ seqheaderpos = 0
        /\ foundseqheader = FALSE /\ waitforfirst = TRUE /\ maxseqnr = -1
        /\ last_non_b_pic = NoPic /\ last_non_b_seqnr = NoPic /\ last_seqnr = -1
        /\ sizes = << >> /\ fd \in {"open", "none"} /\ pictureswritten = 0
    BY DEF Init
  <2>6. QED
    BY <2>1, <2>2, <2>3, <2>4, <2>5 DEF TypeOK, NoPic
<1>2. Layout /\ OpenRanks /\ FileLayout /\ FlushedIsFinal
  BY DEF Init, Layout, Delayed, OpenRanks, Ranked, FileLayout, FlushedIsFinal
<1>3. RanksPermute
  BY DEF Init, RanksPermute, IsSequence
<1>4. QED
  BY <1>1, <1>2, <1>3 DEF IInv

LEMMA ReadChunkIInv == IInv /\ ReadChunk => IInv'
<1> SUFFICES ASSUME IInv, ReadChunk PROVE IInv'
  OBVIOUS
<1>1. TypeOK /\ Layout /\ OpenRanks /\ RanksPermute /\ FileLayout /\ FlushedIsFinal
      /\ pc = "read" /\ pc' = "scan" /\ WriteFile
      /\ UNCHANGED <<stream, rd, genvars>> /\ rd < Len(stream)
  BY DEF IInv, ReadChunk
<1>2. Target = seqheaderpic
  BY <1>1 DEF Target
<1>3. TypeOK'
  BY <1>1, WriteFileFacts DEF TypeOK, genvars
<1>4. Layout' /\ OpenRanks'
  BY <1>1 DEF Layout, Delayed, OpenRanks, Ranked, genvars
<1>5. RanksPermute'
  BY <1>1 DEF RanksPermute, IsSequence, Permuted, genvars
<1>6. FileLayout'
  BY <1>1, <1>2, WriteFileFacts DEF FileLayout, genvars, TypeOK
<1>7. FlushedIsFinal'
  <2>1. \A i \in 0 .. Target - 1 : Record(i) = p[i]
    BY <1>1, <1>2, RecordFacts DEF TypeOK
  <2>2. /\ pictureswritten' \in Nat
        /\ pictureswritten' \in {pictureswritten, Target}
        /\ \A i \in 0 .. pictureswritten' - 1 :
             file'[i] = IF i < pictureswritten THEN file[i] ELSE Record(i)
    BY <1>1, WriteFileFacts
  <2>3. ASSUME NEW i \in 0 .. pictures - 1, i < pictureswritten'
        PROVE  file'[i] = p[i]
    <3>0. i \in 0 .. pictureswritten' - 1
      <4>1. PICK w \in Nat : w = pictureswritten'
        BY <2>2
      <4>2. i \in Nat /\ i < w
        BY <2>3, <4>1
      <4>3. i \in 0 .. w - 1
        BY <4>2
      <4>4. QED
        BY <4>1, <4>3
    <3>1. CASE i < pictureswritten
      BY <1>1, <2>2, <2>3, <3>0, <3>1 DEF FlushedIsFinal
    <3>2. CASE ~(i < pictureswritten)
      <4>1. pictureswritten' = Target
        BY <2>2, <2>3, <3>2
      <4>2. QED
        BY <2>1, <2>2, <3>0, <3>2, <4>1
    <3>3. QED
      BY <3>1, <3>2
  <2>4. QED
    BY <1>1, <2>3 DEF FlushedIsFinal, genvars
<1>8. QED
  BY <1>3, <1>4, <1>5, <1>6, <1>7 DEF IInv

LEMMA CancelIInv == IInv /\ Cancel => IInv'
  BY DEF IInv, TypeOK, Cancel, filevars

LEMMA CrashIInv == IInv /\ Crash => IInv'
<1> SUFFICES ASSUME IInv, Crash PROVE IInv'
  OBVIOUS
<1>1. TypeOK /\ Layout /\ OpenRanks /\ RanksPermute /\ FileLayout /\ FlushedIsFinal
      /\ pc \in {"read", "scan"} /\ pc' = "crashed"
      /\ UNCHANGED <<stream, rd, genvars, fd, pictureswritten>>
  BY DEF IInv, Crash
<1>2. /\ flen' \in Nat
      /\ file' \in [0 .. flen' - 1 -> Picture]
      /\ pictureswritten <= flen'
      /\ \A i \in 0 .. pictureswritten - 1 : file'[i] = file[i]
  <2>1. /\ Target \in Nat /\ pictureswritten \in Nat /\ pictureswritten <= flen
        /\ flen \in Nat /\ file \in [0 .. flen - 1 -> Picture]
    BY <1>1, NFakeAssumption DEF Target, TypeOK, FileLayout
  <2>2. CASE UNCHANGED <<file, flen>>
    BY <2>1, <2>2
  <2>3. ASSUME NEW k \in pictureswritten + 1 .. Target,
               file' = Written(k), flen' = k
        PROVE  /\ flen' \in Nat
               /\ file' \in [0 .. flen' - 1 -> Picture]
               /\ pictureswritten <= flen'
               /\ \A i \in 0 .. pictureswritten - 1 : file'[i] = file[i]
    <3>1. k \in Nat /\ k <= Target /\ pictureswritten <= k
      BY <2>1, <2>3
    <3>2. QED
      BY <1>1, <2>1, <2>3, <3>1, WrittenFacts
  <2>4. QED
    BY <2>2, <2>3 DEF Crash
<1>3. TypeOK'
  BY <1>1, <1>2 DEF TypeOK, genvars
<1>4. Layout' /\ OpenRanks'
  BY <1>1 DEF Layout, Delayed, OpenRanks, Ranked, genvars
<1>5. RanksPermute'
  BY <1>1 DEF RanksPermute, IsSequence, Permuted, genvars
<1>6. FileLayout'
  BY <1>1, <1>2 DEF FileLayout, genvars, TypeOK
<1>7. FlushedIsFinal'
  <2>1. pictureswritten \in Nat /\ pictures \in Nat
    BY <1>1 DEF TypeOK
  <2>2. ASSUME NEW i \in 0 .. pictures - 1, i < pictureswritten
        PROVE  file'[i] = p[i]
    <3>1. i \in 0 .. pictureswritten - 1
      BY <2>1, <2>2
    <3>2. QED
      BY <1>1, <1>2, <2>2, <3>1 DEF FlushedIsFinal
  <2>3. QED
    BY <1>1, <2>2 DEF FlushedIsFinal, genvars
<1>8. QED
  BY <1>3, <1>4, <1>5, <1>6, <1>7 DEF IInv
-----------------------------------------------------------------------------
LEMMA ConsumeFacts ==
  ASSUME TypeOK, Consume
  PROVE  /\ pc = "scan" /\ pc' \in {"read", "scan"} /\ rd < Len(stream)
         /\ stream' = stream /\ rd' \in 0 .. Len(stream')
         /\ UNCHANGED filevars
         /\ stream' \in Seq(StartCodes)
         /\ fd' \in {"open", "closed", "none"} /\ flen' \in Nat
         /\ file' \in [0 .. flen' - 1 -> Picture] /\ pictureswritten' \in Nat
<1>1. /\ pc = "scan" /\ pc' \in {"read", "scan"} /\ rd < Len(stream)
      /\ rd' = rd + 1 /\ stream' = stream /\ UNCHANGED filevars
  BY DEF Consume
<1>2. rd \in 0 .. Len(stream) /\ Len(stream) \in Nat
  BY DEF TypeOK
<1>3. QED
  BY <1>1, <1>2 DEF TypeOK, filevars

LEMMA SequenceHeaderIInv == IInv /\ SequenceHeader => IInv'
<1> SUFFICES ASSUME IInv, SequenceHeader PROVE IInv'
  OBVIOUS
<1>1. TypeOK /\ Consume
  BY DEF IInv, SequenceHeader
<1>2. pc = "scan" /\ pc' \in {"read", "scan"}
  BY <1>1, ConsumeFacts
<1>3. Layout /\ OpenRanks /\ RanksPermute /\ FileLayout /\ FlushedIsFinal
  BY <1>2 DEF IInv
<1>4. /\ p' = FlushDelayed /\ pictures' = pictures /\ last_non_b_pic' = NoPic
      /\ last_seqnr' = -1 /\ maxseqnr' = -1 /\ waitforfirst' = FALSE
      /\ foundseqheader' = TRUE /\ seqheaderpos' = rd + 1
      /\ seqheaderpic' = pictures /\ last_non_b_seqnr' = last_non_b_seqnr
  BY DEF SequenceHeader
<1>5. /\ pictures \in Nat /\ seqheaderpic \in Nat /\ rd \in Nat
      /\ seqheaderpic <= pictures
  BY <1>1, <1>3 DEF TypeOK, Layout
<1>6. sizes' \in Seq(Nat \ {0})
  <2>1. stream[rd + 1].size \in Nat \ {0}
    BY <1>1, ConsumeFacts, NextCode DEF SequenceHeader
  <2>2. sizes \in Seq(Nat \ {0})
    BY <1>1 DEF TypeOK
  <2>3. sizes' \in {sizes, Append(sizes, stream[rd + 1].size)}
    BY DEF SequenceHeader
  <2>4. QED
    BY <2>1, <2>2, <2>3
<1>7. TypeOK'
  <2>1. p' \in [0 .. pictures' - 1 -> Picture]
    BY <1>1, <1>3, <1>4, FlushDelayedFacts
  <2>2. last_non_b_seqnr \in Nat \cup {NoPic}
    BY <1>1 DEF TypeOK
  <2>3. /\ seqheaderpic' \in Nat /\ seqheaderpos' \in Nat /\ pictures' \in Nat
        /\ last_non_b_seqnr' \in Nat \cup {NoPic}
    BY <1>4, <1>5, <2>2
  <2>4. pc' \in {"read", "scan", "done", "cancelled", "crashed"}
    BY <1>2
  <2>5. QED
    BY <1>1, <1>4, <1>6, <2>1, <2>3, <2>4, ConsumeFacts DEF TypeOK
<1>8. Layout'
  <2>1. \A i \in 0 .. pictures - 1 : i <= pictures
    BY <1>5
  <2>2. QED
    BY <1>4, <1>5, <2>1 DEF Layout, Delayed, NoPic
<1>9. OpenRanks'
  BY <1>4, <1>5 DEF OpenRanks, Ranked
<1>10. RanksPermute'
  BY <1>1, <1>2, <1>3, <1>4, OpenCloses
<1>11. FileLayout'
  BY <1>1, <1>2, <1>3, <1>4, <1>5, ConsumeFacts DEF FileLayout, filevars, TypeOK
<1>12. FlushedIsFinal'
  <2>1. \A i \in 0 .. seqheaderpic - 1 : p'[i] = p[i]
    BY <1>1, <1>3, <1>4, <1>5, FlushDelayedFacts DEF Layout, NoPic
  <2>2. QED
    BY <1>1, <1>2, <1>3, <1>4, <1>5, <2>1, ConsumeFacts, FlushedKept
<1>13. QED
  BY <1>7, <1>8, <1>9, <1>10, <1>11, <1>12 DEF IInv

LEMMA PictureIgnoredIInv == IInv /\ PictureIgnored => IInv'
<1> SUFFICES ASSUME IInv, PictureIgnored PROVE IInv'
  OBVIOUS
<1>1. TypeOK /\ Consume /\ UNCHANGED genvars
  BY DEF IInv, PictureIgnored
<1>2. /\ pc = "scan" /\ pc' \in {"read", "scan"} /\ UNCHANGED filevars
      /\ Layout /\ OpenRanks /\ RanksPermute /\ FileLayout /\ FlushedIsFinal
  BY <1>1, ConsumeFacts DEF IInv
<1>3. TypeOK'
  BY <1>1, <1>2, ConsumeFacts DEF TypeOK, genvars
<1>4. Layout' /\ OpenRanks'
  BY <1>1, <1>2 DEF Layout, Delayed, OpenRanks, Ranked, genvars
<1>5. RanksPermute'
  BY <1>1, <1>2 DEF RanksPermute, IsSequence, Permuted, genvars
<1>6. FileLayout' /\ FlushedIsFinal'
  BY <1>1, <1>2 DEF FileLayout, FlushedIsFinal, genvars, filevars
<1>7. QED
  BY <1>3, <1>4, <1>5, <1>6 DEF IInv

(* What both kinds of pictures have in common: the table in front of the   *)
(* current sequence is untouched, the new picture carries the header flag. *)
LEMMA PictureCommon ==
  ASSUME IInv, Consume, pc' # "done", pictures' = pictures + 1,
         seqheaderpic' = seqheaderpic, ~waitforfirst, waitforfirst' = waitforfirst,
         foundseqheader' = FALSE,
         p' \in [0 .. pictures -> Picture],
         \A i \in 0 .. pictures - 1 :
           /\ p'[i].hdr = p[i].hdr
           /\ i # last_non_b_pic => p'[i] = p[i],
         p'[pictures].hdr = foundseqheader,
         seqheaderpic + maxseqnr' + 1 + Delayed' = pictures + 1,
         last_non_b_pic' # NoPic => last_non_b_pic' \in seqheaderpic .. pictures
  PROVE  Layout' /\ RanksPermute' /\ FileLayout' /\ FlushedIsFinal'
<1>1. TypeOK /\ pc = "scan" /\ UNCHANGED filevars
      /\ Layout /\ RanksPermute /\ FileLayout /\ FlushedIsFinal
  BY ConsumeFacts DEF IInv
<1>2. /\ pictures \in Nat /\ seqheaderpic \in Nat /\ seqheaderpic <= pictures
      /\ pictureswritten \in Nat /\ foundseqheader \in BOOLEAN
  BY <1>1 DEF TypeOK, Layout
<1>3. ASSUME NEW i \in 0 .. seqheaderpic - 1
      PROVE  p'[i] = p[i]
  <2>1. i \in 0 .. pictures - 1
    BY <1>2
  <2>2. i # last_non_b_pic
    BY <1>1, <1>2 DEF Layout, NoPic
  <2>3. QED
    BY <2>1, <2>2
<1>4. Layout'
  <2>1. foundseqheader <=> seqheaderpic = pictures
    BY <1>1 DEF Layout
  <2>2. \A i \in 0 .. pictures : p'[i].hdr => i <= seqheaderpic
    <3>1. ASSUME NEW i \in 0 .. pictures - 1, p'[i].hdr
          PROVE  i <= seqheaderpic
      <4>1. p[i].hdr
        BY <3>1
      <4>2. QED
        BY <1>1, <4>1 DEF Layout
    <3>2. p'[pictures].hdr => pictures <= seqheaderpic
      BY <1>2, <2>1
    <3>3. QED
      BY <1>2, <3>1, <3>2
  <2>3. p'[seqheaderpic].hdr
    <3>1. CASE seqheaderpic < pictures
      <4>1. p[seqheaderpic].hdr /\ seqheaderpic \in 0 .. pictures - 1
        BY <1>1, <1>2, <3>1 DEF Layout
      <4>2. QED
        BY <4>1
    <3>2. CASE seqheaderpic = pictures
      BY <2>1, <3>2
    <3>3. QED
      BY <1>2, <3>1, <3>2
  <2>4. QED
    BY <1>2, <2>2, <2>3 DEF Layout
<1>5. RanksPermute'
  BY <1>1, <1>2, <1>3, ClosedKept
<1>6. FileLayout'
  BY <1>1, <1>2 DEF FileLayout, filevars
<1>7. FlushedIsFinal'
  BY <1>1, <1>2, <1>3, FlushedKept
<1>8. QED
  BY <1>4, <1>5, <1>6, <1>7
(* The facts about a state in the middle of a chunk that the two cases of  *)
(* a picture use.                                                          *)
LEMMA ScanFacts ==
  ASSUME IInv, Consume, stream[rd + 1].code = "pic", ~waitforfirst
  PROVE  /\ TypeOK /\ Layout /\ OpenRanks
         /\ pictures \in Nat /\ seqheaderpic \in Nat /\ seqheaderpic <= pictures
         /\ maxseqnr \in Int /\ maxseqnr + 1 \in Nat /\ SeqNrs \in Nat
         /\ last_non_b_pic # NoPic =>
              last_non_b_pic \in seqheaderpic .. pictures - 1
         /\ \A i \in 0 .. pictures - 1 : p[i].seqnr \in Nat
         /\ Appended \in [0 .. pictures -> Picture]
         /\ \A i \in 0 .. pictures - 1 : Appended[i] = p[i]
         /\ Appended[pictures].hdr = foundseqheader
         /\ stream[rd + 1].tr \in Nat
<1>1. TypeOK /\ pc = "scan" /\ rd < Len(stream)
  BY ConsumeFacts DEF IInv
<1>2. Layout /\ OpenRanks
  BY <1>1 DEF IInv
<1>3. /\ pictures \in Nat /\ seqheaderpic \in Nat
      /\ maxseqnr \in Int /\ maxseqnr + 1 \in Nat
      /\ \A i \in 0 .. pictures - 1 : p[i].seqnr \in Nat
  BY <1>1 DEF TypeOK, Picture
<1>4. QED
  BY <1>1, <1>2, <1>3, AppendedFacts, NextCode, SeqNrsAssumption DEF Layout

(* The table after a B picture: it has the highest rank, the delayed       *)
(* picture the one before if it went first.                                *)
LEMMA BPictureTable ==
  ASSUME IInv, BPicture
  PROVE  /\ p' \in [0 .. pictures -> Picture]
         /\ p'[pictures].hdr = foundseqheader
         /\ p'[pictures].seqnr = maxseqnr' % SeqNrs
         /\ \A i \in 0 .. pictures - 1 :
              /\ p'[i].hdr = p[i].hdr
              /\ last_non_b_pic' = last_non_b_pic \/ i # last_non_b_pic => p'[i] = p[i]
         /\ last_non_b_pic' # last_non_b_pic =>
              p'[last_non_b_pic].seqnr = (maxseqnr + 1) % SeqNrs
<1> DEFINE inserted == DelayedGoesFirst(stream[rd + 1].tr)
           rank     == IF inserted THEN maxseqnr + 2 ELSE maxseqnr + 1
           q        == IF inserted
                         THEN Numbered(Appended, last_non_b_pic, maxseqnr + 1)
                         ELSE Appended
<1>1. /\ Consume /\ stream[rd + 1].code = "pic" /\ ~waitforfirst
      /\ p' = Numbered(q, pictures, rank)
      /\ maxseqnr' = rank
      /\ last_non_b_pic' = IF inserted THEN NoPic ELSE last_non_b_pic
      /\ last_seqnr' = stream[rd + 1].tr
      /\ pictures' = pictures + 1
      /\ foundseqheader' = FALSE
      /\ UNCHANGED <<seqheaderpic, seqheaderpos, waitforfirst,
                     last_non_b_seqnr, sizes>>
  BY DEF BPicture
<1>2. pc' \in {"read", "scan"} /\ TypeOK
  BY <1>1, ConsumeFacts DEF IInv
<1>3. inserted => last_non_b_pic # NoPic
  BY DEF DelayedGoesFirst
<1> HIDE DEF inserted
<1>4. /\ rank \in Nat
      /\ inserted => rank = maxseqnr + 2
      /\ ~inserted => rank = maxseqnr + 1
  BY <1>1, ScanFacts
<1> HIDE DEF rank
<1>5. /\ q \in [0 .. pictures -> Picture]
      /\ q[pictures].hdr = foundseqheader
      /\ \A i \in 0 .. pictures - 1 :
           /\ q[i].hdr = p[i].hdr
           /\ (~inserted \/ i # last_non_b_pic) => q[i] = p[i]
      /\ inserted => q[last_non_b_pic].seqnr = (maxseqnr + 1) % SeqNrs
  <2>1. CASE ~inserted
    BY <1>1, <2>1, ScanFacts
  <2>2. CASE inserted
    <3>1. /\ pictures + 1 \in Nat /\ 0 .. pictures = 0 .. (pictures + 1) - 1
          /\ last_non_b_pic \in 0 .. (pictures + 1) - 1
          /\ last_non_b_pic # pictures /\ maxseqnr + 1 \in Nat
      BY <1>1, <1>3, <2>2, ScanFacts
    <3>2. Appended \in [0 .. (pictures + 1) - 1 -> Picture]
      BY <1>1, <3>1, ScanFacts
    <3>3. q = Numbered(Appended, last_non_b_pic, maxseqnr + 1)
      BY <2>2
    <3> HIDE DEF q
    <3>4. /\ q \in [0 .. (pictures + 1) - 1 -> Picture]
          /\ q[last_non_b_pic].seqnr = (maxseqnr + 1) % SeqNrs
          /\ \A i \in 0 .. (pictures + 1) - 1 :
               /\ q[i].hdr = Appended[i].hdr
               /\ i # last_non_b_pic => q[i] = Appended[i]
      BY <3>1, <3>2, <3>3, NumberedFacts, ZenonT(60)
    <3>5. pictures \in 0 .. (pictures + 1) - 1
          /\ \A i \in 0 .. pictures - 1 : i \in 0 .. (pictures + 1) - 1
      BY <1>1, ScanFacts
    <3>6. QED
      BY <1>1, <2>2, <3>1, <3>4, <3>5, ScanFacts
  <2>3. QED
    BY <2>1, <2>2
<1> HIDE DEF q
<1>6. /\ p' \in [0 .. pictures -> Picture]
      /\ p'[pictures].hdr = foundseqheader
      /\ p'[pictures].seqnr = rank % SeqNrs
      /\ \A i \in 0 .. pictures - 1 : p'[i].hdr = q[i].hdr /\ p'[i] = q[i]
  <2>1. /\ pictures + 1 \in Nat /\ pictures \in 0 .. (pictures + 1) - 1
        /\ q \in [0 .. (pictures + 1) - 1 -> Picture]
        /\ 0 .. pictures = 0 .. (pictures + 1) - 1
        /\ \A i \in 0 .. pictures - 1 : i \in 0 .. (pictures + 1) - 1 /\ i # pictures
    BY <1>1, <1>5, ScanFacts
  <2>2. /\ p' \in [0 .. (pictures + 1) - 1 -> Picture]
        /\ p'[pictures].seqnr = rank % SeqNrs
        /\ \A i \in 0 .. (pictures + 1) - 1 :
             /\ p'[i].hdr = q[i].hdr
             /\ i # pictures => p'[i] = q[i]
    BY <1>1, <1>4, <2>1, NumberedFacts, SMTT(30)
  <2>3. QED
    BY <1>5, <2>1, <2>2
<1>7. last_non_b_pic' # last_non_b_pic => inserted /\ last_non_b_pic \in 0 .. pictures - 1
  BY <1>1, <1>3, ScanFacts
<1>8. last_non_b_pic' = last_non_b_pic => ~inserted
  BY <1>1, <1>3
<1>9. \A i \in 0 .. pictures - 1 :
        /\ p'[i].hdr = p[i].hdr
        /\ last_non_b_pic' = last_non_b_pic \/ i # last_non_b_pic => p'[i] = p[i]
  BY <1>5, <1>6, <1>8
<1>10. last_non_b_pic' # last_non_b_pic =>
         p'[last_non_b_pic].seqnr = (maxseqnr + 1) % SeqNrs
  BY <1>5, <1>6, <1>7
<1>11. QED
  BY <1>1, <1>6, <1>9, <1>10

LEMMA BPictureIInv == IInv /\ BPicture => IInv'
<1> SUFFICES ASSUME IInv, BPicture PROVE IInv'
  OBVIOUS
<1> DEFINE inserted == DelayedGoesFirst(stream[rd + 1].tr)
           rank     == IF inserted THEN maxseqnr + 2 ELSE maxseqnr + 1
<1>1. /\ Consume /\ stream[rd + 1].code = "pic" /\ ~waitforfirst
      /\ maxseqnr' = rank
      /\ last_non_b_pic' = IF inserted THEN NoPic ELSE last_non_b_pic
      /\ last_seqnr' = stream[rd + 1].tr
      /\ pictures' = pictures + 1
      /\ foundseqheader' = FALSE
      /\ UNCHANGED <<seqheaderpic, seqheaderpos, waitforfirst,
                     last_non_b_seqnr, sizes>>
  BY DEF BPicture
<1>2. pc' \in {"read", "scan"} /\ TypeOK
  BY <1>1, ConsumeFacts DEF IInv
<1>3. inserted => last_non_b_pic # NoPic
  BY DEF DelayedGoesFirst
<1> HIDE DEF inserted
<1>4. /\ rank \in Nat
      /\ inserted => rank = maxseqnr + 2
      /\ ~inserted => rank = maxseqnr + 1
  BY <1>1, ScanFacts
<1> HIDE DEF rank
<1>5. /\ p' \in [0 .. pictures -> Picture]
      /\ p'[pictures].hdr = foundseqheader
      /\ p'[pictures].seqnr = rank % SeqNrs
      /\ \A i \in 0 .. pictures - 1 :
           /\ p'[i].hdr = p[i].hdr
           /\ ~inserted \/ i # last_non_b_pic => p'[i] = p[i]
      /\ inserted => p'[last_non_b_pic].seqnr = (maxseqnr + 1) % SeqNrs
  <2>1. last_non_b_pic' = last_non_b_pic <=> ~inserted
    BY <1>1, <1>3
  <2>2. QED
    BY <1>1, <2>1, BPictureTable
<1>7. seqheaderpic + rank + 1 + Delayed' = pictures + 1
  <2>1. seqheaderpic + maxseqnr + 1 + Delayed = pictures
    BY <1>1, ScanFacts DEF Layout
  <2>2. CASE inserted
    BY <1>1, <1>3, <1>4, <2>1, <2>2, ScanFacts, SMTT(30) DEF Delayed
  <2>3. CASE ~inserted
    BY <1>1, <1>4, <2>1, <2>3, ScanFacts DEF Delayed
  <2>4. QED
    BY <2>2, <2>3
<1>8. last_non_b_pic' # NoPic => last_non_b_pic' \in seqheaderpic .. pictures
  BY <1>1, ScanFacts
<1>9. Layout' /\ RanksPermute' /\ FileLayout' /\ FlushedIsFinal'
  BY <1>1, <1>2, <1>5, <1>7, <1>8, PictureCommon
<1>10. OpenRanks'
  <2>0. pictures' = pictures + 1 /\ seqheaderpic' = seqheaderpic /\ maxseqnr' = rank
    BY <1>1
  <2> SUFFICES ASSUME pictures' - seqheaderpic' <= SeqNrs
               PROVE  /\ \A i \in Ranked' : p'[i].seqnr <= maxseqnr'
                      /\ \A i, j \in Ranked' : i # j => p'[i].seqnr # p'[j].seqnr
    BY DEF OpenRanks
  <2>1. /\ \A i \in Ranked : p[i].seqnr <= maxseqnr
        /\ \A i, j \in Ranked : i # j => p[i].seqnr # p[j].seqnr
    BY <1>1, <2>0, ScanFacts DEF OpenRanks
  <2>2. rank < SeqNrs /\ maxseqnr + 1 <= rank
    <3>1. Delayed' >= 0 /\ Delayed' \in Int
      BY DEF Delayed
    <3>2. rank < SeqNrs
      BY <1>1, <1>4, <1>7, <2>0, <3>1, ScanFacts
    <3>3. maxseqnr + 1 <= rank
      BY <1>1, <1>4, ScanFacts
    <3>4. QED
      BY <3>2, <3>3
  <2>3. p'[pictures].seqnr = rank
    BY <1>4, <1>5, <2>2, RankFits
  <2>4. inserted => p'[last_non_b_pic].seqnr = maxseqnr + 1
                    /\ maxseqnr + 1 < rank
    <3> SUFFICES ASSUME inserted
                 PROVE  p'[last_non_b_pic].seqnr = maxseqnr + 1 /\ maxseqnr + 1 < rank
      OBVIOUS
    <3>1. last_non_b_pic \in 0 .. pictures - 1
      BY <1>1, <1>3, ScanFacts
    <3>2. /\ rank = maxseqnr + 2 /\ maxseqnr + 1 \in Nat /\ maxseqnr \in Int
          /\ maxseqnr + 1 < SeqNrs
      BY <1>1, <1>4, <2>2, ScanFacts
    <3>3. p'[last_non_b_pic].seqnr = (maxseqnr + 1) % SeqNrs
      BY <1>5, <3>1
    <3>4. QED
      BY <3>2, <3>3, RankFits
  <2>5. ASSUME NEW i \in Ranked', i # pictures, ~(inserted /\ i = last_non_b_pic)
        PROVE  i \in Ranked /\ p'[i] = p[i] /\ p[i].seqnr \in Nat
    <3>1. i \in seqheaderpic .. pictures - 1 /\ i \in 0 .. pictures - 1
      BY <1>1, <2>5, ScanFacts DEF Ranked
    <3>2. i # last_non_b_pic
      BY <1>1, <2>5 DEF Ranked
    <3>3. QED
      BY <1>1, <1>5, <3>1, <3>2, ScanFacts DEF Ranked
  <2>6. maxseqnr \in Int /\ rank \in Int
    BY <1>1, <1>4, ScanFacts
  <2>7. QED
    BY <2>0, <2>1, <2>2, <2>3, <2>4, <2>5, <2>6
<1>11. TypeOK'
  <2>0. pictures \in Nat /\ 0 .. pictures = 0 .. (pictures + 1) - 1
    BY <1>1, ScanFacts
  <2>1. /\ pictures' \in Nat /\ p' \in [0 .. pictures' - 1 -> Picture]
        /\ maxseqnr' \in Nat \cup {-1} /\ last_seqnr' \in Nat \cup {-1}
    <3>1. p' \in [0 .. pictures' - 1 -> Picture]
      BY <1>1, <1>5, <2>0
    <3>2. maxseqnr' \in Nat /\ last_seqnr' \in Nat /\ pictures' \in Nat
      BY <1>1, <1>4, <2>0, ScanFacts
    <3>3. QED
      BY <3>1, <3>2
  <2>2. last_non_b_pic' \in Nat \cup {NoPic}
    BY <1>1, <1>2 DEF TypeOK
  <2>3. QED
    BY <1>1, <1>2, <2>1, <2>2, ConsumeFacts DEF TypeOK
<1>12. QED
  BY <1>9, <1>10, <1>11 DEF IInv
(* The table after an I or P picture: the one delayed so far has its rank. *)
LEMMA ReferencePictureTable ==
  ASSUME IInv, ReferencePicture
  PROVE  /\ p' \in [0 .. pictures -> Picture]
         /\ p'[pictures].hdr = foundseqheader
         /\ \A i \in 0 .. pictures - 1 :
              /\ p'[i].hdr = p[i].hdr
              /\ i # last_non_b_pic => p'[i] = p[i]
         /\ last_non_b_pic # NoPic =>
              p'[last_non_b_pic].seqnr = (maxseqnr + 1) % SeqNrs
<1>1. /\ Consume /\ stream[rd + 1].code = "pic" /\ ~waitforfirst
      /\ p' = IF last_non_b_pic = NoPic THEN Appended
              ELSE Numbered(Appended, last_non_b_pic, maxseqnr + 1)
  BY DEF ReferencePicture
<1>2. CASE last_non_b_pic = NoPic
  BY <1>1, <1>2, ScanFacts
<1>3. CASE last_non_b_pic # NoPic
  <2>1. /\ pictures + 1 \in Nat /\ 0 .. pictures = 0 .. (pictures + 1) - 1
        /\ last_non_b_pic \in 0 .. (pictures + 1) - 1
        /\ last_non_b_pic # pictures /\ maxseqnr + 1 \in Nat
    BY <1>1, <1>3, ScanFacts
  <2>2. Appended \in [0 .. (pictures + 1) - 1 -> Picture]
    BY <1>1, <2>1, ScanFacts
  <2>3. p' = Numbered(Appended, last_non_b_pic, maxseqnr + 1)
    BY <1>1, <1>3
  <2>4. /\ p' \in [0 .. (pictures + 1) - 1 -> Picture]
        /\ p'[last_non_b_pic].seqnr = (maxseqnr + 1) % SeqNrs
        /\ \A i \in 0 .. (pictures + 1) - 1 :
             /\ p'[i].hdr = Appended[i].hdr
             /\ i # last_non_b_pic => p'[i] = Appended[i]
    BY <2>1, <2>2, <2>3, NumberedFacts, ZenonT(60)
  <2>5. pictures \in 0 .. (pictures + 1) - 1
        /\ \A i \in 0 .. pictures - 1 : i \in 0 .. (pictures + 1) - 1
    BY <1>1, ScanFacts
  <2>6. QED
    BY <1>1, <2>1, <2>4, <2>5, ScanFacts
<1>4. QED
  BY <1>2, <1>3

LEMMA ReferencePictureIInv == IInv /\ ReferencePicture => IInv'
<1> SUFFICES ASSUME IInv, ReferencePicture PROVE IInv'
  OBVIOUS
<1>1. /\ Consume /\ stream[rd + 1].code = "pic" /\ ~waitforfirst
      /\ maxseqnr' = NextRank
      /\ last_non_b_pic' = pictures
      /\ last_non_b_seqnr' = stream[rd + 1].tr
      /\ last_seqnr' \in {-1, last_non_b_seqnr, last_seqnr}
      /\ last_non_b_pic = NoPic => last_seqnr' \in {-1, last_seqnr}
      /\ pictures' = pictures + 1
      /\ foundseqheader' = FALSE
      /\ UNCHANGED <<seqheaderpic, seqheaderpos, waitforfirst, sizes>>
  BY DEF ReferencePicture
<1>2. pc' \in {"read", "scan"} /\ TypeOK
  BY <1>1, ConsumeFacts DEF IInv
<1>3. /\ p' \in [0 .. pictures -> Picture]
      /\ p'[pictures].hdr = foundseqheader
      /\ \A i \in 0 .. pictures - 1 :
           /\ p'[i].hdr = p[i].hdr
           /\ i # last_non_b_pic => p'[i] = p[i]
      /\ last_non_b_pic # NoPic =>
           p'[last_non_b_pic].seqnr = (maxseqnr + 1) % SeqNrs
  BY ReferencePictureTable
<1>4. /\ maxseqnr' \in Nat \cup {-1} /\ maxseqnr' \in Int
      /\ maxseqnr' + Delayed' = maxseqnr + 1 + Delayed
      /\ last_non_b_pic = NoPic => maxseqnr' = maxseqnr
      /\ last_non_b_pic # NoPic => maxseqnr' = maxseqnr + 1
  <2>1. last_non_b_pic' # NoPic
    BY <1>1, ScanFacts DEF NoPic
  <2>2. QED
    BY <1>1, <1>2, <2>1, ScanFacts, SMTT(30) DEF NextRank, Delayed, TypeOK
<1>5. seqheaderpic + maxseqnr' + 1 + Delayed' = pictures + 1
  <2>1. seqheaderpic + maxseqnr + 1 + Delayed = pictures
    BY <1>1, ScanFacts DEF Layout
  <2>2. Delayed \in Int /\ Delayed' \in Int
    BY DEF Delayed
  <2>3. seqheaderpic \in Int /\ pictures \in Int /\ maxseqnr \in Int
    BY <1>1, ScanFacts DEF TypeOK
  <2>4. maxseqnr' \in Int /\ maxseqnr' + Delayed' = maxseqnr + 1 + Delayed
    BY <1>4
  <2>5. PICK m \in Int, d \in Int : m = maxseqnr' /\ d = Delayed'
    BY <2>2, <2>4
  <2>6. m + d = maxseqnr + 1 + Delayed
    BY <2>4, <2>5
  <2>7. seqheaderpic + m + 1 + d = pictures + 1
    BY <2>1, <2>2, <2>3, <2>6
  <2>8. QED
    BY <2>5, <2>7
<1>6. last_non_b_pic' # NoPic => last_non_b_pic' \in seqheaderpic .. pictures
  BY <1>1, ScanFacts
<1>7. Layout' /\ RanksPermute' /\ FileLayout' /\ FlushedIsFinal'
  BY <1>1, <1>2, <1>3, <1>5, <1>6, PictureCommon
<1>8. OpenRanks'
  <2>0. pictures' = pictures + 1 /\ seqheaderpic' = seqheaderpic
    BY <1>1
  <2> SUFFICES ASSUME pictures' - seqheaderpic' <= SeqNrs
               PROVE  /\ \A i \in Ranked' : p'[i].seqnr <= maxseqnr'
                      /\ \A i, j \in Ranked' : i # j => p'[i].seqnr # p'[j].seqnr
    BY DEF OpenRanks
  <2>1. /\ \A i \in Ranked : p[i].seqnr <= maxseqnr
        /\ \A i, j \in Ranked : i # j => p[i].seqnr # p[j].seqnr
    BY <1>1, <2>0, ScanFacts DEF OpenRanks
  <2>2. maxseqnr' < SeqNrs
    <3>1. Delayed' >= 0 /\ Delayed' \in Int
      BY DEF Delayed
    <3>2. QED
      BY <1>1, <1>4, <1>5, <2>0, <3>1, ScanFacts, SMTT(30)
  <2>3. last_non_b_pic # NoPic => p'[last_non_b_pic].seqnr = maxseqnr'
    <3>1. last_non_b_pic # NoPic => maxseqnr' \in Nat
      BY <1>1, <1>4, ScanFacts
    <3>2. QED
      BY <1>3, <1>4, <2>2, <3>1, RankFits
  <2>4. ASSUME NEW i \in Ranked', i # last_non_b_pic
        PROVE  i \in Ranked /\ p'[i] = p[i] /\ p[i].seqnr \in Nat
    <3>1. i \in seqheaderpic .. pictures - 1 /\ i \in 0 .. pictures - 1
      BY <1>1, <2>4, ScanFacts DEF Ranked
    <3>2. QED
      BY <1>1, <1>3, <2>4, <3>1, ScanFacts DEF Ranked
  <2>5. ASSUME NEW i \in Ranked', i = last_non_b_pic
        PROVE  last_non_b_pic # NoPic
    <3>1. i \in Nat
      BY <1>1, <2>5, ScanFacts DEF Ranked
    <3>2. QED
      BY <2>5, <3>1 DEF NoPic
  <2>6. maxseqnr \in Int
    BY <1>1, ScanFacts
  <2>7. QED
    BY <1>4, <2>1, <2>3, <2>4, <2>5, <2>6
<1>9. TypeOK'
  <2>1. /\ pictures' \in Nat /\ p' \in [0 .. pictures' - 1 -> Picture]
        /\ last_non_b_pic' \in Nat \cup {NoPic}
        /\ last_non_b_seqnr' \in Nat \cup {NoPic}
    BY <1>1, <1>3, ScanFacts
  <2>2. last_seqnr' \in Nat \cup {-1}
    BY <1>1, <1>2 DEF TypeOK, NoPic
  <2>3. QED
    BY <1>1, <1>2, <1>4, <2>1, <2>2, ConsumeFacts DEF TypeOK
<1>10. QED
  BY <1>7, <1>8, <1>9 DEF IInv

LEMMA FinishIInv == IInv /\ Finish => IInv'
<1> SUFFICES ASSUME IInv, Finish PROVE IInv'
  OBVIOUS
<1>1. /\ pc = "read" /\ rd = Len(stream) /\ pc' = "done"
      /\ p' = FlushDelayed /\ maxseqnr' = NextRank /\ last_non_b_pic' = NoPic
      /\ WriteFile
      /\ UNCHANGED <<stream, rd, pictures, seqheaderpic, seqheaderpos,
                     foundseqheader, waitforfirst, last_non_b_seqnr, last_seqnr,
                     sizes>>
  BY DEF Finish
<1>2. TypeOK /\ Layout /\ OpenRanks /\ RanksPermute /\ FileLayout /\ FlushedIsFinal
  BY <1>1 DEF IInv
<1>3. /\ pictures \in Nat /\ seqheaderpic \in Nat /\ seqheaderpic <= pictures
      /\ pictureswritten \in Nat /\ SeqNrs \in Nat
      /\ p \in [0 .. pictures - 1 -> Picture]
      /\ maxseqnr \in Int /\ maxseqnr + 1 \in Nat
      /\ last_non_b_pic # NoPic => last_non_b_pic \in seqheaderpic .. pictures - 1
      /\ pictureswritten <= seqheaderpic /\ pictureswritten <= flen
  BY <1>1, <1>2, SeqNrsAssumption DEF TypeOK, Layout, FileLayout
<1>4. /\ FlushDelayed \in [0 .. pictures - 1 -> Picture]
      /\ \A i \in 0 .. pictures - 1 :
           /\ FlushDelayed[i].hdr = p[i].hdr
           /\ i # last_non_b_pic => FlushDelayed[i] = p[i]
      /\ last_non_b_pic # NoPic =>
           FlushDelayed[last_non_b_pic].seqnr = (maxseqnr + 1) % SeqNrs
  BY <1>2, FlushDelayedFacts
<1>5. maxseqnr' \in Nat \cup {-1} /\ maxseqnr' + Delayed' = maxseqnr + Delayed
  BY <1>1, <1>2, <1>3 DEF NextRank, Delayed, TypeOK
<1>6. TypeOK'
  BY <1>1, <1>2, <1>4, <1>5, WriteFileFacts DEF TypeOK
<1>7. Layout'
  <2>1. Delayed \in Int /\ Delayed' \in Int /\ maxseqnr' \in Int
    BY <1>5 DEF Delayed
  <2>2. seqheaderpic + maxseqnr' + 1 + Delayed' = pictures
    <3>1. seqheaderpic + maxseqnr + 1 + Delayed = pictures
      BY <1>2 DEF Layout
    <3>2. seqheaderpic \in Int /\ pictures \in Int /\ maxseqnr \in Int
      BY <1>3
    <3>3. maxseqnr' + Delayed' = maxseqnr + Delayed
      BY <1>5
    <3>4. QED
      <4>1. PICK m \in Int, d \in Int : m = maxseqnr' /\ d = Delayed'
        BY <2>1
      <4>2. m + d = maxseqnr + Delayed
        BY <3>3, <4>1
      <4>3. seqheaderpic + m + 1 + d = pictures
        BY <2>1, <3>1, <3>2, <4>2
      <4>4. QED
        BY <4>1, <4>3
  <2>3. \A i \in 0 .. pictures - 1 : FlushDelayed[i].hdr => i <= seqheaderpic
    BY <1>2, <1>4 DEF Layout
  <2>4. seqheaderpic < pictures => FlushDelayed[seqheaderpic].hdr
    BY <1>2, <1>3, <1>4 DEF Layout
  <2>5. QED
    BY <1>1, <1>2, <2>2, <2>3, <2>4 DEF Layout
<1>8. OpenRanks'
  <2> SUFFICES ASSUME pictures - seqheaderpic <= SeqNrs
               PROVE  /\ \A i \in Ranked' : p'[i].seqnr <= maxseqnr'
                      /\ \A i, j \in Ranked' : i # j => p'[i].seqnr # p'[j].seqnr
    BY <1>1 DEF OpenRanks
  <2>1. /\ \A i \in Ranked : p[i].seqnr <= maxseqnr
        /\ \A i, j \in Ranked : i # j => p[i].seqnr # p[j].seqnr
    BY <1>2 DEF OpenRanks
  <2>2. /\ last_non_b_pic = NoPic => maxseqnr' = maxseqnr
        /\ last_non_b_pic # NoPic => maxseqnr' = maxseqnr + 1
    BY <1>1 DEF NextRank
  <2>3. last_non_b_pic # NoPic => p'[last_non_b_pic].seqnr = maxseqnr'
    <3>1. last_non_b_pic # NoPic => maxseqnr + 1 < SeqNrs
      BY <1>2, <1>3 DEF Layout, Delayed
    <3>2. QED
      BY <1>1, <1>3, <1>4, <2>2, <3>1, RankFits
  <2>4. ASSUME NEW i \in Ranked', i # last_non_b_pic
        PROVE  i \in Ranked /\ p'[i] = p[i] /\ p[i].seqnr \in Nat
    <3>1. i \in seqheaderpic .. pictures - 1 /\ i \in 0 .. pictures - 1
      BY <1>1, <1>3, <2>4 DEF Ranked
    <3>2. p[i].seqnr \in Nat
      BY <1>3, <3>1 DEF Picture
    <3>3. QED
      BY <1>1, <1>4, <2>4, <3>1, <3>2 DEF Ranked
  <2>5. ASSUME NEW i \in Ranked', i = last_non_b_pic
        PROVE  last_non_b_pic # NoPic
    <3>1. i \in Nat
      BY <1>1, <1>3, <2>5 DEF Ranked
    <3>2. QED
      BY <2>5, <3>1 DEF NoPic
  <2>6. QED
    BY <1>3, <2>1, <2>2, <2>3, <2>4, <2>5, SMTT(30)
<1>9. RanksPermute'
  BY <1>1, <1>2, OpenCloses
<1>10. FileLayout'
  BY <1>1, <1>2, WriteFileFacts DEF FileLayout
<1>11. FlushedIsFinal'
  <2>1. /\ pictureswritten' \in Nat
        /\ pictureswritten' \in {pictureswritten, Target}
        /\ \A i \in 0 .. pictureswritten' - 1 :
             file'[i] = IF i < pictureswritten THEN file[i] ELSE Record(i)
    BY <1>1, <1>2, WriteFileFacts
  <2>2. ASSUME NEW i \in 0 .. pictures - 1, i < pictureswritten'
        PROVE  file'[i] = p'[i]
    <3>1. i \in 0 .. pictureswritten' - 1
      <4>1. PICK w \in Nat : w = pictureswritten'
        BY <2>1
      <4>2. i \in Nat /\ i < w
        BY <2>2, <4>1
      <4>3. i \in 0 .. w - 1
        BY <4>2
      <4>4. QED
        BY <4>1, <4>3
    <3>2. CASE i < pictureswritten
      <4>1. file[i] = p[i]
        BY <1>1, <1>2, <3>2 DEF FlushedIsFinal
      <4>2. i # last_non_b_pic
        <5>1. i < seqheaderpic /\ i \in Nat
          BY <1>3, <3>2
        <5>2. QED
          BY <1>3, <5>1 DEF NoPic
      <4>3. QED
        BY <1>1, <1>4, <2>1, <3>1, <3>2, <4>1, <4>2
    <3>3. CASE ~(i < pictureswritten)
      <4>2. Record(i) = FlushDelayed[i]
        <5>1. ~(rd < Len(stream)) /\ i < pictures
          BY <1>1, <1>2, <1>3, <2>2 DEF TypeOK
        <5>2. QED
          BY <5>1 DEF Record
      <4>3. QED
        BY <1>1, <2>1, <3>1, <3>3, <4>2
    <3>4. QED
      BY <3>2, <3>3
  <2>3. QED
    BY <1>1, <2>2 DEF FlushedIsFinal
<1>12. QED
  BY <1>6, <1>7, <1>8, <1>9, <1>10, <1>11 DEF IInv

-----------------------------------------------------------------------------
LEMMA StepIInv == IInv /\ [Next]_vars => IInv'
<1> SUFFICES ASSUME IInv, [Next]_vars PROVE IInv'
  OBVIOUS
<1>1. CASE Next
  BY <1>1, ReadChunkIInv, CancelIInv, CrashIInv, SequenceHeaderIInv,
     PictureIgnoredIInv, BPictureIInv, ReferencePictureIInv, FinishIInv DEF Next
<1>2. CASE UNCHANGED vars
  <2>1. IInv
    OBVIOUS
  <2>2. UNCHANGED <<stream, rd, pc>> /\ UNCHANGED genvars /\ UNCHANGED filevars
    BY <1>2 DEF vars
  <2>3. QED
    BY <2>1, <2>2 DEF IInv, TypeOK, Layout, Delayed, OpenRanks, Ranked,
       RanksPermute, IsSequence, Permuted, FileLayout, FlushedIsFinal,
       genvars, filevars
<1>3. QED
  BY <1>1, <1>2

THEOREM IndexInvariant == Spec => []IInv
  BY InitIInv, StepIInv, PTL DEF Spec

(* The table, the file and the state of the pass are what the program      *)
(* takes them for, whatever the stream.                                    *)
THEOREM TypeCorrect == Spec => []TypeOK
<1>1. IInv => TypeOK
  BY DEF IInv
<1>2. QED
  BY <1>1, IndexInvariant, PTL

(* generate() never changes the rank of a picture that is in the file: the *)
(* records in front of the last sequence header are final.                 *)
THEOREM FlushedFinal == Spec => []FlushedIsFinal
<1>1. IInv => FlushedIsFinal
  BY DEF IInv, FlushedIsFinal
<1>2. QED
  BY <1>1, IndexInvariant, PTL

(* generate() numbers every sequence that fits the rank field by a         *)
(* permutation, whatever temporal references the stream has.               *)
THEOREM RanksArePermutations == Spec => []RanksPermute
<1>1. IInv => RanksPermute
  BY DEF IInv, RanksPermute
<1>2. QED
  BY <1>1, IndexInvariant, PTL

-----------------------------------------------------------------------------
(* What load() needs of the rest of a record: the number of a resolution,  *)
(* and the place of a sequence header.  FileWhole says what the file holds *)
(* once all of it was written.                                             *)
Described(q, k) ==
  \A i \in 0 .. k - 1 : q[i].res >= 1 /\ (q[i].hdr => q[i].pos \in Headers)

Fake(k) == FakePicture(IF k < Len(sizes) THEN sizes[k + 1] ELSE 0, k + 1)

FileWhole ==
  \A i \in 0 .. flen - 1 :
    file[i] = IF i < pictures THEN p[i] ELSE Fake(i - pictures)

LoadInv ==
  pc # "cancelled" =>
    /\ Len(sizes) <= NFake
    /\ ~waitforfirst => Len(sizes) >= 1 /\ seqheaderpos \in Headers
    /\ pictures > 0 => p[0].hdr
    /\ Described(p, pictures)
    /\ pc \in {"read", "scan"} => flen <= seqheaderpic
    /\ pc = "done" /\ flen = pictures + NFake => FileWhole

(* Giving a rank changes nothing else.                                     *)
Alike(q, t, k) ==
  \A i \in 0 .. k - 1 :
    t[i].hdr = q[i].hdr /\ t[i].pos = q[i].pos /\ t[i].res = q[i].res

LEMMA NumberedAlike ==
  ASSUME NEW n \in Nat, NEW q \in [0 .. n - 1 -> Picture],
         NEW k \in 0 .. n - 1, NEW r \in Nat
  PROVE  Alike(q, Numbered(q, k, r), n)
<1>1. \A i \in 0 .. n - 1 :
        Numbered(q, k, r)[i] = IF i = k THEN SetSeqNr(q[k], r) ELSE q[i]
  BY DEF Numbered
<1>2. q[k] \in Picture
  OBVIOUS
<1>3. /\ SetSeqNr(q[k], r).hdr = q[k].hdr /\ SetSeqNr(q[k], r).pos = q[k].pos
      /\ SetSeqNr(q[k], r).res = q[k].res
  BY <1>2 DEF SetSeqNr, Picture
<1>4. QED
  BY <1>1, <1>3 DEF Alike

LEMMA FlushDelayedAlike ==
  ASSUME TypeOK, Layout
  PROVE  Alike(p, FlushDelayed, pictures)
<1>1. CASE last_non_b_pic = NoPic
  BY <1>1 DEF FlushDelayed, Alike
<1>2. CASE last_non_b_pic # NoPic
  <2>1. last_non_b_pic \in 0 .. pictures - 1
    BY <1>2 DEF Layout, TypeOK
  <2>2. maxseqnr + 1 \in Nat /\ pictures \in Nat /\ p \in [0 .. pictures - 1 -> Picture]
    BY DEF TypeOK
  <2>3. FlushDelayed = Numbered(p, last_non_b_pic, maxseqnr + 1)
    BY <1>2 DEF FlushDelayed
  <2>4. QED
    BY <2>1, <2>2, <2>3, NumberedAlike
<1>3. QED
  BY <1>1, <1>2

(* The table with one more picture is described if the old one was.        *)
LEMMA AppendedDescribed ==
  ASSUME IInv, LoadInv, Consume, stream[rd + 1].code = "pic", ~waitforfirst
  PROVE  /\ Described(Appended, pictures + 1)
         /\ Appended[0].hdr
<1>1. /\ TypeOK /\ Layout /\ pictures \in Nat /\ pc = "scan"
      /\ seqheaderpic \in Nat
      /\ \A i \in 0 .. pictures - 1 : Appended[i] = p[i]
      /\ Appended[pictures].hdr = foundseqheader
  BY ScanFacts, ConsumeFacts
<1>2. /\ Len(sizes) >= 1 /\ seqheaderpos \in Headers
      /\ pictures > 0 => p[0].hdr
      /\ Described(p, pictures)
  BY <1>1 DEF LoadInv
<1>3. /\ Appended[pictures].res = Len(sizes)
      /\ foundseqheader => Appended[pictures].pos = seqheaderpos
  BY <1>1 DEF Appended
<1>4. Described(Appended, pictures + 1)
  <2> SUFFICES ASSUME NEW i \in 0 .. pictures
               PROVE  /\ Appended[i].res >= 1
                      /\ Appended[i].hdr => Appended[i].pos \in Headers
    BY <1>1 DEF Described
  <2>1. CASE i = pictures
    BY <1>1, <1>2, <1>3, <2>1
  <2>2. CASE i # pictures
    <3>1. i \in 0 .. pictures - 1
      BY <1>1, <2>2
    <3>2. QED
      BY <1>1, <1>2, <3>1 DEF Described
  <2>3. QED
    BY <2>1, <2>2
<1>5. Appended[0].hdr
  <2>1. CASE pictures = 0
    <3>1. foundseqheader
      BY <1>1, <2>1 DEF Layout
    <3>2. QED
      BY <1>1, <2>1, <3>1
  <2>2. CASE pictures # 0
    <3>1. 0 \in 0 .. pictures - 1 /\ pictures > 0
      BY <1>1, <2>2
    <3>2. QED
      BY <1>1, <1>2, <3>1
  <2>3. QED
    BY <2>1, <2>2
<1>6. QED
  BY <1>4, <1>5

LEMMA DescribedAlike ==
  ASSUME NEW q, NEW t, NEW k \in Nat, Alike(q, t, k), Described(q, k)
  PROVE  /\ Described(t, k)
         /\ k > 0 /\ q[0].hdr => t[0].hdr
<1>1. k > 0 => 0 \in 0 .. k - 1
  OBVIOUS
<1>2. QED
  BY <1>1 DEF Alike, Described

-----------------------------------------------------------------------------
LEMMA InitLoadInv == Init => LoadInv
<1> SUFFICES ASSUME Init PROVE LoadInv
  OBVIOUS
<1>1. /\ pc = "read" /\ pictures = 0 /\ waitforfirst /\ sizes = << >> /\ flen = 0
      /\ seqheaderpic = 0
  BY DEF Init
<1>2. Len(sizes) = 0 /\ 0 .. pictures - 1 = {}
  BY <1>1
<1>3. QED
  BY <1>1, <1>2, NFakeAssumption DEF LoadInv, Described

(* The file, or a shorter one, after a write in front of a chunk.          *)
LEMMA ChunkWritten ==
  ASSUME IInv, LoadInv, pc = "read", rd < Len(stream), WriteFile
  PROVE  flen' <= seqheaderpic
<1>1. /\ TypeOK /\ pictureswritten \in Nat /\ seqheaderpic \in Nat
      /\ flen <= seqheaderpic
  BY DEF IInv, LoadInv, TypeOK
<1>2. Target = seqheaderpic
  BY DEF Target
<1>3. CASE ~Dirty
  BY <1>1, <1>3 DEF WriteFile, filevars
<1>4. CASE Dirty /\ flen' = Target
  BY <1>1, <1>2, <1>4
<1>5. ASSUME NEW k \in pictureswritten .. Target - 1, flen' = k
      PROVE  flen' <= seqheaderpic
  BY <1>1, <1>2, <1>5
<1>6. QED
  BY <1>3, <1>4, <1>5 DEF WriteFile

LEMMA ReadChunkLoadInv == IInv /\ LoadInv /\ ReadChunk => LoadInv'
<1> SUFFICES ASSUME IInv, LoadInv, ReadChunk PROVE LoadInv'
  OBVIOUS
<1>1. /\ pc = "read" /\ rd < Len(stream) /\ pc' = "scan" /\ WriteFile
      /\ stream' = stream /\ UNCHANGED genvars
  BY DEF ReadChunk
<1>2. flen' <= seqheaderpic
  BY <1>1, ChunkWritten
<1>3. Headers' = Headers
  BY <1>1 DEF Headers
<1>4. /\ UNCHANGED <<p, pictures, seqheaderpic, seqheaderpos, waitforfirst, sizes>>
  BY <1>1 DEF genvars
<1>5. QED
  BY <1>1, <1>2, <1>3, <1>4 DEF LoadInv, Described

LEMMA CrashLoadInv == IInv /\ LoadInv /\ Crash => LoadInv'
<1> SUFFICES ASSUME IInv, LoadInv, Crash PROVE LoadInv'
  OBVIOUS
<1>1. pc \in {"read", "scan"} /\ pc' = "crashed" /\ stream' = stream /\ UNCHANGED genvars
  BY DEF Crash
<1>2. Headers' = Headers
  BY <1>1 DEF Headers
<1>3. UNCHANGED <<p, pictures, seqheaderpic, seqheaderpos, waitforfirst, sizes>>
  BY <1>1 DEF genvars
<1>4. QED
  BY <1>1, <1>2, <1>3 DEF LoadInv, Described

LEMMA SequenceHeaderLoadInv == IInv /\ LoadInv /\ SequenceHeader => LoadInv'
<1> SUFFICES ASSUME IInv, LoadInv, SequenceHeader PROVE LoadInv'
  OBVIOUS
<1>1. /\ Consume /\ stream[rd + 1].code = "seq"
      /\ p' = FlushDelayed /\ waitforfirst' = FALSE
      /\ seqheaderpos' = rd + 1 /\ seqheaderpic' = pictures
      /\ sizes' = LET size == stream[rd + 1].size
                  IN  IF Len(sizes) < NFake /\ \A i \in DOMAIN sizes : sizes[i] # size
                        THEN Append(sizes, size) ELSE sizes
      /\ pictures' = pictures
  BY DEF SequenceHeader
<1>2. /\ TypeOK /\ Layout /\ pc = "scan" /\ pc' \in {"read", "scan"}
      /\ stream' = stream /\ UNCHANGED filevars /\ rd < Len(stream)
  BY <1>1, ConsumeFacts DEF IInv
<1>3. /\ Len(sizes) <= NFake
      /\ pictures > 0 => p[0].hdr
      /\ Described(p, pictures) /\ flen <= seqheaderpic
  BY <1>2 DEF LoadInv
<1>4. /\ pictures \in Nat /\ seqheaderpic \in Nat /\ seqheaderpic <= pictures
      /\ sizes \in Seq(Nat \ {0}) /\ Len(sizes) \in Nat /\ flen \in Nat
      /\ rd \in Nat /\ stream \in Seq(StartCodes)
  BY <1>2 DEF TypeOK, Layout
<1>5. rd + 1 \in Headers
  <2>1. rd + 1 \in DOMAIN stream
    BY <1>2, <1>4
  <2>2. QED
    BY <1>1, <2>1 DEF Headers
<1>6. Headers' = Headers
  BY <1>2 DEF Headers
<1>7. Len(sizes') <= NFake /\ Len(sizes') >= 1
  <2> DEFINE size == stream[rd + 1].size
  <2>1. CASE Len(sizes) < NFake /\ \A i \in DOMAIN sizes : sizes[i] # size
    <3>1. sizes' = Append(sizes, size)
      BY <1>1, <2>1
    <3>2. Len(sizes') = Len(sizes) + 1
      BY <1>4, <3>1, AppendProperties
    <3>3. QED
      BY <1>4, <2>1, <3>2, NFakeAssumption
  <2>2. CASE ~(Len(sizes) < NFake /\ \A i \in DOMAIN sizes : sizes[i] # size)
    <3>1. sizes' = sizes
      BY <1>1, <2>2
    <3>2. Len(sizes) >= 1
      <4>1. CASE Len(sizes) < NFake
        <5>1. PICK i \in DOMAIN sizes : sizes[i] = size
          BY <2>2, <4>1
        <5>2. i \in 1 .. Len(sizes)
          BY <1>4, <5>1
        <5>3. QED
          BY <1>4, <5>2
      <4>2. CASE ~(Len(sizes) < NFake)
        BY <1>4, <4>2, NFakeAssumption
      <4>3. QED
        BY <4>1, <4>2
    <3>3. Len(sizes') = Len(sizes)
      BY <3>1
    <3>4. QED
      BY <1>3, <3>2, <3>3
  <2>3. QED
    BY <2>1, <2>2
<1>8. Described(p', pictures) /\ (pictures > 0 => p'[0].hdr)
  <2>1. Alike(p, p', pictures)
    BY <1>1, <1>2, FlushDelayedAlike
  <2> DEFINE t == p'
  <2>2. Alike(p, t, pictures)
    BY <2>1
  <2> HIDE DEF t
  <2>3. Described(t, pictures) /\ (pictures > 0 /\ p[0].hdr => t[0].hdr)
    BY <1>3, <1>4, <2>2, DescribedAlike
  <2>4. QED
    BY <1>3, <2>3 DEF t
<1>9. flen' <= seqheaderpic'
  BY <1>1, <1>2, <1>3, <1>4 DEF filevars
<1>10. pc' # "done"
  BY <1>2
<1>11. Described(p, pictures)'
  BY <1>1, <1>6, <1>8 DEF Described
<1>12. QED
  BY <1>1, <1>5, <1>6, <1>7, <1>8, <1>9, <1>10, <1>11 DEF LoadInv

LEMMA PictureIgnoredLoadInv == IInv /\ LoadInv /\ PictureIgnored => LoadInv'
<1> SUFFICES ASSUME IInv, LoadInv, PictureIgnored PROVE LoadInv'
  OBVIOUS
<1>1. TypeOK /\ Consume /\ UNCHANGED genvars
  BY DEF IInv, PictureIgnored
<1>2. /\ pc = "scan" /\ pc' \in {"read", "scan"} /\ UNCHANGED filevars
      /\ stream' = stream
  BY <1>1, ConsumeFacts
<1>3. Headers' = Headers
  BY <1>2 DEF Headers
<1>4. UNCHANGED <<p, pictures, seqheaderpic, seqheaderpos, waitforfirst, sizes, flen>>
  BY <1>1, <1>2 DEF genvars, filevars
<1>5. QED
  BY <1>2, <1>3, <1>4 DEF LoadInv, Described

(* A picture: the table grows by it, and ranks are given.                  *)
LEMMA PictureLoadInv ==
  ASSUME IInv, LoadInv, Consume, stream[rd + 1].code = "pic", ~waitforfirst,
         NEW q, Alike(Appended, q, pictures + 1), p' = q,
         pictures' = pictures + 1,
         UNCHANGED <<seqheaderpic, seqheaderpos, waitforfirst, sizes>>
  PROVE  LoadInv'
<1>1. /\ TypeOK /\ pc = "scan" /\ pc' \in {"read", "scan"}
      /\ stream' = stream /\ UNCHANGED filevars /\ pictures \in Nat
  BY ConsumeFacts, ScanFacts DEF IInv
<1>2. /\ Len(sizes) <= NFake /\ flen <= seqheaderpic
      /\ Len(sizes) >= 1 /\ seqheaderpos \in Headers
  BY <1>1 DEF LoadInv
<1>3. Described(Appended, pictures + 1) /\ Appended[0].hdr
  BY AppendedDescribed
<1>4. pictures + 1 \in Nat /\ pictures + 1 > 0
  BY <1>1
<1>5. Described(q, pictures + 1) /\ q[0].hdr
  BY <1>3, <1>4, DescribedAlike
<1>6. Headers' = Headers
  BY <1>1 DEF Headers
<1>7. Described(p, pictures)'
  BY <1>5, <1>6 DEF Described
<1>8. p'[0].hdr
  BY <1>5
<1>9. flen' <= seqheaderpic'
  BY <1>1, <1>2 DEF filevars
<1>10. QED
  BY <1>1, <1>2, <1>6, <1>7, <1>8, <1>9 DEF LoadInv

LEMMA BPictureLoadInv == IInv /\ LoadInv /\ BPicture => LoadInv'
<1> SUFFICES ASSUME IInv, LoadInv, BPicture PROVE LoadInv'
  OBVIOUS
<1> DEFINE inserted == DelayedGoesFirst(stream[rd + 1].tr)
           rank     == IF inserted THEN maxseqnr + 2 ELSE maxseqnr + 1
           q        == IF inserted
                         THEN Numbered(Appended, last_non_b_pic, maxseqnr + 1)
                         ELSE Appended
           n        == pictures + 1
<1>1. /\ Consume /\ stream[rd + 1].code = "pic" /\ ~waitforfirst
      /\ p' = Numbered(q, pictures, rank)
      /\ pictures' = pictures + 1
      /\ UNCHANGED <<seqheaderpic, seqheaderpos, waitforfirst, sizes>>
  BY DEF BPicture
<1>2. inserted => last_non_b_pic # NoPic
  BY DEF DelayedGoesFirst
<1> HIDE DEF inserted
<1>3. rank \in Nat
  BY <1>1, ScanFacts
<1> HIDE DEF rank
<1>4. /\ n \in Nat /\ 0 .. pictures = 0 .. n - 1 /\ pictures \in 0 .. n - 1
      /\ inserted => last_non_b_pic \in 0 .. n - 1
      /\ maxseqnr + 1 \in Nat
  BY <1>1, <1>2, ScanFacts
<1>5. Appended \in [0 .. n - 1 -> Picture]
  BY <1>1, <1>4, ScanFacts
<1> HIDE DEF n
<1>6. q \in [0 .. n - 1 -> Picture] /\ Alike(Appended, q, n)
  <2>1. CASE inserted
    <3>1. q = Numbered(Appended, last_non_b_pic, maxseqnr + 1)
      BY <2>1
    <3> HIDE DEF q
    <3>2. QED
      BY <1>4, <1>5, <2>1, <3>1, NumberedAlike, NumberedFacts
  <2>2. CASE ~inserted
    BY <1>5, <2>2 DEF Alike
  <2>3. QED
    BY <2>1, <2>2
<1> HIDE DEF q
<1>7. Alike(q, Numbered(q, pictures, rank), n)
  BY <1>3, <1>4, <1>6, NumberedAlike
<1>8. Alike(Appended, Numbered(q, pictures, rank), n)
  BY <1>6, <1>7 DEF Alike
<1>9. QED
  BY <1>1, <1>8, PictureLoadInv DEF n

LEMMA ReferencePictureLoadInv == IInv /\ LoadInv /\ ReferencePicture => LoadInv'
<1> SUFFICES ASSUME IInv, LoadInv, ReferencePicture PROVE LoadInv'
  OBVIOUS
<1> DEFINE n == pictures + 1
<1>1. /\ Consume /\ stream[rd + 1].code = "pic" /\ ~waitforfirst
      /\ p' = IF last_non_b_pic = NoPic THEN Appended
              ELSE Numbered(Appended, last_non_b_pic, maxseqnr + 1)
      /\ pictures' = pictures + 1
      /\ UNCHANGED <<seqheaderpic, seqheaderpos, waitforfirst, sizes>>
  BY DEF ReferencePicture
<1>2. /\ n \in Nat /\ 0 .. pictures = 0 .. n - 1
      /\ last_non_b_pic # NoPic => last_non_b_pic \in 0 .. n - 1
      /\ maxseqnr + 1 \in Nat
  <2>1. /\ pictures \in Nat /\ seqheaderpic \in Nat /\ maxseqnr + 1 \in Nat
        /\ last_non_b_pic # NoPic => last_non_b_pic \in seqheaderpic .. pictures - 1
    BY <1>1, ScanFacts
  <2>2. QED
    BY <2>1
<1>3. Appended \in [0 .. n - 1 -> Picture]
  BY <1>1, <1>2, ScanFacts
<1> HIDE DEF n
<1>4. Alike(Appended, p', n)
  <2>1. CASE last_non_b_pic = NoPic
    BY <1>1, <2>1 DEF Alike
  <2>2. CASE last_non_b_pic # NoPic
    <3>1. p' = Numbered(Appended, last_non_b_pic, maxseqnr + 1)
      BY <1>1, <2>2
    <3>2. QED
      BY <1>2, <1>3, <2>2, <3>1, NumberedAlike
  <2>3. QED
    BY <2>1, <2>2
<1>5. QED
  BY <1>1, <1>4, PictureLoadInv DEF n

(* The last write: if the file is as long as it should be, all of it       *)
(* was written.                                                            *)
LEMMA FinishLoadInv == IInv /\ IInv' /\ LoadInv /\ Finish => LoadInv'
<1> SUFFICES ASSUME IInv, IInv', LoadInv, Finish PROVE LoadInv'
  OBVIOUS
<1>1. /\ pc = "read" /\ rd = Len(stream) /\ pc' = "done"
      /\ p' = FlushDelayed /\ WriteFile
      /\ UNCHANGED <<stream, pictures, seqheaderpic, seqheaderpos, waitforfirst, sizes>>
  BY DEF Finish
<1>2. TypeOK /\ Layout /\ FileLayout /\ FlushedIsFinal'
  BY <1>1 DEF IInv
<1>3. /\ pictures \in Nat /\ seqheaderpic \in Nat /\ seqheaderpic <= pictures
      /\ pictureswritten \in Nat /\ pictureswritten <= seqheaderpic
      /\ rd \in Int /\ NFake \in Nat \ {0} /\ flen \in Nat
      /\ flen <= seqheaderpic
  BY <1>1, <1>2, NFakeAssumption DEF TypeOK, Layout, FileLayout, LoadInv
<1>4. Described(p', pictures) /\ (pictures > 0 => p'[0].hdr)
  <2>1. Described(p, pictures) /\ (pictures > 0 => p[0].hdr)
    BY <1>1 DEF LoadInv
  <2>2. QED
    BY <1>1, <1>2, <1>3, <2>1, FlushDelayedAlike, DescribedAlike
<1>5. Headers' = Headers
  BY <1>1 DEF Headers
<1>6. Described(p, pictures)'
  BY <1>1, <1>4, <1>5 DEF Described
<1>7. ASSUME flen' = pictures + NFake
      PROVE  FileWhole'
  <2>1. Dirty
    <3>1. ~Dirty => flen' = flen
      BY <1>1 DEF WriteFile, filevars
    <3>2. QED
      BY <1>3, <1>7, <3>1
  <2>2. Target = IF pictures = 0 THEN 0 ELSE pictures + NFake
    BY <1>1, <1>3 DEF Target
  <2>3. ~(\E k \in pictureswritten .. Target - 1 : flen' = k)
    BY <1>3, <1>7, <2>2
  <2>4. /\ file' = Written(Target) /\ flen' = Target /\ pictureswritten' = Target
    BY <1>1, <2>1, <2>3 DEF WriteFile
  <2>5. Target = pictures + NFake
    BY <1>7, <2>4
  <2>6. ASSUME NEW i \in 0 .. flen' - 1
        PROVE  file'[i] = IF i < pictures THEN p'[i] ELSE Fake(i - pictures)
    <3>1. CASE i < pictures
      <4>1. i \in 0 .. pictures' - 1 /\ i < pictureswritten'
        BY <1>1, <1>3, <2>4, <2>5, <2>6, <3>1
      <4>2. pc' # "cancelled"
        BY <1>1
      <4>3. QED
        BY <1>2, <3>1, <4>1, <4>2 DEF FlushedIsFinal
    <3>2. CASE ~(i < pictures)
      <4>1. i \in 0 .. Target - 1 /\ ~(i < pictureswritten)
        BY <1>3, <2>4, <2>6, <3>2
      <4>2. file'[i] = Record(i)
        BY <2>4, <4>1 DEF Written
      <4>3. ~(rd < Len(stream))
        BY <1>1, <1>3
      <4>4. Record(i) = Fake(i - pictures)
        BY <3>2, <4>3 DEF Record, Fake
      <4>5. QED
        BY <3>2, <4>2, <4>4
    <3>3. QED
      BY <3>1, <3>2
  <2>7. \A k : Fake(k)' = Fake(k)
    BY <1>1 DEF Fake
  <2>8. QED
    BY <1>1, <2>6, <2>7 DEF FileWhole
<1>8. /\ Len(sizes') <= NFake
      /\ ~waitforfirst' => Len(sizes') >= 1 /\ seqheaderpos' \in Headers'
  BY <1>1, <1>5 DEF LoadInv
<1>9. QED
  BY <1>1, <1>4, <1>6, <1>7, <1>8 DEF LoadInv

LEMMA StepLoadInv == IInv /\ IInv' /\ LoadInv /\ [Next]_vars => LoadInv'
<1> SUFFICES ASSUME IInv, IInv', LoadInv, [Next]_vars PROVE LoadInv'
  OBVIOUS
<1>1. CASE Cancel
  <2>1. pc' = "cancelled"
    BY <1>1 DEF Cancel
  <2>2. QED
    BY <2>1 DEF LoadInv
<1>2. CASE UNCHANGED vars
  <2>1. UNCHANGED <<stream, pc>> /\ UNCHANGED genvars /\ UNCHANGED filevars
    BY <1>2 DEF vars
  <2>2. UNCHANGED <<p, pictures, seqheaderpic, seqheaderpos, waitforfirst, sizes,
                    flen, file>>
    BY <2>1 DEF genvars, filevars
  <2>3. Headers' = Headers /\ \A k : Fake(k)' = Fake(k)
    BY <2>1, <2>2 DEF Headers, Fake
  <2>4. Described(p, pictures)' <=> Described(p, pictures)
    BY <2>2, <2>3 DEF Described
  <2>5. FileWhole' <=> FileWhole
    BY <2>2, <2>3 DEF FileWhole
  <2>6. QED
    BY <2>1, <2>2, <2>3, <2>4, <2>5 DEF LoadInv
<1>3. QED
  BY <1>1, <1>2, ReadChunkLoadInv, CrashLoadInv, SequenceHeaderLoadInv,
     PictureIgnoredLoadInv, BPictureLoadInv, ReferencePictureLoadInv,
     FinishLoadInv DEF Next

THEOREM LoadInvariant == Spec => []LoadInv
<1>1. IInv /\ LoadInv /\ [Next]_vars => (IInv /\ LoadInv)'
  BY StepIInv, StepLoadInv
<1>2. QED
  BY <1>1, InitIInv, InitLoadInv, PTL DEF Spec

-----------------------------------------------------------------------------
(* A finished table whose sequences fit the rank field is a good one.      *)
LEMMA GoodWhenDone ==
  ASSUME IInv, LoadInv, pc = "done", ShortSequences
  PROVE  GoodTable(p, pictures)
<1>1. TypeOK /\ RanksPermute
  BY DEF IInv
<1>2. IsTable(p, pictures)
  BY <1>1 DEF TypeOK, IsTable
<1>3. pictures > 0 => p[0].hdr
  BY DEF LoadInv
<1>4. ASSUME NEW b \in 0 .. pictures - 1, p[b].hdr
      PROVE  RanksPermuted(p, pictures, b)
  <2> DEFINE e == SeqEnd(p, pictures, b)
  <2>1. pictures \in Nat /\ b \in Nat /\ b < pictures
    BY <1>1 DEF TypeOK
  <2>2. /\ e \in b + 1 .. pictures
        /\ e < pictures => p[e].hdr
        /\ \A j \in b + 1 .. e - 1 : ~p[j].hdr
    BY <2>1, SeqEndFacts
  <2> HIDE DEF e
  <2>3. b < e /\ b \in 0 .. pictures /\ e \in 0 .. pictures
    BY <2>1, <2>2
  <2>4. IsSequence(b, e)
    BY <1>4, <2>2, <2>3 DEF IsSequence
  <2>5. e - b <= SeqNrs
    BY <2>3, <2>4 DEF ShortSequences
  <2>6. Permuted(b, e)
    BY <1>1, <2>3, <2>4, <2>5 DEF RanksPermute
  <2>7. QED
    BY <2>6 DEF Permuted, RanksPermuted, SequenceAt, e
<1>5. QED
  BY <1>2, <1>3, <1>4 DEF GoodTable

(* indexnr() finds what picturenr() numbered, in every finished index      *)
(* whose ranks fit their field.                                            *)
THEOREM ReverseWhenShort == Spec => []ReverseIfShort
<1>1. IInv /\ LoadInv => ReverseIfShort
  <2> SUFFICES ASSUME IInv, LoadInv, ShortSequences, pc = "done",
                      NEW i \in 0 .. pictures - 1
               PROVE  IndexNr(p, pictures, CheckedSkip,
                              PictureNr(p, CheckedSkip, i)) = i
    BY DEF ReverseIfShort, ReverseFunction
  <2>1. GoodTable(p, pictures)
    BY GoodWhenDone
  <2>2. CheckedSkip \in Int
    <3>1. CASE IFrames(p, pictures) = {}
      BY <3>1 DEF CheckedSkip, SkipFirst
    <3>2. CASE IFrames(p, pictures) # {}
      BY <2>1, <3>2, SkipFirstFacts DEF CheckedSkip
    <3>3. QED
      BY <3>1, <3>2
  <2>3. QED
    BY <2>1, <2>2, PictureFound
<1>2. QED
  BY <1>1, IndexInvariant, LoadInvariant, PTL

(* A finished index begins with its first I frame and ends with a picture  *)
(* that needs none behind it.                                              *)
THEOREM DecodableEnds == Spec => []StartsAndEndsDecodable
<1>1. IInv /\ LoadInv => StartsAndEndsDecodable
  <2> SUFFICES ASSUME IInv, LoadInv, pc = "done", CheckedPictures > 0, ShortSequences
               PROVE  /\ IndexNr(p, pictures, CheckedSkip, 0) = Min(IFrames(p, pictures))
                      /\ p[IndexNr(p, pictures, CheckedSkip, CheckedPictures - 1)].type # "B"
    BY DEF StartsAndEndsDecodable
  <2>1. GoodTable(p, pictures)
    BY GoodWhenDone
  <2>2. IFrames(p, pictures) # {}
    <3>1. CASE IFrames(p, pictures) = {}
      <4>1. CheckedPictures = 0
        BY <2>1, <3>1, RealPicturesFacts DEF CheckedPictures
      <4>2. QED
        BY <4>1
    <3>2. QED
      BY <3>1
  <2>3. QED
    BY <2>1, <2>2, SkipFirstFacts, RealPicturesFacts DEF CheckedSkip, CheckedPictures
<1>2. QED
  BY <1>1, IndexInvariant, LoadInvariant, PTL

(* The resolutions behind the pictures of a whole file.                    *)
LEMMA SizesLoaded ==
  ASSUME IInv, LoadInv, pc = "done", pictures > 0, flen = pictures + NFake,
         file[0].res >= 1
  PROVE  /\ LoadedPictures(file, flen) = pictures
         /\ LoadedSizes(file, flen) = sizes
<1> DEFINE none == {k \in 0 .. NFake - 1 : file[pictures + k].pos = 0}
<1>1. /\ TypeOK /\ FileWhole /\ Len(sizes) <= NFake
      /\ pictures \in Nat /\ NFake \in Nat \ {0}
      /\ sizes \in Seq(Nat \ {0}) /\ Len(sizes) \in Nat
      /\ flen - NFake = pictures
  BY NFakeAssumption DEF IInv, LoadInv, TypeOK
<1>2. 0 \in 0 .. flen - 1 /\ file[0].res \in Nat
  BY <1>1 DEF TypeOK, Picture
<1>3. LoadedPictures(file, flen) = pictures
  BY <1>1, <1>2 DEF LoadedPictures
<1>4. \A k \in 0 .. NFake - 1 :
        file[pictures + k].pos = IF k < Len(sizes) THEN sizes[k + 1] ELSE 0
  <2> TAKE k \in 0 .. NFake - 1
  <2>1. /\ pictures + k \in 0 .. flen - 1 /\ ~(pictures + k < pictures)
        /\ pictures + k - pictures = k
    BY <1>1
  <2>2. PICK i \in 0 .. flen - 1 : i = pictures + k
    BY <2>1
  <2>4. ~(i < pictures) /\ i - pictures = k
    BY <1>1, <2>1, <2>2
  <2>5. file[i] = Fake(i - pictures)
    BY <1>1, <2>4 DEF FileWhole
  <2>6. file[pictures + k] = Fake(k)
    BY <2>2, <2>4, <2>5
  <2>3. QED
    BY <2>6 DEF Fake, FakePicture
<1>5. \A k \in 1 .. Len(sizes) : sizes[k] \in Nat \ {0}
  BY <1>1
<1>6. Min({NFake} \cup none) = Len(sizes)
  <2> DEFINE S == {NFake} \cup none
  <2>1. S \subseteq Nat /\ S # {}
    BY <1>1
  <2>2. Min(S) \in S /\ \A x \in S : Min(S) <= x
    BY <2>1, MinFacts
  <2>3. Len(sizes) \in S
    <3>1. CASE Len(sizes) = NFake
      BY <3>1
    <3>2. CASE Len(sizes) # NFake
      <4>1. Len(sizes) \in 0 .. NFake - 1 /\ ~(Len(sizes) < Len(sizes))
        BY <1>1, <3>2
      <4>2. QED
        BY <1>4, <4>1
    <3>3. QED
      BY <3>1, <3>2
  <2>4. \A x \in S : x >= Len(sizes)
    <3> SUFFICES ASSUME NEW x \in S, x < Len(sizes) PROVE FALSE
      BY <1>1, <2>1
    <3>1. x \in 0 .. NFake - 1 /\ x + 1 \in 1 .. Len(sizes)
      BY <1>1, <2>1
    <3>2. file[pictures + x].pos = sizes[x + 1]
      BY <1>4, <3>1
    <3>3. x # NFake
      BY <3>1, <1>1
    <3>4. file[pictures + x].pos = 0
      BY <3>3
    <3>5. QED
      BY <1>5, <3>1, <3>2, <3>4
  <2> HIDE DEF S
  <2>5. Min(S) <= Len(sizes) /\ Min(S) >= Len(sizes) /\ Min(S) \in Nat
    BY <2>1, <2>2, <2>3, <2>4
  <2>6. Min(S) = Len(sizes)
    BY <1>1, <2>5
  <2>7. QED
    BY <2>6 DEF S
<1>7. \A k \in 1 .. Len(sizes) : file[pictures + k - 1].pos = sizes[k]
  <2> TAKE k \in 1 .. Len(sizes)
  <2>1. /\ k - 1 \in 0 .. NFake - 1 /\ k - 1 < Len(sizes) /\ k - 1 + 1 = k
        /\ pictures + (k - 1) = pictures + k - 1
    BY <1>1
  <2>2. QED
    BY <1>4, <2>1
<1>8. LoadedSizes(file, flen) = [k \in 1 .. Len(sizes) |-> file[pictures + k - 1].pos]
  <2>1. file[0].res # 0
    BY <1>2
  <2> DEFINE m == Min({NFake} \cup none)
  <2>2. LoadedSizes(file, flen) = [k \in 1 .. m |-> file[pictures + k - 1].pos]
    BY <1>3, <2>1 DEF LoadedSizes
  <2>3. m = Len(sizes)
    BY <1>6
  <2> HIDE DEF m
  <2>4. QED
    BY <2>2, <2>3
<1>9. [k \in 1 .. Len(sizes) |-> file[pictures + k - 1].pos] = sizes
  <2>1. sizes = [k \in 1 .. Len(sizes) |-> sizes[k]]
    BY <1>1
  <2>2. QED
    BY <1>7, <2>1
<1>10. QED
  BY <1>3, <1>8, <1>9

(* What was written completely is loaded as the index that was made: with  *)
(* the same pictures, the same first one and the same resolutions.         *)
THEOREM WholeFileLoads == Spec => []LoadsBack
<1>1. IInv /\ LoadInv => LoadsBack
  <2> SUFFICES ASSUME IInv, LoadInv, pc = "done", pictures > 0,
                      flen = pictures + NFake, ShortSequences
               PROVE  Load(file, flen, Headers) =
                        [ret |-> "ok", pictures |-> CheckedPictures,
                         skip |-> CheckedSkip, sizes |-> sizes]
    BY DEF LoadsBack
  <2>1. GoodTable(p, pictures)
    BY GoodWhenDone
  <2>2. /\ TypeOK /\ FileWhole /\ Described(p, pictures) /\ p[0].hdr
        /\ pictures \in Nat /\ NFake \in Nat \ {0}
    BY NFakeAssumption DEF IInv, LoadInv, TypeOK
  <2>3. Agree(p, file, pictures)
    <3> SUFFICES ASSUME NEW i \in 0 .. pictures - 1
                 PROVE  file[i] = p[i]
      BY DEF Agree
    <3>1. i \in 0 .. flen - 1 /\ i < pictures
      BY <2>2
    <3>2. QED
      BY <2>2, <3>1 DEF FileWhole
  <2>4. file[0].hdr /\ file[0].res >= 1
    <3>1. 0 \in 0 .. pictures - 1
      BY <2>2
    <3>2. file[0] = p[0]
      BY <2>3, <3>1 DEF Agree
    <3>3. QED
      BY <2>2, <3>1, <3>2 DEF Described
  <2>5. LoadedPictures(file, flen) = pictures /\ LoadedSizes(file, flen) = sizes
    BY <2>4, SizesLoaded
  <2>6. /\ RanksOK(file, pictures)
        /\ SkipFirst(file, pictures) = CheckedSkip
        /\ RealPictures(file, pictures) = CheckedPictures
    BY <2>1, <2>3, CheckAgrees DEF CheckedSkip, CheckedPictures
  <2>7. ~(\E i \in Probed(file, pictures) : file[i].pos \notin Headers)
    <3> SUFFICES ASSUME NEW i \in Probed(file, pictures)
                 PROVE  file[i].pos \in Headers
      OBVIOUS
    <3>1. i \in 0 .. pictures - 1 /\ file[i].hdr
      BY <2>2, ProbedBegin
    <3>2. file[i] = p[i]
      BY <2>3, <3>1 DEF Agree
    <3>3. QED
      BY <2>2, <3>1, <3>2 DEF Described
  <2>8. flen # 0 /\ flen > 0 /\ ~(pictures < 0) /\ pictures >= 0
    BY <2>2
  <2>9. QED
    BY <2>4, <2>5, <2>6, <2>7, <2>8 DEF Load
<1>2. QED
  BY <1>1, IndexInvariant, LoadInvariant, PTL

-----------------------------------------------------------------------------
(* Where the pictures of the table are in the stream: the pictures behind  *)
(* the first sequence header, in their order.                              *)
Rest == Pics \ {k \in Pics : \A h \in 1 .. k : stream[h].code = "pic"}

PlaceOf(i) == CHOOSE k \in Rest : Cardinality({x \in Rest : x < k}) = i

Track ==
  /\ waitforfirst <=> \A h \in 1 .. rd : stream[h].code = "pic"
  /\ pictures = Cardinality({x \in Rest : x <= rd})
  /\ \A i \in 0 .. pictures - 1 : PlaceOf(i) \in Rest /\ PlaceOf(i) <= rd
  /\ \A i, j \in 0 .. pictures - 1 : i < j => PlaceOf(i) < PlaceOf(j)
  /\ \A i \in seqheaderpic .. pictures - 1 :
       \A h \in PlaceOf(i) .. rd : stream[h].code = "pic"
  /\ seqheaderpic < pictures => PlaceOf(pictures - 1) = rd
  /\ ~waitforfirst /\ seqheaderpic = pictures => stream[rd].code = "seq"

(* The ranks of the pictures R of the table t are in display order.        *)
OrderedIn(t, R) ==
  \A i, j \in R : DisplayedBefore(Code(i), Code(j)) => t[i].seqnr < t[j].seqnr

ClosedInOrder ==
  \A b, e \in 0 .. pictures : IsSequence(b, e) /\ e - b <= SeqNrs =>
    OrderedIn(p, b .. e - 1)

OpenInOrder == pictures - seqheaderpic <= SeqNrs => OrderedIn(p, Ranked)

(* The delayed picture comes behind all that have a rank, and what is      *)
(* still to come in this sequence does too.                                *)
Waiting ==
  last_non_b_pic # NoPic =>
    /\ last_non_b_seqnr = Code(last_non_b_pic).tr
    /\ last_seqnr < last_non_b_seqnr
    /\ Code(last_non_b_pic).gop = stream[rd].gop
    /\ \A j \in Ranked : ~DisplayedBefore(Code(last_non_b_pic), Code(j))

ToCome(k) == k \in rd + 1 .. Len(stream)
             /\ \A h \in rd + 1 .. k : stream[h].code = "pic"

Passed ==
  \A k \in 1 .. Len(stream) : ToCome(k) =>
    /\ seqheaderpic < pictures /\ stream[k].gop = stream[rd].gop =>
         last_seqnr < stream[k].tr
    /\ \A j \in Ranked : ~DisplayedBefore(stream[k], Code(j))

OrderInv ==
  pc # "cancelled" =>
    /\ Track
    /\ ClosedInOrder
    /\ pc # "done" => OpenInOrder /\ Waiting /\ Passed

(* Every picture is in the order of an encoder.                            *)
Coded == \A k \in DOMAIN stream : stream[k].code = "pic" => InCodingOrder(stream, k)
-----------------------------------------------------------------------------
LEMMA StreamFacts ==
  ASSUME TypeOK
  PROVE  /\ Len(stream) \in Nat /\ DOMAIN stream = 1 .. Len(stream)
         /\ rd \in 0 .. Len(stream) /\ rd \in Nat
         /\ pictures \in Nat /\ seqheaderpic \in Nat
         /\ \A k \in 1 .. Len(stream) :
              /\ stream[k] \in StartCodes
              /\ stream[k].code = "pic" => stream[k].tr \in Nat /\ stream[k].gop \in Nat
<1>1. stream \in Seq(StartCodes)
  BY DEF TypeOK
<1>2. Len(stream) \in Nat /\ DOMAIN stream = 1 .. Len(stream)
  BY <1>1
<1>3. ASSUME NEW k \in 1 .. Len(stream)
      PROVE  /\ stream[k] \in StartCodes
             /\ stream[k].code = "pic" => stream[k].tr \in Nat /\ stream[k].gop \in Nat
  <2>1. stream[k] \in StartCodes
    BY <1>1, <1>2, ElementOfSeq
  <2>2. QED
    BY <2>1 DEF StartCodes
<1>4. QED
  BY <1>2, <1>3 DEF TypeOK

LEMMA RestFacts ==
  ASSUME TypeOK
  PROVE  /\ Rest \subseteq 1 .. Len(stream)
         /\ \A k \in Rest : k \in Nat /\ stream[k].code = "pic"
         /\ \A k \in 1 .. Len(stream) :
              k \in Rest <=> /\ stream[k].code = "pic"
                             /\ \E h \in 1 .. k : stream[h].code # "pic"
<1>1. Len(stream) \in Nat /\ DOMAIN stream = 1 .. Len(stream)
  BY StreamFacts
<1>2. QED
  BY <1>1 DEF Rest, Pics

LEMMA RestFinite ==
  ASSUME TypeOK, NEW S, S \subseteq Rest
  PROVE  IsFiniteSet(S) /\ Cardinality(S) \in Nat
<1>1. S \subseteq 1 .. Len(stream) /\ Len(stream) \in Nat
  BY RestFacts, StreamFacts
<1>2. IsFiniteSet(1 .. Len(stream))
  BY <1>1, FS_Interval
<1>3. IsFiniteSet(S)
  BY <1>1, <1>2, FS_Subset
<1>4. QED
  BY <1>3, FS_CardinalityType

(* A picture more is counted behind a picture.                             *)
LEMMA CountsMore ==
  ASSUME TypeOK, NEW a \in Rest, NEW b \in Nat, a < b
  PROVE  Cardinality({x \in Rest : x < a}) < Cardinality({x \in Rest : x < b})
<1> DEFINE A == {x \in Rest : x < a}
           B == {x \in Rest : x < b}
<1>1. A \subseteq Rest /\ B \subseteq Rest /\ A \cup {a} \subseteq Rest
  OBVIOUS
<1>2. a \in Nat /\ \A x \in Rest : x \in Nat
  BY RestFacts
<1>3. a \notin A /\ A \cup {a} \subseteq B
  <2>1. \A x \in A : x \in Rest /\ x < a
    OBVIOUS
  <2>2. \A x \in A : x < b
    BY <1>2, <2>1
  <2>3. a \notin A
    BY <1>2, <2>1
  <2>4. A \cup {a} \subseteq B
    <3>1. \A x \in A : x \in B
      BY <2>1, <2>2
    <3>2. a \in B
      OBVIOUS
    <3>3. QED
      BY <3>1, <3>2
  <2>5. QED
    BY <2>3, <2>4
<1> HIDE DEF A, B
<1>4. IsFiniteSet(A) /\ IsFiniteSet(B) /\ Cardinality(A) \in Nat
      /\ Cardinality(B) \in Nat
  BY <1>1, RestFinite
<1>5. Cardinality(A \cup {a}) = Cardinality(A) + 1
  BY <1>3, <1>4, FS_AddElement
<1>6. Cardinality(A \cup {a}) <= Cardinality(B)
  BY <1>3, <1>4, FS_Subset
<1>7. Cardinality(A) < Cardinality(B)
  BY <1>4, <1>5, <1>6
<1>8. QED
  BY <1>7 DEF A, B

LEMMA PlaceIs ==
  ASSUME TypeOK, NEW k \in Rest
  PROVE  PlaceOf(Cardinality({x \in Rest : x < k})) = k
<1> DEFINE count(b) == Cardinality({x \in Rest : x < b})
           other == PlaceOf(count(k))
<1>1. other \in Rest /\ count(other) = count(k)
  <2>1. \E o \in Rest : count(o) = count(k)
    OBVIOUS
  <2>2. QED
    BY <2>1 DEF PlaceOf
<1>2. k \in Nat /\ other \in Nat
  BY <1>1, RestFacts
<1> HIDE DEF other
<1>3. ASSUME NEW a \in Rest, NEW b \in Rest, a < b
      PROVE  count(a) \in Int /\ count(b) \in Int /\ count(a) < count(b)
  <2>1. b \in Nat
    BY RestFacts
  <2>2. {x \in Rest : x < a} \subseteq Rest /\ {x \in Rest : x < b} \subseteq Rest
    OBVIOUS
  <2>3. count(a) \in Nat /\ count(b) \in Nat
    BY <2>2, RestFinite
  <2>4. QED
    BY <1>3, <2>1, <2>3, CountsMore
<1> HIDE DEF count
<1>4. ~(other < k) /\ ~(k < other)
  BY <1>1, <1>3
<1>5. other = k
  BY <1>2, <1>4
<1>6. QED
  BY <1>5 DEF other, count

(* The next picture of the stream is the next one of the table.            *)
LEMMA NextPlace ==
  ASSUME TypeOK, Track, rd < Len(stream), stream[rd + 1].code = "pic", ~waitforfirst
  PROVE  /\ rd + 1 \in Rest
         /\ PlaceOf(pictures) = rd + 1
         /\ pictures + 1 = Cardinality({x \in Rest : x <= rd + 1})
<1>1. rd \in Nat /\ rd + 1 \in 1 .. Len(stream) /\ Len(stream) \in Nat
  BY StreamFacts
<1>2. rd + 1 \in Rest
  <2>1. PICK h \in 1 .. rd : stream[h].code # "pic"
    BY DEF Track
  <2>2. h \in 1 .. rd + 1
    BY <1>1
  <2>3. QED
    BY <1>1, <2>1, <2>2, RestFacts
<1> DEFINE A == {x \in Rest : x <= rd}
<1>3. /\ {x \in Rest : x < rd + 1} = A
      /\ {x \in Rest : x <= rd + 1} = A \cup {rd + 1}
      /\ rd + 1 \notin A /\ A \subseteq Rest
  BY <1>1, <1>2, RestFacts
<1>4. pictures = Cardinality(A)
  BY DEF Track
<1> HIDE DEF A
<1>5. Cardinality(A \cup {rd + 1}) = Cardinality(A) + 1
  BY <1>3, RestFinite, FS_AddElement
<1>6. PlaceOf(pictures) = rd + 1
  BY <1>2, <1>3, <1>4, PlaceIs
<1>7. QED
  BY <1>2, <1>3, <1>4, <1>5, <1>6

(* The stream stays what it is.                                            *)
LEMMA PlacesKept ==
  ASSUME stream' = stream
  PROVE  /\ Rest' = Rest
         /\ \A i : PlaceOf(i)' = PlaceOf(i)
         /\ \A i : Code(i)' = Code(i)
<1>1. Rest' = Rest
  BY DEF Rest, Pics
<1>2. \A i : PlaceOf(i)' = PlaceOf(i)
  BY <1>1 DEF PlaceOf
<1>3. \A i : Code(i)' = Code(i)
  BY DEF Code, Pics
<1>4. QED
  BY <1>1, <1>2, <1>3

LEMMA CodeIs == \A i : Code(i) = stream[PlaceOf(i)]
  BY DEF Code, PlaceOf, Rest
-----------------------------------------------------------------------------
LEMMA TrackKept ==
  ASSUME Track, UNCHANGED <<stream, rd, pictures, seqheaderpic, waitforfirst>>
  PROVE  Track'
  BY PlacesKept DEF Track

LEMMA InitTrack == Init => Track
<1> SUFFICES ASSUME Init PROVE Track
  OBVIOUS
<1>1. rd = 0 /\ pictures = 0 /\ seqheaderpic = 0 /\ waitforfirst = TRUE
      /\ stream \in Seq(StartCodes)
  BY StreamsAssumption DEF Init
<1>2. Rest \subseteq Nat \ {0}
  BY <1>1 DEF Rest, Pics
<1>3. {x \in Rest : x <= rd} = {}
  <2>1. ASSUME NEW x \in Rest
        PROVE  ~(x <= rd)
    BY <1>1, <1>2
  <2>2. QED
    BY <2>1
<1>4. Cardinality({x \in Rest : x <= rd}) = 0
  BY <1>3, FS_EmptySet
<1>5. QED
  BY <1>1, <1>4 DEF Track

(* A start code that is no picture of the table.                           *)
LEMMA TrackPassed ==
  ASSUME TypeOK, Track, Consume, rd + 1 \notin Rest
  PROVE  /\ pictures = Cardinality({x \in Rest : x <= rd + 1})
         /\ \A i \in 0 .. pictures - 1 : PlaceOf(i) \in Rest /\ PlaceOf(i) <= rd + 1
<1>1. rd \in Nat /\ \A x \in Rest : x \in Nat
  BY StreamFacts, RestFacts
<1>2. {x \in Rest : x <= rd + 1} = {x \in Rest : x <= rd}
  BY <1>1
<1>3. pictures = Cardinality({x \in Rest : x <= rd + 1})
  BY <1>2 DEF Track
<1>4. ASSUME NEW i \in 0 .. pictures - 1
      PROVE  PlaceOf(i) \in Rest /\ PlaceOf(i) <= rd + 1
  <2>1. PlaceOf(i) \in Rest /\ PlaceOf(i) <= rd /\ PlaceOf(i) \in Nat
    BY <1>1 DEF Track
  <2>2. QED
    BY <1>1, <2>1
<1>5. QED
  BY <1>3, <1>4

LEMMA SequenceHeaderTrack == TypeOK /\ Track /\ SequenceHeader => Track'
<1> SUFFICES ASSUME TypeOK, Track, SequenceHeader PROVE Track'
  OBVIOUS
<1>1. /\ Consume /\ stream[rd + 1].code = "seq" /\ waitforfirst' = FALSE
      /\ seqheaderpic' = pictures /\ pictures' = pictures
      /\ stream' = stream /\ rd' = rd + 1 /\ rd < Len(stream)
  BY DEF SequenceHeader, Consume
<1>2. rd \in Nat /\ rd + 1 \in 1 .. Len(stream) /\ pictures \in Nat
  BY <1>1, StreamFacts
<1>3. rd + 1 \notin Rest
  BY <1>1, <1>2, RestFacts
<1>4. /\ pictures = Cardinality({x \in Rest : x <= rd + 1})
      /\ \A i \in 0 .. pictures - 1 : PlaceOf(i) \in Rest /\ PlaceOf(i) <= rd + 1
  BY <1>1, <1>3, TrackPassed
<1>5. /\ Rest' = Rest
      /\ \A i : PlaceOf(i)' = PlaceOf(i)
  BY <1>1, PlacesKept
<1>6. \A i, j \in 0 .. pictures - 1 : i < j => PlaceOf(i) < PlaceOf(j)
  BY DEF Track
<1>7. ~\A h \in 1 .. rd + 1 : stream[h].code = "pic"
  BY <1>1, <1>2
<1>8. /\ seqheaderpic' .. pictures' - 1 = {} /\ ~(seqheaderpic' < pictures')
      /\ stream'[rd'].code = "seq"
  BY <1>1, <1>2
<1>9. QED
  BY <1>1, <1>4, <1>5, <1>6, <1>7, <1>8 DEF Track

LEMMA PictureIgnoredTrack ==
  ASSUME TypeOK, Track, PictureIgnored, pictures = 0
  PROVE  Track'
<1>1. /\ Consume /\ stream[rd + 1].code = "pic" /\ waitforfirst
      /\ stream' = stream /\ rd' = rd + 1 /\ rd < Len(stream)
      /\ UNCHANGED <<pictures, seqheaderpic, waitforfirst>>
  BY DEF PictureIgnored, Consume, genvars
<1>2. rd \in Nat /\ rd + 1 \in 1 .. Len(stream) /\ seqheaderpic \in Nat
  BY <1>1, StreamFacts
<1>3. \A h \in 1 .. rd + 1 : stream[h].code = "pic"
  <2>1. \A h \in 1 .. rd : stream[h].code = "pic"
    BY <1>1 DEF Track
  <2>2. \A h \in 1 .. rd + 1 : h \in 1 .. rd \/ h = rd + 1
    BY <1>2
  <2>3. QED
    BY <1>1, <2>1, <2>2
<1>4. rd + 1 \notin Rest
  BY <1>2, <1>3, RestFacts
<1>5. pictures = Cardinality({x \in Rest : x <= rd + 1})
  BY <1>1, <1>4, TrackPassed
<1>6. Rest' = Rest
  BY <1>1, PlacesKept
<1>7. 0 .. pictures' - 1 = {} /\ seqheaderpic' .. pictures' - 1 = {}
      /\ ~(seqheaderpic' < pictures')
  BY <1>1, <1>2
<1>8. QED
  BY <1>1, <1>3, <1>5, <1>6, <1>7 DEF Track

LEMMA PictureTrack ==
  ASSUME TypeOK, Track, Consume, stream[rd + 1].code = "pic", ~waitforfirst,
         pictures' = pictures + 1, seqheaderpic' = seqheaderpic,
         seqheaderpic <= pictures, waitforfirst' = waitforfirst
  PROVE  Track'
<1>1. stream' = stream /\ rd' = rd + 1 /\ rd < Len(stream)
  BY DEF Consume
<1>2. rd \in Nat /\ rd + 1 \in 1 .. Len(stream) /\ pictures \in Nat
      /\ seqheaderpic \in Nat
  BY <1>1, StreamFacts
<1>3. /\ rd + 1 \in Rest /\ PlaceOf(pictures) = rd + 1
      /\ pictures + 1 = Cardinality({x \in Rest : x <= rd + 1})
  BY <1>1, NextPlace
<1>4. Rest' = Rest /\ \A i : PlaceOf(i)' = PlaceOf(i)
  BY <1>1, PlacesKept
<1>5. \A i \in 0 .. pictures - 1 : PlaceOf(i) \in Rest /\ PlaceOf(i) <= rd /\ PlaceOf(i) \in Nat
  BY RestFacts DEF Track
<1>6. \A i \in 0 .. pictures : i \in 0 .. pictures - 1 \/ i = pictures
  BY <1>2
<1>7. \A i \in 0 .. pictures : PlaceOf(i) \in Rest /\ PlaceOf(i) <= rd + 1
  BY <1>2, <1>3, <1>5, <1>6
<1>8. ASSUME NEW i \in 0 .. pictures, NEW j \in 0 .. pictures, i < j
      PROVE  PlaceOf(i) < PlaceOf(j)
  <2>1. i \in 0 .. pictures - 1
    BY <1>2, <1>8
  <2>2. CASE j = pictures
    BY <1>2, <1>3, <1>5, <2>1, <2>2
  <2>3. CASE j \in 0 .. pictures - 1
    BY <1>8, <2>1, <2>3 DEF Track
  <2>4. QED
    BY <1>6, <2>2, <2>3
<1>9. ASSUME NEW i \in seqheaderpic .. pictures, NEW h \in PlaceOf(i) .. rd + 1
      PROVE  stream[h].code = "pic"
  <2>1. CASE h = rd + 1
    BY <2>1
  <2>2. CASE h # rd + 1
    <3>1. i # pictures
      BY <1>2, <1>3, <2>2
    <3>2. i \in seqheaderpic .. pictures - 1 /\ i \in 0 .. pictures - 1
      BY <1>2, <3>1
    <3>3. h \in PlaceOf(i) .. rd
      BY <1>2, <1>5, <2>2, <3>2
    <3>4. QED
      BY <3>2, <3>3 DEF Track
  <2>3. QED
    BY <2>1, <2>2
<1>10. ~\A h \in 1 .. rd + 1 : stream[h].code = "pic"
  <2>1. PICK h \in 1 .. rd : stream[h].code # "pic"
    BY DEF Track
  <2>2. h \in 1 .. rd + 1
    BY <1>2
  <2>3. QED
    BY <2>1, <2>2
<1>11. pictures' - 1 = pictures /\ seqheaderpic' # pictures'
  BY <1>2
<1>12. QED
  BY <1>1, <1>3, <1>4, <1>7, <1>8, <1>9, <1>10, <1>11 DEF Track
-----------------------------------------------------------------------------
(* A picture with a rank that no other one is displayed behind.            *)
LEMMA AddOrdered ==
  ASSUME NEW t, NEW u, NEW R, NEW i,
         OrderedIn(t, R),
         \A j \in R : /\ u[j] = t[j]
                     /\ t[j].seqnr < u[i].seqnr
                     /\ ~DisplayedBefore(Code(i), Code(j)),
         ~DisplayedBefore(Code(i), Code(i))
  PROVE  OrderedIn(u, R \cup {i})
  BY DEF OrderedIn

LEMMA KeepOrdered ==
  ASSUME NEW t, NEW u, NEW R, OrderedIn(t, R), \A j \in R : u[j] = t[j]
  PROVE  OrderedIn(u, R)
  BY DEF OrderedIn

LEMMA NotBeforeItself ==
  ASSUME TypeOK, Track, NEW i \in 0 .. pictures - 1
  PROVE  ~DisplayedBefore(Code(i), Code(i))
<1>1. PlaceOf(i) \in Rest
  BY DEF Track
<1>2. Code(i).gop \in Int /\ Code(i).tr \in Int
  BY <1>1, RestFacts, StreamFacts, CodeIs
<1>3. QED
  BY <1>2 DEF DisplayedBefore

(* Closed sequences stay closed and in order.                              *)
LEMMA ClosedOrderKept ==
  ASSUME TypeOK, Layout, ClosedInOrder, stream' = stream, pc' # "done",
         pictures' \in Nat, pictures' >= pictures,
         seqheaderpic' = seqheaderpic,
         \A i \in 0 .. seqheaderpic - 1 : p'[i] = p[i],
         pc # "done"
  PROVE  ClosedInOrder'
<1> SUFFICES ASSUME NEW b \in 0 .. pictures', NEW e \in 0 .. pictures',
                    IsSequence(b, e)', e - b <= SeqNrs
             PROVE  OrderedIn(p, b .. e - 1)'
  BY DEF ClosedInOrder
<1>1. /\ b < e /\ e <= seqheaderpic /\ seqheaderpic <= pictures
      /\ pictures \in Nat /\ seqheaderpic \in Nat /\ b \in Nat /\ e \in Nat
  BY DEF IsSequence, Layout, TypeOK
<1>2. \A i \in b .. e - 1 : p'[i] = p[i]
  BY <1>1
<1>3. IsSequence(b, e)
  <2>1. p[b].hdr /\ \A i \in b + 1 .. e - 1 : ~p[i].hdr
    BY <1>1, <1>2 DEF IsSequence
  <2>2. e < pictures => p[e].hdr
    <3>1. CASE e < seqheaderpic
      BY <1>1, <3>1 DEF IsSequence
    <3>2. CASE e = seqheaderpic
      BY <3>2 DEF Layout
    <3>3. QED
      BY <1>1, <3>1, <3>2
  <2>3. QED
    BY <1>1, <2>1, <2>2 DEF IsSequence
<1>4. OrderedIn(p, b .. e - 1)
  BY <1>1, <1>3, e - b <= SeqNrs DEF ClosedInOrder
<1>5. \A i : Code(i)' = Code(i)
  BY PlacesKept
<1>6. QED
  BY <1>2, <1>4, <1>5 DEF OrderedIn

(* The delayed picture gets its rank at the end of the sequence.           *)
LEMMA OpenOrderCloses ==
  ASSUME TypeOK, Layout, OpenRanks, Track, ClosedInOrder, OpenInOrder, Waiting,
         stream' = stream, p' = FlushDelayed, pictures' = pictures
  PROVE  ClosedInOrder'
<1> SUFFICES ASSUME NEW b \in 0 .. pictures, NEW e \in 0 .. pictures,
                    IsSequence(b, e)', e - b <= SeqNrs
             PROVE  OrderedIn(p, b .. e - 1)'
  BY DEF ClosedInOrder
<1>1. /\ b < e /\ seqheaderpic <= pictures
      /\ pictures \in Nat /\ seqheaderpic \in Nat /\ b \in Nat /\ e \in Nat
      /\ SeqNrs \in Nat
  BY SeqNrsAssumption DEF IsSequence, Layout, TypeOK
<1>2. /\ \A i \in 0 .. pictures - 1 :
           /\ p'[i].hdr = p[i].hdr
           /\ i # last_non_b_pic => p'[i] = p[i]
      /\ last_non_b_pic # NoPic =>
           p'[last_non_b_pic].seqnr = (maxseqnr + 1) % SeqNrs
  BY FlushDelayedFacts
<1>3. last_non_b_pic # NoPic => last_non_b_pic \in seqheaderpic .. pictures - 1
  BY <1>1 DEF Layout
<1>4. /\ p[b].hdr
      /\ \A i \in b + 1 .. e - 1 : ~p[i].hdr
      /\ e < pictures => p[e].hdr
  BY <1>1, <1>2 DEF IsSequence
<1>c. \A i : Code(i)' = Code(i)
  BY PlacesKept
<1> SUFFICES OrderedIn(p', b .. e - 1)
  BY <1>c DEF OrderedIn
<1>5. CASE e <= seqheaderpic
  <2>1. IsSequence(b, e)
    BY <1>1, <1>4, <1>5 DEF IsSequence
  <2>2. OrderedIn(p, b .. e - 1)
    BY <1>1, <2>1, e - b <= SeqNrs DEF ClosedInOrder
  <2>3. \A i \in b .. e - 1 : p'[i] = p[i]
    BY <1>1, <1>2, <1>3, <1>5 DEF NoPic
  <2>4. QED
    BY <2>2, <2>3 DEF OrderedIn
<1>6. CASE e > seqheaderpic
  <2>1. b = seqheaderpic
    BY <1>1, <1>4, <1>6 DEF Layout
  <2>2. e = pictures
    BY <1>1, <1>4, <1>6 DEF Layout
  <2>3. OrderedIn(p, Ranked) /\ \A i \in Ranked : p[i].seqnr <= maxseqnr
    BY <2>1, <2>2, e - b <= SeqNrs DEF OpenRanks, OpenInOrder
  <2>4. \A i \in Ranked : p'[i] = p[i] /\ i \in 0 .. pictures - 1
    BY <1>1, <1>2 DEF Ranked
  <2>7. CASE last_non_b_pic = NoPic
    <3>1. b .. e - 1 \subseteq Ranked
      BY <1>1, <2>1, <2>2, <2>7 DEF NoPic, Ranked
    <3>2. QED
      BY <2>3, <2>4, <3>1 DEF OrderedIn
  <2>8. CASE last_non_b_pic # NoPic
    <3>1. maxseqnr + 1 \in Nat /\ maxseqnr \in Int /\ maxseqnr + 1 < SeqNrs
      BY <1>1, <2>1, <2>2, <2>8, e - b <= SeqNrs DEF Delayed, Layout, TypeOK
    <3>2. p'[last_non_b_pic].seqnr = maxseqnr + 1
      BY <1>2, <2>8, <3>1, RankFits
    <3>3. b .. e - 1 \subseteq Ranked \cup {last_non_b_pic}
      BY <2>1, <2>2 DEF Ranked
    <3>4. \A i \in Ranked : p[i].seqnr \in Nat
      BY <2>4 DEF TypeOK, Picture
    <3>5. \A j \in Ranked : p[j].seqnr < p'[last_non_b_pic].seqnr
      BY <2>3, <3>1, <3>2, <3>4
    <3>6. \A j \in Ranked : ~DisplayedBefore(Code(last_non_b_pic), Code(j))
      BY <2>8 DEF Waiting
    <3>7. ~DisplayedBefore(Code(last_non_b_pic), Code(last_non_b_pic))
      BY <1>1, <1>3, <2>8, NotBeforeItself
    <3>8. OrderedIn(p', Ranked \cup {last_non_b_pic})
      BY <2>3, <2>4, <3>5, <3>6, <3>7, AddOrdered
    <3>9. QED
      BY <3>3, <3>8 DEF OrderedIn
  <2>9. QED
    BY <2>7, <2>8
<1>7. QED
  BY <1>1, <1>5, <1>6
-----------------------------------------------------------------------------
(* What the order of an encoder says of two pictures.                      *)
LEMMA CodedFacts ==
  ASSUME TypeOK, Coded, NEW i \in 1 .. Len(stream), NEW k \in 1 .. Len(stream),
         CodedBefore(stream, i, k)
  PROVE  /\ stream[i].tr \in Nat /\ stream[k].tr \in Nat
         /\ stream[i].gop \in Nat /\ stream[k].gop \in Nat
         /\ stream[i].gop <= stream[k].gop
         /\ stream[i].gop = stream[k].gop => stream[i].tr # stream[k].tr
         /\ stream[i].gop = stream[k].gop /\ stream[k].tr < stream[i].tr =>
              /\ stream[k].type = "B" /\ stream[i].type # "B"
              /\ \A j \in i + 1 .. k - 1 : stream[j].type = "B"
<1>1. i \in 1 .. k - 1 /\ i \in i .. k /\ k \in i .. k
  BY StreamFacts DEF CodedBefore
<1>2. stream[i].code = "pic" /\ stream[k].code = "pic"
  BY <1>1 DEF CodedBefore
<1>3. InCodingOrder(stream, k)
  BY <1>2, StreamFacts DEF Coded
<1>4. /\ stream[i].tr \in Nat /\ stream[k].tr \in Nat
      /\ stream[i].gop \in Nat /\ stream[k].gop \in Nat
  BY <1>2, StreamFacts
<1>5. QED
  BY <1>1, <1>3, <1>4 DEF InCodingOrder

(* It comes behind the other in the display too, unless it is a B picture  *)
(* and the other is the last one that is not.                              *)
LEMMA Behind ==
  ASSUME TypeOK, Coded, NEW i \in 1 .. Len(stream), NEW k \in 1 .. Len(stream),
         CodedBefore(stream, i, k),
         \/ stream[i].type = "B"
         \/ stream[k].type # "B"
         \/ \E j \in i + 1 .. k - 1 : stream[j].type # "B"
  PROVE  /\ ~DisplayedBefore(stream[k], stream[i])
         /\ stream[i].gop = stream[k].gop => stream[i].tr < stream[k].tr
<1>1. stream[i].gop = stream[k].gop => stream[i].tr < stream[k].tr
  BY CodedFacts
<1>2. ~DisplayedBefore(stream[k], stream[i])
  BY <1>1, CodedFacts DEF DisplayedBefore
<1>3. QED
  BY <1>1, <1>2

(* A picture that does not begin a group goes on with the group of the     *)
(* picture in front of it.                                                 *)
LEMMA Continues ==
  ASSUME TypeOK, Coded, rd < Len(stream), stream[rd + 1].code = "pic",
         stream[rd + 1].type # "I"
  PROVE  /\ rd \in 1 .. Len(stream) /\ CodedBefore(stream, rd, rd + 1)
         /\ stream[rd].code = "pic" /\ stream[rd].gop = stream[rd + 1].gop
<1>1. rd \in Nat /\ Len(stream) \in Nat /\ rd + 1 \in 1 .. Len(stream)
  BY StreamFacts
<1>2. InCodingOrder(stream, rd + 1)
  BY <1>1, StreamFacts DEF Coded
<1>3. PICK i \in 1 .. rd :
        CodedBefore(stream, i, rd + 1) /\ stream[i].gop = stream[rd + 1].gop
  BY <1>1, <1>2 DEF InCodingOrder
<1>4. \A h \in i .. rd + 1 : stream[h].code = "pic"
  BY <1>3 DEF CodedBefore
<1>5. rd \in 1 .. Len(stream) /\ i \in 1 .. Len(stream) /\ rd \in i .. rd + 1
  BY <1>1
<1>6. CodedBefore(stream, rd, rd + 1)
  BY <1>1, <1>4, <1>5 DEF CodedBefore
<1>7. stream[rd].gop <= stream[rd + 1].gop
      /\ stream[rd].gop \in Nat /\ stream[rd + 1].gop \in Nat
  BY <1>1, <1>5, <1>6, CodedFacts
<1>8. CASE i = rd
  BY <1>3, <1>4, <1>5, <1>6, <1>8
<1>9. CASE i # rd
  <2>1. CodedBefore(stream, i, rd)
    BY <1>1, <1>4, <1>9 DEF CodedBefore
  <2>2. stream[i].gop <= stream[rd].gop
    BY <1>5, <2>1, CodedFacts
  <2>3. QED
    BY <1>3, <1>4, <1>5, <1>6, <1>7, <2>2
<1>10. QED
  BY <1>8, <1>9

(* The next picture of the stream, and those behind it.                    *)
LEMMA NextToCome ==
  ASSUME TypeOK, rd < Len(stream), stream[rd + 1].code = "pic"
  PROVE  /\ ToCome(rd + 1) /\ rd + 1 \in 1 .. Len(stream)
         /\ \A k \in 1 .. Len(stream) :
              k \in rd + 2 .. Len(stream)
              /\ (\A h \in rd + 2 .. k : stream[h].code = "pic") =>
                ToCome(k) /\ CodedBefore(stream, rd + 1, k)
<1>1. rd \in Nat /\ Len(stream) \in Nat /\ rd + 1 \in 1 .. Len(stream)
  BY StreamFacts
<1>2. ToCome(rd + 1)
  BY <1>1 DEF ToCome
<1>3. ASSUME NEW k \in rd + 2 .. Len(stream),
             \A h \in rd + 2 .. k : stream[h].code = "pic"
      PROVE  ToCome(k) /\ CodedBefore(stream, rd + 1, k)
  <2>1. \A h \in rd + 1 .. k : h = rd + 1 \/ h \in rd + 2 .. k
    BY <1>1
  <2>2. \A h \in rd + 1 .. k : stream[h].code = "pic"
    BY <1>3, <2>1
  <2>3. k \in rd + 1 .. Len(stream) /\ rd + 1 < k
    BY <1>1
  <2>4. QED
    BY <2>2, <2>3 DEF ToCome, CodedBefore
<1>4. QED
  BY <1>1, <1>2, <1>3

(* The pictures of the current sequence are coded before those to come.    *)
LEMMA OpenPlaces ==
  ASSUME TypeOK, Layout, Track, NEW j \in seqheaderpic .. pictures - 1
  PROVE  /\ j \in 0 .. pictures - 1
         /\ PlaceOf(j) \in 1 .. Len(stream) /\ PlaceOf(j) <= rd
         /\ stream[PlaceOf(j)].code = "pic"
         /\ \A k \in 1 .. Len(stream) : ToCome(k) => CodedBefore(stream, PlaceOf(j), k)
<1>1. /\ rd \in Nat /\ Len(stream) \in Nat
      /\ pictures \in Nat /\ seqheaderpic \in Nat
  BY StreamFacts
<1>2. j \in 0 .. pictures - 1
  BY <1>1
<1>3. PlaceOf(j) \in Rest /\ PlaceOf(j) <= rd
  BY <1>2 DEF Track
<1>4. PlaceOf(j) \in 1 .. Len(stream) /\ stream[PlaceOf(j)].code = "pic"
  BY <1>3, RestFacts
<1>5. \A h \in PlaceOf(j) .. rd : stream[h].code = "pic"
  BY DEF Track
<1>6. ASSUME NEW k \in 1 .. Len(stream), ToCome(k)
      PROVE  CodedBefore(stream, PlaceOf(j), k)
  <2>1. k > rd /\ \A h \in rd + 1 .. k : stream[h].code = "pic"
    BY <1>1, <1>6 DEF ToCome
  <2>2. \A h \in PlaceOf(j) .. k : h \in PlaceOf(j) .. rd \/ h \in rd + 1 .. k
    BY <1>1, <1>4
  <2>3. \A h \in PlaceOf(j) .. k : stream[h].code = "pic"
    BY <1>5, <2>1, <2>2
  <2>4. PlaceOf(j) < k
    BY <1>1, <1>3, <1>4, <2>1
  <2>5. QED
    BY <2>3, <2>4 DEF CodedBefore
<1>7. QED
  BY <1>2, <1>3, <1>4, <1>6
-----------------------------------------------------------------------------
(* What a picture finds, and what it leaves.                               *)
LEMMA PictureOrder ==
  ASSUME IInv, Track, Consume, stream[rd + 1].code = "pic", ~waitforfirst,
         pictures' = pictures + 1, seqheaderpic' = seqheaderpic,
         waitforfirst' = waitforfirst
  PROVE  /\ TypeOK /\ Layout /\ rd < Len(stream) /\ pc = "scan"
         /\ pc' \in {"read", "scan"}
         /\ stream' = stream /\ rd' = rd + 1 /\ Track'
         /\ pictures \in Nat /\ seqheaderpic \in Nat /\ seqheaderpic <= pictures
         /\ Code(pictures) = stream[rd + 1]
         /\ \A i : Code(i)' = Code(i)
         /\ \A k \in 1 .. Len(stream) : ToCome(k)' =>
              ToCome(k) /\ CodedBefore(stream, rd + 1, k)
<1>1. /\ TypeOK /\ Layout /\ rd < Len(stream) /\ pc = "scan"
      /\ pc' \in {"read", "scan"} /\ stream' = stream
      /\ pictures \in Nat /\ seqheaderpic \in Nat /\ seqheaderpic <= pictures
  BY ConsumeFacts, ScanFacts
<1>2. rd' = rd + 1
  BY DEF Consume
<1>3. Track'
  BY <1>1, PictureTrack
<1>4. Code(pictures) = stream[rd + 1]
  BY <1>1, NextPlace, CodeIs
<1>5. \A i : Code(i)' = Code(i)
  BY <1>1, PlacesKept
<1>6. ASSUME NEW k \in 1 .. Len(stream), ToCome(k)'
      PROVE  ToCome(k) /\ CodedBefore(stream, rd + 1, k)
  <2>1. (rd + 1) + 1 = rd + 2
    BY <1>1, StreamFacts
  <2>2. k \in rd + 2 .. Len(stream) /\ \A h \in rd + 2 .. k : stream[h].code = "pic"
    BY <1>1, <1>2, <1>6, <2>1 DEF ToCome
  <2>3. QED
    BY <1>1, <2>2, NextToCome
<1>7. QED
  BY <1>1, <1>2, <1>3, <1>4, <1>5, <1>6

(* A picture of the current sequence and the one that is read.             *)
LEMMA OpenBehind ==
  ASSUME TypeOK, Layout, Track, Coded, rd < Len(stream), stream[rd + 1].code = "pic",
         NEW j \in seqheaderpic .. pictures - 1
  PROVE  /\ j \in 0 .. pictures - 1
         /\ Code(j).tr \in Nat /\ stream[rd + 1].tr \in Nat
         /\ Code(j).gop \in Nat /\ stream[rd + 1].gop \in Nat
         /\ Code(j).gop <= stream[rd + 1].gop
         /\ Code(j).gop = stream[rd + 1].gop => Code(j).tr # stream[rd + 1].tr
         /\ Code(j).type = "B" \/ stream[rd + 1].type # "B" =>
              /\ ~DisplayedBefore(stream[rd + 1], Code(j))
              /\ Code(j).gop = stream[rd + 1].gop => Code(j).tr < stream[rd + 1].tr
<1>1. ToCome(rd + 1) /\ rd + 1 \in 1 .. Len(stream)
  BY NextToCome
<1>2. /\ j \in 0 .. pictures - 1 /\ PlaceOf(j) \in 1 .. Len(stream)
      /\ CodedBefore(stream, PlaceOf(j), rd + 1)
  BY <1>1, OpenPlaces
<1>3. Code(j) = stream[PlaceOf(j)]
  BY CodeIs
<1>4. QED
  BY <1>1, <1>2, <1>3, CodedFacts, Behind

LEMMA BPictureOrder == IInv /\ OrderInv /\ Coded /\ BPicture => OrderInv'
<1> SUFFICES ASSUME IInv, OrderInv, Coded, BPicture PROVE OrderInv'
  OBVIOUS
<1> DEFINE new == stream[rd + 1]
           D   == last_non_b_pic
<1>1. /\ Consume /\ new.code = "pic" /\ new.type = "B" /\ ~waitforfirst
      /\ maxseqnr' = IF DelayedGoesFirst(new.tr) THEN maxseqnr + 2 ELSE maxseqnr + 1
      /\ last_non_b_pic' = IF DelayedGoesFirst(new.tr) THEN NoPic ELSE D
      /\ last_seqnr' = new.tr
      /\ pictures' = pictures + 1
      /\ UNCHANGED <<seqheaderpic, waitforfirst, last_non_b_seqnr>>
  BY DEF BPicture
<1>2. pc = "scan"
  BY <1>1, ConsumeFacts DEF IInv
<1>3. Track /\ ClosedInOrder /\ OpenInOrder /\ Waiting /\ Passed
  BY <1>2 DEF OrderInv
<1>4. /\ TypeOK /\ Layout /\ rd < Len(stream) /\ pc = "scan"
      /\ pc' \in {"read", "scan"} /\ stream' = stream /\ rd' = rd + 1 /\ Track'
      /\ pictures \in Nat /\ seqheaderpic \in Nat /\ seqheaderpic <= pictures
      /\ Code(pictures) = new /\ \A i : Code(i)' = Code(i)
      /\ \A k \in 1 .. Len(stream) : ToCome(k)' =>
           ToCome(k) /\ CodedBefore(stream, rd + 1, k)
  BY <1>1, <1>3, PictureOrder
<1>5. rd \in 1 .. Len(stream) /\ stream[rd].code = "pic" /\ stream[rd].gop = new.gop
  BY <1>1, <1>4, Continues
<1>6. seqheaderpic < pictures
  BY <1>1, <1>3, <1>4, <1>5 DEF Track
<1>7. /\ ToCome(rd + 1) /\ rd + 1 \in 1 .. Len(stream)
      /\ last_seqnr < new.tr
      /\ \A j \in Ranked : ~DisplayedBefore(new, Code(j))
  BY <1>1, <1>3, <1>4, <1>5, <1>6, NextToCome DEF Passed
<1>8. /\ last_seqnr \in Int /\ new.tr \in Nat /\ new.gop \in Nat
      /\ maxseqnr \in Int /\ maxseqnr + 1 \in Nat /\ SeqNrs \in Nat
  BY <1>4, <1>7, <1>1, StreamFacts, SeqNrsAssumption DEF TypeOK
<1>9. D # NoPic =>
        /\ D \in seqheaderpic .. pictures - 1 /\ D \in 0 .. pictures - 1
        /\ last_non_b_seqnr = Code(D).tr /\ last_seqnr < Code(D).tr
        /\ Code(D).gop = new.gop /\ Code(D).tr \in Nat
        /\ Code(D).tr # new.tr
        /\ \A j \in Ranked : ~DisplayedBefore(Code(D), Code(j))
  <2> SUFFICES ASSUME D # NoPic
               PROVE  /\ D \in seqheaderpic .. pictures - 1 /\ D \in 0 .. pictures - 1
                      /\ last_non_b_seqnr = Code(D).tr /\ last_seqnr < Code(D).tr
                      /\ Code(D).gop = new.gop /\ Code(D).tr \in Nat
                      /\ Code(D).tr # new.tr
                      /\ \A j \in Ranked : ~DisplayedBefore(Code(D), Code(j))
    OBVIOUS
  <2>1. D \in seqheaderpic .. pictures - 1
    BY <1>4 DEF Layout
  <2>2. /\ last_non_b_seqnr = Code(D).tr /\ last_seqnr < Code(D).tr
        /\ Code(D).gop = new.gop
        /\ \A j \in Ranked : ~DisplayedBefore(Code(D), Code(j))
    BY <1>3, <1>5 DEF Waiting
  <2>3. D \in 0 .. pictures - 1 /\ Code(D).tr \in Nat /\ Code(D).tr # new.tr
    BY <1>1, <1>3, <1>4, <2>1, <2>2, OpenBehind
  <2>4. QED
    BY <2>1, <2>2, <2>3
<1>10. DelayedGoesFirst(new.tr) <=> D # NoPic /\ Code(D).tr < new.tr
  BY <1>7, <1>8, <1>9 DEF DelayedGoesFirst
<1>11. /\ p' \in [0 .. pictures -> Picture]
       /\ p'[pictures].seqnr = maxseqnr' % SeqNrs
       /\ \A i \in 0 .. pictures - 1 :
            last_non_b_pic' = D \/ i # D => p'[i] = p[i]
       /\ last_non_b_pic' # D => p'[D].seqnr = (maxseqnr + 1) % SeqNrs
  BY BPictureTable
<1> HIDE DEF new, D
<1>12. \A j \in Ranked : j \in 0 .. pictures - 1 /\ j # D
  BY <1>4 DEF Ranked, D
<1>13. \A j \in Ranked : p'[j] = p[j]
  BY <1>11, <1>12
<1>14. ~DisplayedBefore(new, new)
  BY <1>8 DEF DisplayedBefore
<1>15. Ranked' = IF DelayedGoesFirst(new.tr) THEN Ranked \cup {D, pictures}
                                             ELSE Ranked \cup {pictures}
  <2>1. Ranked' = {i \in seqheaderpic .. pictures : i # last_non_b_pic'}
    BY <1>1, <1>4 DEF Ranked
  <2>2. CASE DelayedGoesFirst(new.tr)
    <3>1. last_non_b_pic' = NoPic /\ D \in seqheaderpic .. pictures - 1
      BY <1>1, <1>9, <1>10, <2>2 DEF D
    <3>2. seqheaderpic .. pictures = (seqheaderpic .. pictures - 1) \cup {pictures}
      BY <1>4
    <3>3. Ranked' = (seqheaderpic .. pictures - 1) \cup {pictures}
      BY <1>4, <2>1, <3>1, <3>2 DEF NoPic
    <3>4. seqheaderpic .. pictures - 1 = Ranked \cup {D}
      BY <3>1 DEF Ranked, D
    <3>5. QED
      BY <2>2, <3>3, <3>4
  <2>3. CASE ~DelayedGoesFirst(new.tr)
    <3>1. last_non_b_pic' = D /\ D # pictures
      BY <1>1, <1>4, <1>9, <2>3 DEF D, NoPic
    <3>2. QED
      BY <1>4, <2>1, <2>3, <3>1 DEF Ranked, D
  <2>4. QED
    BY <2>2, <2>3
<1>16. OpenInOrder'
  <2> SUFFICES ASSUME pictures' - seqheaderpic' <= SeqNrs
               PROVE  OrderedIn(p', Ranked')
    BY <1>4 DEF OpenInOrder, OrderedIn
  <2>1. IInv' /\ pc' # "cancelled"
    BY <1>4, BPictureIInv
  <2>2. Layout'
    BY <2>1 DEF IInv
  <2>3. /\ OrderedIn(p, Ranked)
        /\ \A i \in Ranked : p[i].seqnr <= maxseqnr
    <3>1. pictures - seqheaderpic <= SeqNrs
      BY <1>1, <1>4, <1>8
    <3>2. OpenRanks
      BY <1>2 DEF IInv
    <3>3. QED
      BY <1>3, <3>1, <3>2 DEF OpenInOrder, OpenRanks
  <2>4. maxseqnr' \in Nat /\ maxseqnr' < SeqNrs /\ maxseqnr + 1 <= maxseqnr'
    <3>1. maxseqnr' \in Nat /\ maxseqnr + 1 <= maxseqnr'
      BY <1>1, <1>8
    <3>2. PICK m \in Nat, d \in Nat : m = maxseqnr' /\ d = Delayed'
      BY <3>1 DEF Delayed
    <3>3. seqheaderpic + m + 1 + d = pictures + 1
      BY <1>1, <2>2, <3>2 DEF Layout
    <3>4. (pictures + 1) - seqheaderpic <= SeqNrs
      <4>1. pictures' = pictures + 1 /\ seqheaderpic' = seqheaderpic
        BY <1>1
      <4>2. QED
        BY <4>1
    <3>5. m < SeqNrs
      BY <1>4, <1>8, <3>3, <3>4
    <3>6. QED
      BY <3>1, <3>2, <3>5
  <2>5. p'[pictures].seqnr = maxseqnr'
    BY <1>11, <2>4, RankFits
  <2>6. \A j \in Ranked : p[j].seqnr \in Nat /\ p[j].seqnr < maxseqnr + 1
    <3>1. \A j \in Ranked : p[j].seqnr \in Nat
      BY <1>4, <1>12 DEF TypeOK, Picture
    <3>2. QED
      BY <1>8, <2>3, <3>1
  <2>7. CASE DelayedGoesFirst(new.tr)
    <3>1. D # NoPic /\ Code(D).tr < new.tr /\ last_non_b_pic' # D
          /\ maxseqnr' = maxseqnr + 2
      BY <1>1, <1>10, <2>7 DEF D
    <3>2. p'[D].seqnr = maxseqnr + 1
      BY <1>8, <1>11, <2>4, <3>1, RankFits
    <3>3. ~DisplayedBefore(Code(D), Code(D))
      BY <1>3, <1>4, <1>9, <3>1, NotBeforeItself
    <3>4. OrderedIn(p', Ranked \cup {D})
      BY <1>9, <1>13, <2>3, <2>6, <3>1, <3>2, <3>3, AddOrdered
    <3>5. ~DisplayedBefore(new, Code(D))
      BY <1>8, <1>9, <3>1 DEF DisplayedBefore
    <3>6. p'[D].seqnr < maxseqnr' /\ \A j \in Ranked : p'[j].seqnr < maxseqnr'
      BY <1>8, <1>13, <2>6, <3>1, <3>2
    <3>7. \A j \in Ranked \cup {D} :
            p'[j].seqnr < p'[pictures].seqnr /\ ~DisplayedBefore(Code(pictures), Code(j))
      BY <1>4, <1>7, <2>5, <3>5, <3>6
    <3>8. OrderedIn(p', (Ranked \cup {D}) \cup {pictures})
      BY <1>4, <1>14, <3>4, <3>7, AddOrdered
    <3>9. (Ranked \cup {D}) \cup {pictures} = Ranked'
      BY <1>15, <2>7
    <3>10. QED
      BY <3>8, <3>9
  <2>8. CASE ~DelayedGoesFirst(new.tr)
    <3>1. maxseqnr' = maxseqnr + 1
      BY <1>1, <2>8
    <3>2. \A j \in Ranked : /\ p[j].seqnr < p'[pictures].seqnr
                           /\ ~DisplayedBefore(Code(pictures), Code(j))
      BY <1>4, <1>7, <2>5, <2>6, <3>1
    <3>3. OrderedIn(p', Ranked \cup {pictures})
      BY <1>4, <1>13, <1>14, <2>3, <3>2, AddOrdered
    <3>4. QED
      BY <1>15, <2>8, <3>3
  <2>9. QED
    BY <2>7, <2>8
<1>17. Waiting'
  <2> SUFFICES ASSUME last_non_b_pic' # NoPic
               PROVE  /\ last_non_b_seqnr = Code(last_non_b_pic').tr
                      /\ new.tr < last_non_b_seqnr
                      /\ Code(last_non_b_pic').gop = new.gop
                      /\ \A j \in Ranked' : ~DisplayedBefore(Code(last_non_b_pic'), Code(j))
    BY <1>1, <1>4 DEF Waiting, new
  <2>1. ~DelayedGoesFirst(new.tr) /\ last_non_b_pic' = D /\ D # NoPic
    BY <1>1 DEF D
  <2>2. new.tr < Code(D).tr
    BY <1>8, <1>9, <1>10, <2>1
  <2>3. ~DisplayedBefore(Code(D), new)
    BY <1>8, <1>9, <2>1, <2>2 DEF DisplayedBefore
  <2>4. \A j \in Ranked' : ~DisplayedBefore(Code(D), Code(j))
    BY <1>4, <1>9, <1>15, <2>1, <2>3
  <2>5. QED
    BY <1>9, <2>1, <2>2, <2>4
<1>18. Passed'
  <2> SUFFICES ASSUME NEW k \in 1 .. Len(stream), ToCome(k)'
               PROVE  /\ stream[k].gop = new.gop => new.tr < stream[k].tr
                      /\ \A j \in Ranked' : ~DisplayedBefore(stream[k], Code(j))
    BY <1>1, <1>4 DEF Passed, new
  <2>1. ToCome(k) /\ CodedBefore(stream, rd + 1, k)
    BY <1>4
  <2>2. /\ ~DisplayedBefore(stream[k], new)
        /\ stream[k].gop = new.gop => new.tr < stream[k].tr
    BY <1>1, <1>4, <1>7, <2>1, Behind DEF new
  <2>3. \A j \in Ranked : ~DisplayedBefore(stream[k], Code(j))
    BY <1>3, <2>1 DEF Passed
  <2>4. stream[k].gop \in Nat /\ stream[k].tr \in Nat /\ new.gop <= stream[k].gop
    BY <1>4, <1>7, <2>1, CodedFacts DEF new
  <2>5. DelayedGoesFirst(new.tr) => ~DisplayedBefore(stream[k], Code(D))
    BY <1>8, <1>9, <1>10, <2>2, <2>4 DEF DisplayedBefore
  <2>6. QED
    BY <1>4, <1>15, <2>2, <2>3, <2>5
<1>19. ClosedInOrder'
  <2>1. \A i \in 0 .. seqheaderpic - 1 : p'[i] = p[i]
    BY <1>4, <1>9, <1>11 DEF NoPic
  <2>2. pictures' \in Nat /\ pictures' >= pictures
    BY <1>1, <1>4
  <2>3. QED
    BY <1>1, <1>3, <1>4, <2>1, <2>2, ClosedOrderKept
<1>20. QED
  BY <1>4, <1>16, <1>17, <1>18, <1>19 DEF OrderInv

LEMMA ReferencePictureOrder == IInv /\ OrderInv /\ Coded /\ ReferencePicture => OrderInv'
<1> SUFFICES ASSUME IInv, OrderInv, Coded, ReferencePicture PROVE OrderInv'
  OBVIOUS
<1> DEFINE new == stream[rd + 1]
           D   == last_non_b_pic
<1>1. /\ Consume /\ new.code = "pic" /\ new.type # "B" /\ ~waitforfirst
      /\ maxseqnr' = IF D = NoPic THEN maxseqnr ELSE maxseqnr + 1
      /\ last_non_b_pic' = pictures
      /\ last_non_b_seqnr' = new.tr
      /\ last_seqnr' = IF new.type = "I" THEN -1
                       ELSE IF D # NoPic THEN last_non_b_seqnr
                       ELSE last_seqnr
      /\ pictures' = pictures + 1
      /\ UNCHANGED <<seqheaderpic, waitforfirst>>
  BY DEF ReferencePicture, NextRank
<1>2. pc = "scan"
  BY <1>1, ConsumeFacts DEF IInv
<1>3. Track /\ ClosedInOrder /\ OpenInOrder /\ Waiting /\ Passed
  BY <1>2 DEF OrderInv
<1>4. /\ TypeOK /\ Layout /\ rd < Len(stream) /\ pc = "scan"
      /\ pc' \in {"read", "scan"} /\ stream' = stream /\ rd' = rd + 1 /\ Track'
      /\ pictures \in Nat /\ seqheaderpic \in Nat /\ seqheaderpic <= pictures
      /\ Code(pictures) = new /\ \A i : Code(i)' = Code(i)
      /\ \A k \in 1 .. Len(stream) : ToCome(k)' =>
           ToCome(k) /\ CodedBefore(stream, rd + 1, k)
  BY <1>1, <1>3, PictureOrder
<1>5. new.type # "I" =>
        /\ rd \in 1 .. Len(stream) /\ stream[rd].code = "pic" /\ stream[rd].gop = new.gop
        /\ seqheaderpic < pictures
  <2> SUFFICES ASSUME new.type # "I"
               PROVE  /\ rd \in 1 .. Len(stream) /\ stream[rd].code = "pic"
                      /\ stream[rd].gop = new.gop /\ seqheaderpic < pictures
    OBVIOUS
  <2>1. rd \in 1 .. Len(stream) /\ stream[rd].code = "pic" /\ stream[rd].gop = new.gop
    BY <1>1, <1>4, Continues
  <2>2. QED
    BY <1>1, <1>3, <1>4, <2>1 DEF Track
<1>6. /\ ToCome(rd + 1) /\ rd + 1 \in 1 .. Len(stream)
      /\ new.type # "I" => last_seqnr < new.tr
      /\ \A j \in Ranked : ~DisplayedBefore(new, Code(j))
  BY <1>1, <1>3, <1>4, <1>5, NextToCome DEF Passed
<1>7. /\ last_seqnr \in Int /\ new.tr \in Nat /\ new.gop \in Nat
      /\ maxseqnr \in Int /\ maxseqnr + 1 \in Nat /\ SeqNrs \in Nat
  BY <1>4, <1>6, <1>1, StreamFacts, SeqNrsAssumption DEF TypeOK
<1>8. D # NoPic =>
        /\ D \in seqheaderpic .. pictures - 1 /\ D \in 0 .. pictures - 1
        /\ last_non_b_seqnr = Code(D).tr /\ Code(D).tr \in Nat
        /\ new.type # "I" => Code(D).gop = new.gop
        /\ Code(D).gop = new.gop => Code(D).tr < new.tr
        /\ ~DisplayedBefore(new, Code(D))
        /\ \A j \in Ranked : ~DisplayedBefore(Code(D), Code(j))
  <2> SUFFICES ASSUME D # NoPic
               PROVE  /\ D \in seqheaderpic .. pictures - 1 /\ D \in 0 .. pictures - 1
                      /\ last_non_b_seqnr = Code(D).tr /\ Code(D).tr \in Nat
                      /\ new.type # "I" => Code(D).gop = new.gop
                      /\ Code(D).gop = new.gop => Code(D).tr < new.tr
                      /\ ~DisplayedBefore(new, Code(D))
                      /\ \A j \in Ranked : ~DisplayedBefore(Code(D), Code(j))
    OBVIOUS
  <2>1. D \in seqheaderpic .. pictures - 1
    BY <1>4 DEF Layout
  <2>2. /\ last_non_b_seqnr = Code(D).tr
        /\ new.type # "I" => Code(D).gop = new.gop
        /\ \A j \in Ranked : ~DisplayedBefore(Code(D), Code(j))
    BY <1>3, <1>5 DEF Waiting
  <2>3. /\ D \in 0 .. pictures - 1 /\ Code(D).tr \in Nat
        /\ Code(D).gop = new.gop => Code(D).tr < new.tr
        /\ ~DisplayedBefore(new, Code(D))
    BY <1>1, <1>3, <1>4, <2>1, OpenBehind
  <2>4. QED
    BY <2>1, <2>2, <2>3
<1>9. /\ p' \in [0 .. pictures -> Picture]
      /\ \A i \in 0 .. pictures - 1 : i # D => p'[i] = p[i]
      /\ D # NoPic => p'[D].seqnr = (maxseqnr + 1) % SeqNrs
  BY ReferencePictureTable
<1> HIDE DEF new, D
<1>10. \A j \in Ranked : j \in 0 .. pictures - 1 /\ j # D
  BY <1>4 DEF Ranked, D
<1>11. \A j \in Ranked : p'[j] = p[j]
  BY <1>9, <1>10
<1>12. Ranked' = IF D = NoPic THEN Ranked ELSE Ranked \cup {D}
  <2>1. Ranked' = seqheaderpic .. pictures - 1
    <3>1. Ranked' = {i \in seqheaderpic .. (pictures + 1) - 1 : i # pictures}
      BY <1>1 DEF Ranked
    <3>2. ASSUME NEW i
          PROVE  i \in Ranked' <=> i \in seqheaderpic .. pictures - 1
      BY <1>4, <3>1
    <3>3. QED
      BY <3>2, <3>1
  <2>2. CASE D = NoPic
    <3>1. \A i \in seqheaderpic .. pictures - 1 : i # NoPic
      BY <1>4 DEF NoPic
    <3>2. QED
      BY <2>1, <2>2, <3>1 DEF Ranked, D
  <2>3. CASE D # NoPic
    BY <1>8, <2>1, <2>3 DEF Ranked, D
  <2>4. QED
    BY <2>2, <2>3
<1>13. OpenInOrder'
  <2> SUFFICES ASSUME pictures' - seqheaderpic' <= SeqNrs
               PROVE  OrderedIn(p', Ranked')
    BY <1>4 DEF OpenInOrder, OrderedIn
  <2>0. pictures' = pictures + 1 /\ seqheaderpic' = seqheaderpic
    BY <1>1
  <2>1. /\ OrderedIn(p, Ranked)
        /\ \A i \in Ranked : p[i].seqnr <= maxseqnr
    <3>1. pictures - seqheaderpic <= SeqNrs
      BY <2>0, <1>4, <1>7
    <3>2. OpenRanks
      BY <1>2 DEF IInv
    <3>3. QED
      BY <1>3, <3>1, <3>2 DEF OpenInOrder, OpenRanks
  <2>2. CASE D = NoPic
    BY <1>11, <1>12, <2>1, <2>2, KeepOrdered
  <2>3. CASE D # NoPic
    <3>1. maxseqnr + 1 < SeqNrs
      <4>1. seqheaderpic + maxseqnr + 1 + 1 = pictures
        BY <1>4, <1>7, <2>3 DEF Layout, Delayed, D
      <4>2. QED
        BY <1>4, <1>7, <2>0, <4>1
    <3>2. p'[D].seqnr = maxseqnr + 1
      BY <1>7, <1>9, <2>3, <3>1, RankFits
    <3>3. \A j \in Ranked : p[j].seqnr \in Nat
      BY <1>4, <1>10 DEF TypeOK, Picture
    <3>4. \A j \in Ranked : p[j].seqnr < p'[D].seqnr
      BY <1>7, <2>1, <3>2, <3>3
    <3>5. ~DisplayedBefore(Code(D), Code(D))
      BY <1>3, <1>4, <1>8, <2>3, NotBeforeItself
    <3>6. OrderedIn(p', Ranked \cup {D})
      BY <1>8, <1>11, <2>1, <2>3, <3>4, <3>5, AddOrdered
    <3>7. QED
      BY <1>12, <2>3, <3>6
  <2>4. QED
    BY <2>2, <2>3
<1>14. Waiting'
  <2> SUFFICES /\ last_seqnr' < new.tr
               /\ \A j \in Ranked' : ~DisplayedBefore(new, Code(j))
    BY <1>1, <1>4 DEF Waiting, new
  <2>1. last_seqnr' < new.tr
    <3>1. CASE new.type = "I"
      BY <1>1, <1>7, <3>1
    <3>2. CASE new.type # "I" /\ D # NoPic
      <4>1. last_seqnr' = Code(D).tr
        BY <1>1, <1>8, <3>2
      <4>2. QED
        BY <1>8, <3>2, <4>1
    <3>3. CASE new.type # "I" /\ D = NoPic
      BY <1>1, <1>6, <3>3
    <3>4. QED
      BY <3>1, <3>2, <3>3
  <2>2. QED
    BY <1>6, <1>8, <1>12, <2>1
<1>15. Passed'
  <2> SUFFICES ASSUME NEW k \in 1 .. Len(stream), ToCome(k)'
               PROVE  /\ stream[k].gop = new.gop => last_seqnr' < stream[k].tr
                      /\ \A j \in Ranked' : ~DisplayedBefore(stream[k], Code(j))
    BY <1>1, <1>4 DEF Passed, new
  <2>1. ToCome(k) /\ CodedBefore(stream, rd + 1, k)
    BY <1>4
  <2>2. stream[k].tr \in Nat
    BY <1>4, <1>6, <2>1, CodedFacts
  <2>3. \A j \in Ranked : ~DisplayedBefore(stream[k], Code(j))
    BY <1>3, <2>1 DEF Passed
  <2>4. D # NoPic =>
          /\ ~DisplayedBefore(stream[k], Code(D))
          /\ Code(D).gop = stream[k].gop => Code(D).tr < stream[k].tr
    <3> SUFFICES ASSUME D # NoPic
                 PROVE  /\ ~DisplayedBefore(stream[k], Code(D))
                        /\ Code(D).gop = stream[k].gop => Code(D).tr < stream[k].tr
      OBVIOUS
    <3>1. /\ PlaceOf(D) \in 1 .. Len(stream) /\ PlaceOf(D) <= rd
          /\ CodedBefore(stream, PlaceOf(D), k) /\ Code(D) = stream[PlaceOf(D)]
      BY <1>3, <1>4, <1>8, <2>1, OpenPlaces, CodeIs
    <3>2. rd + 1 \in PlaceOf(D) + 1 .. k - 1
      BY <1>4, <1>6, <2>1, <3>1, StreamFacts DEF CodedBefore
    <3>3. QED
      BY <1>1, <1>4, <3>1, <3>2, Behind DEF new
  <2>5. \A j \in Ranked' : ~DisplayedBefore(stream[k], Code(j))
    BY <1>12, <2>3, <2>4
  <2>6. ASSUME stream[k].gop = new.gop
        PROVE  last_seqnr' < stream[k].tr
    <3>1. CASE new.type = "I"
      BY <1>1, <2>2, <3>1
    <3>2. CASE new.type # "I" /\ D # NoPic
      <4>1. last_seqnr' = Code(D).tr /\ Code(D).gop = new.gop
        BY <1>1, <1>8, <3>2
      <4>2. QED
        BY <2>4, <2>6, <3>2, <4>1
    <3>3. CASE new.type # "I" /\ D = NoPic
      <4>1. last_seqnr' = last_seqnr
        BY <1>1, <3>3
      <4>2. stream[k].gop = stream[rd].gop /\ seqheaderpic < pictures
        BY <1>5, <2>6, <3>3
      <4>3. QED
        BY <1>3, <2>1, <4>1, <4>2 DEF Passed
    <3>4. QED
      BY <3>1, <3>2, <3>3
  <2>7. QED
    BY <2>5, <2>6
<1>16. ClosedInOrder'
  <2>1. \A i \in 0 .. seqheaderpic - 1 : p'[i] = p[i]
    BY <1>4, <1>8, <1>9 DEF NoPic
  <2>2. pictures' \in Nat /\ pictures' >= pictures
    BY <1>1, <1>4
  <2>3. QED
    BY <1>1, <1>3, <1>4, <2>1, <2>2, ClosedOrderKept
<1>17. QED
  BY <1>4, <1>13, <1>14, <1>15, <1>16 DEF OrderInv
-----------------------------------------------------------------------------
LEMMA InitOrder == Init => OrderInv
<1> SUFFICES ASSUME Init PROVE OrderInv
  OBVIOUS
<1>1. Track
  BY InitTrack
<1>2. /\ pictures = 0 /\ seqheaderpic = 0 /\ last_non_b_pic = NoPic
  BY DEF Init
<1>3. Ranked = {} /\ \A b, e \in 0 .. pictures : ~IsSequence(b, e)
  BY <1>2 DEF Ranked, IsSequence
<1>4. ClosedInOrder /\ OpenInOrder /\ Waiting /\ Passed
  BY <1>2, <1>3 DEF ClosedInOrder, OpenInOrder, OrderedIn, Waiting, Passed
<1>5. QED
  BY <1>1, <1>4 DEF OrderInv

LEMMA SequenceHeaderOrder == IInv /\ OrderInv /\ SequenceHeader => OrderInv'
<1> SUFFICES ASSUME IInv, OrderInv, SequenceHeader PROVE OrderInv'
  OBVIOUS
<1>1. /\ Consume /\ p' = FlushDelayed /\ pictures' = pictures
      /\ last_non_b_pic' = NoPic /\ seqheaderpic' = pictures
  BY DEF SequenceHeader
<1>2. /\ TypeOK /\ pc = "scan" /\ stream' = stream /\ pictures \in Nat
      /\ Layout /\ OpenRanks
  BY <1>1, ConsumeFacts DEF IInv, TypeOK
<1>3. Track /\ ClosedInOrder /\ OpenInOrder /\ Waiting
  BY <1>2 DEF OrderInv
<1>4. Track'
  BY <1>2, <1>3, SequenceHeaderTrack
<1>5. ClosedInOrder'
  BY <1>1, <1>2, <1>3, OpenOrderCloses
<1>6. Ranked' = {} /\ ~(seqheaderpic' < pictures')
  BY <1>1, <1>2 DEF Ranked
<1>7. OpenInOrder' /\ Waiting' /\ Passed'
  BY <1>1, <1>6 DEF OpenInOrder, OrderedIn, Waiting, Passed
<1>8. QED
  BY <1>4, <1>5, <1>7 DEF OrderInv

(* Steps that leave the table alone.                                       *)
LEMMA OrderKept ==
  ASSUME OrderInv, pc # "cancelled", pc # "done", pc' # "done",
         UNCHANGED <<stream, rd, genvars>>
  PROVE  OrderInv'
<1>1. UNCHANGED <<p, pictures, seqheaderpic, waitforfirst, last_non_b_pic,
                  last_non_b_seqnr, last_seqnr>>
  BY DEF genvars
<1>2. Track /\ ClosedInOrder /\ OpenInOrder /\ Waiting /\ Passed
  BY DEF OrderInv
<1>3. \A i : Code(i)' = Code(i)
  BY PlacesKept
<1>4. Track'
  BY <1>1, <1>2, TrackKept
<1>5. Ranked' = Ranked /\ \A k : ToCome(k)' <=> ToCome(k)
  BY <1>1 DEF Ranked, ToCome
<1>6. \A b, e : IsSequence(b, e)' => IsSequence(b, e)
  BY <1>1 DEF IsSequence
<1>7. ClosedInOrder' /\ OpenInOrder'
  BY <1>1, <1>2, <1>3, <1>5, <1>6 DEF ClosedInOrder, OpenInOrder, OrderedIn
<1>8. Waiting' /\ Passed'
  BY <1>1, <1>2, <1>3, <1>5 DEF Waiting, Passed
<1>9. QED
  BY <1>4, <1>7, <1>8 DEF OrderInv

LEMMA PictureIgnoredOrder == IInv /\ OrderInv /\ PictureIgnored => OrderInv'
<1> SUFFICES ASSUME IInv, OrderInv, PictureIgnored PROVE OrderInv'
  OBVIOUS
<1>1. /\ Consume /\ waitforfirst /\ UNCHANGED genvars
  BY DEF PictureIgnored
<1>2. /\ TypeOK /\ pc = "scan" /\ stream' = stream /\ Layout
  BY <1>1, ConsumeFacts DEF IInv
<1>3. Track
  BY <1>2 DEF OrderInv
<1>4. pictures = 0 /\ pictures' = 0 /\ seqheaderpic = 0 /\ seqheaderpic' = 0
      /\ last_non_b_pic = NoPic /\ last_non_b_pic' = NoPic
  <2>1. /\ pictures = 0 /\ seqheaderpic <= pictures /\ seqheaderpic \in Nat
        /\ last_non_b_pic # NoPic => last_non_b_pic \in seqheaderpic .. pictures - 1
    BY <1>1, <1>2 DEF Layout, TypeOK
  <2>2. QED
    BY <1>1, <2>1 DEF genvars
<1>5. Track'
  BY <1>2, <1>3, <1>4, PictureIgnoredTrack
<1>6. Ranked' = {} /\ \A b, e \in 0 .. pictures' : ~IsSequence(b, e)'
  BY <1>4 DEF Ranked, IsSequence
<1>7. ClosedInOrder' /\ OpenInOrder' /\ Waiting' /\ Passed'
  BY <1>4, <1>6 DEF ClosedInOrder, OpenInOrder, OrderedIn, Waiting, Passed
<1>8. QED
  BY <1>5, <1>7 DEF OrderInv

LEMMA FinishOrder == IInv /\ OrderInv /\ Finish => OrderInv'
<1> SUFFICES ASSUME IInv, OrderInv, Finish PROVE OrderInv'
  OBVIOUS
<1>1. /\ pc = "read" /\ pc' = "done" /\ p' = FlushDelayed
      /\ UNCHANGED <<stream, rd, pictures, seqheaderpic, waitforfirst>>
  BY DEF Finish
<1>2. TypeOK /\ Layout /\ OpenRanks
  BY <1>1 DEF IInv
<1>3. Track /\ ClosedInOrder /\ OpenInOrder /\ Waiting
  BY <1>1 DEF OrderInv
<1>4. Track'
  BY <1>1, <1>3, TrackKept
<1>5. ClosedInOrder'
  BY <1>1, <1>2, <1>3, OpenOrderCloses
<1>6. QED
  BY <1>1, <1>4, <1>5 DEF OrderInv

LEMMA StepOrder == IInv /\ OrderInv /\ Coded /\ [Next]_vars => OrderInv'
<1> SUFFICES ASSUME IInv, OrderInv, Coded, [Next]_vars PROVE OrderInv'
  OBVIOUS
<1>1. CASE ReadChunk
  BY <1>1, OrderKept DEF ReadChunk
<1>2. CASE Cancel
  BY <1>2 DEF Cancel, OrderInv
<1>3. CASE Crash
  <2>1. /\ pc # "cancelled" /\ pc # "done" /\ pc' # "done"
        /\ UNCHANGED <<stream, rd, genvars>>
    BY <1>3 DEF Crash
  <2>2. QED
    BY <2>1, OrderKept
<1>4. CASE SequenceHeader
  BY <1>4, SequenceHeaderOrder
<1>5. CASE PictureIgnored
  BY <1>5, PictureIgnoredOrder
<1>6. CASE BPicture
  BY <1>6, BPictureOrder
<1>7. CASE ReferencePicture
  BY <1>7, ReferencePictureOrder
<1>8. CASE Finish
  BY <1>8, FinishOrder
<1>9. CASE UNCHANGED vars
  <2>1. pc' = pc /\ UNCHANGED <<stream, rd, genvars>>
    BY <1>9 DEF vars
  <2>2. CASE pc = "cancelled"
    BY <2>1, <2>2 DEF OrderInv
  <2>3. CASE pc = "done"
    <3>1. UNCHANGED <<p, pictures, seqheaderpic, waitforfirst>>
      BY <2>1 DEF genvars
    <3>2. Track /\ ClosedInOrder
      BY <2>3 DEF OrderInv
    <3>3. Track' /\ \A i : Code(i)' = Code(i)
      BY <2>1, <3>1, <3>2, TrackKept, PlacesKept
    <3>4. ClosedInOrder'
      BY <2>1, <3>1, <3>2, <3>3 DEF ClosedInOrder, OrderedIn, IsSequence
    <3>5. QED
      BY <2>1, <2>3, <3>3, <3>4 DEF OrderInv
  <2>4. QED
    BY <2>1, <2>2, <2>3, OrderKept
<1>10. QED
  BY <1>1, <1>2, <1>3, <1>4, <1>5, <1>6, <1>7, <1>8, <1>9 DEF Next

(* The places of the pictures do not depend on the order of the stream.    *)
TrackInv == pc # "cancelled" => Track

LEMMA StepTrack == IInv /\ TrackInv /\ [Next]_vars => TrackInv'
<1> SUFFICES ASSUME IInv, TrackInv, [Next]_vars, pc' # "cancelled" PROVE Track'
  BY DEF TrackInv
<1>1. ASSUME UNCHANGED <<stream, rd, pictures, seqheaderpic, waitforfirst>>,
             pc # "cancelled"
      PROVE  Track'
  BY <1>1, TrackKept DEF TrackInv
<1>2. ASSUME Consume
      PROVE  TypeOK /\ Layout /\ Track
  BY <1>2, ConsumeFacts DEF IInv, TrackInv
<1>3. CASE ReadChunk
  BY <1>1, <1>3 DEF ReadChunk, genvars
<1>4. CASE Cancel
  BY <1>4 DEF Cancel
<1>5. CASE Crash
  BY <1>1, <1>5 DEF Crash, genvars
<1>6. CASE SequenceHeader
  <2>1. Consume
    BY <1>6 DEF SequenceHeader
  <2>2. QED
    BY <1>2, <1>6, <2>1, SequenceHeaderTrack
<1>7. CASE PictureIgnored
  <2>1. Consume /\ waitforfirst
    BY <1>7 DEF PictureIgnored
  <2>2. pictures = 0
    BY <1>2, <2>1 DEF Layout
  <2>3. QED
    BY <1>2, <1>7, <2>1, <2>2, PictureIgnoredTrack
<1>8. CASE BPicture
  <2>1. /\ Consume /\ stream[rd + 1].code = "pic" /\ ~waitforfirst
        /\ pictures' = pictures + 1 /\ seqheaderpic' = seqheaderpic
        /\ waitforfirst' = waitforfirst
    BY <1>8 DEF BPicture
  <2>2. seqheaderpic <= pictures
    BY <1>2, <2>1 DEF Layout
  <2>3. QED
    BY <1>2, <2>1, <2>2, PictureTrack
<1>9. CASE ReferencePicture
  <2>1. /\ Consume /\ stream[rd + 1].code = "pic" /\ ~waitforfirst
        /\ pictures' = pictures + 1 /\ seqheaderpic' = seqheaderpic
        /\ waitforfirst' = waitforfirst
    BY <1>9 DEF ReferencePicture
  <2>2. seqheaderpic <= pictures
    BY <1>2, <2>1 DEF Layout
  <2>3. QED
    BY <1>2, <2>1, <2>2, PictureTrack
<1>10. CASE Finish
  BY <1>1, <1>10 DEF Finish
<1>11. CASE UNCHANGED vars
  BY <1>1, <1>11 DEF vars, genvars
<1>12. QED
  BY <1>3, <1>4, <1>5, <1>6, <1>7, <1>8, <1>9, <1>10, <1>11 DEF Next

StreamInv ==
  /\ CodingOrder(stream)
  /\ TrackInv
  /\ Coded => OrderInv

LEMMA StepStream == IInv /\ StreamInv /\ [Next]_vars => StreamInv'
<1> SUFFICES ASSUME IInv, StreamInv, [Next]_vars PROVE StreamInv'
  OBVIOUS
<1>1. stream' = stream
  BY DEF Next, ReadChunk, Cancel, Crash, Consume, SequenceHeader, PictureIgnored,
         BPicture, ReferencePicture, Finish, vars
<1>2. CodingOrder(stream')
  BY <1>1 DEF StreamInv
<1>3. TrackInv'
  BY StepTrack DEF StreamInv
<1>4. Coded' <=> Coded
  BY <1>1 DEF Coded
<1>5. Coded => OrderInv'
  BY StepOrder DEF StreamInv
<1>6. QED
  BY <1>2, <1>3, <1>4, <1>5 DEF StreamInv

(* In streams in the order of an encoder, whichever pictures are missing,  *)
(* every sequence that its ranks can number is numbered in display order   *)
(* (mpgIndex.cpp:338-383).                                                 *)
THEOREM DisplayInOrder ==
  ASSUME \A s \in Streams : CodingOrder(s)
  PROVE  Spec => []DisplayOrder
<1>1. Init => IInv /\ StreamInv
  <2>1. Init => CodingOrder(stream)
    BY DEF Init
  <2>2. QED
    BY <2>1, InitIInv, InitTrack, InitOrder DEF StreamInv, TrackInv
<1>2. IInv /\ StreamInv /\ [Next]_vars => (IInv /\ StreamInv)'
  BY StepIInv, StepStream
<1>3. IInv /\ StreamInv => DisplayOrder
  <2> SUFFICES ASSUME IInv, StreamInv, pc = "done",
                      NEW b \in 0 .. pictures, NEW e \in 0 .. pictures,
                      IsSequence(b, e), e - b <= SeqNrs,
                      NEW i \in b .. e - 1, NEW j \in b .. e - 1,
                      DisplayedBefore(Code(i), Code(j))
               PROVE  p[i].seqnr < p[j].seqnr
    BY DEF DisplayOrder
  <2>1. TypeOK /\ Track
    BY DEF IInv, StreamInv, TrackInv
  <2>2. CASE Coded
    <3>1. ClosedInOrder
      BY <2>2 DEF StreamInv, OrderInv
    <3>2. OrderedIn(p, b .. e - 1)
      BY <3>1 DEF ClosedInOrder
    <3>3. QED
      BY <3>2 DEF OrderedIn
  <2>3. CASE ~Coded
    <3>1. \A k \in DOMAIN stream : stream[k].code = "pic" => ~Encoded(stream[k])
      BY <2>3 DEF StreamInv, CodingOrder, Coded
    <3>2. i \in 0 .. pictures - 1
      BY <2>1, StreamFacts
    <3>3. PlaceOf(i) \in Rest
      BY <2>1, <3>2 DEF Track
    <3>4. ~Encoded(Code(i))
      BY <2>1, <3>1, <3>3, RestFacts, StreamFacts, CodeIs
    <3>5. QED
      BY <3>4 DEF DisplayedBefore
  <2>4. QED
    BY <2>2, <2>3
<1>4. QED
  BY <1>1, <1>2, <1>3, PTL DEF Spec
=============================================================================
