--------------------------- MODULE SaveMpg_proofs ----------------------------
(***************************************************************************)
(* Proofs about the export, for every recording whose table load() accepts *)
(* and every choice of ranges.                                             *)
(***************************************************************************)
EXTENDS SaveMpg, Common_proofs

(* What is exported does not change.                                       *)
InputOK ==
  /\ GoodTable(p, n)
  /\ shown = [pictures |-> RealPictures(p, n),
              stored |-> [i \in 0 .. RealPictures(p, n) - 1 |->
                            IndexNr(p, n, SkipFirst(p, n), i)],
              number |-> [i \in 0 .. n - 1 |-> PictureNr(p, SkipFirst(p, n), i)],
              ordered |-> EncoderOrder(p, n)]
  /\ origin \in Nat /\ audiobegin \in Int /\ frames \in Nat
  /\ ranges \in Seq([start : Nat, stop : Nat]) /\ Len(ranges) >= 1
  /\ \A k \in 1 .. Len(ranges) :
       ranges[k].start <= ranges[k].stop /\ ranges[k].stop < pictures
  /\ \A k \in 2 .. Len(ranges) : ranges[k - 1].stop <= ranges[k].start

(* The table, by display numbers.                                          *)
Numbered ==
  /\ n \in Nat /\ pictures \in Nat /\ pictures <= n
  /\ \A i \in 0 .. n - 1 : p[i] \in Picture
  /\ \A pic \in 0 .. pictures - 1 : Stored(pic) \in 0 .. n - 1 /\ Shown(Stored(pic)) = pic
  /\ \A i \in 0 .. n - 1 : Shown(i) \in Int
  /\ \A i, k \in 0 .. n - 1 : Shown(i) = Shown(k) => i = k

(* Pictures that are displayed before the first one of a sequence.         *)
Passed ==
  \A k \in 0 .. n - 1 : \A i \in k .. n - 1 :
    Shown(i) >= Shown(k) <=> (i >= SeqEnd(p, n, k) \/ p[i].seqnr >= p[k].seqnr)

(* Between two pictures lie all that are displayed between them.           *)
Dense ==
  \A i, k \in 0 .. n - 1 : \A d \in Shown(i) .. Shown(k) :
    \E j \in 0 .. n - 1 : Shown(j) = d

Ends ==
  pictures > 0 =>
    /\ ~IsB(pictures - 1)
    /\ p[Stored(0)].type = "I"
    /\ \A i \in 0 .. Stored(0) - 1 : p[i].type # "I"

Ordered ==
  /\ \A i \in 0 .. n - 1 : p[i].hdr => p[i].type = "I"
  /\ \A i \in 0 .. n - 1 : \A k \in 0 .. i - 1 :
       Shown(k) < Shown(i) <=> ~(p[i].type = "B" /\ k = LastReference(p, i))

-----------------------------------------------------------------------------
(* A picture of a later sequence is displayed later.                       *)
LEMMA PlaceOrder ==
  ASSUME NEW q, NEW m, GoodTable(q, m), NEW i \in 0 .. m - 1, NEW k \in 0 .. m - 1,
         SeqBegin(q, k) < SeqBegin(q, i)
  PROVE  Place(q, k) < Place(q, i)
<1> DEFINE b == SeqBegin(q, i)
           x == Place(q, k)
<1>1. m \in Nat /\ q[0].hdr
  BY DEF GoodTable, IsTable
<1>2. b \in 0 .. i /\ q[b].hdr
  BY <1>1, SeqBeginFacts
<1>3. x \in 0 .. m - 1 /\ SeqBegin(q, x) = SeqBegin(q, k)
  BY PlaceFacts
<1>4. \A j \in 0 .. x : q[j].hdr => j <= SeqBegin(q, x)
  BY <1>1, <1>3, SeqBeginFacts
<1>5. SeqBegin(q, k) \in 0 .. k
  BY <1>1, SeqBeginFacts
<1>6. Place(q, i) >= b /\ Place(q, i) \in Nat
  <2>1. q[i].seqnr \in Nat
    <3>1. q[i] \in Picture
      BY DEF GoodTable, IsTable
    <3>2. QED
      BY <3>1, SeqNrsAssumption DEF Picture
  <2>2. Place(q, i) = q[i].seqnr + b
    BY DEF Place
  <2> HIDE DEF b
  <2>3. QED
    BY <1>1, <1>2, <2>1, <2>2
<1> HIDE DEF b, x
<1>7. x < b
  <2> SUFFICES ASSUME x >= b PROVE FALSE
    BY <1>1, <1>2, <1>3
  <2>1. b \in 0 .. x
    BY <1>2, <1>3
  <2>2. b <= SeqBegin(q, x)
    BY <1>2, <1>4, <2>1
  <2>3. b > SeqBegin(q, k)
    BY DEF b
  <2>4. QED
    BY <1>1, <1>2, <1>3, <1>5, <2>2, <2>3
<1>8. QED
  BY <1>1, <1>2, <1>3, <1>6, <1>7 DEF x

LEMMA PlaceBehind ==
  ASSUME NEW q, NEW m, GoodTable(q, m), NEW k \in 0 .. m - 1, NEW i \in k .. m - 1
  PROVE  Place(q, i) >= Place(q, k)
           <=> (i >= SeqEnd(q, m, k) \/ q[i].seqnr >= q[k].seqnr)
<1> DEFINE e == SeqEnd(q, m, k)
           b == SeqBegin(q, k)
<1>1. m \in Nat /\ q[0].hdr /\ i \in 0 .. m - 1 /\ k < m /\ k \in Nat /\ i \in Nat
  BY DEF GoodTable, IsTable
<1>2. /\ e \in k + 1 .. m
      /\ e < m => q[e].hdr
      /\ \A j \in k + 1 .. e - 1 : ~q[j].hdr
  BY <1>1, SeqEndFacts
<1>3. /\ b \in 0 .. k
      /\ q[b].hdr
      /\ \A j \in 0 .. k : q[j].hdr => j <= b
  BY <1>1, SeqBeginFacts
<1>4. /\ SeqBegin(q, i) \in 0 .. i
      /\ q[SeqBegin(q, i)].hdr
      /\ \A j \in 0 .. i : q[j].hdr => j <= SeqBegin(q, i)
  BY <1>1, SeqBeginFacts
<1>5. q[i].seqnr \in Nat /\ q[k].seqnr \in Nat
  <2>1. q[i] \in Picture /\ q[k] \in Picture
    BY <1>1 DEF GoodTable, IsTable
  <2>2. QED
    BY <2>1, SeqNrsAssumption DEF Picture
<1>6. Place(q, i) = q[i].seqnr + SeqBegin(q, i) /\ Place(q, k) = q[k].seqnr + b
  BY DEF Place
<1>7. CASE i >= e
  <2>1. e \in 0 .. i /\ e < m
    BY <1>1, <1>2, <1>7
  <2>2. e <= SeqBegin(q, i)
    BY <1>2, <1>4, <2>1
  <2>3. b < SeqBegin(q, i)
    BY <1>1, <1>2, <1>3, <1>4, <2>2
  <2>4. Place(q, k) < Place(q, i)
    BY <1>1, <2>3, PlaceOrder
  <2>5. Place(q, k) \in Int /\ Place(q, i) \in Int
    BY <1>1, PlaceFacts
  <2>6. QED
    BY <1>7, <2>4, <2>5
<1>8. CASE i < e
  <2> HIDE DEF e, b
  <2>1. b <= SeqBegin(q, i)
    BY <1>1, <1>3, <1>4
  <2>2. ~(SeqBegin(q, i) > k)
    BY <1>1, <1>2, <1>4, <1>8
  <2>3. SeqBegin(q, i) <= b
    BY <1>1, <1>3, <1>4, <2>2
  <2>4. SeqBegin(q, i) = b
    BY <1>1, <1>3, <1>4, <2>1, <2>3
  <2>5. Place(q, i) = q[i].seqnr + b
    BY <1>6, <2>4
  <2>6. q[i].seqnr + b >= q[k].seqnr + b <=> q[i].seqnr >= q[k].seqnr
    BY <1>1, <1>3, <1>5
  <2>7. ~(i >= e)
    BY <1>1, <1>2, <1>8
  <2>8. QED
    BY <1>6, <2>5, <2>6, <2>7 DEF e, b
<1>9. QED
  BY <1>1, <1>2, <1>7, <1>8

(* Every place of a good table is some picture's.                          *)
LEMMA PlaceTaken ==
  ASSUME NEW q, NEW m, GoodTable(q, m), NEW x \in 0 .. m - 1
  PROVE  \E j \in 0 .. m - 1 : Place(q, j) = x
<1>1. x \in Int /\ x + 0 \in 0 .. m - 1 /\ 0 \in Int /\ x + 0 = x
  BY DEF GoodTable, IsTable
<1>2. /\ IndexNr(q, m, 0, x) \in 0 .. m - 1
      /\ Place(q, IndexNr(q, m, 0, x)) = x + 0
  BY <1>1, IndexNrFacts
<1>3. QED
  BY <1>1, <1>2

LEMMA ShownFacts ==
  ASSUME InputOK
  PROVE  /\ n \in Nat /\ SkipFirst(p, n) \in Nat
         /\ \A i \in 0 .. n - 1 : /\ Shown(i) = Place(p, i) - SkipFirst(p, n)
                                  /\ Place(p, i) \in 0 .. n - 1
         /\ pictures = RealPictures(p, n) /\ pictures \in Nat
         /\ pictures > 0 => IFrames(p, n) # {}
         /\ pictures + SkipFirst(p, n) <= n
         /\ \A i \in 0 .. pictures - 1 : Stored(i) = IndexNr(p, n, SkipFirst(p, n), i)
<1> DEFINE skip == SkipFirst(p, n)
<1>1. GoodTable(p, n) /\ n \in Nat
  BY DEF InputOK, GoodTable, IsTable
<1>2. skip \in Nat /\ (IFrames(p, n) # {} => skip <= n - 1) /\ (IFrames(p, n) = {} => skip = 0)
  <2>1. CASE IFrames(p, n) = {}
    BY <2>1 DEF SkipFirst
  <2>2. CASE IFrames(p, n) # {}
    BY <1>1, <2>2, SkipFirstFacts
  <2>3. QED
    BY <2>1, <2>2
<1>3. pictures = RealPictures(p, n)
  BY DEF InputOK, pictures
<1>4. /\ IFrames(p, n) = {} => pictures = 0
      /\ IFrames(p, n) # {} => pictures \in 1 .. n - skip
  BY <1>1, <1>3, RealPicturesFacts
<1> HIDE DEF skip
<1>5. pictures \in Nat /\ pictures + skip <= n
  BY <1>1, <1>2, <1>4
<1>6. \A i \in 0 .. pictures - 1 : Stored(i) = IndexNr(p, n, skip, i)
  BY <1>3 DEF InputOK, Stored, skip
<1>7. ASSUME NEW i \in 0 .. n - 1
      PROVE  Shown(i) = Place(p, i) - skip /\ Place(p, i) \in 0 .. n - 1
  <2>1. Shown(i) = PictureNr(p, skip, i)
    BY DEF InputOK, Shown, skip
  <2>2. skip \in Int
    BY <1>2
  <2>3. PictureNr(p, skip, i) = Place(p, i) - skip
    BY <1>1, <2>2, PictureFound
  <2>4. QED
    BY <1>1, <2>1, <2>3, PlaceFacts
<1>8. QED
  BY <1>1, <1>2, <1>3, <1>4, <1>5, <1>6, <1>7 DEF skip

LEMMA TableNumbered ==
  ASSUME InputOK
  PROVE  Numbered
<1> DEFINE skip == SkipFirst(p, n)
<1>1. GoodTable(p, n)
  BY DEF InputOK
<1>2. /\ n \in Nat /\ skip \in Nat
      /\ \A i \in 0 .. n - 1 : Shown(i) = Place(p, i) - skip /\ Place(p, i) \in 0 .. n - 1
      /\ pictures \in Nat /\ pictures + skip <= n
      /\ \A i \in 0 .. pictures - 1 : Stored(i) = IndexNr(p, n, skip, i)
  BY ShownFacts
<1> HIDE DEF skip
<1>3. \A i \in 0 .. n - 1 : p[i] \in Picture
  BY <1>1 DEF GoodTable, IsTable
<1>4. ASSUME NEW pic \in 0 .. pictures - 1
      PROVE  Stored(pic) \in 0 .. n - 1 /\ Shown(Stored(pic)) = pic
  <2>1. skip \in Int /\ pic \in Int /\ pic + skip \in 0 .. n - 1
    BY <1>2
  <2>2. /\ IndexNr(p, n, skip, pic) \in 0 .. n - 1
        /\ Place(p, IndexNr(p, n, skip, pic)) = pic + skip
    BY <1>1, <2>1, IndexNrFacts
  <2>3. pic + skip - skip = pic
    BY <1>2
  <2>4. QED
    BY <1>2, <2>2, <2>3
<1>5. \A i \in 0 .. n - 1 : Shown(i) \in Int
  BY <1>2
<1>6. ASSUME NEW i \in 0 .. n - 1, NEW k \in 0 .. n - 1, Shown(i) = Shown(k)
      PROVE  i = k
  <2>1. Place(p, i) = Place(p, k)
    BY <1>2, <1>6
  <2>2. QED
    BY <1>1, <2>1, PlaceUnique
<1>7. pictures <= n
  BY <1>2
<1>8. QED
  BY <1>2, <1>3, <1>4, <1>5, <1>6, <1>7 DEF Numbered

LEMMA TablePassed ==
  ASSUME InputOK
  PROVE  Passed
<1> DEFINE skip == SkipFirst(p, n)
<1>1. GoodTable(p, n)
  BY DEF InputOK
<1>2. /\ n \in Nat /\ skip \in Nat
      /\ \A i \in 0 .. n - 1 : Shown(i) = Place(p, i) - skip /\ Place(p, i) \in 0 .. n - 1
  BY ShownFacts
<1> HIDE DEF skip
<1> SUFFICES ASSUME NEW k \in 0 .. n - 1, NEW i \in k .. n - 1
             PROVE  Shown(i) >= Shown(k)
                      <=> (i >= SeqEnd(p, n, k) \/ p[i].seqnr >= p[k].seqnr)
  BY DEF Passed
<1>3. i \in 0 .. n - 1
  BY <1>2
<1>4. Shown(i) >= Shown(k) <=> Place(p, i) >= Place(p, k)
  BY <1>2, <1>3
<1>5. QED
  BY <1>1, <1>4, PlaceBehind

LEMMA TableDense ==
  ASSUME InputOK
  PROVE  Dense
<1> DEFINE skip == SkipFirst(p, n)
<1>1. GoodTable(p, n)
  BY DEF InputOK
<1>2. /\ n \in Nat /\ skip \in Nat
      /\ \A i \in 0 .. n - 1 : Shown(i) = Place(p, i) - skip /\ Place(p, i) \in 0 .. n - 1
  BY ShownFacts
<1> HIDE DEF skip
<1> SUFFICES ASSUME NEW i \in 0 .. n - 1, NEW k \in 0 .. n - 1, NEW d \in Shown(i) .. Shown(k)
             PROVE  \E j \in 0 .. n - 1 : Shown(j) = d
  BY DEF Dense
<1>3. d + skip \in 0 .. n - 1 /\ d + skip - skip = d
  BY <1>2
<1>4. PICK j \in 0 .. n - 1 : Place(p, j) = d + skip
  BY <1>1, <1>3, PlaceTaken
<1>5. QED
  BY <1>2, <1>3, <1>4

LEMMA TableEnds ==
  ASSUME InputOK
  PROVE  Ends
<1> SUFFICES ASSUME pictures > 0
             PROVE  /\ ~IsB(pictures - 1)
                    /\ p[Stored(0)].type = "I"
                    /\ \A i \in 0 .. Stored(0) - 1 : p[i].type # "I"
  BY DEF Ends
<1> DEFINE skip == SkipFirst(p, n)
           first == Min(IFrames(p, n))
<1>1. GoodTable(p, n)
  BY DEF InputOK
<1>2. /\ n \in Nat
      /\ pictures = RealPictures(p, n) /\ pictures \in Nat /\ IFrames(p, n) # {}
      /\ \A i \in 0 .. pictures - 1 : Stored(i) = IndexNr(p, n, skip, i)
  BY ShownFacts
<1>3. 0 \in 0 .. pictures - 1 /\ pictures - 1 \in 0 .. pictures - 1
  BY <1>2
<1>4. p[IndexNr(p, n, skip, pictures - 1)].type # "B"
  BY <1>1, <1>2, RealPicturesFacts
<1>5. /\ first \in IFrames(p, n)
      /\ \A i \in IFrames(p, n) : first <= i
      /\ IndexNr(p, n, skip, 0) = first
  BY <1>1, <1>2, SkipFirstFacts
<1> HIDE DEF skip, first
<1>6. ~IsB(pictures - 1)
  BY <1>2, <1>3, <1>4 DEF IsB
<1>7. Stored(0) = first
  BY <1>2, <1>3, <1>5
<1>8. first \in 0 .. n - 1 /\ p[first].type = "I"
  BY <1>5 DEF IFrames
<1>9. ASSUME NEW i \in 0 .. first - 1, p[i].type = "I"
      PROVE  FALSE
  <2>1. i \in IFrames(p, n)
    BY <1>2, <1>8, <1>9 DEF IFrames
  <2>2. QED
    BY <1>2, <1>5, <1>8, <2>1
<1>10. QED
  BY <1>6, <1>7, <1>8, <1>9

LEMMA TableOrdered ==
  ASSUME InputOK, shown.ordered
  PROVE  Ordered
<1> DEFINE skip == SkipFirst(p, n)
<1>1. GoodTable(p, n)
  BY DEF InputOK
<1>2. /\ n \in Nat /\ skip \in Nat
      /\ \A i \in 0 .. n - 1 : Shown(i) = Place(p, i) - skip /\ Place(p, i) \in 0 .. n - 1
  BY ShownFacts
<1>3. EncoderOrder(p, n)
  BY DEF InputOK
<1> HIDE DEF skip
<1>4. ASSUME NEW i \in 0 .. n - 1, NEW k \in 0 .. i - 1
      PROVE  Shown(k) < Shown(i) <=> PictureNr(p, 0, k) < PictureNr(p, 0, i)
  <2>1. k \in 0 .. n - 1 /\ 0 \in Int
    BY <1>2
  <2>2. PictureNr(p, 0, k) = Place(p, k) - 0 /\ PictureNr(p, 0, i) = Place(p, i) - 0
    BY <1>1, <2>1, PictureFound
  <2>3. Shown(k) < Shown(i) <=> Place(p, k) - 0 < Place(p, i) - 0
    BY <1>2, <2>1
  <2>4. QED
    BY <2>2, <2>3
<1>5. \A i \in 0 .. n - 1 : \A k \in 0 .. i - 1 :
        Shown(k) < Shown(i) <=> ~(p[i].type = "B" /\ k = LastReference(p, i))
  BY <1>3, <1>4 DEF EncoderOrder
<1>6. QED
  BY <1>3, <1>5 DEF Ordered, EncoderOrder

-----------------------------------------------------------------------------
(* The searches for headers and for I pictures.                            *)
LEMMA NextSeqHeaderFacts ==
  ASSUME Numbered, NEW a \in 0 .. pictures - 1
  PROVE  /\ NextSeqHeader(a) \in a .. pictures - 1
         /\ p[Stored(NextSeqHeader(a))].hdr \/ NextSeqHeader(a) = pictures - 1
<1> DEFINE S == {pictures - 1} \cup {i \in a .. pictures - 1 : p[Stored(i)].hdr}
<1>1. pictures \in Nat
  BY DEF Numbered
<1>2. S \subseteq Nat /\ S # {} /\ S \subseteq a .. pictures - 1
  BY <1>1
<1>3. Min(S) \in S
  BY <1>2, MinFacts
<1>4. NextSeqHeader(a) = Min(S)
  BY DEF NextSeqHeader
<1>5. QED
  BY <1>2, <1>3, <1>4

LEMMA LastIFrameFacts ==
  ASSUME Numbered, Ends, NEW a \in 0 .. pictures - 1
  PROVE  LastIFrame(a) \in 0 .. a /\ p[Stored(LastIFrame(a))].type = "I"
<1> DEFINE S == {0} \cup {i \in 0 .. a : p[Stored(i)].type = "I"}
<1>1. pictures \in Nat /\ pictures > 0 /\ p[Stored(0)].type = "I" /\ a \in Nat
  BY DEF Numbered, Ends
<1>2. S \subseteq 0 .. a /\ S # {}
  BY <1>1
<1>3. Max(S) \in S
  BY <1>1, <1>2, MaxFacts
<1>4. LastIFrame(a) = Max(S)
  BY DEF LastIFrame
<1>5. QED
  BY <1>1, <1>2, <1>3, <1>4

LEMMA LastSeqHeaderFacts ==
  ASSUME NEW a \in Nat
  PROVE  /\ LastSeqHeader(a) \in 0 .. a
         /\ LastSeqHeader(a) = 0 \/ p[Stored(LastSeqHeader(a))].hdr
<1> DEFINE S == {0} \cup {i \in 0 .. a : p[Stored(i)].hdr}
<1>1. S \subseteq 0 .. a /\ S # {}
  OBVIOUS
<1>2. Max(S) \in S
  BY <1>1, MaxFacts
<1>3. LastSeqHeader(a) = Max(S)
  BY DEF LastSeqHeader
<1>4. QED
  BY <1>1, <1>2, <1>3

(* Copying stops at the first I or P picture that is displayed at stop or  *)
(* later.                                                                  *)
StopsAt(c) ==
  /\ c \in stop .. pictures - 1
  /\ CopyStop = Stored(c)
  /\ ~IsB(c)
  /\ \A i \in stop .. c - 1 : IsB(i)

LEMMA CopyStopFacts ==
  ASSUME Numbered, Ends, stop \in 0 .. pictures - 1
  PROVE  \E c \in stop .. pictures - 1 : StopsAt(c)
<1> DEFINE S == {pictures} \cup {i \in stop .. pictures - 1 : ~IsB(i)}
           c == Min(S)
<1>1. pictures \in Nat /\ ~IsB(pictures - 1)
  BY DEF Numbered, Ends
<1>2. S \subseteq Nat /\ S # {}
  BY <1>1
<1>3. c \in S /\ \A x \in S : c <= x
  BY <1>2, MinFacts
<1>4. pictures - 1 \in S
  BY <1>1
<1>5. c \in stop .. pictures - 1 /\ ~IsB(c)
  BY <1>1, <1>3, <1>4
<1>6. \A i \in stop .. c - 1 : IsB(i)
  BY <1>1, <1>3, <1>5
<1>7. CopyStop = Stored(c)
  BY DEF CopyStop
<1>8. QED
  BY <1>5, <1>6, <1>7 DEF StopsAt

(* The pictures at the end are B pictures.                                 *)
LEMMA StartRecodeFacts ==
  ASSUME Numbered, Ends, stop \in 1 .. pictures - 1, IsB(stop - 1)
  PROVE  /\ StartRecode \in 1 .. stop - 1
         /\ ~IsB(StartRecode - 1)
         /\ \A x \in StartRecode .. stop - 1 : IsB(x)
<1> DEFINE S == {0} \cup {i \in 1 .. stop - 1 : ~IsB(i - 1)}
           r == Max(S)
<1>1. pictures \in Nat /\ ~IsB(0) /\ stop \in Nat
  BY DEF Numbered, Ends, IsB
<1>2. stop - 1 # 0 /\ stop - 1 >= 1
  BY <1>1
<1>3. 1 \in S /\ 1 - 1 = 0
  BY <1>1, <1>2
<1>4. S \subseteq 0 .. stop - 1 /\ S # {} /\ stop - 1 \in Nat
  BY <1>2
<1>5. r \in S /\ \A x \in S : x <= r
  BY <1>4, MaxFacts
<1>6. StartRecode = r
  BY DEF StartRecode
<1>7. r \in 1 .. stop - 1 /\ ~IsB(r - 1)
  BY <1>3, <1>4, <1>5
<1>8. ASSUME NEW x \in r .. stop - 1
      PROVE  IsB(x)
  <2>1. CASE x = stop - 1
    BY <2>1
  <2>2. CASE x # stop - 1
    <3>1. x + 1 \in 1 .. stop - 1 /\ ~(x + 1 <= r) /\ x + 1 - 1 = x
      BY <1>1, <1>7, <2>2
    <3>2. x + 1 \notin S
      BY <1>5, <3>1
    <3>3. QED
      BY <3>1, <3>2
  <2>3. QED
    BY <2>1, <2>2
<1>9. QED
  BY <1>6, <1>7, <1>8

-----------------------------------------------------------------------------
(* The decoder, picture by picture.                                        *)
DecoderStates ==
  [refs : 0 .. 2, held : {Nothing} \cup 0 .. n - 1, given : Seq(0 .. n - 1)]

DecoderBegin == [refs |-> 0, held |-> Nothing, given |-> << >>]

DecodedBy(s, fed) ==
  /\ s \in [0 .. n -> DecoderStates]
  /\ s[0] = DecoderBegin
  /\ \A i \in 1 .. n :
       s[i] = IF i - 1 \in fed THEN Decode(s[i - 1], i - 1) ELSE s[i - 1]
  /\ Decoded(fed) = s[n]

LEMMA DecodeType ==
  ASSUME n \in Nat, NEW s \in DecoderStates, NEW i \in 0 .. n - 1
  PROVE  Decode(s, i) \in DecoderStates
<1>1. /\ s.refs \in 0 .. 2 /\ s.held \in {Nothing} \cup 0 .. n - 1
      /\ s.given \in Seq(0 .. n - 1)
      /\ s = [refs |-> s.refs, held |-> s.held, given |-> s.given]
  BY DEF DecoderStates
<1>2. CASE p[i].type = "B"
  <2> DEFINE g == IF s.refs = 2 THEN Append(s.given, i) ELSE s.given
  <2>1. g \in Seq(0 .. n - 1)
    BY <1>1, AppendProperties
  <2>2. Decode(s, i) = [s EXCEPT !.given = g]
    BY <1>2 DEF Decode
  <2> HIDE DEF g
  <2>3. QED
    BY <1>1, <2>1, <2>2 DEF DecoderStates
<1>3. CASE p[i].type # "B"
  <2> DEFINE g == IF s.held = Nothing THEN s.given ELSE Append(s.given, s.held)
             r == IF s.refs = 0 THEN 1 ELSE 2
  <2>1. g \in Seq(0 .. n - 1)
    BY <1>1, AppendProperties
  <2>2. r \in 0 .. 2
    OBVIOUS
  <2>3. Decode(s, i) = [refs |-> r, held |-> i, given |-> g]
    BY <1>3 DEF Decode
  <2> HIDE DEF g, r
  <2>4. QED
    BY <2>1, <2>2, <2>3 DEF DecoderStates
<1>4. QED
  BY <1>2, <1>3

LEMMA DecodedFacts ==
  ASSUME n \in Nat, NEW fed
  PROVE  \E s : DecodedBy(s, fed)
<1> DEFINE step == [x \in DecoderStates \X (1 .. n) |->
                      IF x[2] - 1 \in fed THEN Decode(x[1], x[2] - 1) ELSE x[1]]
           Rec(s) == [i \in 0 .. n |->
                        IF i = 0 THEN [refs |-> 0, held |-> Nothing, given |-> << >>]
                        ELSE IF i - 1 \in fed THEN Decode(s[i - 1], i - 1) ELSE s[i - 1]]
           decoded == CHOOSE s : s = Rec(s)
<1>1. DecoderBegin \in DecoderStates
  <2>1. << >> \in Seq(0 .. n - 1)
    BY EmptySeq
  <2>2. QED
    BY <2>1 DEF DecoderBegin, DecoderStates
<1>2. ASSUME NEW x \in DecoderStates, NEW i \in 1 .. n
      PROVE  /\ step[<<x, i>>] = IF i - 1 \in fed THEN Decode(x, i - 1) ELSE x
             /\ step[<<x, i>>] \in DecoderStates
  <2>1. i - 1 \in 0 .. n - 1
    OBVIOUS
  <2>2. Decode(x, i - 1) \in DecoderStates
    BY <2>1, DecodeType
  <2>3. step[<<x, i>>] = IF i - 1 \in fed THEN Decode(x, i - 1) ELSE x
    OBVIOUS
  <2>4. QED
    BY <2>2, <2>3
<1> HIDE DEF step
<1>3. Steps(step, DecoderStates, n)
  BY <1>2 DEF Steps
<1>4. Reached(DecoderBegin, step, DecoderStates, n)
  BY <1>1, <1>3, Recursion
<1>5. PICK f \in [0 .. n -> DecoderStates] :
        f[0] = DecoderBegin /\ \A i \in 1 .. n : f[i] = step[<<f[i - 1], i>>]
  BY <1>4 DEF Reached
<1>6. ASSUME NEW i \in 1 .. n
      PROVE  f[i] = IF i - 1 \in fed THEN Decode(f[i - 1], i - 1) ELSE f[i - 1]
  <2>1. i - 1 \in 0 .. n
    OBVIOUS
  <2>2. f[i - 1] \in DecoderStates
    BY <2>1
  <2>3. QED
    BY <1>2, <1>5, <2>2
<1>7. f = Rec(f)
  <2>1. ASSUME NEW i \in 0 .. n
        PROVE  f[i] = IF i = 0 THEN DecoderBegin
                      ELSE IF i - 1 \in fed THEN Decode(f[i - 1], i - 1) ELSE f[i - 1]
    <3>1. i # 0 => i \in 1 .. n
      OBVIOUS
    <3>2. QED
      BY <1>5, <1>6, <3>1
  <2>2. QED
    BY <2>1 DEF DecoderBegin
<1>8. decoded = Rec(decoded)
  <2> HIDE DEF Rec
  <2>1. QED
    BY <1>7
<1>9. Decoded(fed) = decoded[n]
  BY DEF Decoded
<1> HIDE DEF decoded
<1>10. /\ decoded = [i \in 0 .. n |-> decoded[i]]
       /\ \A i \in 0 .. n : decoded[i] =
            IF i = 0 THEN DecoderBegin
            ELSE IF i - 1 \in fed THEN Decode(decoded[i - 1], i - 1) ELSE decoded[i - 1]
  BY <1>8 DEF DecoderBegin
<1>11. decoded[0] = DecoderBegin
  <2>1. 0 \in 0 .. n
    OBVIOUS
  <2>2. QED
    BY <1>10, <2>1
<1>12. \A i \in 1 .. n :
         decoded[i] = IF i - 1 \in fed THEN Decode(decoded[i - 1], i - 1) ELSE decoded[i - 1]
  <2> TAKE i \in 1 .. n
  <2>1. i \in 0 .. n /\ i # 0
    OBVIOUS
  <2>2. QED
    BY <1>10, <2>1
<1> DEFINE P == {k \in Nat : k <= n => decoded[k] \in DecoderStates}
<1>13. 0 \in P
  BY <1>1, <1>11
<1>14. ASSUME NEW k \in P
       PROVE  k + 1 \in P
  <2>1. CASE k + 1 <= n
    <3>1. k \in Nat /\ k + 1 \in 1 .. n /\ k <= n /\ (k + 1) - 1 = k /\ k \in 0 .. n - 1
      BY <2>1
    <3>2. decoded[k] \in DecoderStates
      BY <3>1
    <3>3. decoded[k + 1] = IF k \in fed THEN Decode(decoded[k], k) ELSE decoded[k]
      BY <1>12, <3>1
    <3>4. Decode(decoded[k], k) \in DecoderStates
      BY <3>1, <3>2, DecodeType
    <3>5. QED
      BY <3>1, <3>2, <3>3, <3>4
  <2>2. CASE ~(k + 1 <= n)
    BY <2>2
  <2>3. QED
    BY <2>1, <2>2
<1>15. P = Nat
  <2> HIDE DEF P
  <2>1. P \subseteq Nat
    BY DEF P
  <2>2. QED
    BY <1>13, <1>14, <2>1, Induction
<1>16. \A i \in 0 .. n : decoded[i] \in DecoderStates
  BY <1>15
<1>17. decoded \in [0 .. n -> DecoderStates]
  BY <1>10, <1>16
<1>18. DecodedBy(decoded, fed)
  BY <1>9, <1>11, <1>12, <1>17 DEF DecodedBy
<1>19. QED
  BY <1>18

-----------------------------------------------------------------------------
(* The I or P picture in front of a picture, and the order of an encoder.  *)
LEMMA LastReferenceFacts ==
  ASSUME NEW i \in Nat
  PROVE  /\ LastReference(p, i) = None \/ LastReference(p, i) \in 0 .. i - 1
         /\ LastReference(p, i) \in 0 .. i - 1 => p[LastReference(p, i)].type # "B"
         /\ \A k \in 0 .. i - 1 : p[k].type # "B" => /\ k <= LastReference(p, i)
                                                     /\ LastReference(p, i) \in 0 .. i - 1
<1> DEFINE U == {k \in 0 .. i - 1 : p[k].type # "B"}
           S == {None} \cup U
<1>1. LastReference(p, i) = Max(S)
  BY DEF LastReference
<1>2. None = -2
  BY DEF None
<1>3. CASE U = {}
  <2>1. S = {None}
    BY <1>3
  <2> HIDE DEF S, U
  <2>2. Max(S) = None
    BY <1>2, <2>1 DEF Max
  <2>3. QED
    BY <1>1, <1>2, <1>3, <2>2 DEF U
<1>4. CASE U # {}
  <2>1. U \subseteq 0 .. i
    OBVIOUS
  <2> HIDE DEF U
  <2>2. Max(U) \in U /\ \A x \in U : x <= Max(U)
    BY <1>4, <2>1, MaxFacts
  <2>10. \A x \in U : x \in Nat
    BY <2>1
  <2>8. Max(U) \in Nat /\ \A x \in U : x \in Nat
    BY <2>2, <2>10
  <2>9. Max(U) >= None
    BY <1>2, <2>8
  <2>3. \E m \in S : \A x \in S : m >= x
    <3>1. \A x \in U : Max(U) >= x
      BY <2>2, <2>8
    <3>2. QED
      BY <2>2, <2>9, <3>1
  <2>4. Max(S) \in S /\ \A x \in S : Max(S) >= x
    BY <2>3 DEF Max
  <2>5. Max(S) \in U
    <3>1. Max(S) >= Max(U)
      BY <2>2, <2>4
    <3>2. Max(S) # None
      BY <1>2, <2>8, <3>1
    <3>3. QED
      BY <2>4, <3>2
  <2>6. \A x \in U : x <= Max(S)
    BY <2>1, <2>4, <2>5
  <2>7. QED
    BY <1>1, <2>5, <2>6 DEF U
<1>5. QED
  BY <1>3, <1>4

LEMMA OrderFacts ==
  ASSUME Numbered, Ordered, NEW i \in 0 .. n - 1, NEW k \in 0 .. i - 1
  PROVE  /\ Shown(i) \in Int /\ Shown(k) \in Int
         /\ p[i].type # "B" => Shown(k) < Shown(i)
         /\ p[k].type = "B" => Shown(k) < Shown(i)
         /\ k # LastReference(p, i) => Shown(k) < Shown(i)
         /\ p[i].type = "B" /\ k = LastReference(p, i) => Shown(i) < Shown(k)
<1>1. n \in Nat /\ i \in Nat /\ k \in 0 .. n - 1 /\ k # i
  BY DEF Numbered
<1>2. Shown(i) \in Int /\ Shown(k) \in Int /\ Shown(i) # Shown(k)
  BY <1>1 DEF Numbered
<1>3. Shown(k) < Shown(i) <=> ~(p[i].type = "B" /\ k = LastReference(p, i))
  BY <1>1 DEF Ordered
<1>4. p[k].type = "B" => k # LastReference(p, i)
  BY <1>1, LastReferenceFacts
<1>5. QED
  BY <1>2, <1>3, <1>4

(* What is fed to the decoder.                                             *)
FirstFed(a) == LastSeqHeader(LastIFrame(a))

LEMMA FedFacts ==
  ASSUME Numbered, Passed, Ends, NEW a \in 0 .. pictures - 1
  PROVE  /\ FirstFed(a) \in 0 .. a
         /\ Stored(FirstFed(a)) \in 0 .. n - 1
         /\ Fed(a) = {i \in Stored(FirstFed(a)) .. n - 1 : Shown(i) >= FirstFed(a)}
         /\ Stored(LastIFrame(a)) \in Fed(a)
         /\ p[Stored(LastIFrame(a))].type = "I"
         /\ Ordered => p[Stored(FirstFed(a))].type = "I"
<1> DEFINE l == LastIFrame(a)
           f == FirstFed(a)
           first == Stored(f)
           x == Stored(l)
<1>1. n \in Nat /\ pictures \in Nat /\ a \in Nat /\ pictures > 0
  BY DEF Numbered
<1>2. l \in 0 .. a /\ p[x].type = "I"
  BY LastIFrameFacts
<1>3. l \in Nat
  BY <1>2
<1>4. f \in 0 .. l /\ (f = 0 \/ p[first].hdr)
  BY <1>3, LastSeqHeaderFacts DEF FirstFed
<1>5. f \in 0 .. pictures - 1 /\ l \in 0 .. pictures - 1 /\ f <= l
  BY <1>1, <1>2, <1>4
<1>6. first \in 0 .. n - 1 /\ Shown(first) = f /\ x \in 0 .. n - 1 /\ Shown(x) = l
  BY <1>5 DEF Numbered
<1>7. Fed(a) = {i \in first .. n - 1 : i >= SeqEnd(p, n, first) \/ p[i].seqnr >= p[first].seqnr}
  BY DEF Fed, FirstFed
<1> HIDE DEF l, f, first, x
<1>8. \A i \in first .. n - 1 :
        Shown(i) >= f <=> (i >= SeqEnd(p, n, first) \/ p[i].seqnr >= p[first].seqnr)
  BY <1>6 DEF Passed
<1>9. Fed(a) = {i \in first .. n - 1 : Shown(i) >= f}
  BY <1>7, <1>8
<1>10. x >= first
  <2>1. CASE f = 0
    <3>1. \A i \in 0 .. first - 1 : p[i].type # "I"
      BY <1>1, <2>1 DEF Ends, first
    <3>2. QED
      BY <1>1, <1>2, <1>6, <3>1
  <2>2. CASE p[first].hdr
    <3> SUFFICES ASSUME x < first PROVE FALSE
      BY <1>1, <1>6
    <3>1. first \in x .. n - 1 /\ x \in Nat /\ x < n /\ first \in Nat
      BY <1>1, <1>6
    <3>2. /\ SeqEnd(p, n, x) \in x + 1 .. n
          /\ \A j \in x + 1 .. SeqEnd(p, n, x) - 1 : ~p[j].hdr
      BY <1>1, <3>1, SeqEndFacts
    <3>3. first >= SeqEnd(p, n, x)
      BY <1>1, <2>2, <3>1, <3>2
    <3>4. Shown(first) >= Shown(x)
      BY <1>6, <3>1, <3>3 DEF Passed
    <3>5. Shown(first) = Shown(x)
      BY <1>5, <1>6, <3>4
    <3>6. first = x
      BY <1>6, <3>5 DEF Numbered
    <3>7. QED
      BY <3>1, <3>6
  <2>3. QED
    BY <1>4, <2>1, <2>2 DEF f, first
<1>11. x \in Fed(a)
  BY <1>1, <1>5, <1>6, <1>9, <1>10
<1>12. Ordered => p[first].type = "I"
  <2>1. f = 0 => p[first].type = "I"
    BY <1>1 DEF Ends, first
  <2>2. QED
    BY <1>4, <1>6, <2>1 DEF Ordered, f, first
<1>13. f \in 0 .. a
  BY <1>1, <1>2, <1>4 DEF f
<1>14. QED
  BY <1>2, <1>6, <1>9, <1>11, <1>12, <1>13 DEF l, f, first, x

(* The decoder holds a picture in the end: it was fed an I picture.        *)
LEMMA HeldFacts ==
  ASSUME Numbered, Passed, Ends, NEW a \in 0 .. pictures - 1
  PROVE  /\ Decoded(Fed(a)).held \in 0 .. n - 1
         /\ Decoded(Fed(a)).given \in Seq(0 .. n - 1)
<1> DEFINE x == Stored(LastIFrame(a))
<1>1. n \in Nat
  BY DEF Numbered
<1>2. x \in Fed(a) /\ p[x].type = "I"
  BY FedFacts
<1>3. Fed(a) \subseteq 0 .. n - 1
  <2>1. /\ Stored(FirstFed(a)) \in 0 .. n - 1
        /\ Fed(a) = {i \in Stored(FirstFed(a)) .. n - 1 : Shown(i) >= FirstFed(a)}
    BY FedFacts
  <2>2. QED
    BY <1>1, <2>1
<1> HIDE DEF x
<1>4. PICK s : DecodedBy(s, Fed(a))
  BY <1>1, DecodedFacts
<1>5. /\ \A i \in 0 .. n : s[i] \in DecoderStates
      /\ \A i \in 1 .. n :
           s[i] = IF i - 1 \in Fed(a) THEN Decode(s[i - 1], i - 1) ELSE s[i - 1]
      /\ Decoded(Fed(a)) = s[n]
  BY <1>4 DEF DecodedBy
<1> DEFINE P == {k \in Nat : k > x /\ k <= n => s[k].held # Nothing}
<1>6. 0 \in P
  BY <1>1, <1>2, <1>3
<1>7. ASSUME NEW k \in P
      PROVE  k + 1 \in P
  <2> SUFFICES ASSUME k + 1 > x, k + 1 <= n
               PROVE  s[k + 1].held # Nothing
    OBVIOUS
  <2>1. k \in Nat /\ k \in 0 .. n /\ k + 1 \in 1 .. n /\ (k + 1) - 1 = k /\ x \in Nat
    BY <1>1, <1>2, <1>3
  <2>2. s[k] \in DecoderStates
    BY <1>5, <2>1
  <2>3. s[k + 1] = IF k \in Fed(a) THEN Decode(s[k], k) ELSE s[k]
    BY <1>5, <2>1
  <2>4. CASE k = x
    <3>1. s[k + 1].held = k
      BY <1>2, <2>3, <2>4 DEF Decode
    <3>2. QED
      BY <2>1, <3>1 DEF Nothing
  <2>5. CASE k # x
    <3>1. s[k].held # Nothing
      BY <2>1, <2>5
    <3>2. CASE k \in Fed(a) /\ p[k].type = "B"
      <4>1. Decode(s[k], k).held = s[k].held
        BY <2>2, <3>2 DEF Decode, DecoderStates
      <4>2. QED
        BY <2>3, <3>1, <3>2, <4>1
    <3>3. CASE k \in Fed(a) /\ p[k].type # "B"
      <4>1. s[k + 1].held = k
        BY <2>3, <3>3 DEF Decode
      <4>2. QED
        BY <2>1, <4>1 DEF Nothing
    <3>4. CASE k \notin Fed(a)
      BY <2>3, <3>1, <3>4
    <3>5. QED
      BY <3>2, <3>3, <3>4
  <2>6. QED
    BY <2>4, <2>5
<1>8. P = Nat
  <2> HIDE DEF P
  <2>1. P \subseteq Nat
    BY DEF P
  <2>2. QED
    BY <1>6, <1>7, <2>1, Induction
<1>9. n > x /\ n \in P
  BY <1>1, <1>2, <1>3, <1>8
<1>10. s[n].held # Nothing
  BY <1>1, <1>9
<1>11. s[n] \in DecoderStates
  BY <1>1, <1>5
<1>12. QED
  BY <1>5, <1>10, <1>11 DEF DecoderStates

LEMMA DecodeGopType ==
  ASSUME Numbered, Passed, Ends, NEW a \in 0 .. pictures - 1, NEW b \in a .. pictures
  PROVE  /\ DecodeGop(a, b) \in Seq(0 .. n - 1)
         /\ Len(DecodeGop(a, b)) \in 0 .. b - a
         /\ LET all == Append(Decoded(Fed(a)).given, Decoded(Fed(a)).held)
            IN  \A j \in 1 .. Len(DecodeGop(a, b)) :
                  /\ a - FirstFed(a) + j \in 1 .. Len(all)
                  /\ DecodeGop(a, b)[j] = all[a - FirstFed(a) + j]
<1> DEFINE given == Decoded(Fed(a)).given
           held == Decoded(Fed(a)).held
           all == Append(given, held)
           f == FirstFed(a)
           m == a - f + 1
           l == Min({b - f, Len(all)})
<1>1. held \in 0 .. n - 1 /\ given \in Seq(0 .. n - 1)
  BY HeldFacts
<1>2. f \in 0 .. a
  BY FedFacts
<1>3. DecodeGop(a, b) = SubSeq(all, m, l)
  BY DEF DecodeGop, FirstFed
<1>4. pictures \in Nat /\ a \in Nat /\ b \in Nat /\ a <= b
  BY DEF Numbered
<1> HIDE DEF given, held, f
<1>5. all \in Seq(0 .. n - 1) /\ Len(all) \in Nat
  BY <1>1, AppendProperties
<1> HIDE DEF all
<1>6. l \in {b - f, Len(all)} /\ l <= b - f /\ l <= Len(all)
  <2>1. {b - f, Len(all)} \subseteq Nat /\ {b - f, Len(all)} # {}
    BY <1>2, <1>4, <1>5
  <2>2. l \in {b - f, Len(all)} /\ \A x \in {b - f, Len(all)} : l <= x
    BY <2>1, MinFacts
  <2>3. QED
    BY <2>2
<1> HIDE DEF l
<1>7. l \in Nat /\ m \in Nat /\ m >= 1 /\ f \in Nat
  BY <1>2, <1>4, <1>5, <1>6
<1>8. \A i \in m .. l : all[i] \in 0 .. n - 1
  <2> TAKE i \in m .. l
  <2>1. i \in 1 .. Len(all)
    BY <1>5, <1>6, <1>7
  <2>2. QED
    BY <1>5, <2>1, ElementOfSeq
<1>9. /\ SubSeq(all, m, l) \in Seq(0 .. n - 1)
      /\ Len(SubSeq(all, m, l)) = IF m <= l THEN l - m + 1 ELSE 0
      /\ \A i \in 1 .. l - m + 1 : SubSeq(all, m, l)[i] = all[m + i - 1]
  <2>1. m \in Int /\ l \in Int
    BY <1>7
  <2> HIDE DEF m
  <2>2. QED
    BY <1>8, <2>1, SubSeqProperties
<1>10. Len(DecodeGop(a, b)) \in 0 .. b - a
  BY <1>3, <1>4, <1>6, <1>7, <1>9
<1>11. ASSUME NEW j \in 1 .. Len(DecodeGop(a, b))
       PROVE  a - f + j \in 1 .. Len(all) /\ DecodeGop(a, b)[j] = all[a - f + j]
  <2>1. j \in 1 .. l - m + 1
    BY <1>3, <1>7, <1>9
  <2>2. m + j - 1 = a - f + j /\ m + j - 1 <= l
    BY <1>4, <1>7, <2>1
  <2>3. DecodeGop(a, b)[j] = all[m + j - 1]
    BY <1>3, <1>9, <2>1
  <2>4. QED
    BY <1>4, <1>5, <1>6, <1>7, <2>1, <2>2, <2>3
<1>12. QED
  BY <1>3, <1>9, <1>10, <1>11 DEF all, given, held, f

(* Of what an encoder made, the decoder gives the pictures as they are     *)
(* displayed: whenever it gives one, it has given all that are displayed   *)
(* before it.                                                              *)
GivenUpTo(given, held, first, i) ==
  /\ \A j \in 1 .. Len(given) :
       /\ given[j] \in Stored(first) .. i - 1 /\ given[j] # held
       /\ Shown(given[j]) = first + j - 1
  /\ \A x \in Stored(first) .. i - 1 :
       Shown(x) >= first /\ x # held => \E j \in 1 .. Len(given) : given[j] = x

LEMMA Trichotomy ==
  ASSUME NEW a \in Int, NEW b \in Int, ~(a > b), ~(a < b)
  PROVE  a = b
OBVIOUS

LEMMA NextGiven ==
  ASSUME Numbered, Dense, NEW first \in 0 .. pictures - 1,
         NEW given \in Seq(0 .. n - 1), NEW held, NEW i \in 0 .. n,
         GivenUpTo(given, held, first, i),
         NEW x \in 0 .. n - 1, Shown(x) >= first,
         \A y \in 0 .. n - 1 : Shown(y) >= first /\ Shown(y) < Shown(x) =>
           y \in Stored(first) .. i - 1 /\ y # held,
         \A y \in Stored(first) .. i - 1 : y # held => Shown(y) < Shown(x)
  PROVE  Shown(x) = first + Len(given)
<1>1. /\ n \in Nat /\ pictures \in Nat /\ first \in Nat /\ Len(given) \in Nat
      /\ Stored(first) \in 0 .. n - 1 /\ Shown(Stored(first)) = first
      /\ Shown(x) \in Int
  BY LenProperties DEF Numbered
<1>2. CASE Shown(x) > first + Len(given)
  <2>1. first + Len(given) \in first .. Shown(x)
    BY <1>1, <1>2
  <2>2. PICK y \in 0 .. n - 1 : Shown(y) = first + Len(given)
    BY <1>1, <2>1 DEF Dense
  <2>3. Shown(y) >= first /\ Shown(y) < Shown(x)
    BY <1>1, <1>2, <2>2
  <2>4. y \in Stored(first) .. i - 1 /\ y # held
    BY <2>3
  <2>5. PICK j \in 1 .. Len(given) : given[j] = y
    BY <2>3, <2>4 DEF GivenUpTo
  <2>6. Shown(y) = first + j - 1
    BY <2>5 DEF GivenUpTo
  <2>7. j <= Len(given) /\ j \in Int
    BY <1>1
  <2>8. first + j - 1 = first + Len(given)
    BY <2>2, <2>5, <2>6
  <2>9. QED
    BY <1>1, <2>7, <2>8
<1>3. CASE Shown(x) < first + Len(given)
  <2> DEFINE j == Shown(x) - first + 1
  <2>1. j \in 1 .. Len(given) /\ first + j - 1 = Shown(x)
    BY <1>1, <1>3
  <2> HIDE DEF j
  <2>2. given[j] \in Stored(first) .. i - 1 /\ given[j] # held /\ Shown(given[j]) = Shown(x)
    BY <2>1 DEF GivenUpTo
  <2>3. Shown(given[j]) < Shown(x)
    BY <2>2
  <2>4. QED
    BY <1>1, <2>2, <2>3
<1>4. first + Len(given) \in Int
  BY <1>1
<1>5. Shown(x) \in Int
  BY <1>1
<1>6. QED
  BY <1>2, <1>3, <1>4, <1>5, Trichotomy

(* One more is given: picture i, or the one held, which i replaces.        *)
Gives(x, i, held, new) ==
  /\ x # new
  /\ \/ x = i /\ held = new
     \/ x = held /\ x < i /\ i = new

LEMMA GiveOne ==
  ASSUME Numbered, NEW first \in 0 .. pictures - 1,
         NEW given \in Seq(0 .. n - 1), NEW held, NEW i \in 0 .. n - 1,
         GivenUpTo(given, held, first, i),
         NEW x \in Stored(first) .. n - 1, Shown(x) = first + Len(given), NEW new,
         Gives(x, i, held, new)
  PROVE  /\ Append(given, x) \in Seq(0 .. n - 1)
         /\ GivenUpTo(Append(given, x), new, first, i + 1)
<1>1. /\ n \in Nat /\ pictures \in Nat /\ first \in Nat /\ Len(given) \in Nat
      /\ Stored(first) \in 0 .. n - 1
  BY LenProperties DEF Numbered
<1>2. x \in 0 .. n - 1
  BY <1>1
<1>3. /\ Append(given, x) \in Seq(0 .. n - 1)
      /\ Len(Append(given, x)) = Len(given) + 1
      /\ \A j \in 1 .. Len(given) : Append(given, x)[j] = given[j]
      /\ Append(given, x)[Len(given) + 1] = x
  BY <1>2, AppendProperties
<1> DEFINE g == Append(given, x)
<1> HIDE DEF g
<1>4. /\ g \in Seq(0 .. n - 1) /\ Len(g) = Len(given) + 1
      /\ \A j \in 1 .. Len(given) : g[j] = given[j]
      /\ g[Len(given) + 1] = x
  BY <1>3 DEF g
<1>5. ASSUME NEW j \in 1 .. Len(g)
      PROVE  /\ g[j] \in Stored(first) .. (i + 1) - 1 /\ g[j] # new
             /\ Shown(g[j]) = first + j - 1
  <2>1. CASE j = Len(given) + 1
    <3>1. g[j] = x /\ first + j - 1 = first + Len(given)
      BY <1>1, <1>4, <2>1
    <3>2. x <= i /\ x # new
      BY <1>1, <1>2 DEF Gives
    <3>3. QED
      BY <1>1, <1>2, <3>1, <3>2
  <2>2. CASE j # Len(given) + 1
    <3>1. j \in 1 .. Len(given) /\ g[j] = given[j]
      <4>1. Len(g) = Len(given) + 1 /\ Len(given) \in Nat
        BY <1>1, <1>4
      <4>2. j \in 1 .. Len(given)
        BY <2>2, <4>1
      <4>3. QED
        BY <1>4, <4>2
    <3>2. /\ given[j] \in Stored(first) .. i - 1 /\ given[j] # held
          /\ Shown(given[j]) = first + j - 1
      BY <3>1 DEF GivenUpTo
    <3>3. given[j] # i
      BY <1>1, <3>2
    <3>4. given[j] # new
      BY <3>2, <3>3 DEF Gives
    <3>5. QED
      BY <1>1, <3>1, <3>2, <3>4
  <2>3. QED
    BY <2>1, <2>2
<1>6. ASSUME NEW y \in Stored(first) .. (i + 1) - 1, Shown(y) >= first, y # new
      PROVE  \E j \in 1 .. Len(g) : g[j] = y
  <2>1. CASE y = x
    <3>1. Len(given) + 1 \in 1 .. Len(g)
      BY <1>1, <1>4
    <3>2. QED
      BY <1>4, <2>1, <3>1
  <2>2. CASE y # x
    <3>1. y # held /\ y # i
      BY <1>6, <2>2 DEF Gives
    <3>2. y \in Stored(first) .. i - 1
      BY <1>1, <3>1
    <3>3. PICK j \in 1 .. Len(given) : given[j] = y
      BY <1>6, <3>1, <3>2 DEF GivenUpTo
    <3>4. g[j] = y
      BY <1>4, <3>3
    <3>5. j \in 1 .. Len(g)
      BY <1>1, <1>4
    <3>6. QED
      BY <3>4, <3>5
  <2>3. QED
    BY <2>1, <2>2
<1>7. GivenUpTo(g, new, first, i + 1)
  BY <1>5, <1>6 DEF GivenUpTo
<1>8. QED
  BY <1>4, <1>7 DEF g

Decoding(s, first, i) ==
  IF i <= Stored(first) THEN s = DecoderBegin
  ELSE /\ s.held = LastReference(p, i) /\ s.held \in Stored(first) .. i - 1
       /\ p[s.held].type # "B"
       /\ s.refs = IF s.held = Stored(first) THEN 1 ELSE 2
       /\ GivenUpTo(s.given, s.held, first, i)

(* The picture held is the next one when another I or P picture arrives,   *)
(* or none.                                                                *)
LEMMA HeldNext ==
  ASSUME Numbered, Dense, Ordered, NEW first \in 0 .. pictures - 1,
         p[Stored(first)].type # "B", NEW i \in Stored(first) + 1 .. n,
         i < n => p[i].type # "B",
         NEW s \in DecoderStates, Decoding(s, first, i)
  PROVE  Shown(s.held) = first + Len(s.given)
<1> DEFINE f == Stored(first)
           h == s.held
<1>1. /\ n \in Nat /\ f \in 0 .. n - 1 /\ Shown(f) = first /\ first \in Nat
      /\ \A y \in 0 .. n - 1 : Shown(y) \in Int
  BY DEF Numbered
<1>2. /\ h = LastReference(p, i) /\ h \in f .. i - 1
      /\ p[h].type # "B" /\ GivenUpTo(s.given, h, first, i)
  <2>1. ~(i <= f)
    BY <1>1
  <2>2. QED
    BY <2>1 DEF Decoding
<1>3. s.given \in Seq(0 .. n - 1)
  BY DEF DecoderStates
<1> HIDE DEF f, h
<1>4. h \in 0 .. n - 1 /\ i \in Nat /\ i \in 0 .. n
  BY <1>1, <1>2 DEF f
<1>5. Shown(h) >= first
  <2>1. h = f \/ f \in 0 .. h - 1
    BY <1>1, <1>2
  <2>2. f \in 0 .. h - 1 => Shown(f) < Shown(h)
    BY <1>2, <1>4, OrderFacts
  <2>3. QED
    BY <1>1, <1>4, <2>1, <2>2
<1>6. ASSUME NEW y \in 0 .. n - 1, Shown(y) >= first, Shown(y) < Shown(h)
      PROVE  y \in f .. i - 1 /\ y # h
  <2>1. ~(y < f)
    <3> SUFFICES ASSUME y < f PROVE FALSE
      OBVIOUS
    <3>1. y \in 0 .. f - 1
      BY <1>1
    <3>2. Shown(y) < Shown(f)
      BY <1>1, <3>1, OrderFacts DEF f
    <3>3. QED
      BY <1>1, <1>6, <3>2
  <2>2. ~(y >= i)
    <3> SUFFICES ASSUME y >= i PROVE FALSE
      OBVIOUS
    <3>1. h \in 0 .. y - 1 /\ y \in Nat /\ i < n
      BY <1>1, <1>2, <1>4
    <3>2. y = i \/ h # LastReference(p, y)
      <4> SUFFICES ASSUME y # i PROVE h # LastReference(p, y)
        OBVIOUS
      <4>1. i \in 0 .. y - 1 /\ p[i].type # "B"
        BY <1>4, <3>1
      <4>2. i <= LastReference(p, y)
        BY <3>1, <4>1, LastReferenceFacts
      <4>3. QED
        BY <1>1, <1>2, <1>4, <4>2
    <3>3. p[y].type # "B" \/ h # LastReference(p, y)
      BY <3>1, <3>2
    <3>4. Shown(h) < Shown(y)
      BY <3>1, <3>3, OrderFacts
    <3>5. QED
      BY <1>1, <1>4, <1>6, <3>4
  <2>3. y # h
    BY <1>1, <1>4, <1>6
  <2>4. QED
    BY <1>1, <1>4, <2>1, <2>2, <2>3
<1>7. ASSUME NEW y \in f .. i - 1, y # h
      PROVE  Shown(y) < Shown(h)
  <2>1. y \in 0 .. n - 1 /\ y \in Nat
    BY <1>1, <1>4
  <2>2. CASE y < h
    <3>1. y \in 0 .. h - 1
      BY <1>4, <2>1, <2>2
    <3>2. QED
      BY <1>2, <1>4, <3>1, OrderFacts
  <2>3. CASE y > h
    <3>1. h \in 0 .. y - 1 /\ y \in 0 .. i - 1
      BY <1>4, <2>1, <2>3
    <3>2. p[y].type = "B"
      <4>1. p[y].type # "B" => y <= h
        BY <1>2, <1>4, <3>1, LastReferenceFacts
      <4>2. QED
        BY <1>4, <2>1, <2>3, <4>1
    <3>3. h <= LastReference(p, y) /\ LastReference(p, y) \in 0 .. y - 1
      BY <1>2, <2>1, <3>1, LastReferenceFacts
    <3>4. p[LastReference(p, y)].type # "B" /\ LastReference(p, y) \in 0 .. i - 1
      BY <2>1, <3>1, <3>3, LastReferenceFacts
    <3>5. LastReference(p, y) <= h
      BY <1>2, <1>4, <3>4, LastReferenceFacts
    <3>6. h = LastReference(p, y)
      BY <1>4, <3>3, <3>5
    <3>7. QED
      BY <2>1, <3>1, <3>2, <3>6, OrderFacts
  <2>4. QED
    BY <1>4, <1>7, <2>1, <2>2, <2>3
<1>8. Shown(h) = first + Len(s.given)
  <2>1. /\ s.given \in Seq(0 .. n - 1) /\ i \in 0 .. n /\ h \in 0 .. n - 1
        /\ GivenUpTo(s.given, h, first, i)
    BY <1>2, <1>3, <1>4
  <2>2. \A y \in 0 .. n - 1 : Shown(y) >= first /\ Shown(y) < Shown(h) =>
          y \in Stored(first) .. i - 1 /\ y # h
    BY <1>6 DEF f
  <2>3. \A y \in Stored(first) .. i - 1 : y # h => Shown(y) < Shown(h)
    BY <1>7 DEF f
  <2>4. QED
    BY <1>5, <2>1, <2>2, <2>3, NextGiven
<1>9. QED
  BY <1>8 DEF h

LEMMA BNext ==
  ASSUME Numbered, Dense, Ordered, NEW first \in 0 .. pictures - 1,
         p[Stored(first)].type # "B", NEW i \in Stored(first) + 1 .. n - 1,
         p[i].type = "B", Shown(i) >= first,
         NEW s \in DecoderStates, Decoding(s, first, i)
  PROVE  Shown(i) = first + Len(s.given) /\ s.refs = 2
<1> DEFINE f == Stored(first)
           h == s.held
<1>1. /\ n \in Nat /\ f \in 0 .. n - 1 /\ Shown(f) = first /\ first \in Nat
      /\ \A y \in 0 .. n - 1 : Shown(y) \in Int
  BY DEF Numbered
<1>2. /\ h = LastReference(p, i) /\ h \in f .. i - 1
      /\ s.refs = IF h = f THEN 1 ELSE 2
      /\ GivenUpTo(s.given, h, first, i)
  <2>1. ~(i <= f)
    BY <1>1
  <2>2. QED
    BY <2>1 DEF Decoding
<1>3. s.given \in Seq(0 .. n - 1)
  BY DEF DecoderStates
<1> HIDE DEF f, h
<1>4. h \in 0 .. i - 1 /\ i \in Nat /\ i \in 0 .. n /\ i \in 0 .. n - 1
  BY <1>1, <1>2 DEF f
<1>5. Shown(i) < Shown(h)
  BY <1>2, <1>4, OrderFacts
<1>6. h # f
  BY <1>1, <1>4, <1>5
<1>7. ASSUME NEW y \in 0 .. n - 1, Shown(y) >= first, Shown(y) < Shown(i)
      PROVE  y \in f .. i - 1 /\ y # h
  <2>1. ~(y < f)
    <3> SUFFICES ASSUME y < f PROVE FALSE
      OBVIOUS
    <3>1. y \in 0 .. f - 1
      BY <1>1
    <3>2. Shown(y) < Shown(f)
      BY <1>1, <3>1, OrderFacts DEF f
    <3>3. QED
      BY <1>1, <1>7, <3>2
  <2>2. ~(y > i)
    <3> SUFFICES ASSUME y > i PROVE FALSE
      OBVIOUS
    <3>1. i \in 0 .. y - 1
      BY <1>4
    <3>2. Shown(i) < Shown(y)
      BY <3>1, OrderFacts
    <3>3. QED
      BY <1>1, <1>4, <1>7, <3>2
  <2>3. y # h /\ y # i
    BY <1>1, <1>4, <1>5, <1>7
  <2>4. QED
    BY <1>1, <1>4, <2>1, <2>2, <2>3
<1>8. ASSUME NEW y \in f .. i - 1, y # h
      PROVE  Shown(y) < Shown(i)
  <2>1. y \in 0 .. i - 1
    BY <1>1, <1>4
  <2>2. QED
    BY <1>2, <1>4, <1>8, <2>1, OrderFacts
<1>9. Shown(i) = first + Len(s.given)
  BY <1>2, <1>3, <1>4, <1>7, <1>8, NextGiven DEF f
<1>10. QED
  BY <1>2, <1>6, <1>9

LEMMA GiveB ==
  ASSUME Numbered, NEW first \in 0 .. pictures - 1,
         NEW given \in Seq(0 .. n - 1), NEW held, NEW i \in 0 .. n - 1,
         GivenUpTo(given, held, first, i), i >= Stored(first),
         Shown(i) = first + Len(given), i # held
  PROVE  GivenUpTo(Append(given, i), held, first, i + 1)
<1>1. i \in Stored(first) .. n - 1
  BY DEF Numbered
<1>2. Gives(i, i, held, held)
  BY DEF Gives
<1>3. QED
  BY <1>1, <1>2, GiveOne

LEMMA GivenChanged ==
  ASSUME NEW s \in DecoderStates, NEW g, NEW t, t = [s EXCEPT !.given = g]
  PROVE  t.refs = s.refs /\ t.held = s.held /\ t.given = g
BY DEF DecoderStates

(* One picture more.                                                       *)
LEMMA DecodingStep ==
  ASSUME Numbered, Dense, Ordered, NEW first \in 0 .. pictures - 1,
         p[Stored(first)].type # "B", NEW fed,
         fed = {i \in Stored(first) .. n - 1 : Shown(i) >= first},
         NEW k \in 0 .. n - 1, NEW s \in DecoderStates, Decoding(s, first, k),
         NEW t, t = IF k \in fed THEN Decode(s, k) ELSE s
  PROVE  Decoding(t, first, k + 1)
<1> DEFINE f == Stored(first)
<1>1. /\ n \in Nat /\ f \in 0 .. n - 1 /\ Shown(f) = first /\ first \in Nat
      /\ k \in Nat /\ k + 1 \in Nat
      /\ \A y \in 0 .. n - 1 : Shown(y) \in Int
  BY DEF Numbered
<1> HIDE DEF f
<1>2. CASE k < f
  <2>1. k \notin fed /\ k <= f /\ k + 1 <= f
    BY <1>1, <1>2 DEF f
  <2>2. QED
    BY <2>1 DEF Decoding, f
<1>3. CASE k = f
  <2>1. s = DecoderBegin
    BY <1>1, <1>3 DEF Decoding, f
  <2>2. k \in fed
    BY <1>1, <1>3 DEF f
  <2>3. t = [refs |-> 1, held |-> f, given |-> << >>]
    <3>1. p[k].type # "B"
      BY <1>3 DEF f
    <3>2. QED
      BY <1>3, <2>1, <2>2, <3>1 DEF Decode, DecoderBegin
  <2>4. LastReference(p, k + 1) = f
    <3>1. k \in 0 .. (k + 1) - 1 /\ p[k].type # "B"
      BY <1>1, <1>3 DEF f
    <3>2. k <= LastReference(p, k + 1) /\ LastReference(p, k + 1) \in 0 .. (k + 1) - 1
      BY <1>1, <3>1, LastReferenceFacts
    <3>3. QED
      BY <1>1, <1>3, <3>2
  <2>5. GivenUpTo(<< >>, f, first, k + 1)
    <3>1. \A x \in f .. (k + 1) - 1 : x = f
      BY <1>1, <1>3
    <3>2. Len(<< >>) = 0
      BY EmptySeq
    <3>3. QED
      BY <3>1, <3>2 DEF GivenUpTo, f
  <2>6. ~(k + 1 <= f) /\ f \in f .. (k + 1) - 1 /\ p[f].type # "B"
    BY <1>1, <1>3 DEF f
  <2>7. QED
    BY <2>3, <2>4, <2>5, <2>6 DEF Decoding, f
<1>4. CASE k > f
  <2> DEFINE h == s.held
  <2>1. /\ h = LastReference(p, k) /\ h \in f .. k - 1
        /\ p[h].type # "B"
        /\ s.refs = IF h = f THEN 1 ELSE 2
        /\ GivenUpTo(s.given, h, first, k)
    <3>1. ~(k <= f)
      BY <1>1, <1>4
    <3>2. QED
      BY <3>1 DEF Decoding, f
  <2>2. /\ s.given \in Seq(0 .. n - 1) /\ s.refs \in 0 .. 2
        /\ s = [refs |-> s.refs, held |-> h, given |-> s.given]
    BY DEF DecoderStates
  <2> HIDE DEF h
  <2>3. /\ h \in 0 .. n - 1 /\ h \in Nat /\ h < k /\ f <= h
        /\ k \in f + 1 .. n - 1 /\ k \in f + 1 .. n
        /\ ~(k + 1 <= f)
    BY <1>1, <1>4, <2>1
  <2>4. CASE p[k].type # "B"
    <3>1. f \in 0 .. k - 1
      BY <1>1, <1>4
    <3>2. Shown(k) > first
      BY <1>1, <2>4, <3>1, OrderFacts
    <3>3. k \in fed
      BY <1>1, <1>4, <3>2 DEF f
    <3>4. Shown(h) = first + Len(s.given)
      BY <2>3, <2>4, HeldNext DEF f, h
    <3>5. t.refs = 2 /\ t.held = k /\ t.given = Append(s.given, h)
      <4>1. h # Nothing /\ s.refs # 0
        BY <2>1, <2>3 DEF Nothing
      <4>2. t = [refs |-> 2, held |-> k, given |-> Append(s.given, h)]
        BY <2>4, <3>3, <4>1 DEF Decode, h
      <4>3. QED
        BY <4>2
    <3>6. h \in f .. n - 1 /\ h # k
      BY <1>1, <2>3
    <3>11. Gives(h, k, h, k)
      BY <2>3, <3>6 DEF Gives
    <3>7. GivenUpTo(Append(s.given, h), k, first, k + 1)
      BY <2>1, <2>2, <2>3, <3>4, <3>6, <3>11, GiveOne DEF f
    <3>8. LastReference(p, k + 1) = k
      <4>1. k \in 0 .. (k + 1) - 1
        BY <1>1
      <4>2. k <= LastReference(p, k + 1) /\ LastReference(p, k + 1) \in 0 .. (k + 1) - 1
        BY <1>1, <2>4, <4>1, LastReferenceFacts
      <4>3. QED
        BY <1>1, <4>2
    <3>9. k # f /\ k \in f .. (k + 1) - 1
      BY <1>1, <2>3
    <3>10. QED
      BY <2>3, <2>4, <3>5, <3>7, <3>8, <3>9 DEF Decoding, f
  <2>5. CASE p[k].type = "B"
    <3>1. LastReference(p, k + 1) = h
      <4>1. h \in 0 .. (k + 1) - 1
        BY <1>1, <2>3
      <4>2. h <= LastReference(p, k + 1) /\ LastReference(p, k + 1) \in 0 .. (k + 1) - 1
        BY <1>1, <2>1, <4>1, LastReferenceFacts
      <4>3. p[LastReference(p, k + 1)].type # "B"
        BY <1>1, <4>2, LastReferenceFacts
      <4>4. LastReference(p, k + 1) \in 0 .. k - 1
        BY <1>1, <2>5, <4>2, <4>3
      <4>5. LastReference(p, k + 1) <= h
        BY <1>1, <2>1, <4>3, <4>4, LastReferenceFacts
      <4>6. QED
        BY <1>1, <2>3, <4>2, <4>5
    <3>2. h \in f .. (k + 1) - 1
      BY <1>1, <2>3
    <3>3. CASE k \in fed
      <4>1. Shown(k) >= first
        BY <3>3
      <4>2. Shown(k) = first + Len(s.given) /\ s.refs = 2
        BY <2>3, <2>5, <4>1, BNext DEF f
      <4>3. t.refs = 2 /\ t.held = h /\ t.given = Append(s.given, k)
        <5>1. t = [s EXCEPT !.given = Append(s.given, k)]
          BY <2>5, <3>3, <4>2 DEF Decode
        <5> DEFINE g == Append(s.given, k)
        <5> HIDE DEF g
        <5>2. t = [s EXCEPT !.given = g]
          BY <5>1 DEF g
        <5>5. PICK u : u = t
          OBVIOUS
        <5>6. u.refs = s.refs /\ u.held = s.held /\ u.given = g
          BY <5>2, <5>5, GivenChanged
        <5>3. t.refs = s.refs /\ t.held = s.held /\ t.given = g
          BY <5>5, <5>6
        <5>4. QED
          BY <4>2, <5>3 DEF g, h
      <4>4. k >= f /\ k # h
        BY <1>1, <2>3
      <4>5. GivenUpTo(Append(s.given, k), h, first, k + 1)
        BY <2>1, <2>2, <4>2, <4>4, GiveB DEF f
      <4>6. h # f
        BY <2>1, <4>2
      <4>7. QED
        BY <2>1, <2>3, <3>1, <3>2, <4>3, <4>5, <4>6 DEF Decoding, f
    <3>4. CASE k \notin fed
      <4>1. ~(Shown(k) >= first)
        BY <1>1, <2>3, <3>4 DEF f
      <4>2. GivenUpTo(s.given, h, first, k + 1)
        <5>1. \A x \in f .. (k + 1) - 1 : x = k \/ x \in f .. k - 1
          BY <1>1
        <5>2. \A x \in f .. k - 1 : x \in f .. (k + 1) - 1
          BY <1>1
        <5>3. QED
          BY <2>1, <4>1, <5>1, <5>2 DEF GivenUpTo, f
      <4>3. t = s
        BY <3>4
      <4>4. QED
        BY <2>1, <2>3, <3>1, <3>2, <4>2, <4>3 DEF Decoding, f, h
    <3>5. QED
      BY <3>3, <3>4
  <2>6. QED
    BY <2>4, <2>5
<1>5. QED
  BY <1>1, <1>2, <1>3, <1>4

(* What is decoded for the pictures from a on begins with a.               *)
LEMMA DecodedInOrder ==
  ASSUME Numbered, Passed, Dense, Ends, Ordered, NEW a \in 0 .. pictures - 1
  PROVE  LET all == Append(Decoded(Fed(a)).given, Decoded(Fed(a)).held)
         IN  \A j \in 1 .. Len(all) : Shown(all[j]) = FirstFed(a) + j - 1
<1> DEFINE first == FirstFed(a)
           fed == Fed(a)
<1>1. /\ first \in 0 .. a /\ Stored(first) \in 0 .. n - 1
      /\ fed = {i \in Stored(first) .. n - 1 : Shown(i) >= first}
      /\ p[Stored(first)].type = "I"
  BY FedFacts
<1>2. n \in Nat /\ pictures \in Nat /\ a \in Nat
  BY DEF Numbered
<1> HIDE DEF first, fed
<1>3. first \in 0 .. pictures - 1 /\ p[Stored(first)].type # "B"
  BY <1>1, <1>2
<1>4. PICK s : DecodedBy(s, fed)
  BY <1>2, DecodedFacts
<1>5. /\ \A i \in 0 .. n : s[i] \in DecoderStates
      /\ s[0] = DecoderBegin
      /\ \A i \in 1 .. n : s[i] = IF i - 1 \in fed THEN Decode(s[i - 1], i - 1) ELSE s[i - 1]
      /\ Decoded(fed) = s[n]
  BY <1>4 DEF DecodedBy
<1> DEFINE P == {k \in Nat : k <= n => Decoding(s[k], first, k)}
<1>6. 0 \in P
  <2>1. 0 <= Stored(first)
    BY <1>1
  <2>2. QED
    BY <1>5, <2>1 DEF Decoding
<1>7. ASSUME NEW k \in P
      PROVE  k + 1 \in P
  <2>1. CASE k + 1 <= n
    <3>1. k \in Nat /\ k <= n /\ k \in 0 .. n - 1 /\ k \in 0 .. n /\ k + 1 \in 1 .. n
          /\ (k + 1) - 1 = k
      BY <1>2, <2>1
    <3>2. s[k] \in DecoderStates /\ Decoding(s[k], first, k)
      BY <1>5, <3>1
    <3>3. s[k + 1] = IF k \in fed THEN Decode(s[k], k) ELSE s[k]
      BY <1>5, <3>1
    <3>4. Decoding(s[k + 1], first, k + 1)
      BY <1>1, <1>3, <3>1, <3>2, <3>3, DecodingStep
    <3>5. QED
      BY <3>1, <3>4
  <2>2. CASE ~(k + 1 <= n)
    BY <2>2
  <2>3. QED
    BY <2>1, <2>2
<1>8. P = Nat
  <2> HIDE DEF P
  <2>1. P \subseteq Nat
    BY DEF P
  <2>2. QED
    BY <1>6, <1>7, <2>1, Induction
<1>9. Decoding(s[n], first, n) /\ s[n] \in DecoderStates
  BY <1>2, <1>5, <1>8
<1>10. Shown(s[n].held) = first + Len(s[n].given)
  <2>1. n \in Stored(first) + 1 .. n /\ ~(n < n)
    BY <1>1, <1>2
  <2>2. QED
    BY <1>3, <1>9, <2>1, HeldNext
<1> DEFINE given == s[n].given
           held == s[n].held
<1>11. given \in Seq(0 .. n - 1) /\ held \in 0 .. n - 1
  <2>1. Decoded(Fed(a)).held \in 0 .. n - 1 /\ Decoded(Fed(a)).given \in Seq(0 .. n - 1)
    BY HeldFacts
  <2>2. QED
    BY <1>5, <2>1 DEF fed
<1>12. \A j \in 1 .. Len(given) : Shown(given[j]) = first + j - 1
  <2>1. ~(n <= Stored(first))
    BY <1>1, <1>2
  <2>2. GivenUpTo(given, held, first, n)
    BY <1>9, <2>1 DEF Decoding
  <2>3. QED
    BY <2>2 DEF GivenUpTo
<1>13. Shown(held) = first + Len(given)
  BY <1>10
<1> HIDE DEF given, held
<1>14. /\ Len(given) \in Nat /\ Len(Append(given, held)) = Len(given) + 1
       /\ \A j \in 1 .. Len(given) : Append(given, held)[j] = given[j]
       /\ Append(given, held)[Len(given) + 1] = held
  BY <1>11, AppendProperties, LenProperties
<1>15. \A j \in 1 .. Len(Append(given, held)) :
         Shown(Append(given, held)[j]) = first + j - 1
  <2> TAKE j \in 1 .. Len(Append(given, held))
  <2>1. CASE j = Len(given) + 1
    <3>1. first + j - 1 = first + Len(given)
      BY <1>1, <1>14, <2>1
    <3>2. QED
      BY <1>13, <1>14, <2>1, <3>1
  <2>2. CASE j # Len(given) + 1
    <3>1. j \in 1 .. Len(given)
      BY <1>14, <2>2
    <3>2. QED
      BY <1>12, <1>14, <3>1
  <2>3. QED
    BY <2>1, <2>2
<1>16. QED
  BY <1>5, <1>15 DEF given, held, first, fed

LEMMA DecodeGopOrder ==
  ASSUME Numbered, Passed, Dense, Ends, Ordered,
         NEW a \in 0 .. pictures - 1, NEW b \in a .. pictures
  PROVE  \A j \in 1 .. Len(DecodeGop(a, b)) : Shown(DecodeGop(a, b)[j]) = a + j - 1
<1> DEFINE all == Append(Decoded(Fed(a)).given, Decoded(Fed(a)).held)
           f == FirstFed(a)
           g == DecodeGop(a, b)
<1>1. /\ Len(g) \in 0 .. b - a
      /\ \A j \in 1 .. Len(g) : a - f + j \in 1 .. Len(all) /\ g[j] = all[a - f + j]
  BY DecodeGopType
<1>2. \A j \in 1 .. Len(all) : Shown(all[j]) = f + j - 1
  BY DecodedInOrder
<1>3. f \in 0 .. a /\ a \in Nat
  BY FedFacts DEF Numbered
<1> HIDE DEF all, f, g
<1>4. \A j \in 1 .. Len(g) : Shown(g[j]) = a + j - 1
  <2> TAKE j \in 1 .. Len(g)
  <2>1. j \in Nat /\ f + (a - f + j) - 1 = a + j - 1
    BY <1>1, <1>3
  <2>2. Shown(g[j]) = f + (a - f + j) - 1
    BY <1>1, <1>2
  <2>3. QED
    BY <2>1, <2>2
<1>5. QED
  BY <1>4 DEF g

-----------------------------------------------------------------------------
(* What is exported is a table load() accepts, with ranges of its pictures *)
(* one behind the other.                                                   *)
LEMMA InputInit ==
  ASSUME Init
  PROVE  InputOK
<1>1. PICK t \in Recordings :
        /\ p = t.p /\ n = t.n
        /\ origin = t.origin /\ audiobegin = t.audiobegin /\ frames = t.frames
        /\ shown = [pictures |-> RealPictures(p, n),
                    stored |-> [i \in 0 .. RealPictures(p, n) - 1 |->
                                  IndexNr(p, n, SkipFirst(p, n), i)],
                    number |-> [i \in 0 .. n - 1 |-> PictureNr(p, SkipFirst(p, n), i)],
                    ordered |-> EncoderOrder(p, n)]
  BY DEF Init
<1>2. /\ n \in Nat /\ p \in [0 .. n - 1 -> Picture] /\ (n > 0 => p[0].hdr)
      /\ RanksOK(p, n) /\ origin \in Nat /\ audiobegin \in Int /\ frames \in Nat
  <2>1. /\ t.n \in Nat /\ t.p \in [0 .. t.n - 1 -> Picture]
        /\ t.n > 0 => t.p[0].hdr
        /\ RanksOK(t.p, t.n)
        /\ t.origin \in Nat /\ t.audiobegin \in Int /\ t.frames \in Nat
    BY SaveMpgAssumption
  <2>2. /\ p = t.p /\ n = t.n
        /\ origin = t.origin /\ audiobegin = t.audiobegin /\ frames = t.frames
    BY <1>1
  <2>3. QED
    BY <2>1, <2>2
<1>3. GoodTable(p, n)
  BY <1>2, AcceptedGood DEF IsTable
<1> DEFINE Ranges == {r \in [start: 0 .. n, stop: 0 .. n] :
                        r.start <= r.stop /\ r.stop < pictures}
<1>4. PICK k \in 1 .. MaxRanges : ranges \in [1 .. k -> Ranges]
  BY DEF Init
<1>5. k \in Nat /\ k >= 1
  BY SaveMpgAssumption
<1> HIDE DEF Ranges
<1>6. ranges \in Seq(Ranges) /\ Len(ranges) = k
  BY <1>4, <1>5, FcnIsSeq
<1>7. Ranges \subseteq [start : Nat, stop : Nat]
  BY <1>2 DEF Ranges
<1>8. ranges \in Seq([start : Nat, stop : Nat])
  BY <1>4, <1>5, <1>7, FcnIsSeq
<1>9. \A j \in 1 .. Len(ranges) :
        ranges[j].start <= ranges[j].stop /\ ranges[j].stop < pictures
  <2> TAKE j \in 1 .. Len(ranges)
  <2>1. ranges[j] \in Ranges
    BY <1>4, <1>6
  <2>2. QED
    BY <2>1 DEF Ranges
<1>10. \A j \in 2 .. Len(ranges) : ranges[j - 1].stop <= ranges[j].start
  BY DEF Init
<1>11. QED
  BY <1>1, <1>2, <1>3, <1>5, <1>6, <1>8, <1>9, <1>10 DEF InputOK

LEMMA InputSame ==
  ASSUME [Next]_vars
  PROVE  UNCHANGED input
BY DEF Next, vars, EmptyRange, Begin, RecodeHead, Pass, CopyPicture, CopyVideoEnds,
       CopyAudio, PassEnds, CopyCancelled, ReadingEnds, RecodeTail, End, Cancel

LEMMA InputNext ==
  ASSUME InputOK, [Next]_vars
  PROVE  InputOK'
<1>1. UNCHANGED <<p, n, shown, ranges, origin, audiobegin, frames>>
  BY InputSame DEF input
<1>2. QED
  BY <1>1 DEF InputOK, pictures

(* While a range is exported, what is computed of the table and of the     *)
(* range remains the same.                                                 *)
LEMMA SameRange ==
  ASSUME UNCHANGED <<input, num>>
  PROVE  /\ start' = start /\ stop' = stop /\ firstseqhdr' = firstseqhdr
         /\ CopyStop' = CopyStop /\ StartRecode' = StartRecode
         /\ TailMissing' = TailMissing /\ pictures' = pictures
         /\ \A x : Stored(x)' = Stored(x) /\ Shown(x)' = Shown(x)
         /\ \A x : LastReference(p, x)' = LastReference(p, x)
         /\ \A x : AudioPts(x)' = AudioPts(x)
         /\ \A x : SeqEnd(p, n, x)' = SeqEnd(p, n, x)
<1>1. p' = p /\ n' = n /\ shown' = shown /\ ranges' = ranges /\ num' = num
      /\ audiobegin' = audiobegin /\ frames' = frames
  BY DEF input
<1>2. start' = start /\ stop' = stop /\ pictures' = pictures
  BY <1>1 DEF start, stop, pictures
<1>3. \A x : Stored(x)' = Stored(x) /\ Shown(x)' = Shown(x) /\ AudioPts(x)' = AudioPts(x)
  BY <1>1 DEF Stored, Shown, AudioPts
<1>4. firstseqhdr' = firstseqhdr
  BY <1>1 DEF firstseqhdr, NextSeqHeader, start, pictures, Stored
<1>5. CopyStop' = CopyStop
  BY <1>1 DEF CopyStop, stop, pictures, Stored, IsB
<1>6. StartRecode' = StartRecode
  BY <1>1 DEF StartRecode, stop, Stored, IsB
<1>7. TailMissing' = TailMissing
  BY <1>1, <1>2, <1>4 DEF TailMissing, IsB, Stored
<1>8. \A x : LastReference(p, x)' = LastReference(p, x)
  BY <1>1 DEF LastReference
<1>9. \A x : SeqEnd(p, n, x)' = SeqEnd(p, n, x)
  BY <1>1 DEF SeqEnd
<1>10. QED
  BY <1>2, <1>3, <1>4, <1>5, <1>6, <1>7, <1>8, <1>9

-----------------------------------------------------------------------------
Time(x) == x * FrameTime - videooffset

InRange == pc \in {"head", "copy", "pass", "tail", "end"}

OutPicture == [pic: Int, pts: Int, dts: Int, copied: Int, range: Nat]
OutFrame   == [frame: Nat, range: Nat, pts: Int]

LEMMA RangeFacts ==
  ASSUME InputOK, num \in 1 .. Len(ranges)
  PROVE  /\ n \in Nat /\ pictures \in Nat /\ pictures > 0 /\ pictures <= n
         /\ start \in 0 .. pictures - 1 /\ stop \in 0 .. pictures - 1 /\ start <= stop
         /\ firstseqhdr \in start .. pictures - 1
         /\ Stored(firstseqhdr) \in 0 .. n - 1
         /\ \E c \in stop .. pictures - 1 : StopsAt(c) /\ CopyStop = Stored(c)
         /\ CopyStop \in 0 .. n - 1
         /\ num < Len(ranges) => ranges[num + 1].start >= stop
<1>1. Numbered /\ Ends
  BY TableNumbered, TableEnds
<1>2. n \in Nat /\ pictures \in Nat /\ pictures <= n
  BY <1>1 DEF Numbered
<1>3. ranges \in Seq([start : Nat, stop : Nat]) /\ Len(ranges) \in Nat
  BY LenProperties DEF InputOK
<1>4. ranges[num] \in [start : Nat, stop : Nat]
  BY <1>3, ElementOfSeq
<1>5. start \in Nat /\ stop \in Nat /\ start <= stop /\ stop < pictures
  BY <1>4 DEF InputOK, start, stop
<1>6. start \in 0 .. pictures - 1 /\ stop \in 0 .. pictures - 1
  BY <1>2, <1>5
<1>7. firstseqhdr \in start .. pictures - 1
  BY <1>1, <1>6, NextSeqHeaderFacts DEF firstseqhdr
<1>8. firstseqhdr \in 0 .. pictures - 1
  BY <1>2, <1>6, <1>7
<1>9. Stored(firstseqhdr) \in 0 .. n - 1
  BY <1>1, <1>8 DEF Numbered
<1>10. PICK c \in stop .. pictures - 1 : StopsAt(c)
  BY <1>1, <1>6, CopyStopFacts
<1>11. c \in 0 .. pictures - 1 /\ CopyStop = Stored(c)
  BY <1>2, <1>6, <1>10 DEF StopsAt
<1>12. CopyStop \in 0 .. n - 1
  BY <1>1, <1>11 DEF Numbered
<1>13. num < Len(ranges) => ranges[num + 1].start >= stop
  <2> SUFFICES ASSUME num < Len(ranges) PROVE ranges[num + 1].start >= stop
    OBVIOUS
  <2>1. num + 1 \in 2 .. Len(ranges) /\ (num + 1) - 1 = num /\ num + 1 \in 1 .. Len(ranges)
    BY <1>3
  <2>2. ranges[num].stop <= ranges[num + 1].start
    BY <2>1 DEF InputOK
  <2>3. ranges[num + 1] \in [start : Nat, stop : Nat]
    BY <1>3, <2>1, ElementOfSeq
  <2>4. QED
    BY <1>5, <2>2, <2>3 DEF stop
<1>14. pictures > 0
  BY <1>2, <1>6
<1>15. QED
  BY <1>2, <1>5, <1>6, <1>7, <1>9, <1>10, <1>11, <1>12, <1>13, <1>14

LEMMA TimeFacts ==
  ASSUME InputOK, NEW x \in 0 .. pictures - 1
  PROVE  Pts(Stored(x)) = x * FrameTime /\ x * FrameTime \in Int
<1>1. Shown(Stored(x)) = x /\ x \in Int
  BY TableNumbered DEF Numbered
<1>2. FrameTime \in Int
  BY SaveMpgAssumption
<1>3. QED
  BY <1>1, <1>2 DEF Pts

(* Frames of audio follow each other.                                      *)
LEMMA AudioFacts ==
  ASSUME audiobegin \in Int, NEW k \in Int
  PROVE  /\ AudioPts(k) \in Int
         /\ AudioPts(k + 1) = AudioPts(k) + AudioTime
         /\ AudioTime \in Nat /\ AudioTime > 0
         /\ \A j \in Int : j <= k => AudioPts(j) <= AudioPts(k)
         /\ \A j \in Int : j < k => AudioPts(j) + AudioTime <= AudioPts(k)
<1>1. AudioTime \in Nat /\ AudioTime > 0 /\ AudioTime \in Int
  BY SaveMpgAssumption
<1>2. k * AudioTime \in Int
  BY <1>1
<1>3. (k + 1) * AudioTime = k * AudioTime + AudioTime
  BY <1>1
<1>4. ASSUME NEW j \in Int
      PROVE  /\ j <= k => j * AudioTime <= k * AudioTime
             /\ j < k => j * AudioTime + AudioTime <= k * AudioTime
             /\ j * AudioTime \in Int
  <2>1. j * AudioTime \in Int
    BY <1>1
  <2>2. k * AudioTime = j * AudioTime + (k - j) * AudioTime
    BY <1>1
  <2>3. (k - j) * AudioTime \in Int
    BY <1>1
  <2>4. j <= k => (k - j) * AudioTime >= 0
    BY <1>1
  <2>5. j < k => (k - j) * AudioTime >= AudioTime
    BY <1>1
  <2>6. QED
    BY <1>1, <1>2, <2>1, <2>2, <2>3, <2>4, <2>5
<1>5. QED
  BY <1>1, <1>2, <1>3, <1>4 DEF AudioPts

(* closestptsbufferpos() finds a frame, none is closer.                    *)
LEMMA ClosestFacts ==
  ASSUME audiobegin \in Int, frames \in Nat, frames > 0, NEW t \in Int
  PROVE  /\ Closest(t) \in 0 .. frames - 1
         /\ Closest(t) > 0 => 2 * (AudioPts(Closest(t)) - t) <= AudioTime
         /\ Closest(t) < frames - 1 => 2 * (t - AudioPts(Closest(t))) <= AudioTime
         /\ 2 * (AudioPts(frames - 1) - t) < AudioTime => Closest(t) = frames - 1
<1> DEFINE later == {k \in 1 .. frames - 1 : AudioPts(k) >= t}
           k == IF AudioPts(0) >= t THEN 0
                ELSE IF later = {} THEN frames - 1 ELSE Min(later)
           before == k > 0 /\ AudioPts(k) >= t /\ t - AudioPts(k - 1) < AudioPts(k) - t
<1>1. Closest(t) = IF before THEN k - 1 ELSE k
  BY DEF Closest
<1>2. AudioTime \in Nat /\ AudioTime > 0
  BY SaveMpgAssumption
<1>3. \A j \in Int : AudioPts(j) \in Int
  BY AudioFacts
<1>4. ASSUME later # {}
      PROVE  Min(later) \in later /\ \A x \in later : Min(later) <= x
  <2>1. later \subseteq Nat
    OBVIOUS
  <2> HIDE DEF later
  <2>2. QED
    BY <1>4, <2>1, MinFacts
<1>5. k \in 0 .. frames - 1
  BY <1>4
<1>6. k > 0 => AudioPts(k - 1) < t
  <2> SUFFICES ASSUME k > 0 PROVE AudioPts(k - 1) < t
    OBVIOUS
  <2>1. ~(AudioPts(0) >= t)
    OBVIOUS
  <2>2. CASE later = {}
    <3>1. k = frames - 1
      BY <2>1, <2>2
    <3>2. k - 1 = 0 \/ k - 1 \in 1 .. frames - 1
      BY <1>5
    <3>3. ~(AudioPts(k - 1) >= t)
      BY <2>1, <2>2, <3>2
    <3>4. QED
      BY <1>3, <1>5, <3>3
  <2>3. CASE later # {}
    <3>1. k = Min(later)
      BY <2>1, <2>3
    <3>2. k - 1 \notin later
      BY <1>4, <1>5, <2>3, <3>1
    <3>3. k - 1 = 0 \/ k - 1 \in 1 .. frames - 1
      BY <1>5
    <3>4. ~(AudioPts(k - 1) >= t)
      BY <2>1, <3>2, <3>3
    <3>5. QED
      BY <1>3, <1>5, <3>4
  <2>4. QED
    BY <2>2, <2>3
<1>7. k < frames - 1 => AudioPts(k) >= t
  <2> SUFFICES ASSUME k < frames - 1 PROVE AudioPts(k) >= t
    OBVIOUS
  <2>1. CASE AudioPts(0) >= t
    BY <2>1
  <2>2. CASE ~(AudioPts(0) >= t)
    <3>1. later # {} /\ k = Min(later)
      BY <2>2
    <3>2. QED
      BY <1>4, <3>1
  <2>3. QED
    BY <2>1, <2>2
<1> HIDE DEF k, later
<1>8. /\ AudioPts(k) \in Int /\ AudioPts(k - 1) \in Int
      /\ AudioPts((k - 1) + 1) = AudioPts(k - 1) + AudioTime
      /\ (k - 1) + 1 = k
      /\ AudioPts(frames - 1) \in Int
  <2>1. k - 1 \in Int /\ k \in Int /\ frames - 1 \in Int
    BY <1>5
  <2>2. QED
    BY <1>3, <2>1, AudioFacts
<1>9. /\ k < frames - 1 => AudioPts(k) + AudioTime <= AudioPts(frames - 1)
      /\ k - 1 < frames - 1 => AudioPts(k - 1) + AudioTime <= AudioPts(frames - 1)
  <2>1. k - 1 \in Int /\ k \in Int /\ frames - 1 \in Int
    BY <1>5
  <2>2. QED
    BY <2>1, AudioFacts
<1>10. CASE before
  <2>1. Closest(t) = k - 1 /\ k > 0
    BY <1>1, <1>10
  <2>2. QED
    BY <1>2, <1>5, <1>6, <1>8, <1>9, <1>10, <2>1
<1>11. CASE ~before
  <2>1. Closest(t) = k
    BY <1>1, <1>11
  <2>2. QED
    BY <1>2, <1>5, <1>6, <1>7, <1>8, <1>9, <1>11, <2>1
<1>12. QED
  BY <1>10, <1>11

-----------------------------------------------------------------------------
(* What recodevideo() puts into the multiplexer: k pictures at the times   *)
(* from a on, these pictures or, where some were lost, later ones.         *)
RecodedPicture(e, a, j) ==
  /\ e.pts = Time(a + j - 1)
  /\ e.dts = IF j = 1 THEN mux.dts ELSE Time(a + j - 2)
  /\ e.copied = Nothing /\ e.range = num
  /\ shown.ordered => e.pic >= a + j - 1 /\ (intact' => e.pic = a + j - 1)

Recoded(k, a) ==
  /\ out' \in Seq(OutPicture) /\ Len(out') = Len(out) + k
  /\ \A i \in 1 .. Len(out) : out'[i] = out[i]
  /\ \A j \in 1 .. k : RecodedPicture(out'[Len(out) + j], a, j)
  /\ mux' \in [empty: BOOLEAN, vpts: Int, apts: Int, dts: Int]
  /\ mux'.empty = mux.empty /\ mux'.vpts = mux.vpts /\ mux'.apts = mux.apts
  /\ mux'.dts = IF k = 0 THEN mux.dts ELSE Time(a + k - 1)

LEMMA DtsChanged ==
  ASSUME NEW m \in [empty: BOOLEAN, vpts: Int, apts: Int, dts: Int], NEW d \in Int,
         NEW t, t = [m EXCEPT !.dts = d]
  PROVE  /\ t \in [empty: BOOLEAN, vpts: Int, apts: Int, dts: Int]
         /\ t.empty = m.empty /\ t.vpts = m.vpts /\ t.apts = m.apts /\ t.dts = d
OBVIOUS

LEMMA TimeType ==
  ASSUME videooffset \in Int, NEW x \in Int
  PROVE  Time(x) \in Int /\ Time(x + 1) = Time(x) + FrameTime
<1>1. FrameTime \in Int
  BY SaveMpgAssumption
<1>2. x * FrameTime \in Int /\ (x + 1) * FrameTime = x * FrameTime + FrameTime
  BY <1>1
<1>3. QED
  BY <1>1, <1>2 DEF Time

LEMMA JoinFacts ==
  ASSUME NEW T, NEW s \in Seq(T), NEW t \in Seq(T), NEW new, new = s \o t
  PROVE  /\ new \in Seq(T) /\ Len(new) = Len(s) + Len(t)
         /\ \A i \in 1 .. Len(s) : new[i] = s[i]
         /\ \A j \in 1 .. Len(t) : new[Len(s) + j] = t[j]
<1>1. Len(s) \in Nat /\ Len(t) \in Nat
  BY LenProperties
<1>2. new \in Seq(T) /\ Len(new) = Len(s) + Len(t)
  BY ConcatProperties
<1>3. \A i \in 1 .. Len(s) + Len(t) :
        new[i] = IF i <= Len(s) THEN s[i] ELSE t[i - Len(s)]
  BY ConcatProperties
<1>4. \A i \in 1 .. Len(s) : new[i] = s[i]
  BY <1>1, <1>3
<1>5. ASSUME NEW j \in 1 .. Len(t)
      PROVE  new[Len(s) + j] = t[j]
  <2>1. /\ Len(s) + j \in 1 .. Len(s) + Len(t)
        /\ ~(Len(s) + j <= Len(s)) /\ Len(s) + j - Len(s) = j
    BY <1>1
  <2>2. QED
    BY <1>3, <2>1
<1>6. QED
  BY <1>2, <1>4, <1>5

(* What is kept of a list moves to the front, all of it stays in place.    *)
LEMMA KeptPlaces ==
  ASSUME NEW l, Len(l) \in Nat, NEW T, T \subseteq 1 .. Len(l)
  PROVE  /\ Len(Kept(l, T)) \in Nat /\ Len(Kept(l, T)) <= Len(l)
         /\ \A j \in 1 .. Len(Kept(l, T)) : \E i \in 1 .. Len(l) :
              /\ Kept(l, T)[j] = l[i] /\ j <= i
              /\ Len(Kept(l, T)) = Len(l) => i = j
<1>1. KeptBy(l, T)
  BY KeptFacts
<1>2. PICK c \in Nat : \E m \in [1 .. c -> T] :
        /\ Kept(l, T) = [k \in 1 .. c |-> l[m[k]]]
        /\ \A i, j \in 1 .. c : i < j => m[i] < m[j]
        /\ \A x \in T : \E i \in 1 .. c : m[i] = x
  BY <1>1 DEF KeptBy
<1>3. PICK m \in [1 .. c -> T] :
        /\ Kept(l, T) = [k \in 1 .. c |-> l[m[k]]]
        /\ \A i, j \in 1 .. c : i < j => m[i] < m[j]
  BY <1>2
<1>4. PICK L \in Nat : L = Len(l)
  OBVIOUS
<1>5. \A j \in 1 .. c : m[j] \in 1 .. L
  BY <1>4
<1>6. PICK pics : pics = Kept(l, T)
  OBVIOUS
<1>7. Len(pics) = c /\ \A j \in 1 .. c : pics[j] = l[m[j]]
  BY <1>3, <1>6
<1>8. \A j \in 1 .. c : j <= m[j]
  <2> DEFINE S == {j \in Nat : j \in 1 .. c => j <= m[j]}
  <2>1. S \subseteq Nat /\ 0 \in S
    OBVIOUS
  <2>2. ASSUME NEW j \in Nat, j \in S PROVE j + 1 \in S
    <3> SUFFICES ASSUME j + 1 \in 1 .. c PROVE j + 1 <= m[j + 1]
      OBVIOUS
    <3>1. m[j + 1] \in Nat /\ m[j + 1] >= 1
      BY <1>5
    <3>2. CASE j = 0
      BY <3>1, <3>2
    <3>3. CASE j # 0
      <4>1. j \in 1 .. c /\ j < j + 1
        BY <3>3
      <4>2. j <= m[j] /\ m[j] < m[j + 1] /\ m[j] \in Nat
        BY <1>3, <1>5, <2>2, <4>1
      <4>3. QED
        BY <3>1, <4>2
    <3>4. QED
      BY <3>2, <3>3
  <2> HIDE DEF S
  <2>3. S = Nat
    BY <2>1, <2>2, Induction
  <2>4. QED
    BY <2>3 DEF S
<1>9. c <= L
  BY <1>5, <1>8
<1>10. c = L => \A j \in 1 .. c : m[j] <= j
  <2> SUFFICES ASSUME c = L PROVE \A j \in 1 .. c : m[j] <= j
    OBVIOUS
  <2> DEFINE S == {d \in Nat : c - d \in 1 .. c => m[c - d] <= c - d}
  <2>1. S \subseteq Nat /\ 0 \in S
    BY <1>5
  <2>2. ASSUME NEW d \in Nat, d \in S PROVE d + 1 \in S
    <3> SUFFICES ASSUME c - (d + 1) \in 1 .. c PROVE m[c - (d + 1)] <= c - (d + 1)
      OBVIOUS
    <3>1. PICK j \in 1 .. c : j = c - (d + 1)
      OBVIOUS
    <3>2. j + 1 = c - d /\ j + 1 \in 1 .. c /\ j < j + 1
      BY <3>1
    <3>3. m[j + 1] <= j + 1 /\ m[j] < m[j + 1]
      BY <1>3, <2>2, <3>2
    <3>4. m[j] \in Nat /\ m[j + 1] \in Nat
      BY <1>5, <3>2
    <3>5. m[j] <= j
      BY <3>3, <3>4
    <3>6. QED
      BY <3>1, <3>5
  <2> HIDE DEF S
  <2>3. S = Nat
    BY <2>1, <2>2, Induction
  <2> SUFFICES ASSUME NEW j \in 1 .. c PROVE m[j] <= j
    OBVIOUS
  <2>4. c - j \in Nat /\ c - (c - j) = j
    OBVIOUS
  <2>5. QED
    BY <2>3, <2>4 DEF S
<1>11. ASSUME NEW j \in 1 .. c
      PROVE  \E i \in 1 .. L : pics[j] = l[i] /\ j <= i /\ (c = L => i = j)
  <2>1. m[j] \in 1 .. L /\ pics[j] = l[m[j]] /\ j <= m[j]
    BY <1>5, <1>7, <1>8
  <2>2. c = L => m[j] = j
    BY <1>5, <1>8, <1>10
  <2>3. QED
    BY <2>1, <2>2
<1>12. QED
  BY <1>4, <1>6, <1>7, <1>9, <1>11

LEMMA RecodeFacts ==
  ASSUME InputOK, TypeOK, NEW a \in 0 .. pictures - 1, NEW b \in a .. pictures - 1,
         Recode(a, b)
  PROVE  \E k \in 0 .. b - a : Recoded(k, a) /\ intact' = (intact /\ k = b - a)
<1> DEFINE given == DecodeGop(a, b)
           time(i) == Pts(Stored(i)) - videooffset
           list(pics) == [j \in 1 .. Len(pics) |->
                     [pic |-> Shown(pics[j]),
                      pts |-> time(a + j - 1),
                      dts |-> IF j = 1 THEN mux.dts ELSE time(a + j - 2),
                      copied |-> Nothing, range |-> num]]
<1>1. PICK kept \in SUBSET (1 .. Len(given)) :
        /\ out' = out \o list(Kept(given, kept))
        /\ mux' = IF Len(Kept(given, kept)) = 0 THEN mux
                  ELSE [mux EXCEPT !.dts = time(a + Len(Kept(given, kept)) - 1)]
        /\ intact' = (intact /\ Len(Kept(given, kept)) = b - a)
  BY DEF Recode
<1>2. Numbered /\ Passed /\ Ends /\ Dense
  BY TableNumbered, TablePassed, TableEnds, TableDense
<1>3. pictures \in Nat /\ a \in Nat /\ b \in Nat /\ a <= b /\ b \in a .. pictures
      /\ \A i \in 0 .. n - 1 : Shown(i) \in Int
  BY <1>2 DEF Numbered
<1>4. given \in Seq(0 .. n - 1) /\ Len(given) \in 0 .. b - a
  BY <1>2, <1>3, DecodeGopType
<1>5. shown.ordered => \A j \in 1 .. Len(given) : Shown(given[j]) = a + j - 1
  <2> SUFFICES ASSUME shown.ordered
               PROVE  \A j \in 1 .. Len(given) : Shown(given[j]) = a + j - 1
    OBVIOUS
  <2>1. Ordered
    BY TableOrdered
  <2>2. QED
    BY <1>2, <1>3, <2>1, DecodeGopOrder
<1>6. /\ num \in Nat /\ mux \in [empty: BOOLEAN, vpts: Int, apts: Int, dts: Int]
      /\ videooffset \in Int /\ out \in Seq(OutPicture) /\ Nothing \in Int
  <2>1. Len(ranges) \in Nat
    BY LenProperties DEF InputOK
  <2>2. QED
    BY <2>1 DEF TypeOK, OutPicture, Nothing
<1> HIDE DEF given
<1> DEFINE pics == Kept(given, kept)
           k    == Len(pics)
<1>7. /\ k \in Nat /\ k <= Len(given)
       /\ \A j \in 1 .. k : \E i \in 1 .. Len(given) :
            pics[j] = given[i] /\ j <= i /\ (k = Len(given) => i = j)
  <2>1. Len(given) \in Nat /\ kept \subseteq 1 .. Len(given)
    BY <1>1, <1>3, <1>4
  <2>2. QED
    BY <2>1, KeptPlaces
<1> HIDE DEF pics
<1>8. k \in 0 .. b - a /\ k <= Len(given) /\ k \in Nat /\ (k = b - a => k = Len(given))
  BY <1>3, <1>4, <1>7
<1>9. \A i \in a .. b : time(i) = Time(i) /\ time(i) \in Int
  <2> TAKE i \in a .. b
  <2>1. i \in 0 .. pictures - 1
    BY <1>3
  <2>2. Pts(Stored(i)) = i * FrameTime /\ i * FrameTime \in Int
    BY <2>1, TimeFacts
  <2>3. QED
    BY <1>6, <2>2 DEF Time
<1> HIDE DEF time
<1>10. ASSUME NEW j \in 1 .. k
      PROVE  list(pics)[j] \in OutPicture /\ RecodedPicture(list(pics)[j], a, j)
  <2>1. PICK i \in 1 .. Len(given) :
          pics[j] = given[i] /\ j <= i /\ (k = Len(given) => i = j)
    BY <1>7
  <2>2. given[i] \in 0 .. n - 1
    BY <1>4, ElementOfSeq
  <2>3. Shown(pics[j]) \in Int
    BY <1>3, <2>1, <2>2
  <2>4. time(a + j - 1) = Time(a + j - 1) /\ time(a + j - 1) \in Int
    <3>1. a + j - 1 \in a .. b
      BY <1>3, <1>8
    <3>2. QED
      BY <1>9, <3>1
  <2>5. j # 1 => time(a + j - 2) = Time(a + j - 2) /\ time(a + j - 2) \in Int
    <3>1. j # 1 => a + j - 2 \in a .. b
      BY <1>3, <1>8
    <3>2. QED
      BY <1>9, <3>1
  <2>6. list(pics)[j] = [pic |-> Shown(pics[j]), pts |-> time(a + j - 1),
                         dts |-> IF j = 1 THEN mux.dts ELSE time(a + j - 2),
                         copied |-> Nothing, range |-> num]
    OBVIOUS
  <2> HIDE DEF list
  <2>7. mux.dts \in Int
    BY <1>6
  <2>8. list(pics)[j] \in OutPicture
    BY <1>6, <2>3, <2>4, <2>5, <2>6, <2>7 DEF OutPicture
  <2>9. shown.ordered =>
          Shown(pics[j]) >= a + j - 1 /\ (intact' => Shown(pics[j]) = a + j - 1)
    <3> SUFFICES ASSUME shown.ordered
                 PROVE  Shown(pics[j]) >= a + j - 1
                        /\ (intact' => Shown(pics[j]) = a + j - 1)
      OBVIOUS
    <3>1. Shown(pics[j]) = a + i - 1
      BY <1>5, <2>1
    <3>2. intact' => i = j
      BY <1>1, <1>8, <2>1 DEF pics
    <3>3. j \in Int /\ i \in Int
      BY <1>4
    <3>4. QED
      BY <1>3, <2>1, <3>1, <3>2, <3>3
  <2>10. RecodedPicture(list(pics)[j], a, j)
    BY <2>4, <2>5, <2>6, <2>9 DEF RecodedPicture
  <2>11. QED
    BY <2>8, <2>10
<1>11. list(pics) \in Seq(OutPicture) /\ Len(list(pics)) = k
  <2>1. list(pics) \in [1 .. k -> OutPicture]
    BY <1>10
  <2> HIDE DEF list
  <2>2. QED
    BY <1>8, <2>1, FcnIsSeq
<1> DEFINE l == list(pics)
<1> HIDE DEF list
<1>12. /\ out' \in Seq(OutPicture) /\ Len(out') = Len(out) + k
       /\ \A i \in 1 .. Len(out) : out'[i] = out[i]
       /\ \A j \in 1 .. k : out'[Len(out) + j] = l[j]
  <2>1. l \in Seq(OutPicture) /\ Len(l) = k
    BY <1>11
  <2>2. out' = out \o l
    BY <1>1 DEF pics
  <2> HIDE DEF l
  <2>3. out \in Seq(OutPicture) /\ l \in Seq(OutPicture) /\ Len(l) = k
    BY <1>6, <2>1
  <2>4. PICK x : x = out'
    OBVIOUS
  <2>5. x = out \o l
    BY <2>2, <2>4
  <2>6. /\ x \in Seq(OutPicture) /\ Len(x) = Len(out) + Len(l)
        /\ \A i \in 1 .. Len(out) : x[i] = out[i]
        /\ \A j \in 1 .. Len(l) : x[Len(out) + j] = l[j]
    <3>1. PICK s : s = out
      OBVIOUS
    <3>2. PICK t : t = l
      OBVIOUS
    <3>3. s \in Seq(OutPicture) /\ t \in Seq(OutPicture) /\ x = s \o t
      BY <2>3, <2>5, <3>1, <3>2
    <3>4. /\ x \in Seq(OutPicture) /\ Len(x) = Len(s) + Len(t)
          /\ \A i \in 1 .. Len(s) : x[i] = s[i]
          /\ \A j \in 1 .. Len(t) : x[Len(s) + j] = t[j]
      BY <3>3, JoinFacts
    <3>5. QED
      BY <3>1, <3>2, <3>4
  <2>7. QED
    BY <2>3, <2>4, <2>6
<1>13. \A j \in 1 .. k : RecodedPicture(out'[Len(out) + j], a, j)
  BY <1>10, <1>12
<1>14. /\ mux' \in [empty: BOOLEAN, vpts: Int, apts: Int, dts: Int]
       /\ mux'.empty = mux.empty /\ mux'.vpts = mux.vpts /\ mux'.apts = mux.apts
       /\ mux'.dts = IF k = 0 THEN mux.dts ELSE Time(a + k - 1)
  <2>1. mux' = IF k = 0 THEN mux ELSE [mux EXCEPT !.dts = time(a + k - 1)]
    BY <1>1 DEF pics
  <2>2. CASE k = 0
    BY <1>6, <2>1, <2>2
  <2>3. CASE k # 0
    <3>1. a + k - 1 \in a .. b
      BY <1>3, <1>8, <2>3
    <3>2. time(a + k - 1) = Time(a + k - 1) /\ time(a + k - 1) \in Int
      BY <1>9, <3>1
    <3>3. PICK d : d = time(a + k - 1)
      OBVIOUS
    <3>4. PICK t : t = mux'
      OBVIOUS
    <3>5. t = [mux EXCEPT !.dts = d] /\ d \in Int
      BY <2>1, <2>3, <3>2, <3>3, <3>4
    <3>6. /\ t \in [empty: BOOLEAN, vpts: Int, apts: Int, dts: Int]
          /\ t.empty = mux.empty /\ t.vpts = mux.vpts /\ t.apts = mux.apts /\ t.dts = d
      BY <1>6, <3>5, DtsChanged
    <3>7. QED
      BY <2>3, <3>2, <3>3, <3>4, <3>6
  <2>4. QED
    BY <2>2, <2>3
<1>15. Recoded(k, a)
  BY <1>12, <1>13, <1>14 DEF Recoded
<1>16. intact' = (intact /\ k = b - a)
  BY <1>1 DEF pics
<1> HIDE DEF k
<1>17. QED
  BY <1>8, <1>15, <1>16

-----------------------------------------------------------------------------
(* Type correctness.                                                       *)
Timestamps == [empty: BOOLEAN, vpts: Int, apts: Int, dts: Int]

LEMMA AppendFacts ==
  ASSUME NEW T, NEW s \in Seq(T), NEW x \in T, NEW new, new = Append(s, x)
  PROVE  /\ new \in Seq(T) /\ Len(new) = Len(s) + 1 /\ Len(s) \in Nat
         /\ \A i \in 1 .. Len(s) : new[i] = s[i]
         /\ new[Len(s) + 1] = x
BY AppendProperties, LenProperties

(* What copypic() puts into the multiplexer.                               *)
CopiedTo(i) ==
  /\ out' \in Seq(OutPicture) /\ Len(out') = Len(out) + 1
  /\ \A j \in 1 .. Len(out) : out'[j] = out[j]
  /\ LET e == out'[Len(out) + 1]
     IN  /\ e.pic = Shown(i) /\ e.pts = Time(Shown(i)) /\ e.copied = i /\ e.range = num
         /\ e.dts = IF p[i].type = "B" THEN Time(Shown(i)) ELSE mux.dts
  /\ mux' \in Timestamps
  /\ mux'.empty = mux.empty /\ mux'.vpts = mux.vpts /\ mux'.apts = mux.apts
  /\ mux'.dts = IF p[i].type = "B" THEN mux.dts ELSE Time(Shown(i))

LEMMA PutFacts ==
  ASSUME InputOK, TypeOK, NEW i \in 0 .. n - 1, Put(i)
  PROVE  CopiedTo(i)
<1>1. /\ num \in Nat /\ mux \in Timestamps /\ videooffset \in Int
      /\ out \in Seq(OutPicture) /\ i \in Int
  <2>1. Len(ranges) \in Nat
    BY LenProperties DEF InputOK
  <2>2. QED
    BY <2>1 DEF TypeOK, OutPicture, Timestamps
<1>2. Shown(i) \in Int
  BY TableNumbered DEF Numbered
<1>3. Pts(i) - videooffset = Time(Shown(i)) /\ Time(Shown(i)) \in Int
  BY <1>1, <1>2, TimeType DEF Pts, Time
<1> DEFINE isb == p[i].type = "B"
           e == [pic |-> Shown(i), pts |-> Time(Shown(i)),
                 dts |-> IF isb THEN Time(Shown(i)) ELSE mux.dts,
                 copied |-> i, range |-> num]
<1>4. out' = Append(out, e)
  BY <1>3 DEF Put
<1>5. mux' = IF isb THEN mux ELSE [mux EXCEPT !.dts = Time(Shown(i))]
  BY <1>3 DEF Put
<1>6. e \in OutPicture
  <2>1. mux.dts \in Int
    BY <1>1 DEF Timestamps
  <2>2. QED
    BY <1>1, <1>2, <1>3, <2>1 DEF OutPicture
<1>7. /\ e.pic = Shown(i) /\ e.pts = Time(Shown(i)) /\ e.copied = i /\ e.range = num
      /\ e.dts = IF isb THEN Time(Shown(i)) ELSE mux.dts
  OBVIOUS
<1>8. /\ out' \in Seq(OutPicture) /\ Len(out') = Len(out) + 1
      /\ \A j \in 1 .. Len(out) : out'[j] = out[j]
      /\ out'[Len(out) + 1] = e
  <2> HIDE DEF e
  <2>1. PICK x : x = out'
    OBVIOUS
  <2>2. PICK y : y = e
    OBVIOUS
  <2>3. x = Append(out, y) /\ y \in OutPicture /\ out \in Seq(OutPicture)
    BY <1>1, <1>4, <1>6, <2>1, <2>2
  <2>4. /\ x \in Seq(OutPicture) /\ Len(x) = Len(out) + 1
        /\ \A j \in 1 .. Len(out) : x[j] = out[j]
        /\ x[Len(out) + 1] = y
    BY <2>3, AppendFacts
  <2>5. QED
    BY <2>1, <2>2, <2>4
<1> HIDE DEF e
<1>9. /\ mux' \in Timestamps
      /\ mux'.empty = mux.empty /\ mux'.vpts = mux.vpts /\ mux'.apts = mux.apts
      /\ mux'.dts = IF isb THEN mux.dts ELSE Time(Shown(i))
  <2>1. CASE isb
    BY <1>1, <1>5, <2>1
  <2>2. CASE ~isb
    <3>1. PICK x : x = mux'
      OBVIOUS
    <3>2. PICK d : d = Time(Shown(i))
      OBVIOUS
    <3>3. x = [mux EXCEPT !.dts = d] /\ d \in Int
      BY <1>3, <1>5, <2>2, <3>1, <3>2
    <3>4. /\ x \in Timestamps
          /\ x.empty = mux.empty /\ x.vpts = mux.vpts /\ x.apts = mux.apts /\ x.dts = d
      BY <1>1, <3>3, DtsChanged DEF Timestamps
    <3>5. QED
      BY <2>2, <3>1, <3>2, <3>4
  <2>3. QED
    BY <2>1, <2>2
<1>10. QED
  BY <1>7, <1>8, <1>9 DEF CopiedTo

(* What copyaudio() puts into it.                                          *)
PlayedOn ==
  /\ audioout' \in Seq(OutFrame) /\ Len(audioout') = Len(audioout) + 1
  /\ \A j \in 1 .. Len(audioout) : audioout'[j] = audioout[j]
  /\ LET e == audioout'[Len(audioout) + 1]
     IN  e.frame = audio /\ e.range = num /\ e.pts = AudioPts(audio) - audiooffset

LEMMA PutAudioFacts ==
  ASSUME InputOK, TypeOK, PutAudio
  PROVE  PlayedOn
<1>1. num \in Nat /\ audio \in Nat /\ audiooffset \in Int /\ audioout \in Seq(OutFrame)
  <2>1. Len(ranges) \in Nat
    BY LenProperties DEF InputOK
  <2>2. QED
    BY <2>1 DEF TypeOK, OutFrame
<1>2. AudioPts(audio) \in Int
  <2>1. audio \in Int /\ audiobegin \in Int
    BY <1>1 DEF InputOK
  <2>2. QED
    BY <2>1, AudioFacts
<1> DEFINE e == [frame |-> audio, range |-> num, pts |-> AudioPts(audio) - audiooffset]
<1>3. e \in OutFrame
  BY <1>1, <1>2 DEF OutFrame
<1>4. audioout' = Append(audioout, e)
  BY DEF PutAudio
<1>5. e.frame = audio /\ e.range = num /\ e.pts = AudioPts(audio) - audiooffset
  OBVIOUS
<1> HIDE DEF e
<1>6. PICK x : x = audioout'
  OBVIOUS
<1>7. PICK y : y = e
  OBVIOUS
<1>8. x = Append(audioout, y) /\ y \in OutFrame /\ audioout \in Seq(OutFrame)
  BY <1>1, <1>3, <1>4, <1>6, <1>7
<1>9. /\ x \in Seq(OutFrame) /\ Len(x) = Len(audioout) + 1
      /\ \A j \in 1 .. Len(audioout) : x[j] = audioout[j]
      /\ x[Len(audioout) + 1] = y
  BY <1>8, AppendFacts
<1>10. QED
  BY <1>5, <1>6, <1>7, <1>9 DEF PlayedOn

(* What a range begins with.                                               *)
Begun ==
  /\ mux' \in Timestamps /\ ~mux'.empty /\ mux'.dts = mux.dts
  /\ ~mux.empty => /\ mux'.vpts = mux.vpts /\ mux'.apts = mux.apts
                   /\ videooffset' = start * FrameTime - mux.vpts
  /\ mux.empty => /\ videooffset' <= start * FrameTime - FrameTime
                  /\ audiooffset' = videooffset'
  /\ videooffset' \in Int /\ audiooffset' \in Int /\ audiostoppts' \in Int
  /\ frames = 0 => audio' = 0 /\ audiooffset' = videooffset'
  /\ frames > 0 => /\ audio' \in 0 .. frames - 1
                   /\ mux.empty => audio' = Closest(start * FrameTime)
                   /\ ~mux.empty =>
                        /\ audio' = Closest(start * FrameTime - mux.vpts + mux.apts)
                        /\ audiooffset' = IF AudioCounts(AudioPts(audio'))
                                           THEN AudioPts(audio') - mux.apts
                                           ELSE videooffset'
  /\ sd' = (frames > 0)
  /\ audiostoppts' = stop * FrameTime - videooffset' + audiooffset'
  /\ streampic' = Stored(firstseqhdr)
  /\ isfirstpic' = TRUE /\ isfirstseq' = TRUE /\ vsd' = TRUE

LEMMA BeginFacts ==
  ASSUME InputOK, TypeOK, Begin
  PROVE  Begun
<1> DEFINE m    == IF mux.empty
                    THEN [empty |-> FALSE, vpts |-> FrameTime, apts |-> FrameTime,
                          dts |-> mux.dts]
                    ELSE mux
           from == Pts(Stored(start))
           tpts == from - m.vpts + m.apts
           k    == Closest(tpts)
           apts == AudioPts(k)
           shift == IF mux.empty /\ AudioCounts(apts) /\ tpts > apts
                      THEN tpts - apts ELSE 0
           voff == from - m.vpts - shift
           aoff == AudioOffset(voff, tpts, apts)
<1>1. /\ pc = "range" /\ mux' = m /\ videooffset' = voff /\ audiooffset' = aoff
      /\ audio' = IF frames = 0 THEN 0 ELSE k
      /\ sd' = (frames > 0)
      /\ audiostoppts' = Pts(Stored(stop)) - voff + aoff
      /\ streampic' = Stored(firstseqhdr)
      /\ isfirstpic' = TRUE /\ isfirstseq' = TRUE /\ vsd' = TRUE
  BY DEF Begin
<1>2. mux \in Timestamps /\ num \in 1 .. Len(ranges)
  <2>1. Len(ranges) \in Nat
    BY LenProperties DEF InputOK
  <2>2. QED
    BY <1>1, <2>1 DEF TypeOK, Timestamps
<1>3. start \in 0 .. pictures - 1 /\ stop \in 0 .. pictures - 1
  BY <1>2, RangeFacts
<1>4. from = start * FrameTime /\ from \in Int
  BY <1>3, TimeFacts
<1>5. Pts(Stored(stop)) = stop * FrameTime /\ stop * FrameTime \in Int
  BY <1>3, TimeFacts
<1>6. FrameTime \in Int /\ audiobegin \in Int /\ frames \in Nat
  BY SaveMpgAssumption DEF InputOK
<1> HIDE DEF from
<1>7. /\ m \in Timestamps /\ ~m.empty /\ m.dts = mux.dts
      /\ ~mux.empty => m = mux
      /\ mux.empty => m.vpts = FrameTime /\ m.apts = FrameTime
  BY <1>2, <1>6 DEF Timestamps
<1> HIDE DEF m
<1>8. tpts \in Int /\ m.vpts \in Int /\ m.apts \in Int
      /\ (mux.empty => tpts = from)
  BY <1>4, <1>6, <1>7 DEF Timestamps
<1> HIDE DEF tpts
<1>9. frames > 0 => k \in 0 .. frames - 1 /\ apts \in Int
  <2> SUFFICES ASSUME frames > 0 PROVE k \in 0 .. frames - 1 /\ apts \in Int
    OBVIOUS
  <2>1. k \in 0 .. frames - 1
    BY <1>6, <1>8, ClosestFacts
  <2>2. k \in Int
    BY <2>1
  <2> HIDE DEF k
  <2>3. QED
    BY <1>6, <2>1, <2>2, AudioFacts
<1> HIDE DEF k
<1>10. shift \in Int /\ shift >= 0 /\ (~mux.empty => shift = 0)
  BY <1>8, <1>9 DEF AudioCounts
<1> HIDE DEF apts, shift
<1>11. voff \in Int /\ voff = from - m.vpts - shift
  BY <1>4, <1>8, <1>10
<1> HIDE DEF voff
<1>12. /\ aoff \in Int
       /\ mux.empty \/ ~AudioCounts(apts) => aoff = voff
       /\ AudioCounts(apts) /\ ~mux.empty => aoff = voff - tpts + apts
  <2>1. AudioCounts(apts) => apts \in Int
    BY <1>9 DEF AudioCounts
  <2>2. QED
    BY <1>8, <1>11, <2>1 DEF AudioOffset
<1> HIDE DEF aoff
<1>13. ~mux.empty => voff = start * FrameTime - mux.vpts
  BY <1>4, <1>7, <1>8, <1>10, <1>11
<1>14. mux.empty => voff <= start * FrameTime - FrameTime
  BY <1>4, <1>6, <1>7, <1>8, <1>10, <1>11
<1>15. frames > 0 /\ ~mux.empty =>
         /\ k = Closest(start * FrameTime - mux.vpts + mux.apts)
         /\ aoff = IF AudioCounts(AudioPts(k)) THEN AudioPts(k) - mux.apts ELSE voff
  <2> SUFFICES ASSUME frames > 0, ~mux.empty
               PROVE  /\ k = Closest(start * FrameTime - mux.vpts + mux.apts)
                      /\ aoff = IF AudioCounts(AudioPts(k)) THEN AudioPts(k) - mux.apts
                                ELSE voff
    OBVIOUS
  <2>1. m = mux /\ tpts = start * FrameTime - mux.vpts + mux.apts
    BY <1>4, <1>7 DEF tpts
  <2>2. aoff = IF AudioCounts(apts) THEN voff - tpts + apts ELSE voff
    BY <1>12
  <2>3. voff - tpts + apts = apts - mux.apts
    BY <1>4, <1>8, <1>9, <1>13, <2>1
  <2>4. QED
    BY <2>1, <2>2, <2>3 DEF k, apts
<1>16. frames > 0 /\ mux.empty => k = Closest(start * FrameTime)
  BY <1>4, <1>8 DEF k
<1>17. audiostoppts' = stop * FrameTime - voff + aoff /\ audiostoppts' \in Int
  BY <1>1, <1>5, <1>11, <1>12
<1>18. /\ frames = 0 => audio' = 0 /\ audiooffset' = videooffset'
       /\ frames > 0 => audio' = k
  <2>1. frames = 0 => ~AudioCounts(apts)
    BY DEF AudioCounts
  <2>2. QED
    BY <1>1, <1>6, <1>12, <2>1
<1>19. frames > 0 => /\ audio' \in 0 .. frames - 1
                     /\ mux.empty => audio' = Closest(start * FrameTime)
                     /\ ~mux.empty =>
                          /\ audio' = Closest(start * FrameTime - mux.vpts + mux.apts)
                          /\ audiooffset' = IF AudioCounts(AudioPts(audio'))
                                             THEN AudioPts(audio') - mux.apts
                                             ELSE videooffset'
  BY <1>1, <1>9, <1>15, <1>16, <1>18
<1>20. /\ mux' \in Timestamps /\ ~mux'.empty /\ mux'.dts = mux.dts
       /\ ~mux.empty => /\ mux'.vpts = mux.vpts /\ mux'.apts = mux.apts
                        /\ videooffset' = start * FrameTime - mux.vpts
       /\ mux.empty => /\ videooffset' <= start * FrameTime - FrameTime
                       /\ audiooffset' = videooffset'
  BY <1>1, <1>7, <1>12, <1>13, <1>14
<1>21. videooffset' \in Int /\ audiooffset' \in Int /\ audiostoppts' \in Int
       /\ audiostoppts' = stop * FrameTime - videooffset' + audiooffset'
  BY <1>1, <1>11, <1>12, <1>17
<1>22. QED
  BY <1>1, <1>18, <1>19, <1>20, <1>21 DEF Begun

(* Where the next range goes on.                                           *)
Ended ==
  /\ mux' \in Timestamps /\ mux'.empty = mux.empty /\ mux'.dts = mux.dts
  /\ mux'.vpts = Time(stop) /\ mux'.apts = audiostoppts - audiooffset

LEMMA EndFacts ==
  ASSUME InputOK, TypeOK, num \in 1 .. Len(ranges), mux' = MuxAdvanced
  PROVE  Ended
<1>1. stop \in 0 .. pictures - 1
  BY RangeFacts
<1>2. Pts(Stored(stop)) - videooffset = Time(stop)
  BY <1>1, TimeFacts DEF Time
<1>3. Time(stop) \in Int /\ audiostoppts - audiooffset \in Int
  <2>1. stop \in Int /\ videooffset \in Int
    BY <1>1 DEF TypeOK
  <2>2. QED
    BY <2>1, TimeType DEF TypeOK
<1>4. mux' = [mux EXCEPT !.vpts = Time(stop), !.apts = audiostoppts - audiooffset]
  BY <1>2 DEF MuxAdvanced
<1>5. mux \in Timestamps
  BY DEF TypeOK, Timestamps
<1>6. QED
  BY <1>3, <1>4, <1>5 DEF Ended, Timestamps


(* recodevideo() for the begin and for the end of a range, or nothing.     *)
LEMMA HeadFacts ==
  ASSUME InputOK, TypeOK, RecodeHead
  PROVE  IF firstseqhdr > start
           THEN \E k \in 0 .. firstseqhdr - start :
                  Recoded(k, start) /\ intact' = (intact /\ k = firstseqhdr - start)
           ELSE UNCHANGED <<out, mux, intact>>
<1>1. num \in 1 .. Len(ranges)
  <2>1. Len(ranges) \in Nat
    BY LenProperties DEF InputOK
  <2>2. QED
    BY <2>1 DEF TypeOK, RecodeHead
<1>2. start \in 0 .. pictures - 1 /\ firstseqhdr \in start .. pictures - 1
  BY <1>1, RangeFacts
<1>3. CASE firstseqhdr > start
  <2>1. Recode(start, firstseqhdr)
    BY <1>3 DEF RecodeHead
  <2>2. QED
    BY <1>2, <1>3, <2>1, RecodeFacts
<1>4. CASE ~(firstseqhdr > start)
  BY <1>4 DEF RecodeHead
<1>5. QED
  BY <1>3, <1>4

LEMMA TailFacts ==
  ASSUME InputOK, TypeOK, RecodeTail
  PROVE  IF TailMissing
           THEN /\ StartRecode \in 1 .. stop - 1
                /\ \E k \in 0 .. stop - StartRecode :
                     Recoded(k, StartRecode) /\ intact' = (intact /\ k = stop - StartRecode)
           ELSE UNCHANGED <<out, mux, intact>>
<1>1. num \in 1 .. Len(ranges)
  <2>1. Len(ranges) \in Nat
    BY LenProperties DEF InputOK
  <2>2. QED
    BY <2>1 DEF TypeOK, RecodeTail
<1>2. stop \in 0 .. pictures - 1 /\ firstseqhdr \in Nat /\ pictures \in Nat
  <2>1. /\ stop \in 0 .. pictures - 1 /\ pictures \in Nat
        /\ start \in 0 .. pictures - 1 /\ firstseqhdr \in start .. pictures - 1
    BY <1>1, RangeFacts
  <2>2. QED
    BY <2>1
<1>3. CASE TailMissing
  <2>1. Recode(StartRecode, stop) /\ IsB(stop - 1) /\ stop > firstseqhdr
    BY <1>3 DEF RecodeTail, TailMissing
  <2>2. stop \in 1 .. pictures - 1
    BY <1>2, <2>1
  <2>3. StartRecode \in 1 .. stop - 1
    BY <2>1, <2>2, TableNumbered, TableEnds, StartRecodeFacts
  <2>4. StartRecode \in 0 .. pictures - 1 /\ stop \in StartRecode .. pictures - 1
    BY <1>2, <2>2, <2>3
  <2>5. QED
    BY <1>3, <2>1, <2>3, <2>4, RecodeFacts
<1>4. CASE ~TailMissing
  BY <1>4 DEF RecodeTail
<1>5. QED
  BY <1>3, <1>4

LEMMA NextRangeType ==
  ASSUME InputOK, num \in 1 .. Len(ranges), NextRange, UNCHANGED input
  PROVE  /\ num' \in 1 .. Len(ranges)' + 1
         /\ pc' \in {"range", "done"}
         /\ pc' = "done" <=> num' > Len(ranges)'
BY DEF NextRange, input

LEMMA TypeInit ==
  ASSUME Init
  PROVE  TypeOK
<1>1. InputOK
  BY InputInit
<1>2. Len(ranges) \in Nat /\ Len(ranges) >= 1
  BY <1>1, LenProperties DEF InputOK
<1>3. n \in Nat
  BY <1>1 DEF InputOK, GoodTable, IsTable
<1>4. << >> \in Seq(OutPicture) /\ << >> \in Seq(OutFrame)
  BY EmptySeq
<1>5. /\ num = 1 /\ pc = "range" /\ cancelled = FALSE
      /\ mux = [empty |-> TRUE, vpts |-> 0, apts |-> 0, dts |-> 0]
      /\ videooffset = 0 /\ audiooffset = 0 /\ audiostoppts = 0
      /\ streampic = 0 /\ isfirstpic = TRUE /\ isfirstseq = TRUE
      /\ vsd = FALSE /\ audio = 0 /\ sd = FALSE
      /\ out = << >> /\ audioout = << >> /\ intact = TRUE /\ whole = TRUE
  BY DEF Init
<1>6. num \in 1 .. Len(ranges) + 1 /\ ~(num > Len(ranges)) /\ pc # "done"
  BY <1>2, <1>5
<1>7. out \in Seq(OutPicture) /\ audioout \in Seq(OutFrame)
  BY <1>4, <1>5
<1>8. streampic \in 0 .. n
  BY <1>3, <1>5
<1>9. mux \in Timestamps
  BY <1>5 DEF Timestamps
<1>10. /\ videooffset \in Int /\ audiooffset \in Int /\ audiostoppts \in Int
       /\ audio \in Nat /\ audio = 0
  BY <1>5
<1>11. /\ cancelled \in BOOLEAN /\ intact \in BOOLEAN /\ sd \in BOOLEAN
       /\ isfirstpic \in BOOLEAN /\ isfirstseq \in BOOLEAN /\ vsd \in BOOLEAN
       /\ pc \in {"range", "head", "copy", "pass", "tail", "end", "done"}
       /\ whole \in BOOLEAN
  BY <1>5
<1>12. QED
  BY <1>6, <1>7, <1>8, <1>9, <1>10, <1>11 DEF TypeOK, OutPicture, OutFrame, Timestamps

LEMMA TypeNext ==
  ASSUME InputOK, TypeOK, [Next]_vars
  PROVE  TypeOK'
<1>1. UNCHANGED input
  BY InputSame
<1>2. Len(ranges) \in Nat /\ Len(ranges) >= 1
  BY LenProperties DEF InputOK
<1>3. pc # "done" => num \in 1 .. Len(ranges)
  BY <1>2 DEF TypeOK
<1>4. CASE EmptyRange
  <2>1. num \in 1 .. Len(ranges) /\ NextRange
    BY <1>3, <1>4 DEF EmptyRange
  <2>2. /\ num' \in 1 .. Len(ranges)' + 1 /\ pc' \in {"range", "done"}
        /\ pc' = "done" <=> num' > Len(ranges)'
    BY <1>1, <2>1, NextRangeType
  <2>3. QED
    BY <1>1, <1>4, <2>2 DEF TypeOK, EmptyRange, input, avoffset, video, sound
<1>5. CASE Begin
  <2>1. Begun
    BY <1>5, BeginFacts
  <2>2. /\ UNCHANGED <<num, cancelled, out, audioout, intact, whole>>
        /\ pc' = "head" /\ pc = "range"
    BY <1>5 DEF Begin
  <2>3. Stored(firstseqhdr) \in 0 .. n
    BY <1>3, <2>2, RangeFacts
  <2>4. num' \in 1 .. Len(ranges)' + 1 /\ ~(num' > Len(ranges)')
    BY <1>1, <1>2, <1>3, <2>2 DEF input
  <2>5. streampic' \in 0 .. n'
    BY <1>1, <2>1, <2>3 DEF Begun, input
  <2>6. /\ mux' \in Timestamps
        /\ videooffset' \in Int /\ audiooffset' \in Int /\ audiostoppts' \in Int
        /\ isfirstpic' \in BOOLEAN /\ isfirstseq' \in BOOLEAN /\ vsd' \in BOOLEAN
    BY <2>1 DEF Begun
  <2>7. audio' \in Nat /\ (audio' < frames' \/ audio' = 0) /\ sd' \in BOOLEAN
    <3>1. frames \in Nat /\ frames' = frames
      BY <1>1 DEF InputOK, input
    <3>2. QED
      BY <2>1, <3>1 DEF Begun
  <2>8. QED
    BY <2>2, <2>4, <2>5, <2>6, <2>7 DEF TypeOK, Timestamps
<1>6. CASE RecodeHead
  <2>1. mux' \in Timestamps /\ out' \in Seq(OutPicture) /\ intact' \in BOOLEAN
    <3>1. CASE firstseqhdr > start
      BY <1>6, <3>1, HeadFacts DEF Recoded, Timestamps
    <3>2. CASE ~(firstseqhdr > start)
      <4>1. UNCHANGED <<out, mux, intact>>
        BY <1>6, <3>2, HeadFacts
      <4>2. QED
        BY <4>1 DEF TypeOK, Timestamps, OutPicture
    <3>3. QED
      BY <3>1, <3>2
  <2>2. QED
    BY <1>1, <1>6, <2>1 DEF TypeOK, RecodeHead, input, avoffset, video, sound,
       Timestamps, OutPicture
<1>7. CASE Pass
  BY <1>1, <1>7 DEF TypeOK, Pass, input, avoffset, video, sound
<1>8. CASE CopyPicture
  <2>1. CopyStop \in 0 .. n - 1 /\ n \in Nat
    BY <1>3, <1>8, RangeFacts DEF CopyPicture
  <2>2. streampic \in 0 .. n - 1 /\ streampic' \in 0 .. n'
    BY <1>1, <1>8, <2>1 DEF TypeOK, CopyPicture, input
  <2>3. mux' \in Timestamps /\ out' \in Seq(OutPicture)
    <3>1. CASE WantedPicture(streampic, isfirstseq')
      <4>1. Put(streampic)
        BY <1>8, <3>1 DEF CopyPicture
      <4>2. QED
        BY <2>2, <4>1, PutFacts DEF CopiedTo
    <3>2. CASE ~WantedPicture(streampic, isfirstseq')
      <4>1. UNCHANGED <<out, mux>>
        BY <1>8, <3>2 DEF CopyPicture
      <4>2. QED
        BY <4>1 DEF TypeOK, Timestamps, OutPicture
    <3>3. QED
      BY <3>1, <3>2
  <2>4. isfirstseq' \in BOOLEAN /\ isfirstpic' \in BOOLEAN
    BY <1>8 DEF CopyPicture
  <2>5. UNCHANGED <<num, pc, cancelled, avoffset, vsd, sound, audioout, intact, whole>>
    BY <1>8 DEF CopyPicture
  <2>6. QED
    BY <1>1, <2>2, <2>3, <2>4, <2>5 DEF TypeOK, input, avoffset, sound,
       Timestamps, OutPicture
<1>9. CASE CopyVideoEnds
  BY <1>1, <1>9 DEF TypeOK, CopyVideoEnds, input, avoffset, sound
<1>10. CASE CopyAudio
  <2>1. audiostoppts' \in Int /\ audio' \in Nat /\ sd' \in BOOLEAN
        /\ (audio' < frames' \/ audio' = 0)
    <3>1. AudioPts(audio) \in Int /\ AudioPts(audio + 1) \in Int
      <4>1. audio \in Int /\ audio + 1 \in Int /\ audiobegin \in Int
        BY DEF TypeOK, InputOK
      <4>2. QED
        BY <4>1, AudioFacts
    <3>2. frames' = frames
      BY <1>1 DEF input
    <3>3. audio \in Nat /\ (audio < frames \/ audio = 0) /\ sd \in BOOLEAN
          /\ audiostoppts \in Int
      BY DEF TypeOK
    <3>4. /\ audiostoppts' \in {audiostoppts, AudioPts(audio), AudioPts(audio + 1)}
          /\ audio' = audio \/ (audio' = audio + 1 /\ audio + 1 < frames)
          /\ sd' = sd \/ sd' = FALSE
      BY <1>10 DEF CopyAudio
    <3>5. audiostoppts' \in Int
      BY <3>1, <3>3, <3>4
    <3>6. audio' \in Nat /\ (audio' < frames' \/ audio' = 0)
      BY <3>2, <3>3, <3>4
    <3>7. sd' \in BOOLEAN
      BY <3>3, <3>4, Zenon
    <3>8. QED
      BY <3>5, <3>6, <3>7
  <2>2. audioout' \in Seq(OutFrame)
    <3>1. audioout' = audioout \/ PutAudio
      BY <1>10 DEF CopyAudio
    <3>2. PutAudio => audioout' \in Seq(OutFrame)
      BY PutAudioFacts DEF PlayedOn
    <3>3. QED
      BY <3>1, <3>2 DEF TypeOK, OutFrame
  <2>3. UNCHANGED <<num, pc, cancelled, mux, avoffset, video, out, intact, whole>>
    BY <1>10 DEF CopyAudio
  <2>4. QED
    BY <1>1, <2>1, <2>2, <2>3 DEF TypeOK, input, avoffset, video, OutFrame
<1>11. CASE PassEnds
  BY <1>1, <1>11 DEF TypeOK, PassEnds, input, avoffset, video, sound
<1>12. CASE CopyCancelled
  BY <1>1, <1>12 DEF TypeOK, CopyCancelled, input, avoffset, video, sound
<1>18. CASE ReadingEnds
  <2>1. UNCHANGED <<num, cancelled, mux, avoffset, video, sound, out, audioout, intact>>
        /\ pc' = "tail" /\ pc = "copy" /\ whole' \in BOOLEAN
    BY <1>18 DEF ReadingEnds
  <2>2. QED
    BY <1>1, <2>1 DEF TypeOK, input, avoffset, video, sound
<1>13. CASE RecodeTail
  <2>1. mux' \in Timestamps /\ out' \in Seq(OutPicture) /\ intact' \in BOOLEAN
    <3>1. CASE TailMissing
      BY <1>13, <3>1, TailFacts DEF Recoded, Timestamps
    <3>2. CASE ~TailMissing
      <4>1. UNCHANGED <<out, mux, intact>>
        BY <1>13, <3>2, TailFacts
      <4>2. QED
        BY <4>1 DEF TypeOK, Timestamps, OutPicture
    <3>3. QED
      BY <3>1, <3>2
  <2>2. QED
    BY <1>1, <1>13, <2>1 DEF TypeOK, RecodeTail, input, avoffset, video, sound,
       Timestamps, OutPicture
<1>14. CASE End
  <2>1. num \in 1 .. Len(ranges) /\ NextRange
    BY <1>3, <1>14 DEF End
  <2>2. /\ num' \in 1 .. Len(ranges)' + 1 /\ pc' \in {"range", "done"}
        /\ pc' = "done" <=> num' > Len(ranges)'
    BY <1>1, <2>1, NextRangeType
  <2>3. mux' \in Timestamps
    <3>1. mux' = MuxAdvanced
      BY <1>14 DEF End
    <3>2. QED
      BY <2>1, <3>1, EndFacts DEF Ended
  <2>4. QED
    BY <1>1, <1>14, <2>2, <2>3 DEF TypeOK, End, input, avoffset, video, sound, Timestamps
<1>15. CASE Cancel
  BY <1>1, <1>15 DEF TypeOK, Cancel, input, avoffset, video, sound
<1>16. CASE UNCHANGED vars
  BY <1>16 DEF TypeOK, vars, input, avoffset, video, sound
<1>17. QED
  BY <1>4, <1>5, <1>6, <1>7, <1>8, <1>9, <1>10, <1>11, <1>12, <1>13, <1>14, <1>15,
     <1>16, <1>18 DEF Next

THEOREM InputInvariant == Spec => []InputOK
<1>1. Init => InputOK
  BY InputInit
<1>2. InputOK /\ [Next]_vars => InputOK'
  BY InputNext
<1>3. QED
  BY <1>1, <1>2, PTL DEF Spec

(* Every variable has its type: the pictures that are copied, decoded and  *)
(* encoded are pictures of the recording, and an audio frame is copied     *)
(* only if it is there.                                                    *)
THEOREM TypeCorrect == Spec => []TypeOK
<1>1. Init => TypeOK
  BY TypeInit
<1>2. InputOK /\ TypeOK /\ [Next]_vars => TypeOK'
  BY TypeNext
<1>3. QED
  BY <1>1, <1>2, InputInvariant, PTL DEF Spec

LEMMA CopyPictureFacts ==
  ASSUME InputOK, TypeOK, CopyPicture
  PROVE  /\ num \in 1 .. Len(ranges)
         /\ streampic \in 0 .. n - 1 /\ streampic < CopyStop
         /\ IF WantedPicture(streampic, isfirstseq') THEN CopiedTo(streampic)
                                                     ELSE UNCHANGED <<out, mux>>
<1>1. num \in 1 .. Len(ranges) /\ streampic < CopyStop
  <2>1. Len(ranges) \in Nat
    BY LenProperties DEF InputOK
  <2>2. QED
    BY <2>1 DEF TypeOK, CopyPicture
<1>2. CopyStop \in 0 .. n - 1 /\ n \in Nat
  BY <1>1, RangeFacts
<1>3. streampic \in 0 .. n - 1
  BY <1>1, <1>2 DEF TypeOK
<1>4. CASE WantedPicture(streampic, isfirstseq')
  <2>1. Put(streampic)
    BY <1>4 DEF CopyPicture
  <2>2. QED
    BY <1>1, <1>3, <1>4, <2>1, PutFacts
<1>5. CASE ~WantedPicture(streampic, isfirstseq')
  BY <1>1, <1>3, <1>5 DEF CopyPicture
<1>6. QED
  BY <1>4, <1>5

-----------------------------------------------------------------------------
(* A step begins or ends a range or stays inside.                          *)
Within ==
  /\ UNCHANGED <<input, num, videooffset, audiooffset>>
  /\ mux'.empty = mux.empty /\ mux'.vpts = mux.vpts /\ mux'.apts = mux.apts
  /\ InRange' <=> InRange
  /\ pc' = "range" <=> pc = "range"
  /\ pc' = "done" <=> pc = "done"
  /\ cancelled => cancelled'

LEMMA Kinds ==
  ASSUME InputOK, TypeOK, [Next]_vars
  PROVE  Begin \/ EmptyRange \/ End \/ Within
<1> SUFFICES ASSUME ~Begin, ~EmptyRange, ~End
             PROVE  Within
  OBVIOUS
<1>1. UNCHANGED input
  BY InputSame
<1>2. CASE RecodeHead
  <2>1. mux'.empty = mux.empty /\ mux'.vpts = mux.vpts /\ mux'.apts = mux.apts
    <3>1. CASE firstseqhdr > start
      BY <1>2, <3>1, HeadFacts DEF Recoded
    <3>2. CASE ~(firstseqhdr > start)
      BY <1>2, <3>2, HeadFacts
    <3>3. QED
      BY <3>1, <3>2
  <2>2. QED
    BY <1>1, <1>2, <2>1 DEF Within, RecodeHead, InRange, avoffset
<1>3. CASE CopyPicture
  <2>1. mux'.empty = mux.empty /\ mux'.vpts = mux.vpts /\ mux'.apts = mux.apts
    <3>1. CASE WantedPicture(streampic, isfirstseq')
      BY <1>3, <3>1, CopyPictureFacts DEF CopiedTo
    <3>2. CASE ~WantedPicture(streampic, isfirstseq')
      BY <1>3, <3>2 DEF CopyPicture
    <3>3. QED
      BY <3>1, <3>2
  <2>2. QED
    BY <1>1, <1>3, <2>1 DEF Within, CopyPicture, InRange, avoffset
<1>4. CASE RecodeTail
  <2>1. mux'.empty = mux.empty /\ mux'.vpts = mux.vpts /\ mux'.apts = mux.apts
    <3>1. CASE TailMissing
      BY <1>4, <3>1, TailFacts DEF Recoded
    <3>2. CASE ~TailMissing
      BY <1>4, <3>2, TailFacts
    <3>3. QED
      BY <3>1, <3>2
  <2>2. QED
    BY <1>1, <1>4, <2>1 DEF Within, RecodeTail, InRange, avoffset
<1>5. CASE Pass \/ CopyCancelled \/ ReadingEnds \/ PassEnds
  BY <1>1, <1>5 DEF Within, Pass, CopyCancelled, ReadingEnds, PassEnds, InRange, avoffset
<1>6. CASE CopyVideoEnds \/ CopyAudio
  BY <1>1, <1>6 DEF Within, CopyVideoEnds, CopyAudio, InRange, avoffset
<1>7. CASE Cancel \/ UNCHANGED vars
  BY <1>1, <1>7 DEF Within, Cancel, vars, InRange, avoffset
<1>8. QED
  BY <1>2, <1>3, <1>4, <1>5, <1>6, <1>7 DEF Next

(* What is put into the multiplexer is of the present range.               *)
Extended ==
  /\ out' \in Seq(OutPicture) /\ Len(out') \in Nat /\ Len(out') >= Len(out)
  /\ DOMAIN out' = 1 .. Len(out') /\ DOMAIN out = 1 .. Len(out) /\ Len(out) \in Nat
  /\ \A i \in 1 .. Len(out) : out'[i] = out[i]
  /\ \A i \in Len(out) + 1 .. Len(out') : out'[i].range = num

AudioExtended ==
  /\ audioout' \in Seq(OutFrame) /\ Len(audioout') \in Nat
  /\ Len(audioout') >= Len(audioout)
  /\ DOMAIN audioout' = 1 .. Len(audioout') /\ DOMAIN audioout = 1 .. Len(audioout)
  /\ Len(audioout) \in Nat
  /\ \A i \in 1 .. Len(audioout) : audioout'[i] = audioout[i]
  /\ \A i \in Len(audioout) + 1 .. Len(audioout') : audioout'[i].range = num

LEMMA RecodedExtends ==
  ASSUME out \in Seq(OutPicture), NEW a, NEW k \in Nat, Recoded(k, a)
  PROVE  Extended
<1>1. Len(out) \in Nat /\ DOMAIN out = 1 .. Len(out)
  BY LenProperties
<1>2. /\ out' \in Seq(OutPicture) /\ Len(out') = Len(out) + k
      /\ \A i \in 1 .. Len(out) : out'[i] = out[i]
      /\ \A j \in 1 .. k : out'[Len(out) + j].range = num
  BY DEF Recoded, RecodedPicture
<1>3. Len(out') \in Nat /\ DOMAIN out' = 1 .. Len(out')
  BY <1>2, LenProperties
<1>4. ASSUME NEW i \in Len(out) + 1 .. Len(out')
      PROVE  out'[i].range = num
  <2>1. i - Len(out) \in 1 .. k /\ Len(out) + (i - Len(out)) = i
    BY <1>1, <1>2
  <2>2. QED
    BY <1>2, <2>1
<1>5. QED
  BY <1>1, <1>2, <1>3, <1>4 DEF Extended

LEMMA OutSame ==
  ASSUME out \in Seq(OutPicture), out' = out
  PROVE  Extended
<1>1. Len(out) \in Nat /\ DOMAIN out = 1 .. Len(out)
  BY LenProperties
<1>2. QED
  BY <1>1 DEF Extended

LEMMA PutExtends ==
  ASSUME out \in Seq(OutPicture), NEW i, CopiedTo(i)
  PROVE  Extended
<1>1. Len(out) \in Nat /\ DOMAIN out = 1 .. Len(out)
  BY LenProperties
<1>2. /\ out' \in Seq(OutPicture) /\ Len(out') = Len(out) + 1
      /\ \A j \in 1 .. Len(out) : out'[j] = out[j]
      /\ out'[Len(out) + 1].range = num
  BY DEF CopiedTo
<1>3. Len(out') \in Nat /\ DOMAIN out' = 1 .. Len(out')
  BY <1>2, LenProperties
<1>4. \A j \in Len(out) + 1 .. Len(out') : j = Len(out) + 1
  BY <1>1, <1>2
<1>5. QED
  BY <1>1, <1>2, <1>3, <1>4 DEF Extended

LEMMA OutExtended ==
  ASSUME InputOK, TypeOK, [Next]_vars
  PROVE  /\ Extended
         /\ out' # out => RecodeHead \/ CopyPicture \/ RecodeTail
<1>1. out \in Seq(OutPicture)
  BY DEF TypeOK, OutPicture
<1>2. CASE RecodeHead
  <2>1. CASE firstseqhdr > start
    <3>1. PICK k \in 0 .. firstseqhdr - start : Recoded(k, start)
      BY <1>2, <2>1, HeadFacts
    <3>2. QED
      BY <1>1, <1>2, <3>1, RecodedExtends
  <2>2. CASE ~(firstseqhdr > start)
    BY <1>1, <1>2, <2>2, HeadFacts, OutSame
  <2>3. QED
    BY <2>1, <2>2
<1>3. CASE CopyPicture
  <2>1. CASE WantedPicture(streampic, isfirstseq')
    BY <1>1, <1>3, <2>1, CopyPictureFacts, PutExtends
  <2>2. CASE ~WantedPicture(streampic, isfirstseq')
    BY <1>1, <1>3, <2>2, CopyPictureFacts, OutSame
  <2>3. QED
    BY <2>1, <2>2
<1>4. CASE RecodeTail
  <2>1. CASE TailMissing
    <3>1. PICK k \in 0 .. stop - StartRecode : Recoded(k, StartRecode)
      BY <1>4, <2>1, TailFacts
    <3>2. QED
      BY <1>1, <1>4, <3>1, RecodedExtends
  <2>2. CASE ~TailMissing
    BY <1>1, <1>4, <2>2, TailFacts, OutSame
  <2>3. QED
    BY <2>1, <2>2
<1>5. CASE ~(RecodeHead \/ CopyPicture \/ RecodeTail)
  <2>1. out' = out
    BY <1>5 DEF Next, vars, EmptyRange, Begin, Pass, CopyVideoEnds, CopyAudio, PassEnds,
       CopyCancelled, ReadingEnds, End, Cancel
  <2>2. QED
    BY <1>1, <2>1, OutSame
<1>6. QED
  BY <1>2, <1>3, <1>4, <1>5

LEMMA AudioOutExtended ==
  ASSUME InputOK, TypeOK, [Next]_vars
  PROVE  /\ AudioExtended
         /\ audioout' # audioout => CopyAudio /\ PlayedOn
<1>1. audioout \in Seq(OutFrame) /\ Len(audioout) \in Nat /\ DOMAIN audioout = 1 .. Len(audioout)
  BY LenProperties DEF TypeOK, OutFrame
<1>2. CASE CopyAudio /\ PutAudio
  <2>1. PlayedOn
    BY <1>2, PutAudioFacts
  <2>2. /\ audioout' \in Seq(OutFrame) /\ Len(audioout') = Len(audioout) + 1
        /\ \A j \in 1 .. Len(audioout) : audioout'[j] = audioout[j]
        /\ audioout'[Len(audioout) + 1].range = num
    BY <2>1 DEF PlayedOn
  <2>3. Len(audioout') \in Nat /\ DOMAIN audioout' = 1 .. Len(audioout')
    BY <2>2, LenProperties
  <2>4. \A j \in Len(audioout) + 1 .. Len(audioout') : j = Len(audioout) + 1
    BY <1>1, <2>2
  <2>5. AudioExtended
    BY <1>1, <2>2, <2>3, <2>4 DEF AudioExtended
  <2>6. QED
    BY <1>2, <2>1, <2>5
<1>3. CASE ~(CopyAudio /\ PutAudio)
  <2>1. audioout' = audioout
    BY <1>3 DEF Next, vars, EmptyRange, Begin, Pass, CopyVideoEnds, CopyAudio, PassEnds,
       CopyCancelled, ReadingEnds, End, Cancel, RecodeHead, RecodeTail, CopyPicture
  <2>2. QED
    BY <1>1, <2>1 DEF AudioExtended
<1>4. QED
  BY <1>2, <1>3

-----------------------------------------------------------------------------
(* What the parts of an export have in common.                             *)
Inside == InRange => start < stop /\ ~mux.empty

NothingYet == mux.empty => out = << >> /\ audioout = << >> /\ mux.dts = 0

(* Only who cancels, or cannot read on, leaves the loop before video and   *)
(* audio have ended.                                                       *)
LoopEnds ==
  pc \in {"tail", "end"} /\ ~cancelled /\ whole => ~vsd /\ (sd => AudioRead)

Tagged(list) ==
  \A i \in DOMAIN list :
    list[i].range <= num /\ (list[i].range = num => InRange)

RangeOK == Inside /\ NothingYet /\ LoopEnds /\ Tagged(out) /\ Tagged(audioout)

LEMMA InsideNext ==
  ASSUME InputOK, TypeOK, RangeOK, [Next]_vars
  PROVE  Inside'
<1>1. CASE Begin
  <2>1. start' = start /\ stop' = stop
    BY <1>1, InputSame, SameRange DEF Begin
  <2>2. num \in 1 .. Len(ranges) /\ start # stop
    <3>1. Len(ranges) \in Nat
      BY LenProperties DEF InputOK
    <3>2. QED
      BY <1>1, <3>1 DEF TypeOK, Begin
  <2>3. start \in 0 .. pictures - 1 /\ stop \in 0 .. pictures - 1 /\ start <= stop
    BY <2>2, RangeFacts
  <2>4. start < stop
    BY <2>2, <2>3
  <2>5. ~mux'.empty
    BY <1>1, BeginFacts DEF Begun
  <2>6. QED
    BY <2>1, <2>4, <2>5 DEF Inside
<1>2. CASE EmptyRange \/ End
  BY <1>2 DEF EmptyRange, End, NextRange, Inside, InRange
<1>3. CASE Within
  <2>1. start' = start /\ stop' = stop
    BY <1>3, SameRange DEF Within
  <2>2. QED
    BY <1>3, <2>1 DEF Within, Inside, RangeOK
<1>4. QED
  BY <1>1, <1>2, <1>3, Kinds

LEMMA NothingYetNext ==
  ASSUME InputOK, TypeOK, RangeOK, [Next]_vars
  PROVE  NothingYet'
<1>1. CASE Begin
  BY <1>1, BeginFacts DEF Begun, NothingYet
<1>2. CASE EmptyRange
  BY <1>2 DEF EmptyRange, NothingYet, RangeOK
<1>3. CASE End
  <2>1. InRange
    BY <1>3 DEF End, InRange
  <2>2. mux' = MuxAdvanced /\ num \in 1 .. Len(ranges)
    <3>1. Len(ranges) \in Nat
      BY LenProperties DEF InputOK
    <3>2. QED
      BY <1>3, <3>1 DEF TypeOK, End
  <2>3. mux'.empty = mux.empty
    BY <2>2, EndFacts DEF Ended
  <2>4. QED
    BY <2>1, <2>3 DEF NothingYet, RangeOK, Inside
<1>4. CASE Within
  <2>1. CASE InRange
    BY <1>4, <2>1 DEF Within, NothingYet, RangeOK, Inside
  <2>2. CASE ~InRange
    <3>1. out' = out /\ audioout' = audioout
      BY <2>2, OutExtended, AudioOutExtended
         DEF InRange, RecodeHead, CopyPicture, RecodeTail, CopyAudio
    <3>2. mux' = mux
      <4>1. pc \in {"range", "done"}
        BY <2>2 DEF InRange, TypeOK
      <4>2. pc' \in {"range", "done"}
        BY <1>4, <4>1 DEF Within
      <4>3. Cancel \/ UNCHANGED vars \/ EmptyRange
        BY <4>1, <4>2 DEF Next, Begin, RecodeHead, CopyPicture, RecodeTail, CopyAudio,
           Pass, CopyVideoEnds, PassEnds, CopyCancelled, ReadingEnds, End
      <4>4. QED
        BY <4>3 DEF Cancel, vars, EmptyRange
    <3>3. QED
      BY <3>1, <3>2 DEF NothingYet, RangeOK
  <2>3. QED
    BY <2>1, <2>2
<1>5. QED
  BY <1>1, <1>2, <1>3, <1>4, Kinds

LEMMA LoopEndsNext ==
  ASSUME InputOK, TypeOK, RangeOK, [Next]_vars
  PROVE  LoopEnds'
<1> SUFFICES ASSUME (pc \in {"tail", "end"})', ~cancelled', whole'
             PROVE  (~vsd /\ (sd => AudioRead))'
  BY DEF LoopEnds
<1>1. UNCHANGED input
  BY InputSame
<1>2. frames' = frames /\ audiobegin' = audiobegin
  BY <1>1 DEF input
<1>3. CASE PassEnds
  <2>1. ~vsd /\ ~sd
    BY <1>3 DEF PassEnds
  <2>2. UNCHANGED <<video, sound>>
    BY <1>3 DEF PassEnds
  <2>3. QED
    BY <1>2, <2>1, <2>2 DEF video, sound, AudioRead, AudioPts
<1>4. CASE RecodeTail \/ Cancel \/ UNCHANGED vars
  <2>1. pc \in {"tail", "end"} /\ ~cancelled /\ whole
    <3>1. CASE RecodeTail
      BY <3>1 DEF RecodeTail
    <3>2. CASE Cancel
      BY <3>2 DEF Cancel
    <3>3. CASE UNCHANGED vars
      BY <3>3 DEF vars
    <3>4. QED
      BY <1>4, <3>1, <3>2, <3>3
  <2>2. UNCHANGED <<video, sound>>
    BY <1>4 DEF RecodeTail, Cancel, vars
  <2>3. ~vsd /\ (sd => AudioRead)
    BY <2>1 DEF RangeOK, LoopEnds
  <2>4. QED
    BY <1>2, <2>2, <2>3 DEF video, sound, AudioRead, AudioPts
<1>5. CASE EmptyRange \/ End
  BY <1>5 DEF EmptyRange, End, NextRange
<1>6. CASE Begin \/ RecodeHead \/ Pass \/ CopyPicture \/ CopyVideoEnds \/ CopyAudio
  BY <1>6 DEF Begin, RecodeHead, Pass, CopyPicture, CopyVideoEnds, CopyAudio
<1>7. CASE CopyCancelled
  BY <1>7 DEF CopyCancelled
<1>8. CASE ReadingEnds
  <2>1. ~vsd /\ (sd => AudioRead) /\ UNCHANGED <<video, sound>>
    BY <1>8 DEF ReadingEnds
  <2>2. QED
    BY <1>2, <2>1 DEF video, sound, AudioRead, AudioPts
<1>9. QED
  BY <1>3, <1>4, <1>5, <1>6, <1>7, <1>8 DEF Next

LEMMA TaggedNext ==
  ASSUME InputOK, TypeOK, RangeOK, [Next]_vars
  PROVE  Tagged(out)' /\ Tagged(audioout)'
<1>1. out \in Seq(OutPicture) /\ audioout \in Seq(OutFrame)
  BY DEF TypeOK, OutPicture, OutFrame
<1>2. /\ Len(out) \in Nat /\ DOMAIN out = 1 .. Len(out)
      /\ Len(audioout) \in Nat /\ DOMAIN audioout = 1 .. Len(audioout)
  BY <1>1, LenProperties
<1>3. /\ \A i \in 1 .. Len(out) : out[i].range \in Nat
      /\ \A i \in 1 .. Len(audioout) : audioout[i].range \in Nat
  <2>1. \A i \in 1 .. Len(out) : out[i] \in OutPicture
    BY <1>1, ElementOfSeq
  <2>2. \A i \in 1 .. Len(audioout) : audioout[i] \in OutFrame
    BY <1>1, ElementOfSeq
  <2>3. QED
    BY <2>1, <2>2 DEF OutPicture, OutFrame
<1>4. /\ \A i \in 1 .. Len(out) : out[i].range <= num /\ (out[i].range = num => InRange)
      /\ \A i \in 1 .. Len(audioout) :
           audioout[i].range <= num /\ (audioout[i].range = num => InRange)
  BY <1>2 DEF RangeOK, Tagged
<1>5. num \in Nat
  <2>1. Len(ranges) \in Nat
    BY LenProperties DEF InputOK
  <2>2. QED
    BY <2>1 DEF TypeOK
<1>6. CASE Begin
  <2>1. out' = out /\ audioout' = audioout /\ num' = num /\ InRange'
    BY <1>6 DEF Begin, InRange
  <2>2. QED
    BY <1>2, <1>4, <2>1 DEF Tagged
<1>7. CASE EmptyRange \/ End
  <2>1. out' = out /\ audioout' = audioout /\ num' = num + 1
    BY <1>7 DEF EmptyRange, End, NextRange
  <2>2. \A i \in 1 .. Len(out) : out[i].range <= num' /\ out[i].range # num'
    BY <1>3, <1>4, <1>5, <2>1
  <2>3. \A i \in 1 .. Len(audioout) : audioout[i].range <= num' /\ audioout[i].range # num'
    BY <1>3, <1>4, <1>5, <2>1
  <2>4. QED
    BY <1>2, <2>1, <2>2, <2>3 DEF Tagged
<1>8. CASE Within
  <2>1. num' = num /\ (InRange' <=> InRange)
    BY <1>8 DEF Within
  <2>2. Extended /\ (out' # out => InRange)
    BY OutExtended DEF InRange, RecodeHead, CopyPicture, RecodeTail
  <2>3. AudioExtended /\ (audioout' # audioout => InRange)
    BY AudioOutExtended DEF InRange, CopyAudio
  <2>4. Tagged(out)'
    <3> SUFFICES ASSUME NEW i \in 1 .. Len(out')
                 PROVE  out'[i].range <= num /\ (out'[i].range = num => InRange)
      BY <2>1, <2>2 DEF Tagged, Extended
    <3>1. CASE i \in 1 .. Len(out)
      BY <1>4, <2>2, <3>1 DEF Extended
    <3>2. CASE ~(i \in 1 .. Len(out))
      <4>1. i \in Len(out) + 1 .. Len(out') /\ out' # out
        BY <2>2, <3>2 DEF Extended
      <4>2. QED
        BY <1>5, <2>2, <4>1 DEF Extended
    <3>3. QED
      BY <3>1, <3>2
  <2>5. Tagged(audioout)'
    <3> SUFFICES ASSUME NEW i \in 1 .. Len(audioout')
                 PROVE  audioout'[i].range <= num /\ (audioout'[i].range = num => InRange)
      BY <2>1, <2>3 DEF Tagged, AudioExtended
    <3>1. CASE i \in 1 .. Len(audioout)
      BY <1>4, <2>3, <3>1 DEF AudioExtended
    <3>2. CASE ~(i \in 1 .. Len(audioout))
      <4>1. i \in Len(audioout) + 1 .. Len(audioout') /\ audioout' # audioout
        BY <2>3, <3>2 DEF AudioExtended
      <4>2. QED
        BY <1>5, <2>3, <4>1 DEF AudioExtended
    <3>3. QED
      BY <3>1, <3>2
  <2>6. QED
    BY <2>4, <2>5
<1>9. QED
  BY <1>6, <1>7, <1>8, Kinds

LEMMA RangeInvariant == Spec => []RangeOK
<1>1. Init => RangeOK
  <2> SUFFICES ASSUME Init PROVE RangeOK
    OBVIOUS
  <2>1. pc = "range" /\ out = << >> /\ audioout = << >> /\ mux.dts = 0
    BY DEF Init
  <2>2. DOMAIN out = {} /\ DOMAIN audioout = {}
    BY <2>1
  <2>3. QED
    BY <2>1, <2>2 DEF RangeOK, Inside, NothingYet, LoopEnds, Tagged, InRange
<1>2. InputOK /\ TypeOK /\ RangeOK /\ [Next]_vars => RangeOK'
  <2> SUFFICES ASSUME InputOK, TypeOK, RangeOK, [Next]_vars PROVE RangeOK'
    OBVIOUS
  <2>1. Inside' /\ NothingYet' /\ LoopEnds' /\ Tagged(out)' /\ Tagged(audioout)'
    BY InsideNext, NothingYetNext, LoopEndsNext, TaggedNext
  <2>2. QED
    BY <2>1 DEF RangeOK
<1>3. QED
  BY <1>1, <1>2, InputInvariant, TypeCorrect, PTL DEF Spec

-----------------------------------------------------------------------------
(* How much later the sound is than in the recording, and where it is to   *)
(* end.                                                                    *)
Delay == audiooffset - videooffset
Ideal == stop * FrameTime + Delay

SoundStops ==
  InRange =>
    /\ sd => audiostoppts = Ideal /\ frames > 0
    /\ frames > 0 /\ ~sd => AudioPts(0) <= audiostoppts
    /\ AudioCovers => IF sd THEN 2 * (AudioPts(audio) - Ideal) <= AudioTime
                      ELSE Near(audiostoppts, Ideal, AudioTime)

LEMMA NumInRange ==
  ASSUME InputOK, TypeOK, pc # "done"
  PROVE  num \in 1 .. Len(ranges)
<1>1. Len(ranges) \in Nat
  BY LenProperties DEF InputOK
<1>2. QED
  BY <1>1 DEF TypeOK

LEMMA SoundTypes ==
  ASSUME InputOK, TypeOK
  PROVE  /\ audiobegin \in Int /\ frames \in Nat /\ audio \in Nat /\ audiostoppts \in Int
         /\ videooffset \in Int /\ audiooffset \in Int
         /\ mux.vpts \in Int /\ mux.apts \in Int
         /\ AudioTime \in Nat /\ AudioTime > 0 /\ FrameTime \in Nat /\ FrameTime > 0
         /\ \A k \in Int : AudioPts(k) \in Int
         /\ \A k \in Int : AudioPts(k + 1) = AudioPts(k) + AudioTime
         /\ \A k \in Nat : AudioPts(0) <= AudioPts(k)
<1>1. audiobegin \in Int /\ frames \in Nat
  BY DEF InputOK
<1>2. \A k \in Int : AudioPts(k) \in Int /\ AudioPts(k + 1) = AudioPts(k) + AudioTime
  BY <1>1, AudioFacts
<1>3. \A k \in Nat : AudioPts(0) <= AudioPts(k)
  <2> TAKE k \in Nat
  <2>1. k \in Int /\ 0 \in Int /\ 0 <= k
    OBVIOUS
  <2>2. QED
    BY <1>1, <2>1, AudioFacts
<1>4. /\ AudioTime \in Nat /\ AudioTime > 0 /\ FrameTime \in Nat /\ FrameTime > 0
  BY SaveMpgAssumption
<1>5. /\ audio \in Nat /\ audiostoppts \in Int
      /\ videooffset \in Int /\ audiooffset \in Int
  BY DEF TypeOK
<1>6. mux.vpts \in Int /\ mux.apts \in Int
  BY DEF TypeOK
<1>7. QED
  BY <1>1, <1>2, <1>3, <1>4, <1>5, <1>6

LEMMA TimeOrder ==
  ASSUME NEW x \in Int, NEW y \in Int
  PROVE  /\ x * FrameTime \in Int /\ y * FrameTime \in Int
         /\ x <= y => x * FrameTime <= y * FrameTime
         /\ x < y => x * FrameTime + FrameTime <= y * FrameTime
         /\ x >= 0 => x * FrameTime >= 0
<1>1. FrameTime \in Nat /\ FrameTime > 0
  BY SaveMpgAssumption
<1>2. x * FrameTime \in Int /\ y * FrameTime \in Int /\ (y - x) * FrameTime \in Int
  BY <1>1
<1>3. y * FrameTime = x * FrameTime + (y - x) * FrameTime
  BY <1>1
<1>4. x <= y => (y - x) * FrameTime >= 0
  BY <1>1
<1>5. x < y => (y - x) * FrameTime >= FrameTime
  BY <1>1
<1>6. x >= 0 => x * FrameTime >= 0
  BY <1>1
<1>7. QED
  BY <1>1, <1>2, <1>3, <1>4, <1>5, <1>6

LEMMA AudioCoversSame ==
  ASSUME UNCHANGED input
  PROVE  AudioCovers' = AudioCovers
BY DEF input, AudioCovers, AudioPts, pictures

LEMMA SoundStopsBegin ==
  ASSUME InputOK, TypeOK, RangeOK, EndTogether, Begin
  PROVE  SoundStops'
<1>1. Begun /\ pc = "range" /\ UNCHANGED <<input, num>>
  BY BeginFacts DEF Begin
<1>2. /\ start' = start /\ stop' = stop /\ frames' = frames
      /\ \A x : AudioPts(x)' = AudioPts(x)
      /\ AudioCovers' = AudioCovers
  BY <1>1, SameRange, AudioCoversSame DEF input
<1>3. num \in 1 .. Len(ranges)
  BY <1>1, NumInRange
<1>4. start \in Nat /\ stop \in Nat /\ start <= stop
  <2>1. /\ start \in 0 .. pictures - 1 /\ stop \in 0 .. pictures - 1 /\ start <= stop
        /\ pictures \in Nat
    BY <1>3, RangeFacts
  <2>2. QED
    BY <2>1
<1>0. /\ audiobegin \in Int /\ frames \in Nat
      /\ mux.vpts \in Int /\ mux.apts \in Int /\ AudioTime \in Nat
      /\ \A k \in Int : AudioPts(k) \in Int
  BY SoundTypes
<1>5. /\ start * FrameTime \in Int /\ stop * FrameTime \in Int
      /\ 0 <= start * FrameTime /\ start * FrameTime <= stop * FrameTime
  <2>1. start \in Int /\ stop \in Int /\ start >= 0
    BY <1>4
  <2>2. QED
    BY <1>4, <2>1, TimeOrder
<1>6. videooffset' \in Int /\ audiooffset' \in Int
  BY <1>1 DEF Begun
<1>7. Ideal' = stop * FrameTime + audiooffset' - videooffset' /\ Ideal' \in Int
  <2>1. Ideal' = stop * FrameTime + (audiooffset' - videooffset')
    BY <1>2 DEF Ideal, Delay
  <2>2. QED
    BY <1>5, <1>6, <2>1
<1>8. audiostoppts' = Ideal'
  <2>1. audiostoppts' = stop * FrameTime - videooffset' + audiooffset'
    BY <1>1 DEF Begun
  <2>2. QED
    BY <1>5, <1>6, <1>7, <2>1
<1>9. sd' = (frames > 0)
  BY <1>1 DEF Begun
<1>10. ASSUME AudioCovers
       PROVE  2 * (AudioPts(audio') - Ideal') <= AudioTime
  <2>1. frames > 0 /\ AudioPts(0) <= 0
    <3>1. 0 * AudioTime = 0
      BY <1>0
    <3>2. QED
      BY <1>0, <1>10, <3>1 DEF AudioCovers, AudioPts
  <2>2. audio' \in 0 .. frames - 1
    BY <1>1, <2>1 DEF Begun
  <2>3. AudioPts(audio') \in Int
    BY <1>0, <2>2
  <2>4. CASE mux.empty
    <3>1. audio' = Closest(start * FrameTime) /\ audiooffset' = videooffset'
      BY <1>1, <2>1, <2>4 DEF Begun
    <3>2. audio' > 0 => 2 * (AudioPts(audio') - start * FrameTime) <= AudioTime
      BY <1>0, <1>5, <2>1, <3>1, ClosestFacts
    <3>3. audio' = 0 => AudioPts(audio') <= start * FrameTime
      BY <1>0, <1>5, <2>1
    <3>4. Ideal' = stop * FrameTime
      BY <1>0, <1>5, <1>6, <1>7, <3>1
    <3>5. QED
      BY <1>0, <1>5, <2>2, <2>3, <3>2, <3>3, <3>4
  <2>5. CASE ~mux.empty /\ AudioCounts(AudioPts(audio'))
    <3>1. /\ audiooffset' = AudioPts(audio') - mux.apts
          /\ videooffset' = start * FrameTime - mux.vpts
      BY <1>1, <2>1, <2>5 DEF Begun
    <3>2. 2 * (mux.apts - mux.vpts) <= AudioTime
      BY <1>1, <1>10 DEF EndTogether, Near
    <3>3. AudioPts(audio') - Ideal' = start * FrameTime - stop * FrameTime + mux.apts - mux.vpts
      <4> DEFINE b == start * FrameTime
                 e == stop * FrameTime
      <4>1. b \in Int /\ e \in Int
        BY <1>5
      <4>2. Ideal' = e + (audiooffset' - videooffset')
        BY <1>7
      <4>3. videooffset' = b - mux.vpts
        BY <3>1
      <4> HIDE DEF b, e
      <4>4. AudioPts(audio') - Ideal' = b - e + mux.apts - mux.vpts
        BY <1>0, <2>3, <3>1, <4>1, <4>2, <4>3
      <4>5. QED
        BY <4>4 DEF b, e
    <3>4. QED
      BY <1>0, <1>5, <2>3, <3>2, <3>3
  <2>6. CASE ~mux.empty /\ ~AudioCounts(AudioPts(audio'))
    <3>1. audiooffset' = videooffset'
      BY <1>1, <2>1, <2>6 DEF Begun
    <3>2. Ideal' = stop * FrameTime
      BY <1>0, <1>5, <1>6, <1>7, <3>1
    <3>3. AudioPts(audio') < 0
      BY <2>1, <2>3, <2>6 DEF AudioCounts, InputOK
    <3>4. QED
      BY <1>0, <1>5, <2>3, <3>2, <3>3
  <2>7. QED
    BY <2>4, <2>5, <2>6
<1>11. AudioCovers => sd'
  BY <1>9 DEF AudioCovers
<1>12. sd' => frames' > 0
  BY <1>2, <1>9
<1>13. frames' > 0 => sd'
  BY <1>2, <1>9
<1>14. AudioCovers => 2 * (AudioPts(audio)' - Ideal') <= AudioTime
  <2>1. AudioPts(audio)' = AudioPts(audio')
    BY <1>1 DEF AudioPts, input
  <2>2. QED
    BY <1>10, <2>1
<1>15. QED
  BY <1>2, <1>8, <1>11, <1>12, <1>13, <1>14 DEF SoundStops

(* A frame more, or the last one.                                          *)
LEMMA CopyAudioFacts ==
  ASSUME CopyAudio
  PROVE  /\ pc = "pass" /\ sd
         /\ \/ /\ AudioPts(audio) >= audiostoppts
               /\ sd' = FALSE /\ audiostoppts' = AudioPts(audio)
               /\ UNCHANGED <<audio, audioout>>
            \/ /\ AudioPts(audio) < audiostoppts /\ audio + 1 < frames
               /\ AudioPts(audio + 1) < audiostoppts
               /\ PutAudio /\ audio' = audio + 1
               /\ UNCHANGED <<sd, audiostoppts>>
            \/ /\ AudioPts(audio) < audiostoppts /\ audio + 1 < frames
               /\ AudioPts(audio + 1) >= audiostoppts
               /\ sd' = FALSE
               /\ \/ /\ WithoutLast(AudioPts(audio), AudioPts(audio + 1))
                     /\ audiostoppts' = AudioPts(audio)
                     /\ UNCHANGED <<audio, audioout>>
                  \/ /\ ~WithoutLast(AudioPts(audio), AudioPts(audio + 1))
                     /\ audiostoppts' = AudioPts(audio + 1)
                     /\ PutAudio /\ audio' = audio + 1
BY DEF CopyAudio

LEMMA IdealSame ==
  ASSUME Within
  PROVE  /\ Ideal' = Ideal /\ Delay' = Delay /\ stop' = stop /\ start' = start
         /\ frames' = frames /\ \A x : AudioPts(x)' = AudioPts(x)
         /\ AudioCovers' = AudioCovers
<1>1. UNCHANGED <<input, num, videooffset, audiooffset>>
  BY DEF Within
<1>2. stop' = stop /\ start' = start /\ frames' = frames
      /\ \A x : AudioPts(x)' = AudioPts(x)
  BY <1>1, SameRange DEF input
<1>3. QED
  BY <1>1, <1>2, AudioCoversSame DEF Ideal, Delay

LEMMA IdealType ==
  ASSUME InputOK, TypeOK, pc # "done"
  PROVE  Ideal \in Int /\ stop * FrameTime \in Int /\ start * FrameTime \in Int
         /\ Delay \in Int /\ start \in Nat /\ stop \in Nat
<1>1. /\ start \in 0 .. pictures - 1 /\ stop \in 0 .. pictures - 1 /\ pictures \in Nat
  BY NumInRange, RangeFacts
<1>2. start \in Int /\ stop \in Int /\ start \in Nat /\ stop \in Nat
  BY <1>1
<1>3. videooffset \in Int /\ audiooffset \in Int
  BY DEF TypeOK
<1>4. QED
  BY <1>2, <1>3, TimeOrder DEF Ideal, Delay

LEMMA SoundUnmoved ==
  ASSUME [Next]_vars, ~Begin, ~CopyAudio
  PROVE  UNCHANGED sound
BY DEF Next, vars, EmptyRange, RecodeHead, Pass, CopyPicture, CopyVideoEnds, PassEnds,
       CopyCancelled, ReadingEnds, RecodeTail, End, Cancel, sound

LEMMA SoundStopsCopy ==
  ASSUME InputOK, TypeOK, SoundStops, Within, CopyAudio
  PROVE  SoundStops'
<1>1. InRange /\ pc # "done" /\ sd
  BY DEF CopyAudio, InRange
<1>2. /\ Ideal' = Ideal /\ frames' = frames
      /\ \A x : AudioPts(x)' = AudioPts(x)
      /\ AudioCovers' = AudioCovers
  BY IdealSame
<1>3. /\ audiostoppts = Ideal /\ frames > 0
      /\ AudioCovers => 2 * (AudioPts(audio) - Ideal) <= AudioTime
  BY <1>1 DEF SoundStops
<1>4. /\ frames \in Nat /\ audio \in Nat /\ AudioTime \in Nat /\ AudioTime > 0
      /\ AudioPts(audio) \in Int /\ AudioPts(audio + 1) \in Int
      /\ AudioPts(audio + 1) = AudioPts(audio) + AudioTime
      /\ AudioPts(0) <= AudioPts(audio) /\ AudioPts(0) \in Int
  <2>1. audio \in Nat /\ audio \in Int /\ audio + 1 \in Int /\ 0 \in Int
    BY SoundTypes
  <2>2. QED
    BY <2>1, SoundTypes
<1>5. Ideal \in Int
  BY <1>1, IdealType
<1>6. \A x : x = audio' => AudioPts(audio)' = AudioPts(x)
  <2>1. AudioPts(audio)' = audiobegin' + audio' * AudioTime
    BY DEF AudioPts
  <2>2. audiobegin' = audiobegin
    BY DEF Within, input
  <2>3. QED
    BY <2>1, <2>2 DEF AudioPts
<1>7. CASE /\ AudioPts(audio) >= audiostoppts
           /\ sd' = FALSE /\ audiostoppts' = AudioPts(audio)
  <2>1. AudioCovers => Near(audiostoppts', Ideal, AudioTime)
    BY <1>3, <1>4, <1>5, <1>7 DEF Near
  <2>2. AudioPts(0) <= audiostoppts'
    BY <1>4, <1>7
  <2>3. QED
    BY <1>2, <1>7, <2>1, <2>2 DEF SoundStops, Near
<1>8. CASE /\ AudioPts(audio + 1) < audiostoppts
           /\ audio' = audio + 1
           /\ UNCHANGED <<sd, audiostoppts>>
  <2>1. AudioPts(audio)' = AudioPts(audio + 1)
    BY <1>6, <1>8
  <2>2. 2 * (AudioPts(audio + 1) - Ideal) <= AudioTime
    BY <1>3, <1>4, <1>5, <1>8
  <2>3. QED
    BY <1>1, <1>2, <1>3, <1>8, <2>1, <2>2 DEF SoundStops
<1>9. CASE /\ AudioPts(audio) < audiostoppts
           /\ AudioPts(audio + 1) >= audiostoppts
           /\ sd' = FALSE
           /\ WithoutLast(AudioPts(audio), AudioPts(audio + 1))
           /\ audiostoppts' = AudioPts(audio)
  <2>1. Near(audiostoppts', Ideal, AudioTime)
    BY <1>3, <1>4, <1>5, <1>9 DEF Near, WithoutLast
  <2>2. AudioPts(0) <= audiostoppts'
    BY <1>4, <1>9
  <2>3. QED
    BY <1>2, <1>9, <2>1, <2>2 DEF SoundStops, Near
<1>10. CASE /\ AudioPts(audio) < audiostoppts
            /\ AudioPts(audio + 1) >= audiostoppts
            /\ sd' = FALSE
            /\ ~WithoutLast(AudioPts(audio), AudioPts(audio + 1))
            /\ audiostoppts' = AudioPts(audio + 1)
  <2>1. Near(audiostoppts', Ideal, AudioTime)
    BY <1>3, <1>4, <1>5, <1>10 DEF Near, WithoutLast
  <2>2. AudioPts(0) <= audiostoppts'
    BY <1>4, <1>10
  <2>3. QED
    BY <1>2, <1>10, <2>1, <2>2 DEF SoundStops, Near
<1>11. QED
  BY <1>7, <1>8, <1>9, <1>10, CopyAudioFacts

LEMMA SoundStopsNext ==
  ASSUME InputOK, TypeOK, RangeOK, SoundStops, EndTogether, [Next]_vars
  PROVE  SoundStops'
<1>1. CASE Begin
  BY <1>1, SoundStopsBegin
<1>2. CASE EmptyRange \/ End
  BY <1>2 DEF EmptyRange, End, NextRange, SoundStops, InRange
<1>3. CASE Within
  <2>1. CASE CopyAudio
    BY <1>3, <2>1, SoundStopsCopy
  <2>2. CASE ~CopyAudio /\ ~Begin
    <3>1. UNCHANGED sound
      BY <2>2, SoundUnmoved
    <3>2. /\ Ideal' = Ideal /\ frames' = frames /\ (InRange' <=> InRange)
          /\ \A x : AudioPts(x)' = AudioPts(x)
          /\ AudioCovers' = AudioCovers
      BY <1>3, IdealSame DEF Within
    <3>3. audio' = audio /\ sd' = sd /\ audiostoppts' = audiostoppts
      BY <3>1 DEF sound
    <3>4. AudioPts(audio)' = AudioPts(audio)
      BY <1>3, <3>3 DEF AudioPts, Within, input
    <3>6. AudioPts(0)' = AudioPts(0)
      BY <3>2
    <3>5. QED
      BY <3>2, <3>3, <3>4, <3>6 DEF SoundStops, Near
  <2>3. QED
    BY <1>1, <2>1, <2>2
<1>4. QED
  BY <1>1, <1>2, <1>3, Kinds

LEMMA EndTogetherNext ==
  ASSUME InputOK, TypeOK, RangeOK, SoundStops, EndTogether, [Next]_vars
  PROVE  EndTogether'
<1>1. CASE Begin
  BY <1>1 DEF Begin, EndTogether
<1>2. AudioCovers' = AudioCovers
  BY InputSame, AudioCoversSame
<1>3. CASE EmptyRange
  BY <1>2, <1>3 DEF EmptyRange, EndTogether
<1>4. CASE End
  <2>1. InRange /\ pc # "done"
    BY <1>4 DEF End, InRange
  <2>2. Ended
    BY <1>4, <2>1, NumInRange, EndFacts DEF End
  <2>3. AudioCovers => Near(audiostoppts, Ideal, AudioTime)
    <3>1. Ideal \in Int /\ AudioTime \in Nat
      BY <2>1, IdealType, SaveMpgAssumption
    <3>2. CASE sd
      <4>1. audiostoppts = Ideal
        BY <2>1, <3>2 DEF SoundStops
      <4>2. QED
        BY <3>1, <4>1 DEF Near
    <3>3. CASE ~sd
      BY <2>1, <3>3 DEF SoundStops
    <3>4. QED
      BY <3>2, <3>3
  <2>4. mux'.apts - mux'.vpts = audiostoppts - Ideal
        /\ mux'.vpts - mux'.apts = Ideal - audiostoppts
    <3>1. /\ audiostoppts \in Int /\ audiooffset \in Int /\ videooffset \in Int
          /\ stop * FrameTime \in Int
      BY <2>1, IdealType, SoundTypes
    <3>2. mux'.vpts = stop * FrameTime - videooffset
          /\ mux'.apts = audiostoppts - audiooffset
      BY <2>2 DEF Ended, Time
    <3>3. Ideal = stop * FrameTime + (audiooffset - videooffset)
      BY DEF Ideal, Delay
    <3>4. PICK e : e = stop * FrameTime
      OBVIOUS
    <3>5. QED
      BY <3>1, <3>2, <3>3, <3>4
  <2>5. QED
    BY <1>2, <2>3, <2>4 DEF EndTogether, Near
<1>5. CASE Within
  <2>1. (pc \in {"range", "done"})' => pc \in {"range", "done"}
    BY <1>5 DEF Within
  <2>2. mux'.vpts = mux.vpts /\ mux'.apts = mux.apts
    BY <1>5 DEF Within
  <2>3. QED
    BY <1>2, <2>1, <2>2 DEF EndTogether, Near
<1>6. QED
  BY <1>1, <1>3, <1>4, <1>5, Kinds

LEMMA SoundStopsInvariant == Spec => [](SoundStops /\ EndTogether)
<1>1. Init => SoundStops /\ EndTogether
  <2> SUFFICES ASSUME Init PROVE SoundStops /\ EndTogether
    OBVIOUS
  <2>1. pc = "range" /\ mux.vpts = 0 /\ mux.apts = 0
    BY DEF Init
  <2>2. AudioTime \in Nat
    BY SaveMpgAssumption
  <2>3. QED
    BY <2>1, <2>2 DEF SoundStops, EndTogether, Near, InRange
<1>2. InputOK /\ TypeOK /\ RangeOK /\ SoundStops /\ EndTogether /\ [Next]_vars
        => SoundStops' /\ EndTogether'
  BY SoundStopsNext, EndTogetherNext
<1>3. QED
  BY <1>1, <1>2, InputInvariant, TypeCorrect, RangeInvariant, PTL DEF Spec

(* Video and audio of each range end together: where the next range goes   *)
(* on, the two are at most half a frame of audio apart, however the ranges *)
(* were chosen, and whether or not the export was cancelled.               *)
THEOREM AudioEndsWithVideo == Spec => []EndTogether
BY SoundStopsInvariant, PTL

-----------------------------------------------------------------------------
(* Sound and pictures remain together, and sound goes on.                  *)
Sounding == InRange /\ frames > 0 /\ (~cancelled \/ pc = "pass") /\ Placed

(* A range goes on where the one before has ended.                         *)
GoingOn == pc = "range" /\ ~mux.empty /\ frames > 0 /\ ~cancelled /\ Placed

(* What is heard with the first picture of the next range.                 *)
Heard == start * FrameTime + mux.apts - mux.vpts

InStep ==
  /\ Sounding => /\ 2 * Delay <= AudioTime
                 /\ audio + 1 < frames => 2 * (videooffset - audiooffset) <= AudioTime
  /\ GoingOn => 2 * (AudioPts(0) - Heard) <= AudioTime

(* There is no more sound, or what follows is without a gap.               *)
SoundGoesOn ==
  /\ Sounding /\ whole /\ Counted =>
       \/ audioout = << >>
       \/ audioout[Len(audioout)].pts + AudioTime
            = (IF sd THEN AudioPts(audio) ELSE audiostoppts) - audiooffset
       \/ audio = frames - 1 /\ 2 * Delay < AudioTime /\ (~sd => audiostoppts = AudioPts(audio))
  /\ GoingOn /\ whole /\ Counted =>
       \/ audioout = << >>
       \/ audioout[Len(audioout)].pts + AudioTime = mux.apts
       \/ 2 * (AudioPts(frames - 1) - Heard) < AudioTime

SoundTimed ==
  \A a \in DOMAIN audioout : audioout[a].range = num =>
    /\ AudioPts(audioout[a].frame) - audioout[a].pts = audiooffset
    /\ Placed => Near(audiooffset, videooffset, AudioTime)

NoGap ==
  whole /\ Counted =>
    \A i \in 2 .. Len(audioout) : audioout[i].pts = audioout[i - 1].pts + AudioTime

SoundOK == InStep /\ SoundGoesOn /\ SoundTimed /\ NoGap

(* What went wrong is not forgotten.                                       *)
LEMMA FlawsStay ==
  ASSUME [Next]_vars
  PROVE  (intact' => intact) /\ (whole' => whole) /\ (cancelled => cancelled')
<1>1. ASSUME NEW a, NEW b, Recode(a, b)
      PROVE  intact' => intact
  BY <1>1 DEF Recode
<1>2. RecodeHead \/ RecodeTail => (intact' => intact)
  BY <1>1 DEF RecodeHead, RecodeTail
<1>3. ~(RecodeHead \/ RecodeTail) => (intact' = intact)
  BY DEF Next, vars, EmptyRange, Begin, Pass, CopyPicture, CopyVideoEnds, CopyAudio,
         PassEnds, CopyCancelled, ReadingEnds, End, Cancel
<1>4. cancelled => cancelled'
  BY DEF Next, vars, EmptyRange, Begin, RecodeHead, Pass, CopyPicture, CopyVideoEnds,
         CopyAudio, PassEnds, CopyCancelled, ReadingEnds, RecodeTail, End, Cancel
<1>5. ReadingEnds => (whole' => whole)
  BY DEF ReadingEnds
<1>6. ~ReadingEnds => whole' = whole
  BY DEF Next, vars, EmptyRange, Begin, RecodeHead, Pass, CopyPicture, CopyVideoEnds,
         CopyAudio, PassEnds, CopyCancelled, RecodeTail, End, Cancel
<1>7. QED
  BY <1>2, <1>3, <1>4, <1>5, <1>6

LEMMA PlacedBefore ==
  ASSUME [Next]_vars
  PROVE  /\ Placed' => Placed
         /\ whole' => whole
         /\ Counted' <=> Counted
<1>1. origin' = origin /\ audiobegin' = audiobegin
  BY InputSame DEF input
<1>2. QED
  BY <1>1, FlawsStay DEF Placed, Counted

LEMMA CountedFacts ==
  ASSUME InputOK, Counted, frames > 0, NEW k \in Nat
  PROVE  AudioCounts(AudioPts(k))
<1>1. AudioPts(0) <= AudioPts(k) /\ AudioPts(0) \in Int /\ AudioPts(k) \in Int
  <2>1. audiobegin \in Int /\ k \in Int /\ 0 \in Int /\ 0 <= k
    BY DEF InputOK
  <2>2. QED
    BY <2>1, AudioFacts
<1>2. AudioPts(0) = audiobegin /\ origin \in Nat /\ audiobegin \in Int
  <2>1. 0 * AudioTime = 0 /\ audiobegin \in Int /\ origin \in Nat
    BY SaveMpgAssumption DEF InputOK
  <2>2. QED
    BY <2>1 DEF AudioPts
<1>3. QED
  BY <1>1, <1>2 DEF AudioCounts, Counted

LEMMA SoundBegin ==
  ASSUME InputOK, TypeOK, RangeOK, SoundOK, Begin
  PROVE  InStep' /\ SoundGoesOn'
<1>1. Begun /\ pc = "range" /\ UNCHANGED <<input, num>> /\ audioout' = audioout
      /\ cancelled' = cancelled /\ pc' = "head"
  BY BeginFacts DEF Begin
<1>2. /\ frames' = frames /\ audiobegin' = audiobegin
      /\ AudioPts(audio)' = AudioPts(audio')
  BY <1>1 DEF AudioPts, input
<1>3. ~GoingOn'
  BY <1>1 DEF GoingOn
<1> SUFFICES ASSUME Sounding' PROVE InStep' /\ SoundGoesOn'
  BY <1>3 DEF InStep, SoundGoesOn
<1>4. frames > 0 /\ ~cancelled /\ sd' /\ Placed
  BY <1>1, <1>2, PlacedBefore DEF Sounding, Begun, Next
<1>5. /\ audiobegin \in Int /\ frames \in Nat
      /\ mux.vpts \in Int /\ mux.apts \in Int /\ AudioTime \in Nat /\ AudioTime > 0
      /\ \A k \in Int : AudioPts(k) \in Int
  BY SoundTypes
<1>6. start * FrameTime \in Int
  BY <1>1, IdealType
<1>7. Heard \in Int /\ Heard = start * FrameTime - mux.vpts + mux.apts
  <2>1. PICK b : b = start * FrameTime
    OBVIOUS
  <2>2. QED
    BY <1>5, <1>6, <2>1 DEF Heard
<1>8. /\ audio' \in 0 .. frames - 1 /\ videooffset' \in Int /\ audiooffset' \in Int
      /\ mux.empty => audiooffset' = videooffset'
      /\ ~mux.empty => /\ audio' = Closest(Heard)
                       /\ audiooffset' = IF AudioCounts(AudioPts(audio'))
                                          THEN AudioPts(audio') - mux.apts
                                          ELSE videooffset'
                       /\ videooffset' = start * FrameTime - mux.vpts
  BY <1>1, <1>4, <1>7 DEF Begun
<1>9. AudioPts(audio') \in Int /\ AudioPts(frames - 1) \in Int
  BY <1>5, <1>8
<1> DEFINE Follows == ~mux.empty /\ AudioCounts(AudioPts(audio'))
<1>10. Follows => audiooffset' - videooffset' = AudioPts(audio') - Heard
                     /\ videooffset' - audiooffset' = Heard - AudioPts(audio')
  <2>1. PICK b : b = start * FrameTime
    OBVIOUS
  <2>2. QED
    BY <1>5, <1>6, <1>7, <1>8, <1>9, <2>1
<1>11. CASE ~Follows
  <2>1. audiooffset' - videooffset' = 0 /\ videooffset' - audiooffset' = 0
    <3>1. audiooffset' = videooffset' /\ videooffset' \in Int
      BY <1>8, <1>11
    <3>2. \A x \in Int : x - x = 0
      OBVIOUS
    <3>3. QED
      BY <3>1, <3>2, Zenon
  <2>2. whole' /\ Counted' => audioout' = << >>
    <3>1. mux.empty => audioout' = << >>
      BY <1>1 DEF RangeOK, NothingYet
    <3>2. audio' \in Nat
      BY <1>5, <1>8
    <3>3. Counted' => AudioCounts(AudioPts(audio'))
      BY <1>1, <1>4, <3>2, CountedFacts DEF Counted, input
    <3>4. QED
      BY <1>11, <3>1, <3>3
  <2>3. InStep'
    <3>1. Delay' = 0
      BY <2>1 DEF Delay
    <3>2. 2 * 0 <= AudioTime
      BY <1>5
    <3>3. 2 * Delay' <= AudioTime /\ 2 * (videooffset' - audiooffset') <= AudioTime
      BY <2>1, <3>1, <3>2
    <3>4. QED
      BY <1>3, <3>3 DEF InStep
  <2>4. SoundGoesOn'
    BY <1>3, <2>2 DEF SoundGoesOn
  <2>5. QED
    BY <2>3, <2>4
<1>12. CASE Follows
  <2>1. GoingOn
    BY <1>1, <1>4, <1>12 DEF GoingOn
  <2>2. /\ audio' > 0 => 2 * (AudioPts(audio') - Heard) <= AudioTime
        /\ audio' < frames - 1 => 2 * (Heard - AudioPts(audio')) <= AudioTime
        /\ 2 * (AudioPts(frames - 1) - Heard) < AudioTime => audio' = frames - 1
    BY <1>4, <1>5, <1>7, <1>8, <1>12, ClosestFacts
  <2>3. 2 * (AudioPts(0) - Heard) <= AudioTime
    BY <2>1 DEF SoundOK, InStep
  <2>4. 2 * (audiooffset' - videooffset') <= AudioTime
    BY <1>8, <1>10, <1>12, <2>2, <2>3
  <2>5. audio' + 1 < frames => 2 * (videooffset' - audiooffset') <= AudioTime
    <3>1. SUFFICES ASSUME audio' + 1 < frames
                   PROVE  2 * (videooffset' - audiooffset') <= AudioTime
      OBVIOUS
    <3>2. audio' \in Nat /\ audio' < frames - 1
      <4>1. audio' \in 0 .. frames - 1 /\ frames \in Nat
        BY <1>5, <1>8
      <4>2. \A k \in 0 .. frames - 1 : k + 1 < frames => k \in Nat /\ k < frames - 1
        BY <4>1
      <4>3. QED
        BY <3>1, <4>1, <4>2, Zenon
    <3>3. 2 * (Heard - AudioPts(audio')) <= AudioTime
      BY <2>2, <3>2
    <3>4. QED
      BY <1>10, <1>12, <3>3
  <2>6. InStep'
    BY <1>2, <1>3, <2>4, <2>5 DEF InStep, Delay
  <2> SUFFICES ASSUME whole', Counted'
               PROVE  SoundGoesOn'
    BY <1>3, <2>6 DEF SoundGoesOn
  <2>7. \/ audioout = << >>
        \/ audioout[Len(audioout)].pts + AudioTime = mux.apts
        \/ 2 * (AudioPts(frames - 1) - Heard) < AudioTime
    BY <2>1, PlacedBefore DEF SoundOK, SoundGoesOn, Next
  <2>8. CASE audioout = << >>
    BY <1>1, <1>3, <2>6, <2>8 DEF SoundGoesOn
  <2>9. CASE audioout[Len(audioout)].pts + AudioTime = mux.apts
    <3>1. mux.apts = AudioPts(audio') - audiooffset'
      BY <1>5, <1>8, <1>9, <1>12
    <3>2. audioout'[Len(audioout')].pts + AudioTime
            = (IF sd' THEN AudioPts(audio)' ELSE audiostoppts') - audiooffset'
      BY <1>1, <1>2, <1>4, <2>9, <3>1
    <3>3. QED
      BY <1>3, <2>6, <3>2 DEF SoundGoesOn
  <2>10. CASE 2 * (AudioPts(frames - 1) - Heard) < AudioTime
    <3>1. audio' = frames - 1
      BY <2>2, <2>10
    <3>2. 2 * (audiooffset' - videooffset') < AudioTime
      BY <1>10, <1>12, <2>10, <3>1
    <3>3. QED
      BY <1>2, <1>3, <1>4, <2>6, <3>1, <3>2 DEF SoundGoesOn, Delay
  <2>11. QED
    BY <2>6, <2>7, <2>8, <2>9, <2>10
<1>13. QED
  BY <1>11, <1>12

(* A range begins behind the one before.                                   *)
LEMMA NextStart ==
  ASSUME InputOK, num \in 1 .. Len(ranges), NextRange, UNCHANGED input, pc' = "range"
  PROVE  /\ num' = num + 1
         /\ start \in Int /\ stop \in Int /\ start <= stop
         /\ start' \in Int /\ stop <= start' /\ start <= start'
<1>1. num < Len(ranges) /\ num' = num + 1
  BY DEF NextRange
<1>2. start' = ranges[num + 1].start
  BY <1>1 DEF input, start
<1>3. num + 1 \in 1 .. Len(ranges)
  BY <1>1, LenProperties DEF InputOK
<1>4. ranges[num + 1] \in [start : Nat, stop : Nat]
  BY <1>3, ElementOfSeq DEF InputOK
<1>5. start \in Int /\ stop \in Int /\ start <= stop /\ stop <= ranges[num + 1].start
  BY <1>1, RangeFacts
<1>6. PICK x \in Int : x = start' /\ x = ranges[num + 1].start
  BY <1>2, <1>4
<1>7. start <= x /\ stop <= x
  BY <1>5, <1>6
<1>8. QED
  BY <1>1, <1>5, <1>6, <1>7


LEMMA SoundBetween ==
  ASSUME InputOK, TypeOK, RangeOK, SoundOK, EmptyRange
  PROVE  InStep' /\ SoundGoesOn'
<1>1. /\ pc = "range" /\ start = stop /\ num \in 1 .. Len(ranges)
      /\ UNCHANGED <<input, cancelled, mux, avoffset, video, sound, out, audioout>>
      /\ NextRange
  BY NumInRange DEF EmptyRange
<1>2. /\ mux' = mux /\ audioout' = audioout /\ cancelled' = cancelled /\ frames' = frames
      /\ \A x : AudioPts(x)' = AudioPts(x)
  BY <1>1 DEF AudioPts, input
<1>3. ~Sounding'
  BY <1>1 DEF NextRange, Sounding, InRange
<1> SUFFICES ASSUME GoingOn' PROVE InStep' /\ SoundGoesOn'
  BY <1>3 DEF InStep, SoundGoesOn
<1>4. GoingOn /\ (whole' => whole) /\ (Counted' => Counted)
  BY <1>1, <1>2, PlacedBefore DEF GoingOn, Next
<1>7. start \in Int /\ start' \in Int /\ start' >= start
  BY <1>1, NextStart DEF GoingOn
<1>8. start * FrameTime \in Int /\ start' * FrameTime \in Int
      /\ start * FrameTime <= start' * FrameTime
  BY <1>7, TimeOrder
<1>9. frames \in Nat /\ mux.vpts \in Int /\ mux.apts \in Int /\ AudioTime \in Nat
      /\ \A k \in Int : AudioPts(k) \in Int
  BY SoundTypes
<1>10. AudioPts(0) \in Int /\ AudioPts(frames - 1) \in Int
  BY <1>9
<1>11. Heard \in Int /\ Heard' \in Int /\ Heard <= Heard'
  <2>1. Heard' = start' * FrameTime + mux.apts - mux.vpts
    BY <1>2 DEF Heard
  <2>2. PICK b : b = start * FrameTime
    OBVIOUS
  <2>3. PICK c : c = start' * FrameTime
    OBVIOUS
  <2>4. QED
    BY <1>8, <1>9, <2>1, <2>2, <2>3 DEF Heard
<1>12. \A x \in Int : x - Heard' <= x - Heard
  <2>1. PICK h \in Int : h = Heard' /\ Heard <= h
    BY <1>11
  <2>2. Heard \in Int /\ Heard <= h
    BY <1>11, <2>1
  <2>3. \A x \in Int : x - h <= x - Heard
    BY <2>2
  <2>4. QED
    BY <2>1, <2>3
<1>13. Heard' \in Int /\ AudioPts(0) - Heard' <= AudioPts(0) - Heard
       /\ AudioPts(frames - 1) - Heard' <= AudioPts(frames - 1) - Heard
  BY <1>10, <1>11, <1>12
<1>14. 2 * (AudioPts(0) - Heard) <= AudioTime
  BY <1>4 DEF SoundOK, InStep
<1>15. 2 * (AudioPts(0) - Heard') <= AudioTime
  BY <1>9, <1>10, <1>11, <1>13, <1>14
<1>16. 2 * (AudioPts(frames - 1) - Heard) < AudioTime =>
         2 * (AudioPts(frames - 1) - Heard') < AudioTime
  BY <1>9, <1>10, <1>11, <1>13
<1>17. AudioPts(0)' = AudioPts(0) /\ AudioPts(frames - 1)' = AudioPts(frames - 1)
  BY <1>2
<1>18. InStep'
  BY <1>3, <1>15, <1>17 DEF InStep
<1> SUFFICES ASSUME whole', Counted'
             PROVE  SoundGoesOn'
  BY <1>3, <1>18 DEF SoundGoesOn
<1>19. \/ audioout = << >>
       \/ audioout[Len(audioout)].pts + AudioTime = mux.apts
       \/ 2 * (AudioPts(frames - 1) - Heard) < AudioTime
  BY <1>4 DEF SoundOK, SoundGoesOn
<1>20. \/ audioout' = << >>
       \/ audioout'[Len(audioout')].pts + AudioTime = mux'.apts
       \/ 2 * (AudioPts(frames - 1)' - Heard') < AudioTime
  BY <1>2, <1>16, <1>17, <1>19
<1>21. QED
  BY <1>3, <1>18, <1>20 DEF SoundGoesOn

(* Sound that ends with a range is heard to its end, or was at its last    *)
(* frame.                                                                  *)
LEMMA SoundEnd ==
  ASSUME InputOK, TypeOK, RangeOK, SoundOK, SoundStops, End
  PROVE  InStep' /\ SoundGoesOn'
<1>1. /\ pc = "end" /\ num \in 1 .. Len(ranges) /\ mux' = MuxAdvanced
      /\ UNCHANGED <<input, cancelled, avoffset, video, sound, out, audioout>>
      /\ NextRange
  BY NumInRange DEF End
<1>2. /\ audioout' = audioout /\ cancelled' = cancelled /\ frames' = frames
      /\ \A x : AudioPts(x)' = AudioPts(x)
  BY <1>1 DEF AudioPts, input
<1>3. ~Sounding'
  BY <1>1 DEF NextRange, Sounding, InRange
<1> SUFFICES ASSUME GoingOn' PROVE InStep' /\ SoundGoesOn'
  BY <1>3 DEF InStep, SoundGoesOn
<1>4. Ended
  BY <1>1, EndFacts
<1>5. InRange /\ Sounding /\ ~cancelled /\ frames > 0 /\ Placed
      /\ (whole' => whole) /\ (Counted' => Counted)
  BY <1>1, <1>2, PlacedBefore DEF GoingOn, Sounding, InRange, Next
<1>8. stop \in Int /\ start' \in Int /\ start' >= stop
  BY <1>1, NextStart DEF GoingOn
<1>9. stop * FrameTime \in Int /\ start' * FrameTime \in Int
      /\ stop * FrameTime <= start' * FrameTime
  BY <1>8, TimeOrder
<1>10. /\ frames \in Nat /\ audio \in Nat /\ AudioTime \in Nat
       /\ audiostoppts \in Int /\ audiooffset \in Int /\ videooffset \in Int
       /\ \A k \in Int : AudioPts(k) \in Int
       /\ \A k \in Nat : AudioPts(0) <= AudioPts(k)
  BY SoundTypes
<1>11. AudioPts(0) \in Int /\ AudioPts(frames - 1) \in Int /\ AudioPts(audio) \in Int
       /\ AudioPts(0) <= AudioPts(audio) /\ Delay \in Int
  BY <1>10 DEF Delay
<1>12. Heard' \in Int /\ audiostoppts - Delay <= Heard'
  <2>1. Heard' = start' * FrameTime + (audiostoppts - audiooffset)
                   - (stop * FrameTime - videooffset)
    BY <1>4 DEF Heard, Ended, Time
  <2>2. PICK b : b = stop * FrameTime
    OBVIOUS
  <2>3. PICK c : c = start' * FrameTime
    OBVIOUS
  <2>4. PICK h : h = Heard'
    OBVIOUS
  <2>5. h = c + (audiostoppts - audiooffset) - (b - videooffset) /\ b \in Int /\ c \in Int
        /\ b <= c
    BY <1>9, <2>1, <2>2, <2>3, <2>4
  <2>6. h \in Int /\ audiostoppts - (audiooffset - videooffset) <= h
    BY <1>10, <2>5
  <2>7. QED
    BY <2>4, <2>6 DEF Delay
<1>13. 2 * Delay <= AudioTime
  BY <1>5 DEF SoundOK, InStep
<1>14. PICK h \in Int : h = Heard' /\ audiostoppts - Delay <= h
  BY <1>12
<1>15. sd /\ whole => audio = frames - 1 /\ AudioPts(frames - 1) < audiostoppts
                      /\ AudioPts(audio) < audiostoppts
  <2> SUFFICES ASSUME sd, whole
               PROVE  audio = frames - 1 /\ AudioPts(audio) < audiostoppts
    OBVIOUS
  <2>1. AudioRead
    BY <1>1, <1>5 DEF RangeOK, LoopEnds
  <2>2. audio < frames \/ audio = 0
    BY DEF TypeOK
  <2>3. audio = frames - 1
    BY <1>5, <1>10, <2>1, <2>2 DEF AudioRead
  <2>4. QED
    BY <2>1, <2>3 DEF AudioRead
<1>16. whole \/ ~sd => AudioPts(0) <= audiostoppts
  <2>1. CASE sd /\ whole
    BY <1>10, <1>11, <1>15, <2>1
  <2>2. CASE ~sd
    BY <1>5, <2>2 DEF SoundStops
  <2>3. QED
    BY <2>1, <2>2
<1>17. 2 * (AudioPts(0) - h) <= AudioTime
  <2>1. CASE whole \/ ~sd
    BY <1>10, <1>11, <1>13, <1>14, <1>16, <2>1
  <2>2. CASE ~whole /\ sd
    <3>1. AudioPts(0) <= 0
      <4>1. 0 * AudioTime = 0 /\ audiobegin \in Int /\ audiobegin <= 0
        BY <1>5, <2>2, SaveMpgAssumption DEF Placed, InputOK
      <4>2. QED
        BY <4>1 DEF AudioPts
    <3>2. audiostoppts = stop * FrameTime + Delay
      BY <1>5, <2>2 DEF SoundStops, Ideal
    <3>3. stop >= 0
      BY <1>1, RangeFacts
    <3>4. PICK e \in Int : e = stop * FrameTime /\ e >= 0
      BY <1>8, <3>3, TimeOrder
    <3>5. audiostoppts - Delay = e
      BY <1>11, <3>2, <3>4
    <3>6. QED
      BY <1>10, <1>11, <1>14, <3>1, <3>4, <3>5
  <2>3. QED
    BY <2>1, <2>2
<1>18. AudioPts(0)' = AudioPts(0) /\ AudioPts(frames - 1)' = AudioPts(frames - 1)
  BY <1>2
<1>19. InStep'
  BY <1>3, <1>14, <1>17, <1>18 DEF InStep
<1> SUFFICES ASSUME whole', Counted'
             PROVE  SoundGoesOn'
  BY <1>3, <1>19 DEF SoundGoesOn
<1>20. CASE sd
  <2>1. 2 * (AudioPts(frames - 1) - h) < AudioTime
    BY <1>5, <1>10, <1>11, <1>13, <1>14, <1>15, <1>20
  <2>2. QED
    BY <1>3, <1>14, <1>18, <1>19, <2>1 DEF SoundGoesOn
<1>21. CASE ~sd
  <2>1. \/ audioout = << >>
        \/ audioout[Len(audioout)].pts + AudioTime = audiostoppts - audiooffset
        \/ audio = frames - 1 /\ 2 * Delay < AudioTime /\ audiostoppts = AudioPts(audio)
    BY <1>5, <1>21 DEF SoundOK, SoundGoesOn
  <2>2. audio = frames - 1 /\ 2 * Delay < AudioTime /\ audiostoppts = AudioPts(audio) =>
          2 * (AudioPts(frames - 1) - h) < AudioTime
    BY <1>10, <1>11, <1>14
  <2>3. mux'.apts = audiostoppts - audiooffset
    BY <1>4 DEF Ended
  <2>4. \/ audioout' = << >>
        \/ audioout'[Len(audioout')].pts + AudioTime = mux'.apts
        \/ 2 * (AudioPts(frames - 1)' - Heard') < AudioTime
    BY <1>2, <1>14, <1>18, <2>1, <2>2, <2>3
  <2>5. QED
    BY <1>3, <1>19, <2>4 DEF SoundGoesOn
<1>22. QED
  BY <1>20, <1>21


LEMMA SoundingBefore ==
  ASSUME [Next]_vars, Within
  PROVE  /\ Sounding' => Sounding
         /\ GoingOn' => GoingOn
         /\ Heard' = Heard
<1>1. (InRange' <=> InRange) /\ frames' = frames /\ mux'.empty = mux.empty
  BY DEF Within, input
<1>2. Heard' = Heard
  BY IdealSame DEF Within, Heard
<1>3. GoingOn' => GoingOn
  BY <1>1, PlacedBefore DEF Within, GoingOn
<1>4. pc' = "pass" => pc = "pass" \/ ~cancelled
  BY DEF Next, vars, EmptyRange, Begin, RecodeHead, Pass, CopyPicture, CopyVideoEnds,
         CopyAudio, PassEnds, CopyCancelled, ReadingEnds, RecodeTail, End, Cancel, NextRange
<1>5. Sounding' => Sounding
  BY <1>1, <1>4, PlacedBefore DEF Within, Sounding
<1>6. QED
  BY <1>2, <1>3, <1>5

LEMMA SoundWithin ==
  ASSUME InputOK, TypeOK, SoundOK, [Next]_vars, Within, ~Begin, ~CopyAudio
  PROVE  InStep' /\ SoundGoesOn'
<1>1. audioout' = audioout /\ UNCHANGED sound
  BY AudioOutExtended, SoundUnmoved
<1>2. /\ Sounding' => Sounding
      /\ GoingOn' => GoingOn
      /\ Heard' = Heard
  BY SoundingBefore
<1>7. (whole' => whole) /\ (Counted' => Counted)
  BY PlacedBefore
<1>3. /\ Delay' = Delay /\ frames' = frames /\ \A x : AudioPts(x)' = AudioPts(x)
      /\ audio' = audio /\ sd' = sd /\ audiostoppts' = audiostoppts
      /\ audiooffset' = audiooffset /\ videooffset' = videooffset
      /\ mux'.apts = mux.apts
  BY <1>1, IdealSame DEF Within, sound
<1>4. AudioPts(audio)' = AudioPts(audio) /\ AudioPts(0)' = AudioPts(0)
      /\ AudioPts(frames - 1)' = AudioPts(frames - 1)
  BY <1>3 DEF AudioPts
<1>5. InStep'
  BY <1>2, <1>3, <1>4 DEF SoundOK, InStep
<1>6. SoundGoesOn'
  BY <1>1, <1>2, <1>3, <1>4, <1>7 DEF SoundOK, SoundGoesOn
<1>8. QED
  BY <1>5, <1>6

(* A frame is heard behind the one before, and in time.                    *)
LEMMA SoundCopy ==
  ASSUME InputOK, TypeOK, SoundOK, SoundStops, [Next]_vars, Within, CopyAudio
  PROVE  SoundOK'
<1>1. pc = "pass" /\ sd /\ UNCHANGED <<input, num, avoffset>>
  BY DEF CopyAudio
<1>2. /\ Delay' = Delay /\ frames' = frames /\ \A x : AudioPts(x)' = AudioPts(x)
      /\ audiooffset' = audiooffset /\ videooffset' = videooffset
  BY IdealSame DEF Within
<1>3. InRange /\ ~GoingOn' /\ frames > 0 /\ (Placed => Sounding)
  BY <1>1 DEF InRange, GoingOn, SoundStops, Within, Sounding
<1>9. /\ Placed' => Placed
      /\ whole' => whole /\ Placed
      /\ Counted' => Counted
  BY PlacedBefore DEF Placed
<1>4. /\ frames \in Nat /\ audio \in Nat /\ AudioTime \in Nat
      /\ audiostoppts \in Int /\ audiooffset \in Int /\ videooffset \in Int
      /\ AudioPts(audio) \in Int /\ AudioPts(audio + 1) = AudioPts(audio) + AudioTime
  BY SoundTypes
<1>5. /\ Placed => /\ 2 * Delay <= AudioTime
                   /\ audio + 1 < frames => 2 * (videooffset - audiooffset) <= AudioTime
      /\ whole /\ Counted =>
           \/ audioout = << >>
           \/ audioout[Len(audioout)].pts + AudioTime = AudioPts(audio) - audiooffset
           \/ audio = frames - 1 /\ 2 * Delay < AudioTime
  BY <1>1, <1>3 DEF SoundOK, InStep, SoundGoesOn, Placed
<1>6. CASE UNCHANGED <<audio, audioout>>
  <2>1. ~sd' /\ audiostoppts' = AudioPts(audio)
    <3>1. audio' # audio + 1
      BY <1>4, <1>6
    <3>2. QED
      BY <3>1, CopyAudioFacts, Zenon
  <2>2. audio' = audio /\ audioout' = audioout
        /\ AudioPts(audio)' = AudioPts(audio)
    BY <1>2, <1>6 DEF AudioPts
  <2>3. InStep'
    BY <1>2, <1>3, <1>5, <1>9, <2>2 DEF InStep, Sounding
  <2>4. SoundGoesOn'
    BY <1>2, <1>3, <1>5, <1>9, <2>1, <2>2 DEF SoundGoesOn
  <2>5. SoundTimed'
    BY <1>1, <1>2, <1>9, <2>2 DEF SoundOK, SoundTimed, Near
  <2>6. NoGap'
    BY <1>9, <2>2 DEF SoundOK, NoGap
  <2>7. QED
    BY <2>3, <2>4, <2>5, <2>6 DEF SoundOK
<1>7. CASE PutAudio /\ audio' = audio + 1
  <2>1. audio + 1 < frames /\ (sd' \/ audiostoppts' = AudioPts(audio + 1))
    <3>1. audio' # audio
      BY <1>4, <1>7
    <3>2. QED
      BY <1>1, <3>1, CopyAudioFacts, Zenon
  <2>2. PlayedOn
    BY <1>7, PutAudioFacts
  <2>3. /\ audioout \in Seq(OutFrame) /\ audioout' \in Seq(OutFrame)
        /\ Len(audioout) \in Nat /\ Len(audioout') = Len(audioout) + 1
        /\ DOMAIN audioout = 1 .. Len(audioout)
        /\ DOMAIN audioout' = 1 .. Len(audioout')
    BY <2>2, LenProperties DEF PlayedOn, TypeOK, OutFrame
  <2>4. AudioPts(audio)' = AudioPts(audio + 1)
    BY <1>2, <1>7 DEF AudioPts, input
  <2>5. Placed => Near(audiooffset, videooffset, AudioTime)
    BY <1>4, <1>5, <2>1 DEF Near, Delay
  <2>6. PICK l : l = Len(audioout)
    OBVIOUS
  <2>7. PICK e : e = audioout'[l + 1]
    OBVIOUS
  <2>8. e.frame = audio /\ e.range = num /\ e.pts = AudioPts(audio) - audiooffset
    BY <2>2, <2>6, <2>7 DEF PlayedOn
  <2>9. AudioPts(e.frame) - e.pts = audiooffset /\ e.pts \in Int
    BY <1>4, <2>8
  <2>10. e.pts + AudioTime = AudioPts(audio + 1) - audiooffset
    BY <1>4, <2>8
  <2>11. InStep'
    <3>1. audio' + 1 < frames => audio + 1 < frames
      BY <2>1
    <3>2. QED
      BY <1>2, <1>3, <1>5, <1>9, <3>1 DEF InStep, Sounding
  <2>12. SoundGoesOn'
    <3>1. audioout'[Len(audioout')] = e
      BY <2>3, <2>6, <2>7
    <3>2. (IF sd' THEN AudioPts(audio)' ELSE audiostoppts') = AudioPts(audio + 1)
      BY <2>1, <2>4
    <3>3. QED
      BY <1>2, <1>3, <2>10, <3>1, <3>2 DEF SoundGoesOn
  <2>13. SoundTimed'
    <3> SUFFICES ASSUME NEW a \in 1 .. l + 1, audioout'[a].range = num
                 PROVE  /\ AudioPts(audioout'[a].frame) - audioout'[a].pts = audiooffset
                        /\ Placed => Near(audiooffset, videooffset, AudioTime)
      BY <1>1, <1>2, <1>9, <2>3, <2>6 DEF SoundTimed, Near
    <3>1. CASE a = l + 1
      BY <2>5, <2>7, <2>9, <3>1
    <3>2. CASE a # l + 1
      <4>1. a \in 1 .. l /\ audioout'[a] = audioout[a] /\ a \in DOMAIN audioout
        BY <2>2, <2>3, <2>6, <3>2 DEF PlayedOn
      <4>2. QED
        BY <4>1 DEF SoundOK, SoundTimed
    <3>3. QED
      BY <3>1, <3>2
  <2>14. NoGap'
    <3> SUFFICES ASSUME whole, Counted, NEW i \in 2 .. l + 1
                 PROVE  audioout'[i].pts = audioout'[i - 1].pts + AudioTime
      BY <1>9, <2>3, <2>6 DEF NoGap
    <3>1. CASE i = l + 1
      <4>1. l \in 1 .. l /\ l # 0 /\ i - 1 = l
        BY <2>3, <2>6, <3>1
      <4>2. audioout'[l] = audioout[l]
        BY <2>2, <2>6, <4>1 DEF PlayedOn
      <4>3. audioout # << >>
        BY <2>6, <4>1
      <4>4. audioout[l].pts + AudioTime = AudioPts(audio) - audiooffset
        BY <1>4, <1>5, <2>1, <2>6, <4>3
      <4>5. QED
        BY <2>7, <2>8, <3>1, <4>1, <4>2, <4>4
    <3>2. CASE i # l + 1
      <4>1. i \in 2 .. l /\ i \in 1 .. l /\ i - 1 \in 1 .. l
        BY <2>3, <2>6, <3>2
      <4>2. audioout'[i] = audioout[i] /\ audioout'[i - 1] = audioout[i - 1]
        BY <2>2, <2>6, <4>1 DEF PlayedOn
      <4>3. QED
        BY <2>6, <4>1, <4>2 DEF SoundOK, NoGap
    <3>3. QED
      BY <3>1, <3>2
  <2>15. QED
    BY <2>11, <2>12, <2>13, <2>14 DEF SoundOK
<1>8. QED
  BY <1>6, <1>7, CopyAudioFacts

(* No frame of a range is heard before it has begun.                       *)
LEMMA SoundTimedNext ==
  ASSUME InputOK, TypeOK, RangeOK, SoundOK, [Next]_vars, ~CopyAudio
  PROVE  SoundTimed' /\ NoGap'
<1>1. audioout' = audioout
  BY AudioOutExtended
<1>2. NoGap'
  BY <1>1, PlacedBefore DEF SoundOK, NoGap
<1>3. /\ audioout \in Seq(OutFrame) /\ DOMAIN audioout = 1 .. Len(audioout)
      /\ num \in 1 .. Len(ranges) + 1 /\ Len(ranges) \in Nat
  BY LenProperties DEF TypeOK, OutFrame, InputOK
<1> SUFFICES ASSUME NEW a \in DOMAIN audioout, audioout[a].range = num'
             PROVE  /\ (AudioPts(audioout[a].frame) - audioout[a].pts = audiooffset)'
                    /\ (Placed => Near(audiooffset, videooffset, AudioTime))'
  BY <1>1, <1>2 DEF SoundTimed
<1>4. audioout[a].range <= num /\ (audioout[a].range = num => InRange)
  BY DEF RangeOK, Tagged
<1>5. num \in Nat /\ audioout[a].range \in Nat
  <2>1. audioout[a] \in OutFrame
    BY <1>3, ElementOfSeq
  <2>2. QED
    BY <1>3, <2>1 DEF OutFrame
<1>6. ~Begin /\ ~EmptyRange /\ ~End
  BY <1>4, <1>5 DEF Begin, EmptyRange, End, InRange, NextRange, input
<1>7. Within
  BY <1>6, Kinds
<1>8. /\ num' = num /\ audiooffset' = audiooffset /\ videooffset' = videooffset
      /\ \A x : AudioPts(x)' = AudioPts(x)
  BY <1>7, IdealSame DEF Within
<1>9. AudioPts(audioout[a].frame)' = AudioPts(audioout'[a].frame)
  BY <1>1, <1>8 DEF AudioPts
<1>10. QED
  BY <1>1, <1>8, <1>9, PlacedBefore DEF SoundOK, SoundTimed, Near, AudioPts


(* A picture is shown when it was shown in the recording, but for the      *)
(* offset of its range, or earlier if pictures were lost in the encoding.  *)
TimedAs(e) ==
  /\ e.pts <= Time(e.pic)
  /\ e.copied # Nothing \/ intact => e.pts = Time(e.pic)

PictureTimed ==
  shown.ordered => \A i \in DOMAIN out :
    out[i].range = num => TimedAs(out[i])

LEMMA TimeNotLess ==
  ASSUME TypeOK, NEW x \in Int, NEW y \in Int, x <= y
  PROVE  Time(x) <= Time(y)
<1>1. PICK s \in Int : s = x * FrameTime
  BY TimeOrder
<1>2. PICK t \in Int : t = y * FrameTime
  BY TimeOrder
<1>3. s <= t
  BY <1>1, <1>2, TimeOrder
<1>4. videooffset \in Int
  BY DEF TypeOK
<1>5. QED
  BY <1>1, <1>2, <1>3, <1>4 DEF Time

LEMMA PictureTimedNext ==
  ASSUME InputOK, TypeOK, RangeOK, PictureTimed, [Next]_vars
  PROVE  PictureTimed'
<1>1. Extended /\ (out' # out => RecodeHead \/ CopyPicture \/ RecodeTail)
  BY OutExtended
<1>2. num \in Nat /\ out \in Seq(OutPicture) /\ Len(out) \in Nat /\ Len(out') \in Nat
      /\ Len(ranges) \in Nat
  BY <1>1, LenProperties DEF TypeOK, OutPicture, InputOK, Extended
<1> SUFFICES ASSUME shown.ordered, NEW i \in 1 .. Len(out'), out'[i].range = num'
             PROVE  TimedAs(out[i])'
  BY <1>1, InputSame DEF PictureTimed, Extended, input
<1>3. CASE i \in 1 .. Len(out)
  <2>1. out'[i] = out[i] /\ i \in DOMAIN out /\ out[i].range \in Nat
    <3>1. out'[i] = out[i] /\ i \in DOMAIN out
      BY <1>1, <1>3 DEF Extended
    <3>2. out[i] \in OutPicture
      BY <1>2, <1>3, ElementOfSeq
    <3>3. QED
      BY <3>1, <3>2 DEF OutPicture
  <2>2. out[i].range <= num /\ (out[i].range = num => InRange)
    BY <2>1 DEF RangeOK, Tagged
  <2>3. ~Begin /\ ~EmptyRange /\ ~End
    BY <1>2, <2>1, <2>2 DEF Begin, EmptyRange, End, InRange, NextRange
  <2>4. num' = num /\ videooffset' = videooffset
    BY <2>3, Kinds DEF Within
  <2>5. TimedAs(out[i])
    BY <2>1, <2>4 DEF PictureTimed
  <2>6. QED
    BY <2>1, <2>4, <2>5, FlawsStay DEF Time, TimedAs
<1>4. CASE i \notin 1 .. Len(out)
  <2>1. RecodeHead \/ CopyPicture \/ RecodeTail
    BY <1>1, <1>4
  <2>2. \A x : Time(x)' = Time(x)
    BY <2>1 DEF RecodeHead, CopyPicture, RecodeTail, avoffset, Time
  <2> DEFINE e == out'[i]
  <2> SUFFICES /\ e.pts <= Time(e.pic)
               /\ e.copied # Nothing \/ intact' => e.pts = Time(e.pic)
    BY <2>2 DEF Time, TimedAs
  <2>3. PICK j \in 1 .. Len(out') - Len(out) : i = Len(out) + j
    <3>1. i - Len(out) \in 1 .. Len(out') - Len(out) /\ i = Len(out) + (i - Len(out))
      BY <1>2, <1>4
    <3>2. QED
      BY <3>1
  <2>4. ASSUME NEW a \in Int, NEW k \in Nat, Recoded(k, a)
        PROVE  /\ e.pts <= Time(e.pic)
               /\ e.copied # Nothing \/ intact' => e.pts = Time(e.pic)
    <3>1. j \in 1 .. k
      BY <1>2, <2>3, <2>4 DEF Recoded
    <3>2. RecodedPicture(e, a, j)
      BY <2>3, <2>4, <3>1 DEF Recoded
    <3>3. /\ e.pts = Time(a + j - 1) /\ e.copied = Nothing
          /\ e.pic >= a + j - 1 /\ (intact' => e.pic = a + j - 1)
      BY <3>2 DEF RecodedPicture
    <3>4. e.pic \in Int
      <4>1. e \in OutPicture
        BY <1>1, ElementOfSeq DEF Extended
      <4>2. QED
        BY <4>1 DEF OutPicture
    <3>5. a + j - 1 \in Int
      OBVIOUS
    <3>6. Time(a + j - 1) <= Time(e.pic)
      BY <3>3, <3>4, <3>5, TimeNotLess
    <3>7. QED
      BY <3>3, <3>6
  <2>5. ASSUME NEW x, CopiedTo(x)
        PROVE  /\ e.pts <= Time(e.pic)
               /\ e.copied # Nothing \/ intact' => e.pts = Time(e.pic)
    <3>1. j = 1
      BY <1>2, <2>3, <2>5 DEF CopiedTo
    <3>2. e.pts = Time(e.pic)
      BY <2>3, <2>5, <3>1 DEF CopiedTo
    <3>3. Time(e.pic) \in Int
      <4>1. e \in OutPicture
        BY <1>1, ElementOfSeq DEF Extended
      <4>2. e.pic \in Int /\ videooffset \in Int
        BY <4>1 DEF OutPicture, TypeOK
      <4>3. QED
        BY <4>2, TimeType
    <3>4. QED
      BY <3>2, <3>3
  <2>6. num \in 1 .. Len(ranges)
    BY <2>1, NumInRange DEF RecodeHead, CopyPicture, RecodeTail
  <2>7. start \in Nat /\ stop \in Nat /\ firstseqhdr \in Nat
    BY <2>6, RangeFacts
  <2>8. out' # out
    BY <1>4
  <2>9. CASE RecodeHead
    <3>1. PICK k \in 0 .. firstseqhdr - start : Recoded(k, start)
      BY <2>8, <2>9, HeadFacts
    <3>2. QED
      BY <2>4, <2>7, <3>1
  <2>10. CASE CopyPicture
    BY <2>5, <2>8, <2>10, CopyPictureFacts
  <2>11. CASE RecodeTail
    <3>1. StartRecode \in 1 .. stop - 1
          /\ \E k \in 0 .. stop - StartRecode : Recoded(k, StartRecode)
      BY <2>8, <2>11, TailFacts
    <3>2. QED
      BY <2>4, <2>7, <3>1
  <2>12. QED
    BY <2>1, <2>9, <2>10, <2>11
<1>5. QED
  BY <1>3, <1>4

(* Pictures and frames of one range.                                       *)
SeenWhenHeard(a, o) ==
  LET heard == AudioPts(a.frame) - a.pts
      seen  == o.pic * FrameTime - o.pts
  IN  /\ 2 * (heard - seen) <= AudioTime
      /\ o.copied # Nothing \/ intact => 2 * (seen - heard) <= AudioTime

Together ==
  shown.ordered /\ Placed => \A a \in DOMAIN audioout, o \in DOMAIN out :
    audioout[a].range = out[o].range => SeenWhenHeard(audioout[a], out[o])

LEMMA TogetherNext ==
  ASSUME InputOK, TypeOK, Together, [Next]_vars,
         TypeOK', PictureTimed', SoundTimed'
  PROVE  Together'
<1>1. Extended /\ AudioExtended
  BY OutExtended, AudioOutExtended
<1>2. UNCHANGED input
  BY InputSame
<1>3. \A x : AudioPts(x)' = AudioPts(x)
  BY <1>2 DEF AudioPts, input
<1>7. (Placed' => Placed) /\ (intact' => intact)
  BY PlacedBefore, FlawsStay
<1> SUFFICES ASSUME shown.ordered, Placed',
                    NEW a \in 1 .. Len(audioout'), NEW o \in 1 .. Len(out'),
                    audioout'[a].range = out'[o].range
             PROVE  SeenWhenHeard(audioout[a], out[o])'
  BY <1>1, <1>2 DEF Together, Extended, AudioExtended, input
<1>4. CASE a \in 1 .. Len(audioout) /\ o \in 1 .. Len(out)
  <2>1. /\ audioout'[a] = audioout[a] /\ a \in DOMAIN audioout
        /\ out'[o] = out[o] /\ o \in DOMAIN out
    BY <1>1, <1>4 DEF Extended, AudioExtended
  <2>2. SeenWhenHeard(audioout[a], out[o])
    BY <1>7, <2>1 DEF Together
  <2>3. QED
    BY <1>2, <1>7, <2>1, <2>2 DEF SeenWhenHeard, AudioPts, input
<1>5. CASE ~(a \in 1 .. Len(audioout) /\ o \in 1 .. Len(out))
  <2>1. out' # out \/ audioout' # audioout
    BY <1>5
  <2>2. num' = num
    BY <2>1, OutExtended, AudioOutExtended
       DEF RecodeHead, CopyPicture, RecodeTail, CopyAudio
  <2>3. Len(out) \in Nat /\ Len(audioout) \in Nat /\ Len(out') \in Nat /\ Len(audioout') \in Nat
        /\ a \in DOMAIN audioout' /\ o \in DOMAIN out'
    BY <1>1 DEF Extended, AudioExtended
  <2>4. audioout'[a].range = num' /\ out'[o].range = num'
    <3>1. CASE a \notin 1 .. Len(audioout)
      BY <1>1, <2>2, <2>3, <3>1 DEF AudioExtended
    <3>2. CASE o \notin 1 .. Len(out)
      BY <1>1, <2>2, <2>3, <3>2 DEF Extended
    <3>3. QED
      BY <1>5, <3>1, <3>2
  <2>5. PICK f : f = audioout'[a]
    OBVIOUS
  <2>6. PICK e : e = out'[o]
    OBVIOUS
  <2>7. e \in OutPicture
    BY <1>1, <2>3, <2>6, ElementOfSeq DEF Extended
  <2>8. AudioPts(f.frame) - f.pts = audiooffset'
        /\ Near(audiooffset', videooffset', AudioTime)
    BY <1>3, <2>3, <2>4, <2>5 DEF SoundTimed, Near, AudioPts
  <2>9. /\ e.pts <= e.pic * FrameTime - videooffset'
        /\ e.copied # Nothing \/ intact' => e.pts = e.pic * FrameTime - videooffset'
    BY <1>2, <2>3, <2>4, <2>6 DEF PictureTimed, TimedAs, Time, input
  <2>10. PICK v \in Int : v = videooffset'
    BY DEF TypeOK
  <2>11. PICK t \in Int : t = e.pic * FrameTime
    BY <2>7, TimeOrder DEF OutPicture
  <2>12. e.pts \in Int
    BY <2>7 DEF OutPicture
  <2>13. /\ v <= t - e.pts
         /\ e.copied # Nothing \/ intact' => t - e.pts = v
    BY <2>9, <2>10, <2>11, <2>12
  <2>14. PICK x \in Int : x = audiooffset'
    BY DEF TypeOK
  <2>15. 2 * (x - v) <= AudioTime /\ 2 * (v - x) <= AudioTime /\ AudioTime \in Int
    <3>1. Near(x, v, AudioTime)
      BY <2>8, <2>10, <2>14
    <3>2. AudioTime \in Int
      BY SaveMpgAssumption
    <3>3. QED
      BY <3>1, <3>2, Zenon DEF Near
  <2>16. /\ 2 * (x - (t - e.pts)) <= AudioTime
         /\ e.copied # Nothing \/ intact' => 2 * ((t - e.pts) - x) <= AudioTime
    BY <2>12, <2>13, <2>15
  <2>17. (AudioPts(audioout[a].frame) - audioout[a].pts)' = x
    BY <1>2, <2>5, <2>8, <2>14 DEF AudioPts, input
  <2>18. QED
    BY <2>6, <2>11, <2>16, <2>17 DEF SeenWhenHeard
<1>6. QED
  BY <1>4, <1>5

LEMMA SoundInit ==
  ASSUME Init
  PROVE  SoundOK /\ PictureTimed /\ Together
<1>1. pc = "range" /\ mux.empty /\ out = << >> /\ audioout = << >>
  BY DEF Init
<1>2. DOMAIN out = {} /\ DOMAIN audioout = {} /\ Len(audioout) = 0
  BY <1>1
<1>3. InStep /\ SoundGoesOn
  BY <1>1 DEF InStep, SoundGoesOn, Sounding, GoingOn, InRange
<1>4. SoundTimed /\ NoGap /\ PictureTimed /\ Together
  BY <1>2 DEF SoundTimed, NoGap, PictureTimed, Together
<1>5. QED
  BY <1>3, <1>4 DEF SoundOK

LEMMA SoundNext ==
  ASSUME InputOK, TypeOK, RangeOK, SoundStops, SoundOK, [Next]_vars
  PROVE  SoundOK'
<1>1. CASE CopyAudio
  <2>1. Within
    BY <1>1, Kinds DEF CopyAudio, Begin, EmptyRange, End
  <2>2. QED
    BY <1>1, <2>1, SoundCopy
<1>2. CASE ~CopyAudio
  <2>1. InStep' /\ SoundGoesOn'
    BY <1>2, Kinds, SoundBegin, SoundBetween, SoundEnd, SoundWithin
  <2>2. SoundTimed' /\ NoGap'
    BY <1>2, SoundTimedNext
  <2>3. QED
    BY <2>1, <2>2 DEF SoundOK
<1>3. QED
  BY <1>1, <1>2

LEMMA SoundInvariant == Spec => [](SoundOK /\ PictureTimed /\ Together)
<1>1. Init => SoundOK /\ PictureTimed /\ Together
  BY SoundInit
<1>2. /\ InputOK /\ TypeOK /\ RangeOK /\ SoundStops
      /\ SoundOK /\ PictureTimed /\ Together
      /\ [Next]_vars
      => SoundOK' /\ PictureTimed' /\ Together'
  <2> SUFFICES ASSUME InputOK, TypeOK, RangeOK, SoundStops,
                      SoundOK, PictureTimed, Together, [Next]_vars
               PROVE  SoundOK' /\ PictureTimed' /\ Together'
    OBVIOUS
  <2>1. SoundOK' /\ PictureTimed'
    BY SoundNext, PictureTimedNext
  <2>2. TypeOK' /\ SoundTimed'
    BY <2>1, TypeNext DEF SoundOK
  <2>3. QED
    BY <2>1, <2>2, TogetherNext
<1>3. QED
  BY <1>1, <1>2, InputInvariant, TypeCorrect, RangeInvariant, SoundStopsInvariant, PTL
     DEF Spec

(* Sound is at most half a frame of audio later than its picture of the    *)
(* recording, and at most half a frame earlier, if no picture was lost in  *)
(* the encoding or it is not of those that were encoded: in every range,   *)
(* unless reading ended before its time and audio begins after the         *)
(* pictures.  If reading never did, and audio has no time stamps below 0,  *)
(* it goes on without a gap or an overlap from the first range to the last.*)
THEOREM AudioInSync == Spec => []InSync
<1>1. TypeOK /\ SoundOK /\ Together => InSync
  <2> SUFFICES ASSUME TypeOK, SoundOK, Together PROVE InSync
    OBVIOUS
  <2>1. /\ out \in Seq(OutPicture) /\ audioout \in Seq(OutFrame)
        /\ Range(out) = {out[i] : i \in DOMAIN out}
        /\ Range(audioout) = {audioout[i] : i \in DOMAIN audioout}
    BY DEF TypeOK, OutPicture, OutFrame, Range
  <2>2. shown.ordered /\ Placed =>
          \A a \in Range(audioout), o \in Range(out) : a.range = o.range =>
            SeenWhenHeard(a, o)
    BY <2>1 DEF Together
  <2>3. QED
    BY <2>2 DEF SoundOK, NoGap, InSync, SeenWhenHeard
<1>2. QED
  BY <1>1, TypeCorrect, SoundInvariant, PTL

-----------------------------------------------------------------------------
(* The order of an encoder, by display numbers: in front of an I or P      *)
(* picture is stored what is displayed before it, up to the I or P picture *)
(* before.                                                                 *)
LEMMA PlainOrder ==
  ASSUME Numbered, Ordered, NEW i \in 0 .. n - 1, NEW k \in 0 .. n - 1, p[i].type # "B"
  PROVE  /\ k < i => Shown(k) < Shown(i)
         /\ p[k].type # "B" => (k < i <=> Shown(k) < Shown(i))
<1>1. /\ k < i => Shown(k) < Shown(i)
      /\ i < k /\ p[k].type # "B" => Shown(i) < Shown(k)
  BY OrderFacts DEF Numbered
<1>2. Shown(i) \in Int /\ Shown(k) \in Int /\ (k = i => Shown(k) = Shown(i)) /\ n \in Nat
  BY DEF Numbered
<1>3. QED
  BY <1>1, <1>2

LEMMA StoredFacts ==
  ASSUME Numbered, NEW x \in 0 .. pictures - 1
  PROVE  /\ Stored(x) \in 0 .. n - 1 /\ Shown(Stored(x)) = x
         /\ IsB(x) <=> p[Stored(x)].type = "B"
         /\ \A i \in 0 .. n - 1 : Shown(i) = x => i = Stored(x)
BY DEF Numbered, IsB

LEMMA StopOrder ==
  ASSUME Numbered, Ends, Ordered, NEW c \in 0 .. pictures - 1, ~IsB(c),
         NEW x \in 1 .. pictures - 1
  PROVE  Stored(x) < Stored(c) <=> \E y \in x .. c - 1 : ~IsB(y)
<1>1. pictures \in Nat /\ n \in Nat
  BY DEF Numbered
<1>2. PICK C \in 0 .. n - 1 : C = Stored(c) /\ Shown(C) = c /\ p[C].type # "B"
  BY StoredFacts
<1>3. PICK X \in 0 .. n - 1 : X = Stored(x) /\ Shown(X) = x
  BY StoredFacts
<1>4. ASSUME NEW y \in x .. c - 1, ~IsB(y)
      PROVE  X < C
  <2>1. y \in 0 .. pictures - 1
    BY <1>1
  <2>2. PICK Y \in 0 .. n - 1 : Y = Stored(y) /\ Shown(Y) = y /\ p[Y].type # "B"
    BY <1>4, <2>1, StoredFacts
  <2>3. Y < C
    BY <1>2, <2>2, PlainOrder
  <2>4. SUFFICES ASSUME C < X PROVE FALSE
    BY <1>1, <1>2, <1>3
  <2>5. C \in 0 .. X - 1 /\ Y \in 0 .. X - 1
    BY <2>3, <2>4
  <2>6. Shown(C) > Shown(X)
    BY <1>2, <1>3, <1>4
  <2>7. C = LastReference(p, X)
    BY <1>2, <1>3, <2>5, <2>6, OrderFacts
  <2>8. Y # LastReference(p, X)
    BY <2>3, <2>7
  <2>9. Shown(Y) < Shown(X)
    BY <2>5, <2>8, OrderFacts
  <2>10. QED
    BY <1>3, <2>2, <2>9
<1>5. ASSUME X < C, \A y \in x .. c - 1 : IsB(y)
      PROVE  FALSE
  <2>1. x < c /\ x \in x .. c - 1
    BY <1>2, <1>3, <1>5, PlainOrder
  <2>2. p[X].type = "B"
    BY <1>3, <1>5, <2>1, StoredFacts
  <2>3. PICK I \in 0 .. n - 1 : I = Stored(0) /\ Shown(I) = 0 /\ p[I].type = "I"
    BY <1>1, StoredFacts DEF Ends
  <2>4. I \in 0 .. X - 1
    BY <1>3, <2>3, PlainOrder
  <2>5. PICK r \in 0 .. X - 1 : r = LastReference(p, X) /\ p[r].type # "B"
    <3>1. X \in Nat /\ p[I].type # "B"
      BY <1>1, <2>3
    <3>2. QED
      BY <2>4, <3>1, LastReferenceFacts
  <2>6. Shown(X) < Shown(r)
    BY <2>2, <2>5, OrderFacts
  <2>7. r \in 0 .. n - 1 /\ Shown(r) < Shown(C)
    <3>1. r \in 0 .. n - 1 /\ r < C
      BY <1>1, <1>5, <2>5
    <3>2. QED
      BY <1>2, <3>1, PlainOrder
  <2>8. PICK d \in Int : d = Shown(r)
    BY <2>7 DEF Numbered
  <2>9. d \in x .. c - 1 /\ d \in 0 .. pictures - 1
    BY <1>1, <1>2, <1>3, <2>6, <2>7, <2>8
  <2>10. r = Stored(d)
    BY <2>7, <2>8, <2>9, StoredFacts
  <2>11. QED
    BY <1>5, <2>5, <2>9, <2>10, StoredFacts
<1>6. QED
  BY <1>2, <1>3, <1>4, <1>5

-----------------------------------------------------------------------------
(* What is copied of a range: from the picture of its first sequence       *)
(* header on, without those displayed before.                              *)
FirstCopied == Stored(firstseqhdr)

Wanted(i) == Shown(i) >= firstseqhdr

LEMMA FirstCopiedFacts ==
  ASSUME InputOK, shown.ordered, num \in 1 .. Len(ranges)
  PROVE  /\ FirstCopied \in 0 .. n - 1 /\ Shown(FirstCopied) = firstseqhdr
         /\ firstseqhdr \in 0 .. pictures - 1 /\ firstseqhdr >= start
         /\ p[FirstCopied].type # "B" /\ ~IsB(firstseqhdr)
         /\ firstseqhdr < pictures - 1 => p[FirstCopied].type = "I"
<1>1. Numbered /\ Ends /\ Ordered
  BY TableNumbered, TableEnds, TableOrdered
<1>2. start \in 0 .. pictures - 1 /\ pictures \in Nat /\ pictures > 0
  BY RangeFacts
<1>3. PICK f \in start .. pictures - 1 :
        /\ f = firstseqhdr
        /\ p[Stored(f)].hdr \/ f = pictures - 1
  BY <1>1, <1>2, NextSeqHeaderFacts DEF firstseqhdr
<1>4. f \in 0 .. pictures - 1 /\ Stored(f) \in 0 .. n - 1 /\ Shown(Stored(f)) = f
  BY <1>1, <1>2, <1>3, StoredFacts
<1>5. p[Stored(f)].hdr => p[Stored(f)].type = "I"
  BY <1>1, <1>4 DEF Ordered
<1>6. f = pictures - 1 => ~IsB(f)
  BY <1>1, <1>2 DEF Ends
<1>7. p[Stored(f)].type # "B" /\ ~IsB(f)
  BY <1>3, <1>5, <1>6 DEF IsB
<1>8. f < pictures - 1 => p[Stored(f)].type = "I"
  BY <1>3, <1>5
<1>9. QED
  BY <1>2, <1>3, <1>4, <1>7, <1>8 DEF FirstCopied

(* If anything is copied, it begins with an I picture inside the range.    *)
LEMMA CopiedInside ==
  ASSUME InputOK, shown.ordered, num \in 1 .. Len(ranges), FirstCopied < CopyStop
  PROVE  p[FirstCopied].type = "I" /\ firstseqhdr < stop
<1>1. Numbered /\ Ends /\ Ordered
  BY TableNumbered, TableEnds, TableOrdered
<1>2. PICK c \in stop .. pictures - 1 : StopsAt(c) /\ CopyStop = Stored(c)
  BY RangeFacts
<1>3. /\ stop \in 0 .. pictures - 1 /\ pictures \in Nat /\ n \in Nat
      /\ FirstCopied \in 0 .. n - 1 /\ Shown(FirstCopied) = firstseqhdr
      /\ firstseqhdr \in 0 .. pictures - 1
      /\ p[FirstCopied].type # "B" /\ ~IsB(firstseqhdr)
      /\ firstseqhdr < pictures - 1 => p[FirstCopied].type = "I"
  BY RangeFacts, FirstCopiedFacts
<1>4. c \in 0 .. pictures - 1 /\ Stored(c) \in 0 .. n - 1 /\ Shown(Stored(c)) = c
      /\ p[Stored(c)].type # "B"
  BY <1>1, <1>2, <1>3, StoredFacts DEF StopsAt
<1>5. firstseqhdr < c
  BY <1>1, <1>2, <1>3, <1>4, PlainOrder
<1>6. firstseqhdr < stop
  <2>1. SUFFICES ASSUME firstseqhdr \in stop .. c - 1 PROVE FALSE
    BY <1>2, <1>3, <1>5
  <2>2. QED
    BY <1>2, <1>3, <2>1 DEF StopsAt
<1>7. QED
  BY <1>2, <1>3, <1>6


(* What is copied lies in the range.                                       *)
LEMMA CopiedShown ==
  ASSUME InputOK, shown.ordered, num \in 1 .. Len(ranges), start < stop,
         NEW i \in FirstCopied .. CopyStop - 1, Wanted(i)
  PROVE  Shown(i) \in firstseqhdr .. stop - 1
<1>1. Numbered /\ Ends /\ Ordered
  BY TableNumbered, TableEnds, TableOrdered
<1>2. PICK c \in stop .. pictures - 1 : StopsAt(c) /\ CopyStop = Stored(c)
  BY RangeFacts
<1>3. /\ start \in Nat /\ stop \in 0 .. pictures - 1 /\ pictures \in Nat /\ n \in Nat
      /\ FirstCopied \in 0 .. n - 1 /\ firstseqhdr \in 0 .. pictures - 1
      /\ CopyStop \in 0 .. n - 1
  BY RangeFacts, FirstCopiedFacts
<1>4. c \in 0 .. pictures - 1 /\ Stored(c) \in 0 .. n - 1 /\ Shown(Stored(c)) = c
      /\ p[Stored(c)].type # "B" /\ ~IsB(c)
  BY <1>1, <1>2, <1>3, StoredFacts DEF StopsAt
<1>5. i \in 0 .. n - 1 /\ i < Stored(c)
  BY <1>2, <1>3
<1>6. Shown(i) < c
  BY <1>1, <1>4, <1>5, PlainOrder
<1>7. PICK x \in Int : x = Shown(i) /\ x >= firstseqhdr /\ x < c
  BY <1>1, <1>5, <1>6 DEF Numbered, Wanted
<1>8. SUFFICES ASSUME x >= stop PROVE FALSE
  BY <1>3, <1>7
<1>9. x \in 1 .. pictures - 1 /\ x \in 0 .. pictures - 1
  BY <1>3, <1>4, <1>7, <1>8
<1>10. i = Stored(x)
  BY <1>1, <1>5, <1>7, <1>9, StoredFacts
<1>11. PICK y \in x .. c - 1 : ~IsB(y)
  BY <1>1, <1>4, <1>5, <1>9, <1>10, StopOrder
<1>12. y \in stop .. c - 1
  BY <1>3, <1>8
<1>13. QED
  BY <1>2, <1>11, <1>12 DEF StopsAt

(* The B pictures at the end that are encoded again.                       *)
LEMMA TailBegins ==
  ASSUME InputOK, shown.ordered, num \in 1 .. Len(ranges), TailMissing
  PROVE  /\ StartRecode \in firstseqhdr + 1 .. stop - 1
         /\ \A x \in StartRecode .. stop - 1 : IsB(x)
         /\ ~IsB(StartRecode - 1)
<1>1. Numbered /\ Ends
  BY TableNumbered, TableEnds
<1>2. /\ stop \in 0 .. pictures - 1 /\ pictures \in Nat
      /\ firstseqhdr \in 0 .. pictures - 1 /\ ~IsB(firstseqhdr)
  BY RangeFacts, FirstCopiedFacts
<1>3. stop > firstseqhdr /\ IsB(stop - 1) /\ stop \in 1 .. pictures - 1
  BY <1>2 DEF TailMissing
<1>4. /\ StartRecode \in 1 .. stop - 1
      /\ ~IsB(StartRecode - 1)
      /\ \A x \in StartRecode .. stop - 1 : IsB(x)
  BY <1>1, <1>3, StartRecodeFacts
<1>5. firstseqhdr \notin StartRecode .. stop - 1
  BY <1>2, <1>4
<1>6. QED
  BY <1>2, <1>3, <1>4, <1>5

(* The pictures of the range from its first header on are copied or        *)
(* encoded again, and none is both.                                        *)
LEMMA RangeCovered ==
  ASSUME InputOK, shown.ordered, num \in 1 .. Len(ranges),
         NEW x \in firstseqhdr .. stop - 1, start < stop
  PROVE  IF TailMissing /\ x >= StartRecode
           THEN Stored(x) > CopyStop
           ELSE Stored(x) \in FirstCopied .. CopyStop - 1
<1>1. Numbered /\ Ends /\ Ordered
  BY TableNumbered, TableEnds, TableOrdered
<1>2. PICK c \in stop .. pictures - 1 : StopsAt(c) /\ CopyStop = Stored(c)
  BY RangeFacts
<1>3. /\ start \in Nat /\ stop \in 0 .. pictures - 1 /\ pictures \in Nat /\ n \in Nat
      /\ FirstCopied \in 0 .. n - 1 /\ Shown(FirstCopied) = firstseqhdr
      /\ firstseqhdr \in 0 .. pictures - 1 /\ p[FirstCopied].type # "B"
      /\ ~IsB(firstseqhdr)
  BY RangeFacts, FirstCopiedFacts
<1>4. c \in 0 .. pictures - 1 /\ Stored(c) \in 0 .. n - 1 /\ Shown(Stored(c)) = c
      /\ p[Stored(c)].type # "B" /\ ~IsB(c)
  BY <1>1, <1>2, <1>3, StoredFacts DEF StopsAt
<1>5. x \in 0 .. pictures - 1 /\ x < c
  BY <1>2, <1>3
<1>6. Stored(x) \in 0 .. n - 1 /\ Shown(Stored(x)) = x
  BY <1>1, <1>5, StoredFacts
<1>7. Stored(x) >= FirstCopied
  <2>1. Stored(x) < FirstCopied => Shown(Stored(x)) < Shown(FirstCopied)
    BY <1>1, <1>3, <1>6, PlainOrder
  <2>2. QED
    BY <1>3, <1>6, <2>1
<1>8. ASSUME ~(TailMissing /\ x >= StartRecode)
      PROVE  \E y \in x .. stop - 1 : ~IsB(y)
  <2>1. CASE TailMissing
    <3>1. StartRecode - 1 \in x .. stop - 1 /\ ~IsB(StartRecode - 1)
      BY <1>3, <1>8, <2>1, TailBegins
    <3>2. QED
      BY <3>1
  <2>2. CASE ~TailMissing
    <3>1. stop - 1 \in x .. stop - 1 /\ ~IsB(stop - 1)
      BY <1>3, <2>2 DEF TailMissing
    <3>2. QED
      BY <3>1
  <2>3. QED
    BY <2>1, <2>2
<1>9. CASE TailMissing /\ x >= StartRecode
  <2>1. \A y \in x .. c - 1 : IsB(y)
    <3> SUFFICES ASSUME NEW y \in x .. c - 1 PROVE IsB(y)
      OBVIOUS
    <3>1. CASE y < stop
      BY <1>3, <1>9, <3>1, TailBegins
    <3>2. CASE y >= stop
      BY <1>2, <1>3, <3>2 DEF StopsAt
    <3>3. QED
      BY <1>3, <3>1, <3>2
  <2>2. x \in 1 .. pictures - 1
    BY <1>3, <1>5, <1>9, TailBegins
  <2>3. ~(Stored(x) < Stored(c))
    BY <1>1, <1>4, <2>1, <2>2, StopOrder
  <2>4. Stored(x) # Stored(c)
    BY <1>4, <1>5, <1>6
  <2>5. QED
    BY <1>2, <1>4, <1>6, <1>9, <2>3, <2>4
<1>10. CASE ~(TailMissing /\ x >= StartRecode)
  <2>1. PICK y \in x .. stop - 1 : ~IsB(y)
    BY <1>8, <1>10
  <2>2. y \in x .. c - 1
    BY <1>2, <1>3
  <2>3. Stored(x) < Stored(c)
    <3>1. CASE x >= 1
      BY <1>1, <1>4, <1>5, <2>1, <2>2, <3>1, StopOrder
    <3>2. CASE x = 0
      <4>1. p[Stored(x)].type # "B"
        BY <1>3, <1>5, <3>2, StoredFacts, <1>1
      <4>2. QED
        BY <1>1, <1>4, <1>5, <1>6, <4>1, PlainOrder
    <3>3. QED
      BY <1>3, <3>1, <3>2
  <2>4. QED
    BY <1>2, <1>3, <1>4, <1>6, <1>7, <1>10, <2>3
<1>11. QED
  BY <1>9, <1>10

(* An I or P picture that is copied is displayed before what is encoded at *)
(* the end, and in the range.                                              *)
LEMMA CopiedReference ==
  ASSUME InputOK, shown.ordered, num \in 1 .. Len(ranges),
         NEW k \in FirstCopied .. CopyStop - 1, p[k].type # "B"
  PROVE  /\ Shown(k) \in firstseqhdr .. stop - 1
         /\ TailMissing => Shown(k) < StartRecode
<1>1. Numbered /\ Ends /\ Ordered
  BY TableNumbered, TableEnds, TableOrdered
<1>2. PICK c \in stop .. pictures - 1 : StopsAt(c) /\ CopyStop = Stored(c)
  BY RangeFacts
<1>3. /\ stop \in 0 .. pictures - 1 /\ pictures \in Nat /\ n \in Nat
      /\ FirstCopied \in 0 .. n - 1 /\ Shown(FirstCopied) = firstseqhdr
      /\ firstseqhdr \in 0 .. pictures - 1 /\ CopyStop \in 0 .. n - 1
  BY RangeFacts, FirstCopiedFacts
<1>4. c \in 0 .. pictures - 1 /\ Stored(c) \in 0 .. n - 1 /\ Shown(Stored(c)) = c
      /\ p[Stored(c)].type # "B"
  BY <1>1, <1>2, <1>3, StoredFacts DEF StopsAt
<1>5. k \in 0 .. n - 1 /\ k < Stored(c)
  BY <1>2, <1>3
<1>6. Shown(k) < c
  BY <1>1, <1>4, <1>5, PlainOrder
<1>7. Shown(k) >= firstseqhdr /\ Shown(k) \in Int
  <2>1. FirstCopied < k => Shown(FirstCopied) < Shown(k)
    BY <1>1, <1>3, <1>5, PlainOrder
  <2>2. Shown(k) \in Int
    BY <1>1, <1>5 DEF Numbered
  <2>3. QED
    BY <1>3, <2>1, <2>2
<1>8. PICK x \in 0 .. pictures - 1 : x = Shown(k) /\ x >= firstseqhdr /\ x < c
  BY <1>3, <1>4, <1>6, <1>7
<1>9. ~IsB(x)
  BY <1>1, <1>5, <1>8, StoredFacts
<1>10. x < stop
  <2>1. x \notin stop .. c - 1
    BY <1>2, <1>9 DEF StopsAt
  <2>2. QED
    BY <1>3, <1>8, <2>1
<1>11. TailMissing => x < StartRecode
  BY <1>3, <1>8, <1>9, <1>10, TailBegins
<1>12. QED
  BY <1>3, <1>8, <1>10, <1>11

(* How far copying is.                                                     *)
FirstEnds == SeqEnd(p, n, FirstCopied)

CopyOK ==
  InRange =>
    /\ streampic >= FirstCopied
    /\ streampic = FirstCopied \/ streampic <= CopyStop
    /\ isfirstpic <=> streampic = FirstCopied
    /\ isfirstseq <=> streampic <= FirstEnds
    /\ pc = "head" => streampic = FirstCopied
    /\ ~vsd => streampic >= CopyStop

LEMMA SameCopy ==
  ASSUME UNCHANGED <<input, num>>
  PROVE  /\ FirstCopied' = FirstCopied /\ FirstEnds' = FirstEnds
         /\ CopyStop' = CopyStop
         /\ \A x : Wanted(x)' <=> Wanted(x)
<1>1. /\ p' = p /\ n' = n /\ shown' = shown /\ firstseqhdr' = firstseqhdr
      /\ CopyStop' = CopyStop
  BY SameRange DEF input
<1>2. FirstCopied' = FirstCopied
  BY <1>1 DEF FirstCopied, Stored
<1>3. FirstEnds' = FirstEnds
  BY <1>1, <1>2 DEF FirstEnds
<1>4. \A x : Wanted(x)' <=> Wanted(x)
  BY <1>1 DEF Wanted, Shown
<1>5. QED
  BY <1>1, <1>2, <1>3, <1>4

LEMMA FirstEndsFacts ==
  ASSUME InputOK, num \in 1 .. Len(ranges)
  PROVE  /\ n \in Nat /\ FirstCopied \in 0 .. n - 1 /\ Shown(FirstCopied) = firstseqhdr
         /\ CopyStop \in 0 .. n - 1
         /\ FirstEnds \in FirstCopied + 1 .. n
         /\ FirstEnds < n => p[FirstEnds].hdr
         /\ \A j \in FirstCopied + 1 .. FirstEnds - 1 : ~p[j].hdr
<1>1. /\ n \in Nat /\ FirstCopied \in 0 .. n - 1 /\ CopyStop \in 0 .. n - 1
      /\ start \in Nat /\ firstseqhdr \in start .. pictures - 1 /\ pictures \in Nat
  BY RangeFacts DEF FirstCopied
<1>2. Shown(FirstCopied) = firstseqhdr
  <2>1. firstseqhdr \in 0 .. pictures - 1
    BY <1>1
  <2>2. QED
    BY <2>1, TableNumbered, StoredFacts DEF FirstCopied
<1>3. FirstCopied \in Nat /\ FirstCopied < n
  BY <1>1
<1>4. QED
  BY <1>1, <1>2, <1>3, SeqEndFacts DEF FirstEnds

(* Pictures that are displayed before the first one copied are passed      *)
(* over, in the sequence of that one and only there.                       *)
LEMMA CopyStep ==
  ASSUME InputOK, TypeOK, CopyOK, CopyPicture
  PROVE  /\ num \in 1 .. Len(ranges) /\ pc = "pass" /\ InRange
         /\ streampic \in FirstCopied .. CopyStop - 1
         /\ streampic' = streampic + 1 /\ UNCHANGED <<input, num, videooffset>>
         /\ isfirstpic' = FALSE
         /\ isfirstseq' <=> streampic + 1 <= FirstEnds
         /\ IF Wanted(streampic) THEN CopiedTo(streampic) ELSE UNCHANGED <<out, mux>>
<1>1. /\ num \in 1 .. Len(ranges) /\ streampic \in 0 .. n - 1 /\ streampic < CopyStop
      /\ IF WantedPicture(streampic, isfirstseq') THEN CopiedTo(streampic)
                                                  ELSE UNCHANGED <<out, mux>>
  BY CopyPictureFacts
<1>2. /\ pc = "pass" /\ isfirstpic' = FALSE /\ streampic' = streampic + 1
      /\ isfirstseq' = (isfirstseq /\ (isfirstpic \/ ~p[streampic].hdr))
      /\ UNCHANGED <<input, num, videooffset>>
  BY DEF CopyPicture, avoffset
<1>3. InRange
  BY <1>2 DEF InRange
<1>4. /\ n \in Nat /\ FirstCopied \in 0 .. n - 1 /\ Shown(FirstCopied) = firstseqhdr
      /\ CopyStop \in 0 .. n - 1
      /\ FirstEnds \in FirstCopied + 1 .. n
      /\ FirstEnds < n => p[FirstEnds].hdr
      /\ \A j \in FirstCopied + 1 .. FirstEnds - 1 : ~p[j].hdr
  BY <1>1, FirstEndsFacts
<1>5. /\ streampic >= FirstCopied
      /\ isfirstpic <=> streampic = FirstCopied
      /\ isfirstseq <=> streampic <= FirstEnds
  BY <1>3 DEF CopyOK
<1>6. isfirstseq' <=> streampic + 1 <= FirstEnds
  <2>1. CASE streampic = FirstCopied
    <3>1. isfirstpic /\ streampic + 1 <= FirstEnds
      BY <1>4, <1>5, <2>1
    <3>2. isfirstseq
      BY <1>4, <1>5, <2>1
    <3>3. QED
      BY <1>2, <3>1, <3>2
  <2>2. CASE streampic # FirstCopied
    <3>1. isfirstseq' <=> isfirstseq /\ ~p[streampic].hdr
      BY <1>2, <1>5, <2>2
    <3>2. CASE streampic < FirstEnds
      <4>1. ~p[streampic].hdr
        BY <1>1, <1>4, <1>5, <2>2, <3>2
      <4>2. streampic <= FirstEnds /\ streampic + 1 <= FirstEnds
        BY <1>1, <1>4, <3>2
      <4>3. QED
        BY <1>5, <3>1, <4>1, <4>2
    <3>3. CASE streampic = FirstEnds
      <4>1. p[streampic].hdr
        BY <1>1, <1>4, <3>3
      <4>2. ~(streampic + 1 <= FirstEnds)
        BY <1>1, <1>4, <3>3
      <4>3. QED
        BY <3>1, <4>1, <4>2
    <3>4. CASE streampic > FirstEnds
      <4>1. ~(streampic <= FirstEnds) /\ ~(streampic + 1 <= FirstEnds)
        BY <1>1, <1>4, <3>4
      <4>2. QED
        BY <1>5, <3>1, <4>1
    <3>5. QED
      BY <1>1, <1>4, <3>2, <3>3, <3>4
  <2>3. QED
    BY <2>1, <2>2
<1>7. WantedPicture(streampic, isfirstseq') <=> Wanted(streampic)
  <2>1. Shown(streampic) >= Shown(FirstCopied)
          <=> (streampic >= FirstEnds \/ p[streampic].seqnr >= p[FirstCopied].seqnr)
    <3>1. streampic \in FirstCopied .. n - 1
      BY <1>1, <1>4, <1>5
    <3>2. QED
      BY <1>4, <3>1, TablePassed DEF Passed, FirstEnds
  <2>2. ~isfirstseq' <=> streampic >= FirstEnds
    BY <1>1, <1>4, <1>6
  <2>3. firstseqnr = p[FirstCopied].seqnr
    BY DEF firstseqnr, FirstCopied
  <2>4. QED
    BY <1>4, <2>1, <2>2, <2>3 DEF WantedPicture, Wanted
<1>8. streampic \in FirstCopied .. CopyStop - 1
  BY <1>1, <1>4, <1>5
<1>9. IF Wanted(streampic) THEN CopiedTo(streampic) ELSE UNCHANGED <<out, mux>>
  BY <1>1, <1>7
<1>10. QED
  BY <1>1, <1>2, <1>3, <1>6, <1>8, <1>9

LEMMA VideoUnmoved ==
  ASSUME [Next]_vars, ~Begin, ~CopyPicture, ~CopyVideoEnds
  PROVE  UNCHANGED video
BY DEF Next, vars, EmptyRange, RecodeHead, Pass, CopyAudio, PassEnds,
       CopyCancelled, ReadingEnds, RecodeTail, End, Cancel, video

LEMMA CopyOKNext ==
  ASSUME InputOK, TypeOK, CopyOK, [Next]_vars
  PROVE  CopyOK'
<1> SUFFICES ASSUME InRange' PROVE CopyOK'
  BY DEF CopyOK
<1>1. CASE Begin
  <2>1. Begun /\ UNCHANGED <<input, num>> /\ pc # "done"
    BY <1>1, BeginFacts DEF Begin
  <2>2. /\ n \in Nat /\ FirstCopied \in 0 .. n - 1 /\ FirstEnds \in FirstCopied + 1 .. n
    BY <2>1, NumInRange, FirstEndsFacts
  <2>3. /\ streampic' = FirstCopied /\ isfirstpic' /\ isfirstseq' /\ vsd'
    BY <2>1 DEF Begun, FirstCopied
  <2>4. FirstCopied' = FirstCopied /\ FirstEnds' = FirstEnds
    BY <2>1, SameCopy
  <2>5. FirstCopied >= FirstCopied /\ FirstCopied <= FirstEnds
    BY <2>2
  <2>6. QED
    BY <2>3, <2>4, <2>5 DEF CopyOK
<1>2. CASE EmptyRange \/ End
  BY <1>2 DEF EmptyRange, End, NextRange, InRange
<1>3. CASE Within
  <2>1. InRange /\ UNCHANGED <<input, num>>
    BY <1>3 DEF Within
  <2>2. /\ FirstCopied' = FirstCopied /\ FirstEnds' = FirstEnds /\ CopyStop' = CopyStop
    BY <2>1, SameCopy
  <2>3. num \in 1 .. Len(ranges)
    BY <2>1, NumInRange DEF InRange
  <2>4. /\ streampic >= FirstCopied
        /\ streampic = FirstCopied \/ streampic <= CopyStop
        /\ isfirstpic <=> streampic = FirstCopied
        /\ isfirstseq <=> streampic <= FirstEnds
        /\ pc = "head" => streampic = FirstCopied
        /\ ~vsd => streampic >= CopyStop
    BY <2>1 DEF CopyOK
  <2>5. CASE CopyPicture
    <3>1. /\ streampic \in FirstCopied .. CopyStop - 1 /\ streampic' = streampic + 1
          /\ isfirstpic' = FALSE
          /\ isfirstseq' <=> streampic + 1 <= FirstEnds
      BY <2>5, CopyStep
    <3>2. pc' = "pass" /\ vsd'
      BY <2>5 DEF CopyPicture
    <3>3. CopyStop \in Int /\ FirstCopied \in Int
      BY <2>3, FirstEndsFacts
    <3>4. /\ streampic + 1 >= FirstCopied /\ streampic + 1 <= CopyStop
          /\ streampic + 1 # FirstCopied
      BY <3>1, <3>3
    <3>5. QED
      BY <2>2, <3>1, <3>2, <3>4 DEF CopyOK
  <2>6. CASE CopyVideoEnds
    <3>1. streampic >= CopyStop /\ pc = "pass" /\ pc' = pc
          /\ UNCHANGED <<streampic, isfirstpic, isfirstseq>>
      BY <2>6 DEF CopyVideoEnds
    <3>2. QED
      BY <2>2, <2>4, <3>1 DEF CopyOK
  <2>7. CASE ~CopyPicture /\ ~CopyVideoEnds
    <3>2. pc' = "head" => pc = "head" \/ Begin
      BY <2>1 DEF Next, vars, EmptyRange, RecodeHead, Pass, CopyPicture, CopyVideoEnds,
             CopyAudio, PassEnds, CopyCancelled, ReadingEnds, RecodeTail, End, Cancel, NextRange
    <3>3. CASE Begin
      BY <1>1, <3>3
    <3>4. CASE ~Begin
      <4>1. UNCHANGED <<streampic, isfirstpic, isfirstseq, vsd>>
        BY <2>7, <3>4, VideoUnmoved DEF video
      <4>2. QED
        BY <2>2, <2>4, <3>2, <3>4, <4>1 DEF CopyOK
    <3>5. QED
      BY <3>3, <3>4
  <2>8. QED
    BY <2>5, <2>6, <2>7
<1>4. QED
  BY <1>1, <1>2, <1>3, Kinds


(* What was wanted is there.                                               *)
CopiedOK ==
  InRange =>
    \A i \in FirstCopied .. streampic - 1 : Wanted(i) =>
      \E j \in DOMAIN out : out[j].copied = i /\ out[j].range = num

LEMMA CopiedOKNext ==
  ASSUME InputOK, TypeOK, CopyOK, CopiedOK, [Next]_vars
  PROVE  CopiedOK'
<1> SUFFICES ASSUME InRange', NEW i \in FirstCopied' .. streampic' - 1, Wanted(i)'
             PROVE  \E j \in DOMAIN out' : out'[j].copied = i /\ out'[j].range = num'
  BY DEF CopiedOK
<1>1. Extended
  BY OutExtended
<1>2. CASE Begin
  <2>1. Begun /\ UNCHANGED <<input, num>> /\ pc # "done"
    BY <1>2, BeginFacts DEF Begin
  <2>2. streampic' = FirstCopied /\ FirstCopied' = FirstCopied /\ FirstCopied \in Int
    BY <2>1, NumInRange, FirstEndsFacts, SameCopy DEF Begun, FirstCopied
  <2>3. i \in FirstCopied .. FirstCopied - 1
    BY <2>2
  <2>4. QED
    BY <2>2, <2>3
<1>3. CASE EmptyRange \/ End
  BY <1>3 DEF EmptyRange, End, NextRange, InRange
<1>4. CASE Within /\ ~Begin
  <2>1. InRange /\ UNCHANGED <<input, num>>
    BY <1>4 DEF Within
  <2>2. FirstCopied' = FirstCopied /\ Wanted(i)
    BY <2>1, SameCopy
  <2>3. ASSUME i \in FirstCopied .. streampic - 1
        PROVE  \E j \in DOMAIN out' : out'[j].copied = i /\ out'[j].range = num'
    <3>1. PICK j \in DOMAIN out : out[j].copied = i /\ out[j].range = num
      BY <2>1, <2>2, <2>3 DEF CopiedOK
    <3>2. j \in DOMAIN out' /\ out'[j] = out[j]
      BY <1>1 DEF Extended
    <3>3. QED
      BY <2>1, <3>1, <3>2
  <2>4. CASE CopyPicture
    <3>1. /\ streampic \in FirstCopied .. CopyStop - 1 /\ streampic' = streampic + 1
          /\ IF Wanted(streampic) THEN CopiedTo(streampic) ELSE UNCHANGED <<out, mux>>
      BY <2>4, CopyStep
    <3>2. n \in Nat /\ FirstCopied \in 0 .. n - 1
      BY <2>1, NumInRange, FirstEndsFacts DEF InRange
    <3>3. i \in FirstCopied .. streampic + 1 - 1
      BY <2>2, <3>1
    <3>4. i \in FirstCopied .. streampic - 1 \/ i = streampic
      BY <3>1, <3>2, <3>3
    <3>5. CASE i = streampic
      <4>1. CopiedTo(i)
        BY <2>2, <3>1, <3>5
      <4>2. Len(out') \in DOMAIN out' /\ Len(out') = Len(out) + 1
        BY <1>1, <4>1 DEF Extended, CopiedTo
      <4>3. out'[Len(out')].copied = i /\ out'[Len(out')].range = num
        BY <4>1, <4>2 DEF CopiedTo
      <4>4. QED
        BY <2>1, <4>2, <4>3
    <3>6. QED
      BY <2>3, <3>4, <3>5
  <2>5. CASE ~CopyPicture
    <3>1. streampic' = streampic
      BY <1>4, <2>5, VideoUnmoved DEF CopyVideoEnds, video
    <3>2. QED
      BY <2>2, <2>3, <3>1
  <2>6. QED
    BY <2>4, <2>5
<1>5. QED
  BY <1>2, <1>3, <1>4, Kinds

LEMMA CopyInvariant == Spec => [](CopyOK /\ CopiedOK)
<1>1. Init => CopyOK /\ CopiedOK
  BY DEF Init, CopyOK, CopiedOK, InRange
<1>2. InputOK /\ TypeOK /\ CopyOK /\ CopiedOK /\ [Next]_vars => CopyOK' /\ CopiedOK'
  BY CopyOKNext, CopiedOKNext
<1>3. QED
  BY <1>1, <1>2, InputInvariant, TypeCorrect, PTL DEF Spec

(* What a picture that is wanted refers to is wanted, and in front of it:  *)
(* B pictures that refer to what lies in front of the first picture copied *)
(* are displayed before that one.                                          *)
LEMMA ReferenceWanted ==
  ASSUME InputOK, shown.ordered, num \in 1 .. Len(ranges),
         NEW i \in FirstCopied .. CopyStop - 1, Wanted(i), NEW k \in References(i)
  PROVE  k \in FirstCopied .. i - 1 /\ Wanted(k)
<1>1. Numbered /\ Ordered
  BY TableNumbered, TableOrdered
<1>2. /\ n \in Nat /\ FirstCopied \in 0 .. n - 1 /\ Shown(FirstCopied) = firstseqhdr
      /\ CopyStop \in 0 .. n - 1
  BY FirstEndsFacts
<1>3. p[FirstCopied].type = "I"
  BY <1>2, CopiedInside
<1>4. i \in 0 .. n - 1 /\ Shown(i) >= firstseqhdr
  BY <1>2 DEF Wanted
<1>5. ASSUME NEW m \in FirstCopied .. n - 1, p[m].type # "B"
      PROVE  Wanted(m)
  <2>1. FirstCopied < m => Shown(FirstCopied) < Shown(m)
    BY <1>1, <1>2, <1>5, PlainOrder
  <2>2. Shown(m) \in Int /\ Shown(FirstCopied) \in Int
    BY <1>1, <1>2 DEF Numbered
  <2>3. QED
    BY <1>2, <2>1, <2>2 DEF Wanted
<1>6. ASSUME NEW m \in FirstCopied + 1 .. n - 1
      PROVE  /\ LastReference(p, m) \in FirstCopied .. m - 1
             /\ p[LastReference(p, m)].type # "B" /\ Wanted(LastReference(p, m))
  <2>1. m \in Nat /\ FirstCopied \in 0 .. m - 1 /\ p[FirstCopied].type # "B"
    BY <1>2, <1>3
  <2>2. /\ LastReference(p, m) \in 0 .. m - 1 /\ FirstCopied <= LastReference(p, m)
        /\ p[LastReference(p, m)].type # "B"
    BY <2>1, LastReferenceFacts
  <2>3. LastReference(p, m) \in FirstCopied .. n - 1 /\ LastReference(p, m) \in FirstCopied .. m - 1
    BY <1>2, <2>2
  <2>4. QED
    BY <1>5, <2>2, <2>3
<1>7. p[i].type # "I"
  BY DEF References
<1>8. i \in FirstCopied + 1 .. n - 1
  BY <1>2, <1>3, <1>4, <1>7
<1>9. PICK r \in FirstCopied .. i - 1 :
        r = LastReference(p, i) /\ p[r].type # "B" /\ Wanted(r)
  BY <1>6, <1>8
<1>10. k = r \/ (p[i].type = "B" /\ k = LastReference(p, r))
  BY <1>7, <1>9 DEF References
<1>11. CASE p[i].type = "B" /\ k = LastReference(p, r)
  <2>1. r # FirstCopied
    <3>1. SUFFICES ASSUME r = FirstCopied PROVE FALSE
      OBVIOUS
    <3>2. r \in 0 .. i - 1
      BY <1>2, <1>9
    <3>3. Shown(i) < Shown(r) /\ Shown(i) \in Int /\ Shown(r) \in Int
      BY <1>1, <1>4, <1>9, <1>11, <3>2, OrderFacts
    <3>4. Shown(r) = firstseqhdr
      BY <1>2, <3>1
    <3>5. QED
      BY <1>4, <3>3, <3>4
  <2>2. r \in FirstCopied + 1 .. n - 1
    BY <1>2, <1>4, <1>9, <2>1
  <2>3. k \in FirstCopied .. r - 1 /\ Wanted(k)
    BY <1>6, <1>11, <2>2
  <2>4. QED
    BY <1>2, <1>9, <2>3
<1>12. QED
  BY <1>9, <1>10, <1>11

LEMMA ReferencesSame ==
  ASSUME UNCHANGED input
  PROVE  \A x : References(x)' = References(x)
BY DEF input, References, LastReference

(* A picture is copied only behind the pictures it refers to.              *)
THEOREM ReferencesAreCopied == Spec => []ReferencesCopied
<1>1. Init => ReferencesCopied
  <2> SUFFICES ASSUME Init PROVE ReferencesCopied
    OBVIOUS
  <2>1. DOMAIN out = {}
    BY DEF Init
  <2>2. QED
    BY <2>1 DEF ReferencesCopied
<1>2. InputOK /\ TypeOK /\ CopyOK /\ CopiedOK /\ ReferencesCopied /\ [Next]_vars
        => ReferencesCopied'
  <2> SUFFICES ASSUME InputOK, TypeOK, CopyOK, CopiedOK, ReferencesCopied, [Next]_vars,
                      shown.ordered, NEW i \in DOMAIN out', out'[i].copied # Nothing,
                      NEW k \in References(out'[i].copied)
               PROVE  \E j \in 1 .. i - 1 :
                        out'[j].copied = k /\ out'[j].range = out'[i].range
    BY InputSame, ReferencesSame DEF ReferencesCopied, input
  <2>1. Extended /\ (out' # out => RecodeHead \/ CopyPicture \/ RecodeTail)
    BY OutExtended
  <2>2. /\ DOMAIN out = 1 .. Len(out) /\ DOMAIN out' = 1 .. Len(out')
        /\ Len(out) \in Nat /\ Len(out') \in Nat
        /\ \A x \in 1 .. Len(out) : out'[x] = out[x]
    BY <2>1 DEF Extended
  <2>3. CASE i \in 1 .. Len(out)
    <3>1. PICK j \in 1 .. i - 1 : out[j].copied = k /\ out[j].range = out[i].range
      BY <2>2, <2>3 DEF ReferencesCopied
    <3>2. j \in 1 .. Len(out)
      BY <2>2, <2>3
    <3>3. QED
      BY <2>2, <2>3, <3>1, <3>2
  <2>4. CASE i \notin 1 .. Len(out)
    <3>1. out' # out
      BY <2>2, <2>4
    <3>2. PICK x \in 1 .. Len(out') - Len(out) : i = Len(out) + x
      <4>1. i - Len(out) \in 1 .. Len(out') - Len(out) /\ i = Len(out) + (i - Len(out))
        BY <2>2, <2>4
      <4>2. QED
        BY <4>1
    <3>3. ASSUME NEW a, NEW b \in Nat, Recoded(b, a)
          PROVE  FALSE
      <4>1. x \in 1 .. b
        BY <2>2, <3>2, <3>3 DEF Recoded
      <4>2. QED
        BY <3>2, <3>3, <4>1 DEF Recoded, RecodedPicture
    <3>4. CopyPicture
      <4>1. SUFFICES ASSUME ~CopyPicture PROVE FALSE
        OBVIOUS
      <4>2. CASE RecodeHead
        <5>1. PICK b \in 0 .. firstseqhdr - start : Recoded(b, start)
          BY <3>1, <4>2, HeadFacts
        <5>2. QED
          BY <3>3, <5>1
      <4>3. CASE RecodeTail
        <5>1. PICK b \in 0 .. stop - StartRecode : Recoded(b, StartRecode)
          BY <3>1, <4>3, TailFacts
        <5>2. QED
          BY <3>3, <5>1
      <4>4. QED
        BY <2>1, <3>1, <4>1, <4>2, <4>3
    <3>5. /\ num \in 1 .. Len(ranges) /\ InRange
          /\ streampic \in FirstCopied .. CopyStop - 1
          /\ Wanted(streampic) /\ CopiedTo(streampic)
      BY <3>1, <3>4, CopyStep
    <3>6. i = Len(out) + 1
      BY <2>2, <3>2, <3>5 DEF CopiedTo
    <3>7. out'[i].copied = streampic /\ out'[i].range = num
      BY <3>5, <3>6 DEF CopiedTo
    <3>8. k \in FirstCopied .. streampic - 1 /\ Wanted(k)
      BY <3>5, <3>7, ReferenceWanted
    <3>9. PICK j \in DOMAIN out : out[j].copied = k /\ out[j].range = num
      BY <3>5, <3>8 DEF CopiedOK
    <3>10. j \in 1 .. i - 1 /\ out'[j] = out[j]
      BY <2>2, <3>6
    <3>11. QED
      BY <3>7, <3>9, <3>10
  <2>5. QED
    BY <2>3, <2>4
<1>3. QED
  BY <1>1, <1>2, InputInvariant, TypeCorrect, CopyInvariant, PTL DEF Spec

-----------------------------------------------------------------------------
(* What is written of a range, as far as it got.                           *)
CopiedPics(m) == {Shown(i) : i \in {k \in FirstCopied .. m - 1 : Wanted(k)}}
HeadPics == IF pc = "head" THEN {} ELSE start .. firstseqhdr - 1
TailPics == IF pc = "end" /\ TailMissing THEN StartRecode .. stop - 1 ELSE {}

WrittenPics == HeadPics \cup CopiedPics(streampic) \cup TailPics

(* These pictures, all of them, each once.                                 *)
Exactly(list, r, pics) ==
  /\ \A i \in DOMAIN list : list[i].range = r => list[i].pic \in pics
  /\ \A i, j \in DOMAIN list : list[i].range = r /\ list[j].range = r /\ i # j =>
       list[i].pic # list[j].pic
  /\ \A x \in pics : \E i \in DOMAIN list : list[i].range = r /\ list[i].pic = x

WrittenOK ==
  shown.ordered /\ InRange /\ intact => Exactly(out, num, WrittenPics)

LEMMA MoreExactly ==
  ASSUME Extended, NEW A, Exactly(out, num, A), NEW B,
         \A i \in Len(out) + 1 .. Len(out') : out'[i].pic \in B,
         \A i, j \in Len(out) + 1 .. Len(out') : i # j => out'[i].pic # out'[j].pic,
         A \cap B = {},
         \A x \in B : \E i \in Len(out) + 1 .. Len(out') : out'[i].pic = x
  PROVE  Exactly(out', num, A \cup B)
<1>1. /\ DOMAIN out = 1 .. Len(out) /\ DOMAIN out' = 1 .. Len(out')
      /\ Len(out) \in Nat /\ Len(out') \in Nat /\ Len(out') >= Len(out)
      /\ \A x \in 1 .. Len(out) : out'[x] = out[x]
      /\ \A x \in Len(out) + 1 .. Len(out') : out'[x].range = num
  BY DEF Extended
<1>2. \A x \in DOMAIN out' : x \in 1 .. Len(out) \/ x \in Len(out) + 1 .. Len(out')
  BY <1>1
<1>3. \A x \in 1 .. Len(out) : x \in DOMAIN out /\ out'[x] = out[x] /\ x \in DOMAIN out'
  BY <1>1
<1>4. \A x \in Len(out) + 1 .. Len(out') : x \in DOMAIN out'
  BY <1>1
<1>5. ASSUME NEW i \in DOMAIN out', out'[i].range = num
      PROVE  out'[i].pic \in A \cup B
  BY <1>2, <1>3, <1>5 DEF Exactly
<1>6. ASSUME NEW i \in DOMAIN out', NEW j \in DOMAIN out', i # j,
             out'[i].range = num, out'[j].range = num
      PROVE  out'[i].pic # out'[j].pic
  <2>1. CASE i \in 1 .. Len(out) /\ j \in 1 .. Len(out)
    BY <1>3, <1>6, <2>1 DEF Exactly
  <2>2. CASE i \in Len(out) + 1 .. Len(out') /\ j \in Len(out) + 1 .. Len(out')
    BY <1>6, <2>2
  <2>3. CASE i \in 1 .. Len(out) /\ j \in Len(out) + 1 .. Len(out')
    <3>1. out'[i].pic \in A /\ out'[j].pic \in B
      BY <1>3, <1>6, <2>3 DEF Exactly
    <3>2. QED
      BY <3>1
  <2>4. CASE j \in 1 .. Len(out) /\ i \in Len(out) + 1 .. Len(out')
    <3>1. out'[j].pic \in A /\ out'[i].pic \in B
      BY <1>3, <1>6, <2>4 DEF Exactly
    <3>2. QED
      BY <3>1
  <2>5. QED
    BY <1>2, <2>1, <2>2, <2>3, <2>4
<1>7. ASSUME NEW x \in A \cup B
      PROVE  \E i \in DOMAIN out' : out'[i].range = num /\ out'[i].pic = x
  <2>1. CASE x \in A
    <3>1. PICK i \in DOMAIN out : out[i].range = num /\ out[i].pic = x
      BY <1>7, <2>1 DEF Exactly
    <3>2. QED
      BY <1>1, <1>3, <3>1
  <2>2. CASE x \in B
    <3>1. PICK i \in Len(out) + 1 .. Len(out') : out'[i].pic = x
      BY <1>7, <2>2
    <3>2. QED
      BY <1>1, <1>4, <3>1
  <2>3. QED
    BY <1>7, <2>1, <2>2
<1>8. QED
  BY <1>5, <1>6, <1>7 DEF Exactly

LEMMA CopiedPicsFacts ==
  ASSUME FirstCopied \in Int
  PROVE  /\ CopiedPics(FirstCopied) = {}
         /\ \A m \in Int : m >= FirstCopied =>
              CopiedPics(m + 1) = CopiedPics(m) \cup {x \in {Shown(m)} : Wanted(m)}
<1>1. FirstCopied .. FirstCopied - 1 = {}
  OBVIOUS
<1>2. CopiedPics(FirstCopied) = {}
  BY <1>1 DEF CopiedPics
<1>3. ASSUME NEW m \in Int, m >= FirstCopied
      PROVE  CopiedPics(m + 1) = CopiedPics(m) \cup {x \in {Shown(m)} : Wanted(m)}
  <2>1. FirstCopied .. m + 1 - 1 = (FirstCopied .. m - 1) \cup {m}
    BY <1>3
  <2>2. {k \in FirstCopied .. m + 1 - 1 : Wanted(k)}
          = {k \in FirstCopied .. m - 1 : Wanted(k)} \cup {k \in {m} : Wanted(k)}
    BY <2>1
  <2>3. CopiedPics(m + 1)
          = {Shown(i) : i \in {k \in FirstCopied .. m + 1 - 1 : Wanted(k)}}
    BY DEF CopiedPics
  <2>4. QED
    BY <2>2, <2>3 DEF CopiedPics
<1>4. QED
  BY <1>2, <1>3

LEMMA SamePics ==
  ASSUME UNCHANGED <<input, num>>
  PROVE  CopiedPics(streampic)' = CopiedPics(streampic')
<1>1. /\ FirstCopied' = FirstCopied /\ \A x : Wanted(x)' <=> Wanted(x)
      /\ \A x : Shown(x)' = Shown(x)
  BY SameCopy, SameRange
<1>2. PICK m : m = streampic'
  OBVIOUS
<1>3. {k \in FirstCopied .. m - 1 : Wanted(k)}' = {k \in FirstCopied .. m - 1 : Wanted(k)}
  BY <1>1
<1>4. {Shown(i) : i \in {k \in FirstCopied .. m - 1 : Wanted(k)}}'
        = {Shown(i) : i \in {k \in FirstCopied .. m - 1 : Wanted(k)}}
  BY <1>1, <1>3
<1>5. QED
  BY <1>2, <1>4 DEF CopiedPics


(* Within a range: what was written before, and what the step adds.        *)
LEMMA WrittenGrows ==
  ASSUME InputOK, TypeOK, WrittenOK, [Next]_vars, Within, shown.ordered, InRange, intact,
         NEW B, WrittenPics' = WrittenPics \cup B,
         \A i \in Len(out) + 1 .. Len(out') : out'[i].pic \in B,
         \A i, j \in Len(out) + 1 .. Len(out') : i # j => out'[i].pic # out'[j].pic,
         WrittenPics \cap B = {},
         \A x \in B : \E i \in Len(out) + 1 .. Len(out') : out'[i].pic = x
  PROVE  WrittenOK'
<1>1. Extended
  BY OutExtended
<1>2. Exactly(out, num, WrittenPics)
  BY DEF WrittenOK
<1>3. PICK A : A = WrittenPics
  OBVIOUS
<1>4. Exactly(out', num, A \cup B)
  BY <1>1, <1>2, <1>3, MoreExactly
<1>5. num' = num
  BY DEF Within
<1>6. Exactly(out', num', WrittenPics')
  BY <1>3, <1>4, <1>5
<1>7. QED
  BY <1>6 DEF WrittenOK, Exactly

LEMMA WrittenHead ==
  ASSUME InputOK, TypeOK, RangeOK, CopyOK, WrittenOK, [Next]_vars, Within,
         shown.ordered, intact', RecodeHead
  PROVE  WrittenOK'
<1>1. /\ pc = "head" /\ pc' = "copy" /\ InRange /\ num \in 1 .. Len(ranges)
      /\ UNCHANGED <<input, num, streampic>>
  BY NumInRange DEF RecodeHead, InRange, video
<1>2. /\ start \in Nat /\ firstseqhdr \in Nat /\ firstseqhdr >= start
      /\ FirstCopied \in Int /\ start' = start /\ firstseqhdr' = firstseqhdr
  BY <1>1, RangeFacts, FirstEndsFacts, SameRange
<1>3. streampic = FirstCopied
  BY <1>1 DEF CopyOK
<1>4. CopiedPics(streampic)' = {} /\ CopiedPics(streampic) = {}
  BY <1>1, <1>2, <1>3, SamePics, CopiedPicsFacts
<1>5. WrittenPics = {} /\ WrittenPics' = start .. firstseqhdr - 1
  BY <1>1, <1>2, <1>4 DEF WrittenPics, HeadPics, TailPics
<1>6. TypeOK' /\ Extended
  BY TypeNext, OutExtended
<1>7. Len(out) \in Nat /\ Len(out') \in Nat
  BY <1>6 DEF Extended
<1>8. CASE firstseqhdr > start
  <2>1. PICK k \in 0 .. firstseqhdr - start :
          Recoded(k, start) /\ intact' = (intact /\ k = firstseqhdr - start)
    BY <1>8, HeadFacts
  <2>2. /\ Len(out') = Len(out) + k
        /\ \A j \in 1 .. k : out'[Len(out) + j].pic = start + j - 1
    BY <2>1 DEF Recoded, RecodedPicture
  <2>3. ASSUME NEW i \in Len(out) + 1 .. Len(out')
        PROVE  out'[i].pic = start + (i - Len(out)) - 1 /\ i - Len(out) \in 1 .. k
    <3>1. i - Len(out) \in 1 .. k /\ i = Len(out) + (i - Len(out))
      BY <1>7, <2>1, <2>2
    <3>2. QED
      BY <2>2, <3>1
  <2>4. \A i \in Len(out) + 1 .. Len(out') : out'[i].pic \in start .. firstseqhdr - 1
    <3>1. PICK a \in Nat : a = start
      BY <1>2
    <3>2. PICK b \in Nat : b = firstseqhdr
      BY <1>2
    <3>3. b >= a /\ k \in 0 .. b - a
      BY <1>2, <2>1, <3>1, <3>2
    <3>4. \A d \in 1 .. k : a + d - 1 \in a .. b - 1
      BY <3>3
    <3>5. QED
      BY <2>3, <3>1, <3>2, <3>4
  <2>5. \A i, j \in Len(out) + 1 .. Len(out') : i # j => out'[i].pic # out'[j].pic
    BY <1>2, <1>7, <2>1, <2>3
  <2>6. ASSUME NEW x \in start .. firstseqhdr - 1
        PROVE  \E i \in Len(out) + 1 .. Len(out') : out'[i].pic = x
    <3>1. k = firstseqhdr - start
      BY <2>1
    <3>2. x - start + 1 \in 1 .. k /\ start + (x - start + 1) - 1 = x
      BY <1>2, <3>1
    <3>3. Len(out) + (x - start + 1) \in Len(out) + 1 .. Len(out')
      BY <1>7, <2>2, <3>2
    <3>4. QED
      BY <2>2, <3>2, <3>3
  <2>7. intact
    BY <2>1
  <2>8. QED
    BY <1>1, <1>5, <2>4, <2>5, <2>6, <2>7, WrittenGrows
<1>9. CASE ~(firstseqhdr > start)
  <2>1. UNCHANGED <<out, mux, intact>>
    BY <1>9, HeadFacts
  <2>2. start .. firstseqhdr - 1 = {} /\ Len(out) + 1 .. Len(out') = {}
    BY <1>2, <1>7, <1>9, <2>1
  <2>3. QED
    BY <1>1, <1>5, <2>1, <2>2, WrittenGrows
<1>10. QED
  BY <1>8, <1>9

LEMMA WrittenCopy ==
  ASSUME InputOK, TypeOK, RangeOK, CopyOK, WrittenOK, [Next]_vars, Within,
         shown.ordered, intact', CopyPicture
  PROVE  WrittenOK'
<1>1. /\ num \in 1 .. Len(ranges) /\ pc = "pass" /\ InRange
      /\ streampic \in FirstCopied .. CopyStop - 1
      /\ streampic' = streampic + 1 /\ UNCHANGED <<input, num>>
      /\ IF Wanted(streampic) THEN CopiedTo(streampic) ELSE UNCHANGED <<out, mux>>
  BY CopyStep
<1>2. pc' = "pass" /\ intact' = intact
  BY DEF CopyPicture
<1>3. /\ n \in Nat /\ FirstCopied \in 0 .. n - 1 /\ CopyStop \in 0 .. n - 1
      /\ start' = start /\ firstseqhdr' = firstseqhdr
      /\ start \in Nat /\ firstseqhdr \in Nat
  BY <1>1, FirstEndsFacts, RangeFacts, SameRange
<1>4. streampic \in 0 .. n - 1 /\ Shown(streampic) \in Int
  BY <1>1, <1>3, TableNumbered DEF Numbered
<1> DEFINE B == {x \in {Shown(streampic)} : Wanted(streampic)}
<1>5. WrittenPics' = WrittenPics \cup B
  <2>1. CopiedPics(streampic)' = CopiedPics(streampic) \cup B
    BY <1>1, <1>3, <1>4, SamePics, CopiedPicsFacts
  <2>2. HeadPics' = HeadPics /\ TailPics' = {} /\ TailPics = {}
    BY <1>1, <1>2, <1>3 DEF HeadPics, TailPics
  <2> HIDE DEF B
  <2>3. QED
    BY <2>1, <2>2 DEF WrittenPics
<1>6. ASSUME Wanted(streampic)
      PROVE  Shown(streampic) \notin WrittenPics
  <2>1. Shown(streampic) \notin HeadPics /\ TailPics = {}
    BY <1>1, <1>3, <1>4, <1>6 DEF HeadPics, TailPics, Wanted
  <2>2. ASSUME NEW i \in FirstCopied .. streampic - 1
        PROVE  Shown(i) # Shown(streampic)
    <3>1. i \in 0 .. n - 1 /\ i # streampic
      BY <1>3, <1>4
    <3>2. QED
      BY <1>4, <3>1, TableNumbered DEF Numbered
  <2>3. QED
    BY <2>1, <2>2 DEF WrittenPics, CopiedPics
<1>7. Len(out) \in Nat /\ Len(out') \in Nat
  BY OutExtended DEF Extended
<1>8. CASE Wanted(streampic)
  <2>1. B = {Shown(streampic)}
    BY <1>8
  <2>2. Len(out') = Len(out) + 1 /\ out'[Len(out) + 1].pic = Shown(streampic)
    BY <1>1, <1>8 DEF CopiedTo
  <2>3. Len(out) + 1 .. Len(out') = {Len(out) + 1}
    BY <1>7, <2>2
  <2>4. WrittenPics \cap B = {}
    BY <1>6, <1>8, <2>1
  <2> HIDE DEF B
  <2>5. QED
    BY <1>1, <1>2, <1>5, <2>1, <2>2, <2>3, <2>4, WrittenGrows
<1>9. CASE ~Wanted(streampic)
  <2>1. B = {} /\ out' = out
    BY <1>1, <1>9
  <2>2. Len(out) + 1 .. Len(out') = {}
    BY <1>7, <2>1
  <2> HIDE DEF B
  <2>3. QED
    BY <1>1, <1>2, <1>5, <2>1, <2>2, WrittenGrows
<1>10. QED
  BY <1>8, <1>9

LEMMA WrittenTail ==
  ASSUME InputOK, TypeOK, RangeOK, CopyOK, WrittenOK, [Next]_vars, Within,
         shown.ordered, intact', RecodeTail
  PROVE  WrittenOK'
<1>1. /\ pc = "tail" /\ pc' = "end" /\ InRange /\ num \in 1 .. Len(ranges)
      /\ UNCHANGED <<input, num, streampic>>
  BY NumInRange DEF RecodeTail, InRange, video
<1>2. /\ start' = start /\ stop' = stop /\ firstseqhdr' = firstseqhdr
      /\ (TailMissing' <=> TailMissing) /\ StartRecode' = StartRecode
  BY <1>1, SameRange
<1>3. /\ start \in Nat /\ stop \in Nat /\ stop < pictures /\ pictures \in Nat /\ n \in Nat
      /\ FirstCopied \in 0 .. n - 1 /\ CopyStop \in 0 .. n - 1 /\ start < stop
      /\ firstseqhdr \in Nat
  BY <1>1, RangeFacts, FirstEndsFacts DEF RangeOK, Inside
<1>4. CopiedPics(streampic)' = CopiedPics(streampic)
  BY <1>1, SamePics
<1>5. HeadPics = start .. firstseqhdr - 1 /\ HeadPics' = HeadPics /\ TailPics = {}
  BY <1>1, <1>2 DEF HeadPics, TailPics
<1>6. Len(out) \in Nat /\ Len(out') \in Nat
  BY OutExtended DEF Extended
<1>7. CASE TailMissing
  <2>1. /\ StartRecode \in firstseqhdr + 1 .. stop - 1
    BY <1>1, <1>7, TailBegins
  <2>2. WrittenPics' = WrittenPics \cup (StartRecode .. stop - 1)
    <3>1. TailPics' = StartRecode .. stop - 1
      BY <1>1, <1>2, <1>7 DEF TailPics
    <3>2. QED
      BY <1>4, <1>5, <3>1 DEF WrittenPics
  <2>3. ASSUME NEW x \in StartRecode .. stop - 1
        PROVE  x \notin WrittenPics
    <3>1. x \notin HeadPics
      BY <1>3, <1>5, <2>1
    <3>2. ASSUME NEW i \in FirstCopied .. streampic - 1, Shown(i) = x
          PROVE  FALSE
      <4>1. streampic = FirstCopied \/ streampic <= CopyStop
        BY <1>1 DEF CopyOK
      <4>2. streampic \in Int
        BY DEF TypeOK
      <4>3. i \in 0 .. n - 1 /\ i < CopyStop
        BY <1>3, <3>2, <4>1, <4>2
      <4>4. x \in firstseqhdr .. stop - 1 /\ x \in 0 .. pictures - 1 /\ x >= StartRecode
        BY <1>3, <2>1
      <4>5. Stored(x) > CopyStop
        BY <1>1, <1>3, <1>7, <4>4, RangeCovered
      <4>6. i = Stored(x)
        BY <3>2, <4>3, <4>4, TableNumbered, StoredFacts
      <4>7. QED
        BY <1>3, <4>3, <4>5, <4>6
    <3>3. QED
      BY <1>5, <3>1, <3>2 DEF WrittenPics, CopiedPics
  <2>4. PICK k \in 0 .. stop - StartRecode :
          Recoded(k, StartRecode) /\ intact' = (intact /\ k = stop - StartRecode)
    BY <1>7, TailFacts
  <2>5. PICK a \in Nat : a = StartRecode
    BY <1>3, <2>1
  <2>6. /\ Len(out') = Len(out) + k
        /\ \A j \in 1 .. k : out'[Len(out) + j].pic = a + j - 1
    BY <2>4, <2>5 DEF Recoded, RecodedPicture
  <2>7. ASSUME NEW i \in Len(out) + 1 .. Len(out')
        PROVE  out'[i].pic = a + (i - Len(out)) - 1 /\ i - Len(out) \in 1 .. k
    <3>1. i - Len(out) \in 1 .. k /\ i = Len(out) + (i - Len(out))
      BY <1>6, <2>4, <2>6
    <3>2. QED
      BY <2>6, <3>1
  <2>8. \A i \in Len(out) + 1 .. Len(out') : out'[i].pic \in a .. stop - 1
    BY <1>3, <2>4, <2>5, <2>7
  <2>9. \A i, j \in Len(out) + 1 .. Len(out') : i # j => out'[i].pic # out'[j].pic
    BY <1>6, <2>4, <2>5, <2>7
  <2>10. ASSUME NEW x \in a .. stop - 1
         PROVE  \E i \in Len(out) + 1 .. Len(out') : out'[i].pic = x
    <3>1. k = stop - a
      BY <2>4, <2>5
    <3>2. x - a + 1 \in 1 .. k /\ a + (x - a + 1) - 1 = x
      BY <1>3, <2>5, <3>1
    <3>3. Len(out) + (x - a + 1) \in Len(out) + 1 .. Len(out')
      BY <1>6, <2>6, <3>2
    <3>4. QED
      BY <2>6, <3>2, <3>3
  <2>11. intact
    BY <2>4
  <2>12. WrittenPics \cap (a .. stop - 1) = {}
    BY <2>3, <2>5
  <2>13. WrittenPics' = WrittenPics \cup (a .. stop - 1)
    BY <2>2, <2>5
  <2>14. QED
    BY <1>1, <2>8, <2>9, <2>10, <2>11, <2>12, <2>13, WrittenGrows
<1>8. CASE ~TailMissing
  <2>1. UNCHANGED <<out, mux, intact>>
    BY <1>8, TailFacts
  <2>2. WrittenPics' = WrittenPics \cup {}
    <3>1. TailPics' = {}
      BY <1>2, <1>8 DEF TailPics
    <3>2. QED
      BY <1>4, <1>5, <3>1 DEF WrittenPics
  <2>3. Len(out) + 1 .. Len(out') = {}
    BY <1>6, <2>1
  <2>4. QED
    BY <1>1, <2>1, <2>2, <2>3, WrittenGrows
<1>9. QED
  BY <1>7, <1>8

LEMMA WrittenBegin ==
  ASSUME InputOK, TypeOK, RangeOK, Begin
  PROVE  WrittenOK'
<1>1. /\ Begun /\ UNCHANGED <<input, num>> /\ pc = "range" /\ pc' = "head"
      /\ out' = out /\ num \in 1 .. Len(ranges)
  BY BeginFacts, NumInRange DEF Begin
<1>2. \A i \in DOMAIN out : out[i].range # num
  BY <1>1 DEF RangeOK, Tagged, InRange
<1>3. CopiedPics(streampic)' = {}
  <2>1. streampic' = FirstCopied /\ FirstCopied \in Int
    BY <1>1, FirstEndsFacts DEF Begun, FirstCopied
  <2>2. QED
    BY <1>1, <2>1, SamePics, CopiedPicsFacts
<1>4. WrittenPics' = {}
  BY <1>1, <1>3 DEF WrittenPics, HeadPics, TailPics
<1>5. Exactly(out', num', WrittenPics')
  BY <1>1, <1>2, <1>4 DEF Exactly
<1>6. QED
  BY <1>5 DEF WrittenOK, Exactly

LEMMA WrittenOther ==
  ASSUME InputOK, TypeOK, RangeOK, WrittenOK, [Next]_vars, Within, shown.ordered, InRange,
         intact', ~Begin, ~RecodeHead, ~CopyPicture, ~RecodeTail
  PROVE  WrittenOK'
<1>1. out' = out /\ UNCHANGED <<input, num>>
  BY OutExtended DEF Within
<1>2. streampic' = streampic
  BY VideoUnmoved DEF CopyVideoEnds, video
<1>3. intact' = intact /\ (pc' = "head" <=> pc = "head") /\ (pc' = "end" <=> pc = "end")
  BY DEF Next, vars, EmptyRange, Pass, CopyVideoEnds, InRange, Within,
         CopyAudio, PassEnds, CopyCancelled, ReadingEnds, End, Cancel, NextRange
<1>4. /\ start' = start /\ stop' = stop /\ firstseqhdr' = firstseqhdr
      /\ (TailMissing' <=> TailMissing) /\ StartRecode' = StartRecode
  BY <1>1, SameRange
<1>5. CopiedPics(streampic)' = CopiedPics(streampic)
  BY <1>1, <1>2, SamePics
<1>6. HeadPics' = HeadPics /\ TailPics' = TailPics
  BY <1>3, <1>4 DEF HeadPics, TailPics
<1>7. WrittenPics' = WrittenPics
  BY <1>5, <1>6 DEF WrittenPics
<1>8. Exactly(out', num', WrittenPics')
  BY <1>1, <1>3, <1>7 DEF WrittenOK
<1>9. QED
  BY <1>8 DEF WrittenOK, Exactly

LEMMA WrittenOKNext ==
  ASSUME InputOK, TypeOK, RangeOK, CopyOK, WrittenOK, [Next]_vars
  PROVE  WrittenOK'
<1> SUFFICES ASSUME shown.ordered, InRange', intact' PROVE WrittenOK'
  BY InputSame DEF WrittenOK, input
<1>1. CASE EmptyRange \/ End
  BY <1>1 DEF EmptyRange, End, NextRange, InRange
<1>2. CASE Within
  <2>1. InRange
    BY <1>2 DEF Within
  <2>2. QED
    BY <1>2, <2>1, WrittenBegin, WrittenHead, WrittenCopy, WrittenTail, WrittenOther
<1>3. QED
  BY <1>1, <1>2, Kinds, WrittenBegin

(* Where the pictures of a range end: at stop, or at the sequence header   *)
(* if that one is behind it.                                               *)
RangeEnd == Max({stop, firstseqhdr})

LEMMA MaxOfTwo ==
  ASSUME NEW a \in Nat, NEW b \in Nat
  PROVE  Max({a, b}) = IF a >= b THEN a ELSE b
<1>1. Max({a, b}) \in {a, b} /\ \A x \in {a, b} : x <= Max({a, b})
  <2>1. {a, b} \subseteq 0 .. a + b /\ {a, b} # {} /\ a + b \in Nat
    OBVIOUS
  <2>2. QED
    BY <2>1, MaxFacts
<1>2. PICK m : m = Max({a, b})
  OBVIOUS
<1>3. m \in {a, b} /\ a <= m /\ b <= m
  BY <1>1, <1>2
<1>4. QED
  BY <1>2, <1>3

LEMMA WrittenInside ==
  ASSUME InputOK, TypeOK, RangeOK, CopyOK, shown.ordered, InRange
  PROVE  /\ num \in 1 .. Len(ranges) /\ start \in Nat /\ stop \in Nat /\ firstseqhdr \in Nat
         /\ start < stop /\ start <= firstseqhdr
         /\ RangeEnd = IF stop >= firstseqhdr THEN stop ELSE firstseqhdr
         /\ WrittenPics \subseteq start .. RangeEnd - 1
<1>1. num \in 1 .. Len(ranges)
  BY NumInRange DEF InRange
<1>2. /\ start \in Nat /\ stop \in Nat /\ firstseqhdr \in Nat
      /\ start < stop /\ start <= firstseqhdr /\ n \in Nat
      /\ FirstCopied \in 0 .. n - 1 /\ CopyStop \in 0 .. n - 1
  BY <1>1, RangeFacts, FirstEndsFacts DEF RangeOK, Inside
<1>3. RangeEnd = IF stop >= firstseqhdr THEN stop ELSE firstseqhdr
  BY <1>2, MaxOfTwo DEF RangeEnd
<1>4. HeadPics \subseteq start .. RangeEnd - 1
  BY <1>2, <1>3 DEF HeadPics
<1>5. CopiedPics(streampic) \subseteq start .. RangeEnd - 1
  <2> SUFFICES ASSUME NEW i \in FirstCopied .. streampic - 1, Wanted(i)
               PROVE  Shown(i) \in start .. RangeEnd - 1
    BY DEF CopiedPics
  <2>1. streampic = FirstCopied \/ streampic <= CopyStop
    BY DEF CopyOK
  <2>2. i \in FirstCopied .. CopyStop - 1
    BY <1>2, <2>1 DEF TypeOK
  <2>3. Shown(i) \in firstseqhdr .. stop - 1
    BY <1>1, <1>2, <2>2, CopiedShown
  <2>4. QED
    BY <1>2, <1>3, <2>3
<1>6. TailPics \subseteq start .. RangeEnd - 1
  <2>1. TailMissing => StartRecode \in firstseqhdr + 1 .. stop - 1
    BY <1>1, TailBegins
  <2>2. QED
    BY <1>2, <1>3, <2>1 DEF TailPics
<1>7. QED
  BY <1>1, <1>2, <1>3, <1>4, <1>5, <1>6 DEF WrittenPics

(* At the end of a range that was copied to its end, that is all of it.    *)
LEMMA WrittenAll ==
  ASSUME InputOK, TypeOK, RangeOK, CopyOK, shown.ordered, pc = "end", ~cancelled, whole
  PROVE  WrittenPics = start .. RangeEnd - 1
<1>1. InRange
  BY DEF InRange
<1>2. /\ num \in 1 .. Len(ranges) /\ start \in Nat /\ stop \in Nat /\ firstseqhdr \in Nat
      /\ start < stop /\ start <= firstseqhdr
      /\ RangeEnd = IF stop >= firstseqhdr THEN stop ELSE firstseqhdr
      /\ WrittenPics \subseteq start .. RangeEnd - 1
  BY <1>1, WrittenInside
<1>3. /\ n \in Nat /\ FirstCopied \in 0 .. n - 1 /\ CopyStop \in 0 .. n - 1
      /\ pictures \in Nat /\ stop < pictures
  BY <1>2, FirstEndsFacts, RangeFacts
<1>4. streampic >= CopyStop /\ streampic \in Int
  BY <1>1 DEF RangeOK, LoopEnds, CopyOK, TypeOK
<1> SUFFICES ASSUME NEW x \in start .. RangeEnd - 1
             PROVE  x \in WrittenPics
  BY <1>2
<1>5. CASE x < firstseqhdr
  BY <1>2, <1>5 DEF WrittenPics, HeadPics
<1>6. CASE x >= firstseqhdr
  <2>1. x \in firstseqhdr .. stop - 1 /\ x \in 0 .. pictures - 1
    BY <1>2, <1>3, <1>6
  <2>2. CASE TailMissing /\ x >= StartRecode
    <3>1. StartRecode \in firstseqhdr + 1 .. stop - 1
      BY <1>2, <2>2, TailBegins
    <3>2. x \in StartRecode .. stop - 1
      BY <2>1, <2>2, <3>1
    <3>3. QED
      BY <2>2, <3>2 DEF WrittenPics, TailPics
  <2>3. CASE ~(TailMissing /\ x >= StartRecode)
    <3>1. Stored(x) \in FirstCopied .. CopyStop - 1
      BY <1>2, <2>1, <2>3, RangeCovered
    <3>2. Stored(x) \in FirstCopied .. streampic - 1
      BY <1>3, <1>4, <3>1
    <3>3. Shown(Stored(x)) = x
      BY <2>1, TableNumbered, StoredFacts
    <3>4. Wanted(Stored(x))
      BY <1>6, <3>3 DEF Wanted
    <3>5. x \in CopiedPics(streampic)
      BY <3>2, <3>3, <3>4 DEF CopiedPics
    <3>6. QED
      BY <3>5 DEF WrittenPics
  <2>4. QED
    BY <2>2, <2>3
<1>7. QED
  BY <1>2, <1>5, <1>6

LEMMA ExactlyWritten ==
  ASSUME NEW r, NEW b, NEW e
  PROVE  Exactly(out, r, b .. e - 1) <=> WrittenExactly(r, b, e)
BY DEF Exactly, WrittenExactly, Of

LEMMA TroubleStays ==
  ASSUME [Next]_vars, Untroubled'
  PROVE  Untroubled
BY FlawsStay DEF Untroubled

(* What has been written of an earlier range remains.                      *)
LEMMA ExactlyRemains ==
  ASSUME Extended, NEW r, r # num, NEW pics, Exactly(out, r, pics)
  PROVE  Exactly(out', r, pics)
<1>1. /\ DOMAIN out = 1 .. Len(out) /\ DOMAIN out' = 1 .. Len(out')
      /\ Len(out) \in Nat /\ Len(out') \in Nat /\ Len(out') >= Len(out)
      /\ \A x \in 1 .. Len(out) : out'[x] = out[x]
      /\ \A x \in Len(out) + 1 .. Len(out') : out'[x].range = num
  BY DEF Extended
<1>2. \A x \in DOMAIN out' : out'[x].range = r => x \in DOMAIN out /\ out'[x] = out[x]
  <2> SUFFICES ASSUME NEW x \in 1 .. Len(out'), out'[x].range = r
               PROVE  x \in 1 .. Len(out)
    BY <1>1
  <2>1. x \notin Len(out) + 1 .. Len(out')
    BY <1>1
  <2>2. QED
    BY <1>1, <2>1
<1>3. \A x \in DOMAIN out : x \in DOMAIN out' /\ out'[x] = out[x]
  BY <1>1
<1>4. QED
  BY <1>2, <1>3 DEF Exactly

OnceIn(r) ==
  Exactly(out, r, ranges[r].start ..
                    Max({ranges[r].stop, NextSeqHeader(ranges[r].start)}) - 1)

LEMMA OnceNext ==
  ASSUME InputOK, TypeOK, RangeOK, CopyOK, WrittenOK, [Next]_vars,
         shown.ordered, Untroubled', \A r \in Completed : OnceIn(r),
         NEW r \in DOMAIN ranges, r < num', ranges[r].start < ranges[r].stop
  PROVE  Exactly(out', r, ranges[r].start ..
                   Max({ranges[r].stop, NextSeqHeader(ranges[r].start)}) - 1)
<1>1. r \in Nat /\ num \in Nat
  <2>1. DOMAIN ranges = 1 .. Len(ranges) /\ Len(ranges) \in Nat
    BY LenProperties DEF InputOK
  <2>2. num \in 1 .. Len(ranges) + 1
    BY DEF TypeOK
  <2>3. QED
    BY <2>1, <2>2
<1>2. CASE r < num
  <2>1. r # num /\ r \in Completed
    BY <1>1, <1>2 DEF Completed
  <2>2. OnceIn(r)
    BY <2>1
  <2>3. QED
    BY <2>1, <2>2, OutExtended, ExactlyRemains DEF OnceIn
<1>3. CASE ~(r < num)
  <2>1. num' # num
    BY <1>1, <1>3
  <2>2. EmptyRange \/ End
    BY <2>1, Kinds DEF Within, Begin
  <2>3. r = num
    BY <1>1, <1>3, <2>2 DEF EmptyRange, End, NextRange
  <2>4. End /\ pc = "end" /\ out' = out
    <3>1. ranges[r] \in [start : Nat, stop : Nat]
      BY ElementOfSeq, LenProperties DEF InputOK
    <3>2. start # stop
      BY <2>3, <3>1 DEF start, stop
    <3>3. QED
      BY <2>2, <3>2 DEF EmptyRange, End
  <2>5. intact /\ whole /\ ~cancelled
    BY TroubleStays DEF Untroubled
  <2>6. InRange
    BY <2>4 DEF InRange
  <2>7. Exactly(out, num, start .. RangeEnd - 1)
    BY <2>4, <2>5, <2>6, WrittenAll DEF WrittenOK
  <2>8. QED
    BY <2>3, <2>4, <2>5, <2>7 DEF RangeEnd, firstseqhdr, start, stop, Exactly
<1>4. QED
  BY <1>2, <1>3

LEMMA WrittenInvariant == Spec => []WrittenOK
<1>1. Init => WrittenOK
  BY DEF Init, WrittenOK, InRange
<1>2. InputOK /\ TypeOK /\ RangeOK /\ CopyOK /\ WrittenOK /\ [Next]_vars => WrittenOK'
  BY WrittenOKNext
<1>3. QED
  BY <1>1, <1>2, InputInvariant, TypeCorrect, RangeInvariant, CopyInvariant, PTL DEF Spec

LEMMA OnceInvariant ==
  Spec => [](shown.ordered /\ Untroubled => \A r \in Completed : OnceIn(r))
<1> DEFINE Once == shown.ordered /\ Untroubled => \A r \in Completed : OnceIn(r)
<1>1. Init => Once
  <2> SUFFICES ASSUME Init PROVE Completed = {}
    OBVIOUS
  <2>1. num = 1 /\ InputOK
    BY InputInit DEF Init
  <2>2. DOMAIN ranges = 1 .. Len(ranges) /\ Len(ranges) \in Nat
    BY <2>1, LenProperties DEF InputOK
  <2>3. QED
    BY <2>1, <2>2 DEF Completed
<1>2. InputOK /\ TypeOK /\ RangeOK /\ CopyOK /\ WrittenOK /\ Once /\ [Next]_vars => Once'
  <2> SUFFICES ASSUME InputOK, TypeOK, RangeOK, CopyOK, WrittenOK, Once, [Next]_vars,
                      shown'.ordered, Untroubled', NEW r \in Completed'
               PROVE  OnceIn(r)'
    OBVIOUS
  <2>1. shown.ordered /\ Untroubled /\ ranges' = ranges /\ shown' = shown /\ p' = p
    BY InputSame, TroubleStays DEF input
  <2>2. /\ r \in DOMAIN ranges /\ r < num' /\ ranges[r].start < ranges[r].stop
    BY <2>1 DEF Completed
  <2>3. Exactly(out', r, ranges[r].start ..
                  Max({ranges[r].stop, NextSeqHeader(ranges[r].start)}) - 1)
    BY <2>1, <2>2, OnceNext
  <2>4. NextSeqHeader(ranges[r].start)' = NextSeqHeader(ranges[r].start)
    BY <2>1 DEF NextSeqHeader, pictures, Stored
  <2>5. QED
    BY <2>1, <2>3, <2>4 DEF OnceIn, Exactly
<1> HIDE DEF Once
<1>3. Spec => []Once
  BY <1>1, <1>2, InputInvariant, TypeCorrect, RangeInvariant, CopyInvariant,
     WrittenInvariant, PTL DEF Spec
<1>4. QED
  BY <1>3 DEF Once

(* Of what an encoder made, every picture of a completed range is in the   *)
(* output once, and no other, whatever had to be decoded and encoded again *)
(* at its begin and at its end.                                            *)
THEOREM PicturesWrittenOnce == Spec => []EachPictureOnce
<1>1. (shown.ordered /\ Untroubled => \A r \in Completed : OnceIn(r)) => EachPictureOnce
  BY ExactlyWritten DEF OnceIn, EachPictureOnce
<1>2. QED
  BY <1>1, OnceInvariant, PTL

-----------------------------------------------------------------------------
(* Decoding times: what was put into the multiplexer is decoded before the *)
(* time that was kept for the next I or P picture, and that one before     *)
(* anything that is still to come is displayed.                            *)
NoHeadless == \A r \in DOMAIN ranges : ~Headless(r)

Behind == \A j \in DOMAIN out : out[j].dts < mux.dts

CopyAhead ==
  /\ \/ streampic = FirstCopied /\ mux.dts < Time(firstseqhdr)
     \/ streampic > FirstCopied /\ mux.dts = Time(Shown(LastReference(p, streampic)))
  /\ \A y \in streampic .. n - 1 : Wanted(y) =>
       \A j \in DOMAIN out : out[j].dts < Time(Shown(y))

Ahead ==
  /\ pc = "range" /\ ~mux.empty => mux.dts < mux.vpts
  /\ pc = "head" => mux.dts < Time(start)
  /\ pc \in {"copy", "pass"} => CopyAhead
  /\ pc = "tail" => /\ mux.dts < Time(stop)
                    /\ TailMissing => mux.dts < Time(StartRecode)
  /\ pc = "end" => mux.dts < Time(stop)

DtsOK == shown.ordered /\ NoHeadless => Decodable /\ Behind /\ Ahead

LEMMA TimeLess ==
  ASSUME videooffset \in Int, NEW x \in Int, NEW y \in Int
  PROVE  /\ Time(x) \in Int /\ Time(y) \in Int
         /\ x <= y => Time(x) <= Time(y)
         /\ x < y => Time(x) < Time(y) /\ Time(x) + FrameTime <= Time(y)
         /\ Time(x) < Time(y) => x < y
         /\ Time(x + 1) = Time(x) + FrameTime
         /\ FrameTime \in Nat /\ FrameTime > 0
<1>1. FrameTime \in Nat /\ FrameTime > 0
  BY SaveMpgAssumption
<1>2. PICK a \in Int : a = x * FrameTime
  BY TimeOrder
<1>3. PICK b \in Int : b = y * FrameTime
  BY TimeOrder
<1>4. (x <= y => a <= b) /\ (x < y => a + FrameTime <= b) /\ (y <= x => b <= a)
  BY <1>2, <1>3, TimeOrder
<1>5. Time(x) = a - videooffset /\ Time(y) = b - videooffset
  BY <1>2, <1>3 DEF Time
<1>6. Time(x + 1) = Time(x) + FrameTime
  BY TimeType
<1>7. /\ a - videooffset \in Int /\ b - videooffset \in Int
      /\ x <= y => a - videooffset <= b - videooffset
      /\ x < y => /\ a - videooffset < b - videooffset
                  /\ a - videooffset + FrameTime <= b - videooffset
      /\ a - videooffset < b - videooffset => x < y
  BY <1>1, <1>4
<1>8. QED
  BY <1>1, <1>5, <1>6, <1>7

LEMMA DtsTypes ==
  ASSUME TypeOK
  PROVE  /\ mux.dts \in Int /\ mux.vpts \in Int /\ videooffset \in Int
         /\ DOMAIN out = 1 .. Len(out) /\ Len(out) \in Nat
         /\ \A j \in DOMAIN out : /\ out[j].dts \in Int /\ out[j].pts \in Int
                                  /\ out[j].pic \in Int /\ out[j].range \in Nat
<1>1. out \in Seq(OutPicture) /\ mux \in Timestamps /\ videooffset \in Int
  BY DEF TypeOK, OutPicture, Timestamps
<1>2. DOMAIN out = 1 .. Len(out) /\ Len(out) \in Nat
  BY <1>1, LenProperties
<1>3. \A j \in DOMAIN out : out[j] \in OutPicture
  BY <1>1, <1>2, ElementOfSeq
<1>4. QED
  BY <1>1, <1>2, <1>3 DEF OutPicture, Timestamps

(* More pictures, each decoded after the one before.                       *)
LEMMA MoreDecodable ==
  ASSUME TypeOK, TypeOK', Extended, Decodable, NEW d \in Int,
         \A j \in DOMAIN out : out[j].dts < d,
         Len(out') > Len(out) => out'[Len(out) + 1].dts >= d,
         \A i \in Len(out) + 2 .. Len(out') : out'[i - 1].dts < out'[i].dts,
         \A i \in Len(out) + 1 .. Len(out') : out'[i].dts <= out'[i].pts
  PROVE  Decodable'
<1>1. /\ DOMAIN out = 1 .. Len(out) /\ DOMAIN out' = 1 .. Len(out')
      /\ Len(out) \in Nat /\ Len(out') \in Nat
      /\ \A x \in 1 .. Len(out) : out'[x] = out[x]
  BY DEF Extended
<1>2. \A i \in DOMAIN out' : out'[i].dts \in Int
  <2>1. \A i \in DOMAIN out' : out'[i] \in OutPicture
    BY <1>1, ElementOfSeq DEF Extended
  <2>2. QED
    BY <2>1 DEF OutPicture
<1>3. ASSUME NEW i \in 2 .. Len(out')
      PROVE  out'[i - 1].dts < out'[i].dts
  <2>1. CASE i <= Len(out)
    <3>1. i \in 2 .. Len(out) /\ i \in 1 .. Len(out) /\ i - 1 \in 1 .. Len(out)
      BY <1>1, <2>1
    <3>2. QED
      BY <1>1, <3>1 DEF Decodable
  <2>2. CASE i = Len(out) + 1
    <3>1. i - 1 = Len(out) /\ i - 1 \in 1 .. Len(out) /\ Len(out') > Len(out)
          /\ i - 1 \in DOMAIN out' /\ i \in DOMAIN out'
      BY <1>1, <2>2
    <3>2. out'[i - 1].dts < d /\ out'[i].dts >= d
      BY <1>1, <2>2, <3>1
    <3>3. out'[i - 1].dts \in Int /\ out'[i].dts \in Int
      BY <1>2, <3>1
    <3>4. QED
      BY <3>2, <3>3
  <2>3. CASE i > Len(out) + 1
    <3>1. i \in Len(out) + 2 .. Len(out')
      BY <1>1, <2>3
    <3>2. QED
      BY <3>1
  <2>4. QED
    BY <1>1, <2>1, <2>2, <2>3
<1>4. ASSUME NEW i \in 1 .. Len(out')
      PROVE  out'[i].dts <= out'[i].pts
  <2>1. CASE i \in 1 .. Len(out)
    BY <1>1, <2>1 DEF Decodable
  <2>2. CASE i \notin 1 .. Len(out)
    <3>1. i \in Len(out) + 1 .. Len(out')
      BY <1>1, <2>2
    <3>2. QED
      BY <3>1
  <2>3. QED
    BY <2>1, <2>2
<1>5. QED
  BY <1>1, <1>3, <1>4 DEF Decodable

(* Pictures that are encoded again are decoded one frame before they are   *)
(* displayed, the first where the one before has left off.                 *)
LEMMA RecodedDecodable ==
  ASSUME TypeOK, TypeOK', Decodable, Behind, NEW a \in Int, NEW k \in Nat,
         Recoded(k, a), mux.dts < Time(a)
  PROVE  Decodable' /\ Behind' /\ mux'.dts < Time(a + k)
<1>1. /\ mux.dts \in Int /\ videooffset \in Int
      /\ DOMAIN out = 1 .. Len(out) /\ Len(out) \in Nat
      /\ \A j \in DOMAIN out : out[j].dts \in Int
  BY DtsTypes
<1>2. /\ Extended /\ Len(out') = Len(out) + k
      /\ \A x \in 1 .. Len(out) : out'[x] = out[x]
      /\ mux'.dts = IF k = 0 THEN mux.dts ELSE Time(a + k - 1)
  BY RecodedExtends DEF Recoded, TypeOK, OutPicture
<1> DEFINE E(x) == Time(a + x - 1)
<1>3. /\ \A x \in Int : E(x) \in Int
      /\ \A x, y \in Int : x < y => E(x) < E(y)
      /\ \A x, y \in Int : x <= y => E(x) <= E(y)
      /\ E(1) = Time(a) /\ E(k + 1) = Time(a + k)
  <2>1. ASSUME NEW x \in Int, NEW y \in Int
        PROVE  E(x) \in Int /\ (x < y => E(x) < E(y)) /\ (x <= y => E(x) <= E(y))
    <3>1. PICK s \in Int : s = a + x - 1
      OBVIOUS
    <3>2. PICK t \in Int : t = a + y - 1
      OBVIOUS
    <3>3. (x < y => s < t) /\ (x <= y => s <= t)
      BY <3>1, <3>2
    <3>4. QED
      BY <1>1, <3>1, <3>2, <3>3, TimeLess
  <2>2. a + 1 - 1 = a /\ a + (k + 1) - 1 = a + k
    OBVIOUS
  <2>3. E(1) = Time(a) /\ E(k + 1) = Time(a + k)
    BY <2>2
  <2>4. QED
    BY <2>1, <2>3
<1>4. /\ mux'.dts = IF k = 0 THEN mux.dts ELSE E(k)
      /\ \A j \in 1 .. k :
           /\ out'[Len(out) + j].pts = E(j)
           /\ out'[Len(out) + j].dts = IF j = 1 THEN mux.dts ELSE E(j - 1)
  <2>1. ASSUME NEW j \in 1 .. k
        PROVE  /\ out'[Len(out) + j].pts = E(j)
               /\ out'[Len(out) + j].dts = IF j = 1 THEN mux.dts ELSE E(j - 1)
    <3>1. E(j - 1) = Time(a + j - 2) /\ E(j) = Time(a + j - 1)
      <4>1. a + (j - 1) - 1 = a + j - 2
        OBVIOUS
      <4>2. QED
        BY <4>1
    <3>2. RecodedPicture(out'[Len(out) + j], a, j)
      BY DEF Recoded
    <3> HIDE DEF E
    <3>3. QED
      BY <3>1, <3>2 DEF RecodedPicture
  <2>2. mux'.dts = IF k = 0 THEN mux.dts ELSE E(k)
    BY <1>2
  <2> HIDE DEF E
  <2>3. QED
    BY <2>1, <2>2
<1> HIDE DEF E
<1>5. ASSUME NEW i \in Len(out) + 1 .. Len(out')
      PROVE  \E j \in 1 .. k : i = Len(out) + j
  <2>1. i - Len(out) \in 1 .. k /\ i = Len(out) + (i - Len(out))
    BY <1>1, <1>2
  <2>2. QED
    BY <2>1
<1>6. PICK d \in Int : d = mux.dts /\ d < E(1)
  BY <1>1, <1>3
<1>7. ASSUME NEW j \in 1 .. k
      PROVE  /\ out'[Len(out) + j].pts = E(j)
             /\ out'[Len(out) + j].dts = IF j = 1 THEN d ELSE E(j - 1)
             /\ j - 1 \in Int /\ j - 1 < j /\ E(j) \in Int /\ E(j - 1) \in Int
             /\ E(j - 1) < E(j) /\ E(1) <= E(j) /\ E(1) \in Int
  <2>1. j \in Int /\ j - 1 \in Int /\ j - 1 < j /\ 1 <= j /\ 1 \in Int
    OBVIOUS
  <2>2. /\ E(j) \in Int /\ E(j - 1) \in Int /\ E(1) \in Int
        /\ E(j - 1) < E(j) /\ E(1) <= E(j)
    BY <1>3, <2>1
  <2>3. /\ out'[Len(out) + j].pts = E(j)
        /\ out'[Len(out) + j].dts = IF j = 1 THEN d ELSE E(j - 1)
    BY <1>4, <1>6
  <2>4. QED
    BY <2>1, <2>2, <2>3
<1>8. ASSUME NEW j \in 1 .. k
      PROVE  /\ out'[Len(out) + j].dts < out'[Len(out) + j].pts
             /\ out'[Len(out) + j].dts \in Int
             /\ out'[Len(out) + j].pts \in Int
  <2>1. CASE j = 1
    BY <1>6, <1>7, <2>1
  <2>2. CASE j # 1
    BY <1>7, <2>2
  <2>3. QED
    BY <2>1, <2>2
<1>9. \A i \in Len(out) + 1 .. Len(out') : out'[i].dts <= out'[i].pts
  <2> SUFFICES ASSUME NEW j \in 1 .. k
               PROVE  out'[Len(out) + j].dts <= out'[Len(out) + j].pts
    BY <1>5
  <2>1. PICK s \in Int : s = out'[Len(out) + j].dts
    BY <1>8
  <2>2. PICK t \in Int : t = out'[Len(out) + j].pts
    BY <1>8
  <2>3. s < t
    BY <1>8, <2>1, <2>2
  <2>4. QED
    BY <2>1, <2>2, <2>3
<1>10. \A i \in Len(out) + 2 .. Len(out') : out'[i - 1].dts < out'[i].dts
  <2> SUFFICES ASSUME NEW i \in Len(out) + 2 .. Len(out')
               PROVE  out'[i - 1].dts < out'[i].dts
    OBVIOUS
  <2>1. PICK j \in 2 .. k : i = Len(out) + j /\ i - 1 = Len(out) + (j - 1)
    <3>1. i - Len(out) \in 2 .. k /\ i = Len(out) + (i - Len(out))
          /\ i - 1 = Len(out) + ((i - Len(out)) - 1)
      BY <1>1, <1>2
    <3>2. QED
      BY <3>1
  <2>2. j \in 1 .. k /\ j # 1 /\ j - 1 \in 1 .. k
    OBVIOUS
  <2>3. out'[i].dts = E(j - 1)
    BY <1>7, <2>1, <2>2
  <2>4. out'[i - 1].dts < out'[i - 1].pts /\ out'[i - 1].pts = E(j - 1)
    BY <1>7, <1>8, <2>1, <2>2
  <2>5. QED
    BY <2>3, <2>4
<1>11. Len(out') > Len(out) => out'[Len(out) + 1].dts >= d
  <2>1. Len(out') > Len(out) => 1 \in 1 .. k
    BY <1>1, <1>2
  <2>2. 1 \in 1 .. k => out'[Len(out) + 1].dts = d
    BY <1>7
  <2>3. QED
    BY <1>6, <2>1, <2>2
<1>12. Decodable'
  BY <1>1, <1>2, <1>6, <1>9, <1>10, <1>11, MoreDecodable DEF Behind
<1>13. PICK m \in Int : m = mux'.dts /\ m = IF k = 0 THEN d ELSE E(k)
  BY <1>3, <1>4, <1>6
<1>14. d <= m /\ \A j \in 1 .. k : E(j) <= m
  <2>1. CASE k = 0
    BY <1>6, <1>13, <2>1
  <2>2. CASE k # 0
    <3>1. m = E(k) /\ 1 <= k /\ k \in Int /\ E(k) \in Int /\ E(1) \in Int
      BY <1>3, <1>13, <2>2
    <3>2. E(1) <= E(k) /\ \A j \in 1 .. k : E(j) <= E(k)
      BY <1>3, <3>1
    <3>3. QED
      BY <1>6, <3>1, <3>2
  <2>3. QED
    BY <2>1, <2>2
<1>15. Behind'
  <2> SUFFICES ASSUME NEW i \in 1 .. Len(out')
               PROVE  out'[i].dts < m
    BY <1>2, <1>13 DEF Behind, Extended
  <2>1. CASE i \in 1 .. Len(out)
    <3>1. out'[i].dts < d /\ out'[i].dts \in Int
      BY <1>1, <1>2, <1>6, <2>1 DEF Behind
    <3>2. QED
      BY <1>6, <1>13, <1>14, <3>1
  <2>2. CASE i \notin 1 .. Len(out)
    <3>1. i \in Len(out) + 1 .. Len(out')
      BY <1>1, <1>2, <2>2
    <3>2. PICK j \in 1 .. k : i = Len(out) + j
      BY <1>5, <3>1
    <3>3. out'[i].dts < E(j) /\ out'[i].dts \in Int /\ E(j) \in Int /\ E(j) <= m
      BY <1>7, <1>8, <1>14, <3>2
    <3>4. QED
      BY <1>13, <3>3
  <2>3. QED
    BY <2>1, <2>2
<1>16. mux'.dts < Time(a + k)
  <2>1. CASE k = 0
    <3>1. k + 1 = 1
      BY <2>1
    <3>2. QED
      BY <1>3, <1>6, <1>13, <2>1, <3>1
  <2>2. CASE k # 0
    <3>1. k < k + 1 /\ k \in Int /\ k + 1 \in Int
      OBVIOUS
    <3>2. m = E(k)
      BY <1>13, <2>2
    <3>3. QED
      BY <1>3, <1>13, <3>1, <3>2
  <2>3. QED
    BY <2>1, <2>2
<1>17. QED
  BY <1>12, <1>15, <1>16

(* The last I or P picture in front of a picture behind the first copied.  *)
LEMMA LastInside ==
  ASSUME InputOK, shown.ordered, num \in 1 .. Len(ranges), NEW m \in FirstCopied + 1 .. n
  PROVE  /\ LastReference(p, m) \in FirstCopied .. m - 1
         /\ p[LastReference(p, m)].type # "B"
<1>1. /\ n \in Nat /\ FirstCopied \in 0 .. n - 1 /\ p[FirstCopied].type # "B"
  BY FirstEndsFacts, FirstCopiedFacts
<1>2. m \in Nat /\ FirstCopied \in 0 .. m - 1
  BY <1>1
<1>3. /\ FirstCopied <= LastReference(p, m) /\ LastReference(p, m) \in 0 .. m - 1
      /\ p[LastReference(p, m)].type # "B"
  BY <1>1, <1>2, LastReferenceFacts
<1>4. QED
  BY <1>1, <1>2, <1>3

LEMMA NextLast ==
  ASSUME NEW i \in Nat
  PROVE  /\ p[i].type # "B" => LastReference(p, i + 1) = i
         /\ p[i].type = "B" /\ LastReference(p, i) \in 0 .. i - 1 =>
              LastReference(p, i + 1) = LastReference(p, i)
<1>1. i + 1 \in Nat /\ i \in 0 .. i + 1 - 1
  OBVIOUS
<1>2. ASSUME p[i].type # "B"
      PROVE  LastReference(p, i + 1) = i
  <2>1. i <= LastReference(p, i + 1) /\ LastReference(p, i + 1) \in 0 .. i + 1 - 1
    BY <1>1, <1>2, LastReferenceFacts
  <2>2. QED
    BY <2>1
<1>3. ASSUME p[i].type = "B", LastReference(p, i) \in 0 .. i - 1
      PROVE  LastReference(p, i + 1) = LastReference(p, i)
  <2>1. PICK r \in 0 .. i - 1 : r = LastReference(p, i) /\ p[r].type # "B"
    BY <1>3, LastReferenceFacts
  <2>2. r \in 0 .. i + 1 - 1
    OBVIOUS
  <2>3. /\ r <= LastReference(p, i + 1) /\ LastReference(p, i + 1) \in 0 .. i + 1 - 1
        /\ p[LastReference(p, i + 1)].type # "B"
    BY <1>1, <2>1, <2>2, LastReferenceFacts
  <2>4. PICK q \in 0 .. i : q = LastReference(p, i + 1) /\ r <= q /\ p[q].type # "B"
    BY <2>3
  <2>5. q \in 0 .. i - 1
    BY <1>3, <2>4
  <2>6. q <= r
    BY <2>1, <2>4, <2>5, LastReferenceFacts
  <2>7. QED
    BY <2>1, <2>4, <2>6
<1>4. QED
  BY <1>2, <1>3

(* The time kept for the next I or P picture: it is displayed before what  *)
(* is still to come, and that one before B pictures of it.                 *)
LEMMA KeptTime ==
  ASSUME InputOK, TypeOK, shown.ordered, num \in 1 .. Len(ranges), CopyAhead,
         NEW i \in FirstCopied .. n - 1, i = streampic
  PROVE  /\ mux.dts \in Int /\ Shown(i) \in Int /\ Time(Shown(i)) \in Int
         /\ ~Wanted(i) => i > FirstCopied /\ p[i].type = "B"
         /\ p[i].type # "B" => /\ mux.dts < Time(Shown(i))
                               /\ \A y \in i + 1 .. n - 1 : Wanted(y) => mux.dts < Time(Shown(y))
         /\ p[i].type = "B" => /\ i > FirstCopied
                               /\ Time(Shown(i)) < mux.dts
                               /\ \A y \in i + 1 .. n - 1 : Time(Shown(i)) < Time(Shown(y))
<1>1. Numbered /\ Ordered
  BY TableNumbered, TableOrdered
<1>2. /\ n \in Nat /\ FirstCopied \in 0 .. n - 1 /\ Shown(FirstCopied) = firstseqhdr
      /\ p[FirstCopied].type # "B" /\ firstseqhdr \in Int
  BY FirstEndsFacts, FirstCopiedFacts
<1>3. /\ i \in 0 .. n - 1 /\ videooffset \in Int /\ mux.dts \in Int
      /\ \A x \in 0 .. n - 1 : Shown(x) \in Int
      /\ \A x, y \in Int : /\ Time(x) \in Int /\ Time(y) \in Int
                           /\ x <= y => Time(x) <= Time(y)
                           /\ x < y => Time(x) < Time(y)
  <2>1. i \in 0 .. n - 1
    BY <1>2
  <2>2. videooffset \in Int /\ mux.dts \in Int
    BY DtsTypes
  <2>3. \A x \in 0 .. n - 1 : Shown(x) \in Int
    BY <1>1 DEF Numbered
  <2>4. \A x, y \in Int : /\ Time(x) \in Int /\ Time(y) \in Int
                          /\ x <= y => Time(x) <= Time(y)
                          /\ x < y => Time(x) < Time(y)
    BY <2>2, TimeLess
  <2>5. QED
    BY <2>1, <2>2, <2>3, <2>4
<1>4. \/ i = FirstCopied /\ mux.dts < Time(firstseqhdr)
      \/ i > FirstCopied /\ mux.dts = Time(Shown(LastReference(p, i)))
  BY DEF CopyAhead
<1>5. ASSUME i > FirstCopied
      PROVE  /\ LastReference(p, i) \in 0 .. i - 1
             /\ LastReference(p, i) \in 0 .. n - 1
             /\ p[LastReference(p, i)].type # "B"
             /\ mux.dts = Time(Shown(LastReference(p, i)))
  <2>1. i \in FirstCopied + 1 .. n
    BY <1>2, <1>5
  <2>2. PICK r \in FirstCopied .. i - 1 : r = LastReference(p, i) /\ p[r].type # "B"
    BY <2>1, LastInside
  <2>3. i # FirstCopied
    BY <1>2, <1>5
  <2>4. mux.dts = Time(Shown(r))
    BY <1>4, <2>2, <2>3
  <2>5. r \in 0 .. i - 1 /\ r \in 0 .. n - 1
    BY <1>2, <1>3
  <2>6. QED
    BY <2>2, <2>4, <2>5
<1>6. ASSUME ~Wanted(i)
      PROVE  i > FirstCopied /\ p[i].type = "B"
  <2>1. i # FirstCopied
    BY <1>2, <1>6 DEF Wanted
  <2>2. i > FirstCopied
    BY <1>2, <2>1
  <2>3. p[i].type # "B" => Shown(FirstCopied) < Shown(i)
    BY <1>1, <1>2, <1>3, <2>2, PlainOrder
  <2>4. Shown(i) \in Int
    BY <1>3
  <2>5. QED
    BY <1>2, <1>6, <2>2, <2>3, <2>4 DEF Wanted
<1>7. ASSUME p[i].type # "B"
      PROVE  /\ mux.dts < Time(Shown(i))
             /\ \A y \in i + 1 .. n - 1 : Wanted(y) => mux.dts < Time(Shown(y))
  <2>1. CASE i = FirstCopied
    <3>1. mux.dts < Time(firstseqhdr)
      BY <1>2, <1>4, <2>1
    <3>2. ASSUME NEW y \in i + 1 .. n - 1, Wanted(y)
          PROVE  mux.dts < Time(Shown(y))
      <4>1. Shown(y) \in Int /\ firstseqhdr <= Shown(y)
        BY <1>2, <1>3, <3>2 DEF Wanted
      <4>2. Time(firstseqhdr) <= Time(Shown(y)) /\ Time(firstseqhdr) \in Int
            /\ Time(Shown(y)) \in Int
        BY <1>2, <1>3, <4>1
      <4>3. PICK a \in Int : a = Time(firstseqhdr)
        BY <4>2
      <4>4. PICK b \in Int : b = Time(Shown(y))
        BY <4>2
      <4>5. PICK d \in Int : d = mux.dts
        BY <1>3
      <4>6. d < a /\ a <= b
        BY <3>1, <4>2, <4>3, <4>4, <4>5
      <4>7. d < b
        BY <4>6
      <4>8. QED
        BY <4>4, <4>5, <4>7
    <3>3. QED
      BY <1>2, <2>1, <3>1, <3>2
  <2>2. CASE i > FirstCopied
    <3>1. PICK r \in 0 .. n - 1 : /\ r = LastReference(p, i) /\ r \in 0 .. i - 1
                                  /\ p[r].type # "B" /\ mux.dts = Time(Shown(r))
      BY <1>5, <2>2
    <3>2. Shown(r) < Shown(i)
      <4>1. r < i /\ r \in 0 .. n - 1 /\ i \in 0 .. n - 1
        BY <1>3, <3>1
      <4>2. p[r].type # "B" /\ p[i].type # "B"
        BY <1>7, <3>1
      <4>3. QED
        BY <1>1, <4>1, <4>2, PlainOrder
    <3>3. ASSUME NEW y \in i + 1 .. n - 1
          PROVE  mux.dts < Time(Shown(y))
      <4>1. y \in 0 .. n - 1 /\ y \in Nat /\ i \in 0 .. y - 1 /\ r \in 0 .. y - 1
        BY <1>3, <3>1
      <4>2. i <= LastReference(p, y) /\ LastReference(p, y) \in 0 .. y - 1
        BY <1>7, <4>1, LastReferenceFacts
      <4>3. r # LastReference(p, y)
        BY <1>3, <3>1, <4>2
      <4>4. Shown(r) < Shown(y)
        BY <1>1, <4>1, <4>3, OrderFacts
      <4>5. QED
        BY <1>3, <3>1, <4>1, <4>4
    <3>4. mux.dts < Time(Shown(i))
      BY <1>3, <3>1, <3>2
    <3>5. QED
      BY <3>3, <3>4
  <2>3. QED
    BY <1>2, <2>1, <2>2
<1>8. ASSUME p[i].type = "B"
      PROVE  /\ i > FirstCopied
             /\ Time(Shown(i)) < mux.dts
             /\ \A y \in i + 1 .. n - 1 : Time(Shown(i)) < Time(Shown(y))
  <2>1. i > FirstCopied
    BY <1>2, <1>8
  <2>2. PICK r \in 0 .. i - 1 : r = LastReference(p, i) /\ r \in 0 .. n - 1
                                /\ mux.dts = Time(Shown(r))
    BY <1>3, <1>5, <2>1
  <2>3. Shown(i) < Shown(r)
    BY <1>1, <1>3, <1>8, <2>2, OrderFacts
  <2>4. Time(Shown(i)) < mux.dts
    BY <1>3, <2>2, <2>3
  <2>5. ASSUME NEW y \in i + 1 .. n - 1
        PROVE  Time(Shown(i)) < Time(Shown(y))
    <3>1. y \in 0 .. n - 1 /\ i \in 0 .. y - 1
      BY <1>3
    <3>2. Shown(i) < Shown(y)
      BY <1>1, <1>8, <3>1, OrderFacts
    <3>3. QED
      BY <1>3, <3>1, <3>2
  <2>6. QED
    BY <2>1, <2>4, <2>5
<1>9. QED
  BY <1>3, <1>6, <1>7, <1>8

LEMMA CopyDts ==
  ASSUME InputOK, TypeOK, TypeOK', CopyOK, shown.ordered, Decodable, Behind, CopyAhead,
         CopyPicture
  PROVE  Decodable' /\ Behind' /\ CopyAhead'
<1>1. /\ num \in 1 .. Len(ranges)
      /\ streampic \in FirstCopied .. CopyStop - 1
      /\ streampic' = streampic + 1 /\ UNCHANGED <<input, num, videooffset>>
      /\ IF Wanted(streampic) THEN CopiedTo(streampic) ELSE UNCHANGED <<out, mux>>
  BY CopyStep
<1>2. /\ n \in Nat /\ FirstCopied \in 0 .. n - 1 /\ CopyStop \in 0 .. n - 1
  BY <1>1, FirstEndsFacts
<1>3. PICK i \in FirstCopied .. n - 1 : i = streampic
  BY <1>1, <1>2
<1>4. /\ mux.dts \in Int /\ Shown(i) \in Int /\ Time(Shown(i)) \in Int
      /\ ~Wanted(i) => i > FirstCopied /\ p[i].type = "B"
      /\ p[i].type # "B" => /\ mux.dts < Time(Shown(i))
                            /\ \A y \in i + 1 .. n - 1 : Wanted(y) => mux.dts < Time(Shown(y))
      /\ p[i].type = "B" => /\ i > FirstCopied
                            /\ Time(Shown(i)) < mux.dts
                            /\ \A y \in i + 1 .. n - 1 : Time(Shown(i)) < Time(Shown(y))
  BY <1>1, <1>3, KeptTime
<1>5. /\ DOMAIN out = 1 .. Len(out) /\ Len(out) \in Nat
      /\ \A j \in DOMAIN out : out[j].dts \in Int
  BY DtsTypes
<1>6. /\ FirstCopied' = FirstCopied /\ n' = n /\ p' = p
      /\ \A x : Wanted(x)' <=> Wanted(x)
      /\ \A x : Time(Shown(x))' = Time(Shown(x))
      /\ \A x : LastReference(p, x)' = LastReference(p, x)
  BY <1>1, SameCopy, SameRange DEF input, Time, Shown
<1>7. LastReference(p, i + 1) = IF p[i].type # "B" THEN i ELSE LastReference(p, i)
  <2>1. i \in Nat
    BY <1>2
  <2>2. p[i].type = "B" => LastReference(p, i) \in 0 .. i - 1
    <3>1. SUFFICES ASSUME p[i].type = "B" PROVE LastReference(p, i) \in 0 .. i - 1
      OBVIOUS
    <3>2. i \in FirstCopied + 1 .. n
      BY <1>2, <1>4, <3>1
    <3>3. QED
      BY <1>1, <1>2, <3>2, LastInside
  <2>3. QED
    BY <2>1, <2>2, NextLast
<1>8. ASSUME mux'.dts = IF p[i].type # "B" THEN Time(Shown(i)) ELSE mux.dts,
             NEW l \in Nat, l = Len(out'),
             \A y \in i + 1 .. n - 1 : Wanted(y) =>
               \A j \in 1 .. l : out'[j].dts < Time(Shown(y)),
             Extended
      PROVE  CopyAhead'
  <2>1. streampic' = i + 1 /\ i + 1 > FirstCopied
    BY <1>1, <1>2, <1>3
  <2>2. p[i].type = "B" => mux.dts = Time(Shown(LastReference(p, i)))
    BY <1>2, <1>3, <1>4 DEF CopyAhead
  <2>3. mux'.dts = Time(Shown(LastReference(p, i + 1)))
    BY <1>7, <1>8, <2>2
  <2>4. mux'.dts = Time(Shown(LastReference(p, streampic)))'
    <3>1. Time(Shown(LastReference(p, streampic)))' = Time(Shown(LastReference(p, i + 1)))
      BY <1>1, <1>6, <2>1 DEF Time, Shown, LastReference, input
    <3>2. QED
      BY <2>3, <3>1
  <2>5. DOMAIN out' = 1 .. l
    BY <1>8 DEF Extended
  <2>6. \A y \in streampic' .. n' - 1 : Wanted(y)' =>
          \A j \in DOMAIN out' : out'[j].dts < Time(Shown(y))'
    BY <1>6, <1>8, <2>1, <2>5
  <2>7. QED
    BY <1>6, <2>1, <2>4, <2>6 DEF CopyAhead
<1>9. CASE ~Wanted(i)
  <2>1. UNCHANGED <<out, mux>> /\ p[i].type = "B"
    BY <1>1, <1>3, <1>4, <1>9
  <2>2. Decodable' /\ Behind'
    BY <2>1 DEF Decodable, Behind
  <2>3. \A y \in i + 1 .. n - 1 : Wanted(y) =>
          \A j \in 1 .. Len(out) : out[j].dts < Time(Shown(y))
    <3>1. \A y \in i + 1 .. n - 1 : y \in streampic .. n - 1
      BY <1>2, <1>3
    <3>2. QED
      BY <1>5, <3>1 DEF CopyAhead
  <2>4. Extended /\ Len(out') = Len(out) /\ mux'.dts = mux.dts
    BY <2>1, OutSame DEF TypeOK, OutPicture
  <2>5. QED
    BY <1>5, <1>8, <2>1, <2>2, <2>3, <2>4
<1>10. CASE Wanted(i)
  <2>1. CopiedTo(i)
    BY <1>1, <1>3, <1>10
  <2>2. /\ Extended /\ Len(out') = Len(out) + 1
        /\ \A j \in 1 .. Len(out) : out'[j] = out[j]
        /\ out'[Len(out) + 1].pts = Time(Shown(i))
        /\ out'[Len(out) + 1].dts = IF p[i].type = "B" THEN Time(Shown(i)) ELSE mux.dts
        /\ mux'.dts = IF p[i].type = "B" THEN mux.dts ELSE Time(Shown(i))
    BY <2>1, PutExtends DEF CopiedTo, TypeOK, OutPicture
  <2>3. PICK d \in Int : d = out'[Len(out) + 1].dts
    BY <1>4, <2>2
  <2>4. PICK t \in Int : t = Time(Shown(i))
    BY <1>4
  <2>5. PICK m \in Int : m = mux'.dts
    BY <1>4, <2>2
  <2>6. \A j \in DOMAIN out : out[j].dts < mux.dts /\ out[j].dts < t
    <3>1. i \in streampic .. n - 1
      BY <1>2, <1>3
    <3>2. QED
      BY <1>10, <2>4, <3>1 DEF Behind, CopyAhead
  <2>7. /\ mux.dts <= m /\ d < m /\ d <= t
        /\ \A j \in DOMAIN out : out[j].dts < d
    <3>1. CASE p[i].type = "B"
      <4>1. d = t /\ m = mux.dts /\ t < mux.dts
        BY <1>4, <2>2, <2>3, <2>4, <2>5, <3>1
      <4>2. QED
        BY <1>4, <2>6, <4>1
    <3>2. CASE p[i].type # "B"
      <4>1. d = mux.dts /\ m = t /\ mux.dts < t
        BY <1>4, <2>2, <2>3, <2>4, <2>5, <3>2
      <4>2. QED
        BY <1>4, <2>6, <4>1
    <3>3. QED
      BY <3>1, <3>2
  <2>8. \A y \in i + 1 .. n - 1 : Wanted(y) => d < Time(Shown(y))
    BY <1>4, <2>2, <2>3
  <2>9. Decodable'
    <3>1. Len(out) + 2 .. Len(out') = {} /\ Len(out) + 1 .. Len(out') = {Len(out) + 1}
      BY <1>5, <2>2
    <3>2. d >= d /\ d <= t
      BY <2>7
    <3>3. QED
      BY <2>2, <2>3, <2>4, <2>7, <3>1, <3>2, MoreDecodable
  <2>10. \A j \in 1 .. Len(out) + 1 : j \in 1 .. Len(out) \/ j = Len(out) + 1
    BY <1>5
  <2>11. Behind'
    <3> SUFFICES ASSUME NEW j \in 1 .. Len(out) + 1 PROVE out'[j].dts < m
      BY <2>2, <2>5 DEF Behind, Extended
    <3>1. CASE j \in 1 .. Len(out)
      <4>1. out'[j].dts < mux.dts /\ out'[j].dts \in Int
        BY <1>5, <2>2, <2>6, <3>1
      <4>2. QED
        BY <1>4, <2>7, <4>1
    <3>2. CASE j = Len(out) + 1
      BY <2>3, <2>7, <3>2
    <3>3. QED
      BY <2>10, <3>1, <3>2
  <2>12. ASSUME NEW y \in i + 1 .. n - 1, Wanted(y), NEW j \in 1 .. Len(out) + 1
         PROVE  out'[j].dts < Time(Shown(y))
    <3>1. CASE j \in 1 .. Len(out)
      <4>1. y \in streampic .. n - 1
        BY <1>2, <1>3
      <4>2. QED
        BY <1>5, <2>2, <2>12, <3>1, <4>1 DEF CopyAhead
    <3>2. CASE j = Len(out) + 1
      BY <2>3, <2>8, <2>12, <3>2
    <3>3. QED
      BY <2>10, <3>1, <3>2
  <2>13. CopyAhead'
    <3>1. mux'.dts = IF p[i].type # "B" THEN Time(Shown(i)) ELSE mux.dts
      BY <2>2
    <3>2. Len(out) + 1 \in Nat
      BY <1>5
    <3>3. QED
      BY <1>8, <2>2, <2>12, <3>1, <3>2
  <2>14. QED
    BY <2>9, <2>11, <2>13
<1>11. QED
  BY <1>9, <1>10

LEMMA StopBehind ==
  ASSUME InputOK, NoHeadless, num \in 1 .. Len(ranges)
  PROVE  /\ firstseqhdr \in Int /\ stop \in Int /\ start \in Int
         /\ start <= firstseqhdr /\ firstseqhdr <= stop
<1>1. /\ start \in 0 .. pictures - 1 /\ stop \in 0 .. pictures - 1
      /\ firstseqhdr \in start .. pictures - 1 /\ pictures \in Nat
  BY RangeFacts
<1>2. DOMAIN ranges = 1 .. Len(ranges)
  BY LenProperties DEF InputOK
<1>3. ~(firstseqhdr > stop)
  BY <1>2 DEF NoHeadless, Headless, firstseqhdr, start, stop
<1>4. QED
  BY <1>1, <1>3

LEMMA DtsTypesNext ==
  ASSUME TypeOK'
  PROVE  /\ mux'.dts \in Int /\ mux'.vpts \in Int /\ videooffset' \in Int
         /\ DOMAIN out' = 1 .. Len(out') /\ Len(out') \in Nat
         /\ \A j \in DOMAIN out' : /\ out'[j].dts \in Int /\ out'[j].pts \in Int
                                   /\ out'[j].pic \in Int /\ out'[j].range \in Nat
<1>1. out' \in Seq(OutPicture) /\ mux' \in Timestamps /\ videooffset' \in Int
  BY DEF TypeOK, OutPicture, Timestamps
<1>2. DOMAIN out' = 1 .. Len(out') /\ Len(out') \in Nat
  BY <1>1, LenProperties
<1>3. \A j \in DOMAIN out' : out'[j] \in OutPicture
  BY <1>1, <1>2, ElementOfSeq
<1>4. QED
  BY <1>1, <1>2, <1>3 DEF OutPicture, Timestamps

LEMMA SameTime ==
  ASSUME UNCHANGED <<input, num, videooffset>>
  PROVE  /\ Time(start)' = Time(start) /\ Time(stop)' = Time(stop)
         /\ Time(firstseqhdr)' = Time(firstseqhdr)
         /\ Time(StartRecode)' = Time(StartRecode)
         /\ TailMissing' = TailMissing
         /\ \A x : Time(Shown(x))' = Time(Shown(x))
<1>1. /\ start' = start /\ stop' = stop /\ firstseqhdr' = firstseqhdr
      /\ StartRecode' = StartRecode /\ TailMissing' = TailMissing
      /\ \A x : Shown(x)' = Shown(x)
  BY SameRange
<1>2. QED
  BY <1>1 DEF Time

(* When copying begins: the pictures encoded in front of it are decoded    *)
(* before the first one that is copied is displayed.                       *)
LEMMA DtsHead ==
  ASSUME InputOK, TypeOK, TypeOK', CopyOK, shown.ordered, NoHeadless, Decodable, Behind,
         mux.dts < Time(start), RecodeHead
  PROVE  Decodable' /\ Behind' /\ CopyAhead'
<1>1. /\ pc = "head" /\ InRange /\ num \in 1 .. Len(ranges)
      /\ UNCHANGED <<input, num, videooffset, streampic>>
  BY NumInRange DEF RecodeHead, InRange, avoffset, video
<1>2. /\ firstseqhdr \in Int /\ start \in Int /\ start <= firstseqhdr
  BY <1>1, StopBehind
<1>3. Decodable' /\ Behind' /\ mux'.dts < Time(firstseqhdr)
  <2>1. CASE firstseqhdr > start
    <3>1. PICK k \in 0 .. firstseqhdr - start : Recoded(k, start)
      BY <2>1, HeadFacts
    <3>2. k \in Nat /\ start + k <= firstseqhdr /\ start + k \in Int
      BY <1>2, <3>1
    <3>3. Decodable' /\ Behind' /\ mux'.dts < Time(start + k)
      BY <1>2, <3>1, <3>2, RecodedDecodable
    <3>4. /\ Time(start + k) <= Time(firstseqhdr) /\ Time(start + k) \in Int
          /\ Time(firstseqhdr) \in Int
      BY <1>2, <3>2, DtsTypes, TimeLess
    <3>5. mux'.dts \in Int
      BY DtsTypesNext
    <3>6. mux'.dts < Time(firstseqhdr)
      BY <3>3, <3>4, <3>5
    <3>7. QED
      BY <3>3, <3>6
  <2>2. CASE ~(firstseqhdr > start)
    <3>1. UNCHANGED <<out, mux>>
      BY <2>2, HeadFacts
    <3>2. firstseqhdr = start
      BY <1>2, <2>2
    <3>3. Decodable' /\ Behind'
      BY <3>1 DEF Decodable, Behind
    <3>4. QED
      BY <3>1, <3>2, <3>3
  <2>3. QED
    BY <2>1, <2>2
<1>4. /\ streampic = FirstCopied /\ streampic' = streampic
      /\ FirstCopied' = FirstCopied /\ n' = n
      /\ \A x : Wanted(x)' <=> Wanted(x)
  BY <1>1, SameCopy DEF CopyOK, input
<1>5. /\ Time(firstseqhdr)' = Time(firstseqhdr)
      /\ \A x : Time(Shown(x))' = Time(Shown(x))
  BY <1>1, SameTime
<1>6. ASSUME NEW y \in streampic .. n - 1, Wanted(y), NEW j \in DOMAIN out'
      PROVE  out'[j].dts < Time(Shown(y))
  <2>1. y \in 0 .. n - 1
    BY <1>1, <1>4, FirstEndsFacts
  <2>2. Shown(y) \in Int
    BY <2>1, TableNumbered DEF Numbered
  <2>3. firstseqhdr <= Shown(y)
    BY <1>2, <1>6, <2>2 DEF Wanted
  <2>4. /\ Time(firstseqhdr) <= Time(Shown(y)) /\ Time(firstseqhdr) \in Int
        /\ Time(Shown(y)) \in Int
    BY <1>2, <2>2, <2>3, DtsTypes, TimeLess
  <2>5. /\ out'[j].dts < mux'.dts /\ out'[j].dts \in Int /\ mux'.dts \in Int
    BY <1>3, DtsTypesNext DEF Behind
  <2>6. PICK a \in Int : a = out'[j].dts
    BY <2>5
  <2>7. PICK b \in Int : b = mux'.dts
    BY <2>5
  <2>8. a < b /\ b < Time(firstseqhdr)
    BY <1>3, <2>5, <2>6, <2>7
  <2>9. a < Time(Shown(y))
    BY <2>4, <2>8
  <2>10. QED
    BY <2>6, <2>9
<1>7. CopyAhead'
  <2>1. streampic' = FirstCopied' /\ mux'.dts < Time(firstseqhdr)'
    BY <1>3, <1>4, <1>5
  <2>2. \A y \in streampic' .. n' - 1 : Wanted(y)' =>
          \A j \in DOMAIN out' : out'[j].dts < Time(Shown(y))'
    BY <1>4, <1>5, <1>6
  <2>3. QED
    BY <2>1, <2>2 DEF CopyAhead
<1>8. QED
  BY <1>3, <1>7

(* When copying ends: what is encoded behind it, or the next range, begins *)
(* behind the last I or P picture copied.                                  *)
LEMMA TailAhead ==
  ASSUME InputOK, TypeOK, RangeOK, CopyOK, shown.ordered, NoHeadless, InRange, CopyAhead
  PROVE  mux.dts < Time(stop) /\ (TailMissing => mux.dts < Time(StartRecode))
<1>1. num \in 1 .. Len(ranges) /\ start < stop
  BY NumInRange DEF InRange, RangeOK, Inside
<1>2. firstseqhdr \in Int /\ stop \in Int /\ firstseqhdr <= stop
  BY <1>1, StopBehind
<1>3. mux.dts \in Int /\ videooffset \in Int
  BY DtsTypes
<1>4. TailMissing => StartRecode \in Int /\ firstseqhdr < StartRecode
  BY <1>1, <1>2, TailBegins
<1>5. ASSUME NEW x \in Int, mux.dts = Time(x), x < stop, TailMissing => x < StartRecode
      PROVE  mux.dts < Time(stop) /\ (TailMissing => mux.dts < Time(StartRecode))
  BY <1>2, <1>3, <1>4, <1>5, TimeLess
<1>6. CASE streampic = FirstCopied /\ mux.dts < Time(firstseqhdr)
  <2>1. Time(firstseqhdr) <= Time(stop) /\ Time(firstseqhdr) \in Int /\ Time(stop) \in Int
    BY <1>2, <1>3, TimeLess
  <2>2. TailMissing => Time(firstseqhdr) <= Time(StartRecode) /\ Time(StartRecode) \in Int
    BY <1>2, <1>3, <1>4, TimeLess
  <2>3. QED
    BY <1>3, <1>6, <2>1, <2>2
<1>7. CASE streampic > FirstCopied /\ mux.dts = Time(Shown(LastReference(p, streampic)))
  <2>1. n \in Nat /\ FirstCopied \in 0 .. n - 1 /\ CopyStop \in 0 .. n - 1
    BY <1>1, FirstEndsFacts
  <2>2. streampic \in 0 .. n /\ (streampic = FirstCopied \/ streampic <= CopyStop)
    BY DEF TypeOK, CopyOK
  <2>3. streampic \in FirstCopied + 1 .. n /\ streampic <= CopyStop
    BY <1>7, <2>1, <2>2
  <2>4. PICK k \in FirstCopied .. streampic - 1 :
          k = LastReference(p, streampic) /\ p[k].type # "B"
    BY <1>1, <2>3, LastInside
  <2>5. k \in FirstCopied .. CopyStop - 1
    BY <2>1, <2>2, <2>3
  <2>6. Shown(k) \in firstseqhdr .. stop - 1 /\ (TailMissing => Shown(k) < StartRecode)
    BY <1>1, <2>4, <2>5, CopiedReference
  <2>7. Shown(k) \in Int /\ Shown(k) < stop
    BY <1>2, <2>6
  <2>8. mux.dts = Time(Shown(k))
    BY <1>7, <2>4
  <2>9. QED
    BY <1>5, <2>6, <2>7, <2>8
<1>8. QED
  BY <1>6, <1>7 DEF CopyAhead


LEMMA DtsBegin ==
  ASSUME InputOK, TypeOK, RangeOK, Ahead, Begin
  PROVE  mux'.dts < Time(start)'
<1>1. Begun /\ pc = "range" /\ num \in 1 .. Len(ranges) /\ UNCHANGED <<input, num>>
  BY BeginFacts, NumInRange DEF Begin
<1>2. PICK s \in Int : s = start * FrameTime
  <2>1. start \in Int
    BY <1>1, RangeFacts
  <2>2. QED
    BY <2>1, TimeOrder
<1>3. PICK v \in Int : v = videooffset' /\ Time(start)' = s - v
  <2>1. videooffset' \in Int /\ start' = start
    BY <1>1, SameRange DEF Begun
  <2>2. QED
    BY <1>2, <2>1 DEF Time
<1>4. mux'.dts = mux.dts /\ mux.dts \in Int /\ mux.vpts \in Int
  BY <1>1, DtsTypes DEF Begun
<1>5. FrameTime \in Nat /\ FrameTime > 0
  BY SaveMpgAssumption
<1>6. CASE mux.empty
  <2>1. mux.dts = 0
    BY <1>6 DEF RangeOK, NothingYet
  <2>2. v <= s - FrameTime
    BY <1>1, <1>2, <1>3, <1>6 DEF Begun
  <2>3. 0 < s - v
    BY <1>5, <2>2
  <2>4. QED
    BY <1>3, <1>4, <2>1, <2>3
<1>7. CASE ~mux.empty
  <2>1. v = s - mux.vpts
    BY <1>1, <1>2, <1>3, <1>7 DEF Begun
  <2>2. s - v = mux.vpts
    BY <1>4, <2>1
  <2>3. mux.dts < mux.vpts
    BY <1>1, <1>7 DEF Ahead
  <2>4. QED
    BY <1>3, <1>4, <2>2, <2>3
<1>8. QED
  BY <1>6, <1>7

LEMMA DtsTail ==
  ASSUME InputOK, TypeOK, TypeOK', RangeOK, CopyOK, shown.ordered, NoHeadless,
         Decodable, Behind, Ahead, RecodeTail
  PROVE  Decodable' /\ Behind' /\ mux'.dts < Time(stop)
<1>1. pc = "tail" /\ num \in 1 .. Len(ranges)
  BY NumInRange DEF RecodeTail
<1>2. mux.dts < Time(stop) /\ (TailMissing => mux.dts < Time(StartRecode))
  BY <1>1 DEF Ahead
<1>3. stop \in Int
  BY <1>1, StopBehind
<1>4. CASE TailMissing
  <2>1. PICK k \in 0 .. stop - StartRecode : Recoded(k, StartRecode)
    BY <1>4, TailFacts
  <2>2. StartRecode \in Int
    <3>1. StartRecode \in 1 .. stop - 1
      BY <1>4, TailFacts
    <3>2. QED
      BY <3>1
  <2>3. k \in Nat /\ StartRecode + k <= stop /\ StartRecode + k \in Int
    BY <1>3, <2>1, <2>2
  <2>4. Decodable' /\ Behind' /\ mux'.dts < Time(StartRecode + k)
    BY <1>2, <1>4, <2>1, <2>2, <2>3, RecodedDecodable
  <2>5. /\ Time(StartRecode + k) <= Time(stop) /\ Time(StartRecode + k) \in Int
        /\ Time(stop) \in Int
    BY <1>3, <2>3, DtsTypes, TimeLess
  <2>6. mux'.dts \in Int
    BY DtsTypesNext
  <2>7. mux'.dts < Time(stop)
    BY <2>4, <2>5, <2>6
  <2>8. QED
    BY <2>4, <2>7
<1>5. CASE ~TailMissing
  <2>1. UNCHANGED <<out, mux>>
    BY <1>5, TailFacts
  <2>2. QED
    BY <1>2, <2>1 DEF Decodable, Behind
<1>6. QED
  BY <1>4, <1>5

LEMMA CopyAheadSame ==
  ASSUME UNCHANGED <<input, num, videooffset, mux, out, streampic>>, CopyAhead
  PROVE  CopyAhead'
<1>1. /\ FirstCopied' = FirstCopied /\ n' = n /\ p' = p
      /\ \A x : Wanted(x)' <=> Wanted(x)
  BY SameCopy DEF input
<1>2. /\ Time(firstseqhdr)' = Time(firstseqhdr)
      /\ \A x : Time(Shown(x))' = Time(Shown(x))
  BY SameTime
<1>3. LastReference(p, streampic)' = LastReference(p, streampic)
  BY <1>1 DEF LastReference
<1>4. Time(Shown(LastReference(p, streampic)))' = Time(Shown(LastReference(p, streampic)))
  BY <1>3 DEF Time, Shown, input
<1>5. \/ streampic' = FirstCopied' /\ mux'.dts < Time(firstseqhdr)'
      \/ /\ streampic' > FirstCopied'
         /\ mux'.dts = Time(Shown(LastReference(p, streampic)))'
  BY <1>1, <1>2, <1>4 DEF CopyAhead
<1>6. \A y \in streampic' .. n' - 1 : Wanted(y)' =>
        \A j \in DOMAIN out' : out'[j].dts < Time(Shown(y))'
  BY <1>1, <1>2 DEF CopyAhead
<1>7. QED
  BY <1>5, <1>6 DEF CopyAhead

LEMMA DtsSame ==
  ASSUME UNCHANGED <<out, mux>>, Decodable, Behind
  PROVE  Decodable' /\ Behind'
BY DEF Decodable, Behind

LEMMA DtsOKNext ==
  ASSUME InputOK, TypeOK, TypeOK', RangeOK, CopyOK, DtsOK, [Next]_vars
  PROVE  DtsOK'
<1>1. UNCHANGED input
  BY InputSame
<1>2. (shown.ordered)' = shown.ordered /\ NoHeadless' = NoHeadless
  BY <1>1 DEF input, NoHeadless, Headless, NextSeqHeader, Stored, pictures
<1> SUFFICES ASSUME shown.ordered, NoHeadless
             PROVE  Decodable' /\ Behind' /\ Ahead'
  BY <1>2 DEF DtsOK
<1>3. Decodable /\ Behind /\ Ahead
  BY DEF DtsOK
<1>4. CASE Begin
  <2>1. mux'.dts < Time(start)' /\ pc' = "head" /\ out' = out
    BY <1>3, <1>4, DtsBegin DEF Begin
  <2>2. mux'.dts = mux.dts
    BY <1>4, BeginFacts DEF Begun
  <2>3. Decodable' /\ Behind'
    BY <1>3, <2>1, <2>2 DEF Decodable, Behind
  <2>4. Ahead'
    BY <2>1 DEF Ahead
  <2>5. QED
    BY <2>3, <2>4
<1>5. CASE EmptyRange
  <2>1. UNCHANGED <<out, mux>> /\ pc = "range" /\ pc' \in {"range", "done"}
    BY <1>5 DEF EmptyRange, NextRange
  <2>2. Ahead'
    BY <1>3, <2>1 DEF Ahead
  <2>3. QED
    BY <1>3, <2>1, <2>2, DtsSame
<1>6. CASE End
  <2>1. /\ pc = "end" /\ num \in 1 .. Len(ranges) /\ out' = out
        /\ pc' \in {"range", "done"} /\ mux' = MuxAdvanced
    BY <1>6, NumInRange DEF End, NextRange
  <2>2. mux'.dts = mux.dts /\ mux'.vpts = Time(stop)
    BY <2>1, EndFacts DEF Ended
  <2>3. Decodable' /\ Behind'
    BY <1>3, <2>1, <2>2 DEF Decodable, Behind
  <2>4. mux.dts < Time(stop)
    BY <1>3, <2>1 DEF Ahead
  <2>5. Ahead'
    BY <2>1, <2>2, <2>4 DEF Ahead
  <2>6. QED
    BY <2>3, <2>5
<1>7. CASE RecodeHead
  <2>1. pc' = "copy" /\ mux.dts < Time(start)
    BY <1>3, <1>7 DEF RecodeHead, Ahead
  <2>2. Decodable' /\ Behind' /\ CopyAhead'
    BY <1>3, <1>7, <2>1, DtsHead
  <2>3. Ahead'
    BY <2>1, <2>2 DEF Ahead
  <2>4. QED
    BY <2>2, <2>3
<1>8. CASE CopyPicture
  <2>1. pc = "pass" /\ pc' = "pass" /\ CopyAhead
    BY <1>3, <1>8 DEF CopyPicture, Ahead
  <2>2. Decodable' /\ Behind' /\ CopyAhead'
    BY <1>3, <1>8, <2>1, CopyDts
  <2>3. Ahead'
    BY <2>1, <2>2 DEF Ahead
  <2>4. QED
    BY <2>2, <2>3
<1>9. CASE RecodeTail
  <2>1. /\ pc = "tail" /\ pc' = "end" /\ UNCHANGED <<input, num, videooffset>>
    BY <1>9 DEF RecodeTail, avoffset
  <2>2. Decodable' /\ Behind' /\ mux'.dts < Time(stop)
    BY <1>3, <1>9, DtsTail
  <2>3. Time(stop)' = Time(stop)
    BY <2>1, SameTime
  <2>4. Ahead'
    BY <2>1, <2>2, <2>3 DEF Ahead
  <2>5. QED
    BY <2>2, <2>4
<1>10. ASSUME UNCHANGED <<input, num, videooffset, mux, out, streampic>>,
              \/ pc' = pc
              \/ pc \in {"copy", "pass"} /\ pc' \in {"copy", "pass", "tail"}
       PROVE  Decodable' /\ Behind' /\ Ahead'
  <2>1. Decodable' /\ Behind'
    BY <1>3, <1>10, DtsSame
  <2>2. /\ Time(start)' = Time(start) /\ Time(stop)' = Time(stop)
        /\ Time(StartRecode)' = Time(StartRecode) /\ TailMissing' = TailMissing
    BY <1>10, SameTime
  <2>3. pc \in {"copy", "pass"} => CopyAhead'
    BY <1>3, <1>10, CopyAheadSame DEF Ahead
  <2>4. CASE pc' = pc
    BY <1>3, <1>10, <2>1, <2>2, <2>3, <2>4 DEF Ahead
  <2>5. CASE pc \in {"copy", "pass"} /\ pc' \in {"copy", "pass"}
    BY <2>1, <2>3, <2>5 DEF Ahead
  <2>6. CASE pc \in {"copy", "pass"} /\ pc' = "tail"
    <3>1. CopyAhead /\ InRange
      BY <1>3, <2>6 DEF Ahead, InRange
    <3>2. mux.dts < Time(stop) /\ (TailMissing => mux.dts < Time(StartRecode))
      BY <3>1, TailAhead
    <3>3. QED
      BY <1>10, <2>1, <2>2, <2>6, <3>2 DEF Ahead
  <2>7. QED
    BY <1>10, <2>4, <2>5, <2>6
<1>11. CASE Pass
  BY <1>10, <1>11 DEF Pass, avoffset, video
<1>12. CASE CopyVideoEnds
  BY <1>10, <1>12 DEF CopyVideoEnds, avoffset
<1>13. CASE CopyAudio
  BY <1>10, <1>13 DEF CopyAudio, avoffset, video
<1>14. CASE PassEnds
  BY <1>10, <1>14 DEF PassEnds, avoffset, video
<1>15. CASE CopyCancelled \/ ReadingEnds
  BY <1>10, <1>15 DEF CopyCancelled, ReadingEnds, avoffset, video
<1>16. CASE Cancel
  BY <1>10, <1>16 DEF Cancel, avoffset, video
<1>17. CASE UNCHANGED vars
  BY <1>10, <1>17 DEF vars, avoffset, video
<1>18. QED
  BY <1>4, <1>5, <1>6, <1>7, <1>8, <1>9, <1>11, <1>12, <1>13, <1>14, <1>15, <1>16,
     <1>17 DEF Next

LEMMA DtsInvariant == Spec => []DtsOK
<1>1. Init => DtsOK
  <2> SUFFICES ASSUME Init PROVE Decodable /\ Behind /\ Ahead
    BY DEF DtsOK
  <2>1. out = << >> /\ pc = "range" /\ mux.empty
    BY DEF Init
  <2>2. DOMAIN out = {} /\ 2 .. Len(out) = {}
    BY <2>1
  <2>3. QED
    BY <2>1, <2>2 DEF Decodable, Behind, Ahead
<1>2. InputOK /\ TypeOK /\ TypeOK' /\ RangeOK /\ CopyOK /\ DtsOK /\ [Next]_vars => DtsOK'
  BY DtsOKNext
<1>3. Spec => [](CopyOK /\ CopiedOK)
  BY CopyInvariant
<1>4. QED
  BY <1>1, <1>2, <1>3, InputInvariant, TypeCorrect, RangeInvariant, PTL DEF Spec

-----------------------------------------------------------------------------
(* The output has no gaps: the pictures of the ranges that are past are    *)
(* displayed in the order of the recording, end where the next range goes  *)
(* on, and each is followed by another or by that end.                     *)
Past == {i \in DOMAIN out : out[i].range < num}

Apart(a, b) ==
  /\ a.pts < b.pts <=> a.pic < b.pic
  /\ b.pts < a.pts <=> b.pic < a.pic

PastOK ==
  /\ \A i, j \in Past : Apart(out[i], out[j]) /\ (out[i].pts = out[j].pts => i = j)
  /\ \A i \in Past : out[i].pts + FrameTime <= mux.vpts
  /\ pc # "done" => \A i \in Past : out[i].pic < start
  /\ InRange /\ Past # {} => Time(start) = mux.vpts
  /\ Untroubled => \A i \in Past :
       \/ out[i].pts + FrameTime = mux.vpts
       \/ \E j \in Past : out[j].pts = out[i].pts + FrameTime

SeamOK == shown.ordered /\ NoHeadless /\ intact => PastOK

(* In a range: past pictures lie in front of it, its own between its start *)
(* and its stop.                                                           *)
LEMMA PastOrOwn ==
  ASSUME InputOK, TypeOK, RangeOK, CopyOK, WrittenOK, PictureTimed, shown.ordered,
         NoHeadless, intact, InRange, PastOK
  PROVE  /\ num \in 1 .. Len(ranges)
         /\ start \in Int /\ stop \in Int /\ start < stop
         /\ \A i \in DOMAIN out :
              \/ /\ i \in Past /\ out[i].pic < start
                 /\ out[i].pts + FrameTime <= Time(start) /\ Time(start) = mux.vpts
              \/ /\ out[i].range = num /\ out[i].pic \in start .. stop - 1
                 /\ out[i].pts = Time(out[i].pic)
<1>1. num \in 1 .. Len(ranges) /\ num \in Nat
  BY NumInRange DEF InRange
<1>2. firstseqhdr \in Int /\ stop \in Int /\ start \in Int /\ firstseqhdr <= stop
  BY <1>1, StopBehind
<1>3. start < stop
  BY DEF RangeOK, Inside
<1>4. RangeEnd = stop /\ WrittenPics \subseteq start .. RangeEnd - 1
  <2>1. /\ RangeEnd = IF stop >= firstseqhdr THEN stop ELSE firstseqhdr
        /\ WrittenPics \subseteq start .. RangeEnd - 1
    BY WrittenInside
  <2>2. QED
    BY <1>2, <2>1
<1>5. ASSUME NEW i \in DOMAIN out
      PROVE  \/ /\ i \in Past /\ out[i].pic < start
                /\ out[i].pts + FrameTime <= Time(start) /\ Time(start) = mux.vpts
             \/ /\ out[i].range = num /\ out[i].pic \in start .. stop - 1
                /\ out[i].pts = Time(out[i].pic)
  <2>1. out[i].range \in Nat /\ out[i].range <= num
    BY <1>5, DtsTypes DEF RangeOK, Tagged
  <2>2. CASE out[i].range = num
    <3>1. out[i].pic \in WrittenPics
      BY <1>5, <2>2 DEF WrittenOK, Exactly
    <3>2. out[i].pts = Time(out[i].pic)
      BY <1>5, <2>2 DEF PictureTimed, TimedAs
    <3>3. QED
      BY <1>4, <2>2, <3>1, <3>2
  <2>3. CASE out[i].range < num
    <3>1. i \in Past
      BY <1>5, <2>3 DEF Past
    <3>2. Time(start) = mux.vpts
      BY <3>1 DEF PastOK
    <3>3. out[i].pic < start
      BY <3>1 DEF PastOK, InRange
    <3>4. out[i].pts + FrameTime <= mux.vpts
      BY <3>1 DEF PastOK
    <3>5. QED
      BY <3>1, <3>2, <3>3, <3>4
  <2>4. QED
    BY <1>1, <2>1, <2>2, <2>3
<1>6. QED
  BY <1>1, <1>2, <1>3, <1>5

(* So all pictures are displayed one after the other.                      *)
LEMMA AllApart ==
  ASSUME InputOK, TypeOK, RangeOK, CopyOK, WrittenOK, PictureTimed, shown.ordered,
         NoHeadless, intact, InRange, PastOK
  PROVE  \A i, j \in DOMAIN out :
           Apart(out[i], out[j]) /\ (out[i].pts = out[j].pts => i = j)
<1> SUFFICES ASSUME NEW i \in DOMAIN out, NEW j \in DOMAIN out
             PROVE  Apart(out[i], out[j]) /\ (out[i].pts = out[j].pts => i = j)
  OBVIOUS
<1> DEFINE Before(x) ==
      /\ x \in Past /\ out[x].pic < start
      /\ out[x].pts + FrameTime <= Time(start) /\ Time(start) = mux.vpts
<1> DEFINE Own(x) ==
      /\ out[x].range = num /\ out[x].pic \in start .. stop - 1
      /\ out[x].pts = Time(out[x].pic)
<1>1. /\ start \in Int /\ stop \in Int
      /\ \A x \in DOMAIN out : Before(x) \/ Own(x)
  BY PastOrOwn
<1>2. /\ videooffset \in Int /\ FrameTime \in Nat /\ FrameTime > 0
      /\ \A x \in DOMAIN out : out[x].pts \in Int /\ out[x].pic \in Int
  BY DtsTypes, SaveMpgAssumption
<1>3. ASSUME NEW x \in DOMAIN out, NEW y \in DOMAIN out, Before(x), Own(y)
      PROVE  out[x].pts < out[y].pts /\ out[x].pic < out[y].pic
  <2>1. PICK a \in Int : a = out[x].pts
    BY <1>2
  <2>2. PICK b \in Int : b = out[y].pic
    BY <1>2
  <2>3. start <= b
    BY <1>1, <1>3, <2>2
  <2>4. Time(start) \in Int /\ Time(b) \in Int /\ Time(start) <= Time(b)
    BY <1>1, <1>2, <2>3, TimeLess
  <2>5. a + FrameTime <= Time(start)
    BY <1>3, <2>1
  <2>6. a < Time(b)
    BY <1>2, <2>4, <2>5
  <2>7. out[x].pic < start /\ out[x].pic \in Int
    BY <1>2, <1>3
  <2>8. out[x].pic < b
    BY <1>1, <2>3, <2>7
  <2>9. out[y].pts = Time(b)
    BY <1>3, <2>2
  <2>10. QED
    BY <2>1, <2>2, <2>6, <2>8, <2>9
<1>4. ASSUME NEW x \in DOMAIN out, NEW y \in DOMAIN out, Own(x), Own(y)
      PROVE  /\ Apart(out[x], out[y])
             /\ out[x].pts = out[y].pts => x = y
  <2>1. PICK a \in Int : a = out[x].pic
    BY <1>2
  <2>2. PICK b \in Int : b = out[y].pic
    BY <1>2
  <2>3. out[x].pts = Time(a) /\ out[y].pts = Time(b)
    BY <1>4, <2>1, <2>2
  <2>4. /\ Time(a) \in Int /\ Time(b) \in Int
        /\ Time(a) < Time(b) <=> a < b
        /\ Time(b) < Time(a) <=> b < a
    BY <1>2, TimeLess
  <2>5. Apart(out[x], out[y])
    BY <2>1, <2>2, <2>3, <2>4 DEF Apart
  <2>6. ASSUME out[x].pts = out[y].pts
        PROVE  x = y
    <3>1. Time(a) = Time(b)
      BY <2>3, <2>6
    <3>2. a = b
      BY <2>4, <3>1
    <3>3. Exactly(out, num, WrittenPics)
      BY DEF WrittenOK
    <3>4. QED
      BY <1>4, <2>1, <2>2, <3>2, <3>3 DEF Exactly
  <2>7. QED
    BY <2>5, <2>6
<1>5. CASE Own(i) /\ Own(j)
  BY <1>4, <1>5
<1>6. CASE Before(i) /\ Own(j)
  <2>1. out[i].pts < out[j].pts /\ out[i].pic < out[j].pic
    BY <1>3, <1>6
  <2>2. QED
    BY <1>2, <2>1 DEF Apart
<1>7. CASE Own(i) /\ Before(j)
  <2>1. out[j].pts < out[i].pts /\ out[j].pic < out[i].pic
    BY <1>3, <1>7
  <2>2. QED
    BY <1>2, <2>1 DEF Apart
<1>8. CASE Before(i) /\ Before(j)
  BY <1>8 DEF PastOK
<1>9. QED
  BY <1>1, <1>5, <1>6, <1>7, <1>8

(* At its end the range, and what is in front of it, ends at stop.         *)
LEMMA AllEnded ==
  ASSUME InputOK, TypeOK, RangeOK, CopyOK, WrittenOK, PictureTimed, shown.ordered,
         NoHeadless, intact, InRange, PastOK, NEW i \in DOMAIN out
  PROVE  out[i].pts + FrameTime <= Time(stop) /\ out[i].pic < stop
<1>1. /\ start \in Int /\ stop \in Int /\ start < stop
      /\ \/ /\ out[i].pic < start
            /\ out[i].pts + FrameTime <= Time(start)
         \/ /\ out[i].pic \in start .. stop - 1
            /\ out[i].pts = Time(out[i].pic)
  BY PastOrOwn
<1>2. /\ videooffset \in Int /\ FrameTime \in Nat
      /\ out[i].pts \in Int /\ out[i].pic \in Int
  BY DtsTypes, SaveMpgAssumption
<1>3. CASE out[i].pic < start /\ out[i].pts + FrameTime <= Time(start)
  <2>1. start \in Int /\ stop \in Int /\ start <= stop /\ videooffset \in Int
    BY <1>1, <1>2
  <2>2. Time(start) <= Time(stop) /\ Time(start) \in Int /\ Time(stop) \in Int
    BY <2>1, TimeLess
  <2>3. QED
    BY <1>1, <1>2, <1>3, <2>2
<1>4. CASE out[i].pic \in start .. stop - 1 /\ out[i].pts = Time(out[i].pic)
  <2>1. PICK a \in Int : a = out[i].pic /\ a < stop
    BY <1>1, <1>2, <1>4
  <2>2. Time(a) + FrameTime <= Time(stop)
    BY <1>1, <1>2, <2>1, TimeLess
  <2>3. QED
    BY <1>4, <2>1, <2>2
<1>5. QED
  BY <1>1, <1>3, <1>4

(* Nothing is missing in front of it.                                      *)
LEMMA AllContinued ==
  ASSUME InputOK, TypeOK, RangeOK, CopyOK, WrittenOK, PictureTimed, shown.ordered,
         NoHeadless, pc = "end", PastOK, Untroubled, NEW i \in DOMAIN out
  PROVE  \/ out[i].pts + FrameTime = Time(stop)
         \/ \E j \in DOMAIN out : out[j].pts = out[i].pts + FrameTime
<1>1. /\ InRange /\ intact /\ whole /\ ~cancelled
  BY DEF InRange, Untroubled
<1>2. /\ start \in Int /\ stop \in Int /\ start < stop /\ num \in 1 .. Len(ranges)
      /\ \A x \in DOMAIN out :
           \/ /\ x \in Past /\ Time(start) = mux.vpts
           \/ /\ out[x].range = num /\ out[x].pic \in start .. stop - 1
              /\ out[x].pts = Time(out[x].pic)
  BY <1>1, PastOrOwn
<1>3. videooffset \in Int /\ \A x \in DOMAIN out : out[x].pic \in Int
  BY DtsTypes
<1>4. ASSUME NEW x \in start .. stop - 1
      PROVE  \E j \in DOMAIN out : out[j].pts = Time(x)
  <2>1. RangeEnd = stop /\ WrittenPics = start .. RangeEnd - 1
    <3>1. RangeEnd = IF stop >= firstseqhdr THEN stop ELSE firstseqhdr
      BY <1>1, WrittenInside
    <3>2. firstseqhdr \in Int /\ firstseqhdr <= stop
      BY <1>2, StopBehind
    <3>3. WrittenPics = start .. RangeEnd - 1
      BY <1>1, WrittenAll
    <3>4. QED
      BY <1>2, <3>1, <3>2, <3>3
  <2>2. x \in WrittenPics
    BY <1>4, <2>1
  <2>3. PICK j \in DOMAIN out : out[j].range = num /\ out[j].pic = x
    BY <1>1, <2>2 DEF WrittenOK, Exactly
  <2>4. out[j].pts = Time(x)
    BY <1>1, <2>3 DEF PictureTimed, TimedAs
  <2>5. QED
    BY <2>4
<1>5. CASE i \in Past /\ Time(start) = mux.vpts
  <2>1. \/ out[i].pts + FrameTime = mux.vpts
        \/ \E j \in Past : out[j].pts = out[i].pts + FrameTime
    BY <1>5 DEF PastOK
  <2>2. start \in start .. stop - 1
    BY <1>2
  <2>3. PICK j \in DOMAIN out : out[j].pts = Time(start)
    BY <1>4, <2>2
  <2>4. QED
    BY <1>5, <2>1, <2>3 DEF Past
<1>6. CASE out[i].pic \in start .. stop - 1 /\ out[i].pts = Time(out[i].pic)
  <2>1. PICK a \in start .. stop - 1 : a = out[i].pic
    BY <1>6
  <2>2. a \in Int
    BY <1>2
  <2>3. Time(a + 1) = Time(a) + FrameTime
    BY <1>3, <2>2, TimeLess
  <2>4. out[i].pts + FrameTime = Time(a + 1)
    BY <1>6, <2>1, <2>3
  <2>5. CASE a + 1 = stop
    BY <2>4, <2>5
  <2>6. CASE a + 1 # stop
    <3>1. a + 1 \in start .. stop - 1
      BY <1>2, <2>6
    <3>2. PICK j \in DOMAIN out : out[j].pts = Time(a + 1)
      BY <1>4, <3>1
    <3>3. QED
      BY <2>4, <3>2
  <2>7. QED
    BY <2>5, <2>6
<1>7. QED
  BY <1>2, <1>5, <1>6


LEMMA PastKept ==
  ASSUME TypeOK, Extended, num' = num
  PROVE  /\ Past' = Past
         /\ \A i \in Past : out'[i] = out[i]
<1>1. /\ DOMAIN out' = 1 .. Len(out') /\ DOMAIN out = 1 .. Len(out)
      /\ Len(out) \in Nat /\ Len(out') \in Nat /\ Len(out') >= Len(out)
      /\ \A i \in 1 .. Len(out) : out'[i] = out[i]
      /\ \A i \in Len(out) + 1 .. Len(out') : out'[i].range = num
  BY DEF Extended
<1>2. \A i \in Past : i \in 1 .. Len(out) /\ out[i].range < num
  BY <1>1 DEF Past
<1>3. \A i \in 1 .. Len(out) : i \in 1 .. Len(out')
  BY <1>1
<1>4. \A i \in 1 .. Len(out') : i \in 1 .. Len(out) \/ i \in Len(out) + 1 .. Len(out')
  BY <1>1
<1>5. num \in Nat
  BY DEF TypeOK
<1>6. \A i \in 1 .. Len(out') : out'[i].range < num => i \in 1 .. Len(out)
  BY <1>1, <1>4, <1>5
<1>7. Past' = {i \in 1 .. Len(out') : out'[i].range < num}
  BY <1>1 DEF Past
<1>8. Past = {i \in 1 .. Len(out) : out[i].range < num}
  BY <1>1 DEF Past
<1>9. Past' = Past
  BY <1>1, <1>3, <1>6, <1>7, <1>8
<1>10. QED
  BY <1>1, <1>2, <1>9

(* Between two ranges everything is past.                                  *)
LEMMA AllPast ==
  ASSUME TypeOK, RangeOK, out' = out, num' = num + 1
  PROVE  /\ Past' = DOMAIN out
         /\ ~InRange => Past = DOMAIN out
<1>1. num \in Nat
  BY DEF TypeOK
<1>2. \A i \in DOMAIN out :
        /\ out[i].range \in Nat /\ out[i].range <= num
        /\ out[i].range = num => InRange
  BY DtsTypes DEF RangeOK, Tagged
<1>3. \A i \in DOMAIN out : out[i].range < num + 1 /\ (~InRange => out[i].range < num)
  BY <1>1, <1>2
<1>4. QED
  BY <1>3 DEF Past

LEMMA SeamEnd ==
  ASSUME InputOK, TypeOK, RangeOK, CopyOK, WrittenOK, PictureTimed, shown.ordered,
         NoHeadless, intact, PastOK, [Next]_vars, End
  PROVE  PastOK'
<1>1. /\ pc = "end" /\ InRange /\ num \in 1 .. Len(ranges) /\ out' = out
      /\ num' = num + 1 /\ mux' = MuxAdvanced /\ NextRange /\ UNCHANGED input
      /\ pc' \in {"range", "done"} /\ ~InRange'
  BY NumInRange DEF End, NextRange, InRange
<1>2. mux'.vpts = Time(stop)
  BY <1>1, EndFacts DEF Ended
<1>3. Past' = DOMAIN out
  BY <1>1, AllPast
<1>4. \A i, j \in Past' :
        Apart(out'[i], out'[j]) /\ (out'[i].pts = out'[j].pts => i = j)
  BY <1>1, <1>3, AllApart
<1>5. \A i \in Past' : out'[i].pts + FrameTime <= mux'.vpts
  BY <1>1, <1>2, <1>3, AllEnded
<1>6. pc' # "done" => \A i \in Past' : out'[i].pic < start'
  <2> SUFFICES ASSUME pc' = "range", NEW i \in DOMAIN out
               PROVE  out[i].pic < start'
    BY <1>1, <1>3
  <2>1. stop \in Int /\ start' \in Int /\ stop <= start'
    BY <1>1, NextStart
  <2>2. out[i].pic < stop /\ out[i].pic \in Int
    BY <1>1, AllEnded, DtsTypes
  <2>3. QED
    BY <2>1, <2>2
<1>7. Untroubled' => \A i \in Past' :
        \/ out'[i].pts + FrameTime = mux'.vpts
        \/ \E j \in Past' : out'[j].pts = out'[i].pts + FrameTime
  <2> SUFFICES ASSUME Untroubled', NEW i \in DOMAIN out
               PROVE  \/ out[i].pts + FrameTime = Time(stop)
                      \/ \E j \in DOMAIN out : out[j].pts = out[i].pts + FrameTime
    BY <1>1, <1>2, <1>3
  <2>1. Untroubled
    BY TroubleStays
  <2>2. QED
    BY <1>1, <2>1, AllContinued
<1>8. QED
  BY <1>1, <1>4, <1>5, <1>6, <1>7 DEF PastOK

LEMMA SeamEmpty ==
  ASSUME InputOK, TypeOK, RangeOK, PastOK, [Next]_vars, EmptyRange
  PROVE  PastOK'
<1>1. /\ pc = "range" /\ ~InRange /\ num \in 1 .. Len(ranges) /\ out' = out
      /\ num' = num + 1 /\ mux' = mux /\ NextRange /\ UNCHANGED input
      /\ pc' \in {"range", "done"} /\ ~InRange'
  BY NumInRange DEF EmptyRange, NextRange, InRange
<1>2. Past' = DOMAIN out /\ Past = DOMAIN out
  BY <1>1, AllPast
<1>3. pc' # "done" => \A i \in Past' : out'[i].pic < start'
  <2> SUFFICES ASSUME pc' = "range", NEW i \in DOMAIN out
               PROVE  out[i].pic < start'
    BY <1>1, <1>2
  <2>1. start \in Int /\ start' \in Int /\ start <= start'
    BY <1>1, NextStart
  <2>2. out[i].pic < start
    BY <1>1, <1>2 DEF PastOK
  <2>3. out[i].pic \in Int
    BY DtsTypes
  <2>4. QED
    BY <2>1, <2>2, <2>3
<1>4. Untroubled' => Untroubled
  BY TroubleStays
<1>5. QED
  BY <1>1, <1>2, <1>3, <1>4 DEF PastOK

LEMMA SeamBegin ==
  ASSUME InputOK, TypeOK, RangeOK, PastOK, [Next]_vars, Begin
  PROVE  PastOK'
<1>1. /\ pc = "range" /\ pc' = "head" /\ num' = num /\ out' = out /\ UNCHANGED input
      /\ Past' = Past
  BY DEF Begin, Past
<1>2. Begun
  BY BeginFacts
<1>3. start' = start
  BY <1>1, SameRange
<1>4. CASE mux.empty
  <2>1. Past' = {}
    BY <1>1, <1>4 DEF RangeOK, NothingYet, Past
  <2>2. QED
    BY <2>1 DEF PastOK
<1>5. CASE ~mux.empty
  <2>1. mux'.vpts = mux.vpts /\ videooffset' = start * FrameTime - mux.vpts
    BY <1>2, <1>5 DEF Begun
  <2>2. Time(start)' = mux'.vpts
    <3>1. PICK s \in Int : s = start * FrameTime
      <4>1. start \in Int
        BY <1>1, NumInRange, RangeFacts
      <4>2. QED
        BY <4>1, TimeOrder
    <3>2. mux.vpts \in Int
      BY DtsTypes
    <3>3. Time(start)' = s - (s - mux.vpts)
      BY <1>3, <2>1, <3>1 DEF Time
    <3>4. QED
      BY <2>1, <3>2, <3>3
  <2>3. Untroubled' => Untroubled
    BY TroubleStays
  <2>4. \A i \in Past' : out'[i].pic < start'
    BY <1>1, <1>3 DEF PastOK
  <2>5. QED
    BY <1>1, <2>1, <2>2, <2>3, <2>4 DEF PastOK
<1>6. QED
  BY <1>4, <1>5

LEMMA SeamWithin ==
  ASSUME InputOK, TypeOK, RangeOK, PastOK, [Next]_vars, Within
  PROVE  PastOK'
<1>1. /\ UNCHANGED <<input, num, videooffset>> /\ mux'.vpts = mux.vpts
      /\ InRange' <=> InRange
      /\ pc' = "done" <=> pc = "done"
  BY DEF Within
<1>2. Past' = Past /\ \A i \in Past : out'[i] = out[i]
  BY <1>1, OutExtended, PastKept
<1>3. start' = start /\ Time(start)' = Time(start)
  BY <1>1, SameRange, SameTime
<1>4. Untroubled' => Untroubled
  BY TroubleStays
<1>5. \A i, j \in Past' :
        Apart(out'[i], out'[j]) /\ (out'[i].pts = out'[j].pts => i = j)
  BY <1>2 DEF PastOK
<1>6. \A i \in Past' : out'[i].pts + FrameTime <= mux'.vpts
  BY <1>1, <1>2 DEF PastOK
<1>7. pc' # "done" => \A i \in Past' : out'[i].pic < start'
  BY <1>1, <1>2, <1>3 DEF PastOK
<1>8. InRange' /\ Past' # {} => Time(start)' = mux'.vpts
  BY <1>1, <1>2, <1>3 DEF PastOK
<1>9. Untroubled' => \A i \in Past' :
        \/ out'[i].pts + FrameTime = mux'.vpts
        \/ \E j \in Past' : out'[j].pts = out'[i].pts + FrameTime
  BY <1>1, <1>2, <1>4 DEF PastOK
<1>10. QED
  BY <1>5, <1>6, <1>7, <1>8, <1>9 DEF PastOK

LEMMA SeamNext ==
  ASSUME InputOK, TypeOK, RangeOK, CopyOK, WrittenOK, PictureTimed, SeamOK, [Next]_vars
  PROVE  SeamOK'
<1>1. UNCHANGED input
  BY InputSame
<1>2. (shown.ordered)' = shown.ordered /\ NoHeadless' = NoHeadless
  BY <1>1 DEF input, NoHeadless, Headless, NextSeqHeader, Stored, pictures
<1> SUFFICES ASSUME shown.ordered, NoHeadless, intact'
             PROVE  PastOK'
  BY <1>2 DEF SeamOK
<1>3. PastOK /\ intact
  BY FlawsStay DEF SeamOK
<1>4. QED
  BY <1>3, Kinds, SeamBegin, SeamEmpty, SeamEnd, SeamWithin

LEMMA SeamInvariant == Spec => []SeamOK
<1>1. Init => SeamOK
  <2> SUFFICES ASSUME Init PROVE PastOK
    BY DEF SeamOK
  <2>1. Past = {}
    BY DEF Init, Past
  <2>2. QED
    BY <2>1 DEF PastOK
<1>2. InputOK /\ TypeOK /\ RangeOK /\ CopyOK /\ WrittenOK /\ PictureTimed /\ SeamOK
        /\ [Next]_vars => SeamOK'
  BY SeamNext
<1>3. Spec => [](CopyOK /\ CopiedOK) /\ [](SoundOK /\ PictureTimed /\ Together)
  BY CopyInvariant, SoundInvariant
<1>4. QED
  BY <1>1, <1>2, <1>3, InputInvariant, TypeCorrect, RangeInvariant, WrittenInvariant, PTL
     DEF Spec

(* What a player needs of the output: in an export from a table that an    *)
(* encoder made, in which every range has a sequence header, each picture  *)
(* is decoded behind the one before and not after it is displayed; when    *)
(* the export is done, unless it was cancelled, a picture could not be     *)
(* encoded or reading ended before its time, its pictures are displayed    *)
(* one after the other, without a gap within a range or between two.       *)
THEOREM PicturesTimed == Spec => []PictureTimes
<1>1. ASSUME TypeOK, RangeOK, DtsOK, SeamOK
      PROVE  PictureTimes
  <2> SUFFICES ASSUME shown.ordered, NoHeadless
               PROVE  Decodable /\ (pc = "done" /\ Untroubled => Seamless)
    BY DEF PictureTimes, NoHeadless
  <2>1. Decodable
    BY <1>1 DEF DtsOK
  <2>2. ASSUME pc = "done", Untroubled
        PROVE  Seamless
    <3>1. PastOK
      BY <1>1, <2>2 DEF SeamOK, Untroubled
    <3>2. Past = DOMAIN out
      <4>1. num \in Nat /\ ~InRange
        BY <1>1, <2>2 DEF TypeOK, InRange
      <4>2. \A i \in DOMAIN out :
              /\ out[i].range \in Nat /\ out[i].range <= num
              /\ out[i].range # num
        BY <1>1, <4>1, DtsTypes DEF RangeOK, Tagged
      <4>3. \A i \in DOMAIN out : out[i].range < num
        BY <4>1, <4>2
      <4>4. QED
        BY <4>3 DEF Past
    <3>3. \A i, j \in DOMAIN out :
            /\ out[i].pts < out[j].pts <=> out[i].pic < out[j].pic
            /\ out[i].pts = out[j].pts => i = j
      BY <3>1, <3>2 DEF PastOK, Apart
    <3>4. ASSUME NEW i \in DOMAIN out
          PROVE  \/ \A j \in DOMAIN out : out[j].pts <= out[i].pts
                 \/ \E j \in DOMAIN out : out[j].pts = out[i].pts + FrameTime
      <4>1. \/ out[i].pts + FrameTime = mux.vpts
            \/ \E j \in DOMAIN out : out[j].pts = out[i].pts + FrameTime
        BY <2>2, <3>1, <3>2 DEF PastOK
      <4>2. ASSUME out[i].pts + FrameTime = mux.vpts, NEW j \in DOMAIN out
            PROVE  out[j].pts <= out[i].pts
        <5>1. /\ out[i].pts \in Int /\ out[j].pts \in Int
              /\ FrameTime \in Nat
          BY <1>1, DtsTypes, SaveMpgAssumption
        <5>2. out[j].pts + FrameTime <= mux.vpts
          BY <3>1, <3>2 DEF PastOK
        <5>3. QED
          BY <4>2, <5>1, <5>2
      <4>3. QED
        BY <4>1, <4>2
    <3>5. QED
      BY <3>3, <3>4 DEF Seamless
  <2>3. QED
    BY <2>1, <2>2
<1>2. QED
  BY <1>1, TypeCorrect, RangeInvariant, DtsInvariant, SeamInvariant, PTL
=============================================================================
