-------------------------- MODULE MpegMuxer_proofs --------------------------
(***************************************************************************)
(* Proofs about the multiplexer, for any streams, sizes of buffers and     *)
(* packs, rates and margins, and any number of failed writes: no byte is   *)
(* lost or written twice, the decoder's buffers never overflow, packs are  *)
(* as far apart as the rate says and never sent too early.                 *)
(***************************************************************************)
EXTENDS MpegMuxer, Common_proofs

AUs      == [size: Nat, dts: Nat, pos: Nat, key: BOOLEAN]
Packs    == [bytes: Nat, dts: Nat, last: Nat, minscr: Int, maxscr: Int]
Removals == [scr: Nat, bytes: Nat]
InFile   == [stream: Streams \cup {-1}, bytes: Nat, scr: Nat, whole: BOOLEAN,
             dts: Nat, last: Nat]
StreamRec ==
  [aulist: Seq(AUs), packlist: Seq(Packs), removals: Seq(Removals), fill: Nat]

(* Access units wait in the order in which they are decoded.               *)
AuOrder ==
  \A s \in Streams :
    /\ \A i \in DOMAIN st[s].aulist : st[s].aulist[i].dts < NextDts(s)
    /\ \A i, j \in DOMAIN st[s].aulist :
         i < j => st[s].aulist[i].dts <= st[s].aulist[j].dts

Conserved ==
  \A s \in Streams :
    Carried(s) + Sum(st[s].packlist) + Bytes(st[s].aulist) = Given(s)

(* The streams in the list: all that have packs, each once, those without  *)
(* at its end.                                                             *)
ListComplete ==
  pc = "mux" =>
    /\ \A s \in Streams : st[s].packlist # << >> =>
         \E i \in DOMAIN streamlist : streamlist[i] = s
    /\ \A i, j \in DOMAIN streamlist : i < j =>
         /\ streamlist[i] # streamlist[j]
         /\ st[streamlist[i]].packlist = << >> => st[streamlist[j]].packlist = << >>

(* The last flush leaves nothing behind, unless a write fails.             *)
AllFlushed ==
  /\ pc = "mux" /\ maxdts < 0 => \A s \in Streams : st[s].aulist = << >>
  /\ pc = "closed" /\ failures = 0 =>
       \A s \in Streams : st[s].aulist = << >> /\ st[s].packlist = << >>

(* No pack may be sent before its last byte may arrive.                    *)
EarliestTimes ==
  \A s \in Streams : \A i \in DOMAIN st[s].packlist :
    st[s].packlist[i].last - Second <= st[s].packlist[i].minscr

(* The clock is past the last pack in the file; with a bridge it waits for *)
(* what may be sent later.                                                 *)
ClockPastFile ==
  file # << >> =>
    LET end == file[Len(file)]
    IN  /\ end.scr <= scr
        /\ end.stream # -1 => end.scr + PackTime <= scr
        /\ end.stream = -1 /\ end.whole /\ end.scr = scr =>
             pc = "mux" /\ More /\ Ready = {}

(* The removals still to come are those of the access units given last;    *)
(* those before them were decoded by the time t.                           *)
Gone(s, removals) == Len(given[s]) - Len(removals)

Matches(s, removals, t) ==
  /\ Gone(s, removals) \in Nat
  /\ \A i \in DOMAIN removals :
       /\ removals[i].scr = given[s][Gone(s, removals) + i].dts
       /\ removals[i].bytes = given[s][Gone(s, removals) + i].size
  /\ \A i \in 1 .. Gone(s, removals) : given[s][i].dts <= t

RemovalsGiven == \A s \in Streams : Matches(s, st[s].removals, scr)

GivenOrder ==
  \A s \in Streams :
    /\ \A i \in DOMAIN given[s] : given[s][i].dts < NextDts(s)
    /\ \A i, j \in DOMAIN given[s] : i < j => given[s][i].dts < given[s][j].dts

(* The fill level is not below what has been sent and not decoded.         *)
Covers(s, stream) ==
  Carried(s) - (Given(s) - Sum(stream.removals)) <= stream.fill

FillCovers == \A s \in Streams : Covers(s, st[s])

IInv ==
  /\ TypeOK /\ AuOrder /\ Conserved /\ ListComplete /\ AllFlushed
  /\ EarliestTimes /\ NotTooEarly /\ ClockPastFile /\ RateKept
  /\ GivenOrder /\ RemovalsGiven /\ FillCovers /\ BufferHolds

-----------------------------------------------------------------------------
(* Sums over packs and removals.                                           *)
LEMMA SumList ==
  ASSUME NEW S, NEW list \in Seq(S), \A e \in S : e.bytes \in Nat
  PROVE  /\ [i \in DOMAIN list |-> list[i].bytes] \in Seq(Nat)
         /\ [i \in DOMAIN list |-> list[i].bytes] \in Seq(Int)
         /\ Len([i \in DOMAIN list |-> list[i].bytes]) = Len(list)
         /\ Sum(list) = Total[[i \in DOMAIN list |-> list[i].bytes]]
         /\ Sum(list) \in Nat
<1> DEFINE f == [i \in DOMAIN list |-> list[i].bytes]
<1>1. Len(list) \in Nat /\ DOMAIN list = 1 .. Len(list)
  BY LenProperties
<1>2. \A i \in 1 .. Len(list) : list[i] \in S
  BY ElementOfSeq
<1>3. f \in [1 .. Len(list) -> Nat]
  BY <1>1, <1>2
<1>4. f \in Seq(Nat) /\ Len(f) = Len(list)
  BY <1>1, <1>3, FcnIsSeq
<1>5. f \in Seq(Int)
  BY <1>1, <1>3, FcnIsSeq, SeqMonotonic
<1>6. Sum(list) = Total[f]
  BY DEF Sum
<1>7. QED
  BY <1>4, <1>5, <1>6, TotalNat

LEMMA SumEmpty == Sum(<< >>) = 0
<1> DEFINE f == [i \in DOMAIN << >> |-> << >>[i].bytes]
<1>1. << >> \in Seq(Removals)
  BY EmptySeq
<1>2. f \in [1 .. 0 -> Int]
  OBVIOUS
<1>3. f \in Seq(Int) /\ Len(f) = 0
  BY <1>2, FcnIsSeq
<1>4. Total[f] = 0
  BY <1>3, TotalEmpty
<1>5. QED
  BY <1>4 DEF Sum

(* Lists with the same bytes at each place.                                *)
LEMMA SumSame ==
  ASSUME NEW S, NEW T, NEW a \in Seq(S), NEW b \in Seq(T), Len(a) = Len(b),
         \A i \in 1 .. Len(a) : a[i].bytes = b[i].bytes
  PROVE  Sum(a) = Sum(b)
<1>1. DOMAIN a = 1 .. Len(a) /\ DOMAIN b = 1 .. Len(a)
  BY LenProperties
<1>2. [i \in DOMAIN a |-> a[i].bytes] = [i \in DOMAIN b |-> b[i].bytes]
  BY <1>1
<1>3. QED
  BY <1>2 DEF Sum

(* A list that is two lists one behind the other.                          *)
LEMMA SumJoin ==
  ASSUME NEW S, NEW a \in Seq(S), NEW b \in Seq(S), NEW c \in Seq(S),
         \A e \in S : e.bytes \in Nat, Len(c) = Len(a) + Len(b),
         \A i \in 1 .. Len(a) : c[i].bytes = a[i].bytes,
         \A i \in Len(a) + 1 .. Len(c) : c[i].bytes = b[i - Len(a)].bytes
  PROVE  Sum(c) = Sum(a) + Sum(b)
<1> DEFINE f == [i \in DOMAIN a |-> a[i].bytes]
           g == [i \in DOMAIN b |-> b[i].bytes]
           h == [i \in DOMAIN c |-> c[i].bytes]
<1>1. f \in Seq(Int) /\ Len(f) = Len(a) /\ Sum(a) = Total[f]
  BY SumList
<1>2. g \in Seq(Int) /\ Len(g) = Len(b) /\ Sum(b) = Total[g]
  BY SumList
<1>3. h \in Seq(Int) /\ Len(h) = Len(c) /\ Sum(c) = Total[h]
  BY SumList
<1>4. /\ Len(a) \in Nat /\ Len(b) \in Nat /\ DOMAIN a = 1 .. Len(a)
      /\ DOMAIN b = 1 .. Len(b) /\ DOMAIN c = 1 .. Len(a) + Len(b)
  BY LenProperties
<1>5. \A i \in 1 .. Len(f) : h[i] = f[i]
  BY <1>1, <1>4
<1>6. ASSUME NEW i \in Len(f) + 1 .. Len(h)
      PROVE  h[i] = g[i - Len(f)]
  <2>1. i \in Len(a) + 1 .. Len(c) /\ i \in DOMAIN c /\ i - Len(a) \in DOMAIN b
    BY <1>1, <1>3, <1>4
  <2>2. QED
    BY <1>1, <2>1
<1>9. Len(h) = Len(f) + Len(g)
  BY <1>1, <1>2, <1>3
<1> HIDE DEF f, g, h
<1>7. Total[h] = Total[f] + Total[g]
  BY <1>1, <1>2, <1>3, <1>5, <1>6, <1>9, TotalJoin
<1>8. QED
  BY <1>1, <1>2, <1>3, <1>7

LEMMA SumConcat ==
  ASSUME NEW S, NEW a \in Seq(S), NEW b \in Seq(S), \A e \in S : e.bytes \in Nat
  PROVE  Sum(a \o b) = Sum(a) + Sum(b)
<1>1. /\ a \o b \in Seq(S) /\ Len(a \o b) = Len(a) + Len(b)
      /\ \A i \in 1 .. Len(a) + Len(b) :
           (a \o b)[i] = IF i <= Len(a) THEN a[i] ELSE b[i - Len(a)]
  BY ConcatProperties
<1>2. Len(a) \in Nat /\ Len(b) \in Nat
  BY LenProperties
<1>3. \A i \in 1 .. Len(a) : (a \o b)[i] = a[i]
  BY <1>1, <1>2
<1>4. \A i \in Len(a) + 1 .. Len(a) + Len(b) : (a \o b)[i] = b[i - Len(a)]
  BY <1>1, <1>2
<1> DEFINE c == a \o b
<1> HIDE DEF c
<1>5. c \in Seq(S) /\ Len(c) = Len(a) + Len(b)
      /\ (\A i \in 1 .. Len(a) : c[i].bytes = a[i].bytes)
      /\ (\A i \in Len(a) + 1 .. Len(c) : c[i].bytes = b[i - Len(a)].bytes)
  BY <1>1, <1>3, <1>4 DEF c
<1>6. Sum(c) = Sum(a) + Sum(b)
  BY <1>5, SumJoin, ZenonT(60)
<1>7. QED
  BY <1>6 DEF c

LEMMA SumCut ==
  ASSUME NEW S, NEW list \in Seq(S), \A e \in S : e.bytes \in Nat,
         NEW k \in 0 .. Len(list)
  PROVE  /\ SubSeq(list, 1, k) \in Seq(S)
         /\ SubSeq(list, k + 1, Len(list)) \in Seq(S)
         /\ Sum(list) = Sum(SubSeq(list, 1, k)) + Sum(SubSeq(list, k + 1, Len(list)))
<1>1. Len(list) \in Nat /\ \A i \in 1 .. Len(list) : list[i] \in S
  BY LenProperties, ElementOfSeq
<1> DEFINE a == SubSeq(list, 1, k)
           b == SubSeq(list, k + 1, Len(list))
<1>2. a \in Seq(S) /\ Len(a) = k /\ \A i \in 1 .. k : a[i] = list[i]
  <2>1. \A i \in 1 .. k : list[i] \in S
    BY <1>1
  <2>2. QED
    BY <1>1, <2>1, SubSeqProperties
<1>3. /\ b \in Seq(S) /\ Len(b) = Len(list) - k
      /\ \A i \in 1 .. Len(list) - k : b[i] = list[k + 1 + i - 1]
  <2>1. \A i \in k + 1 .. Len(list) : list[i] \in S
    BY <1>1
  <2>2. QED
    BY <1>1, <2>1, SubSeqProperties
<1> HIDE DEF a, b
<1>4. Len(list) = Len(a) + Len(b) /\ \A i \in 1 .. Len(a) : list[i].bytes = a[i].bytes
  BY <1>1, <1>2, <1>3
<1>7. ASSUME NEW i \in Len(a) + 1 .. Len(list)
      PROVE  list[i].bytes = b[i - Len(a)].bytes
  <2>1. i - k \in 1 .. Len(list) - k /\ k + 1 + (i - k) - 1 = i
    BY <1>1, <1>2
  <2>2. QED
    BY <1>2, <1>3, <2>1
<1>5. Sum(list) = Sum(a) + Sum(b)
  <2>1. /\ \A i \in 1 .. Len(a) : list[i].bytes = a[i].bytes
        /\ \A i \in Len(a) + 1 .. Len(list) : list[i].bytes = b[i - Len(a)].bytes
        /\ Len(list) = Len(a) + Len(b)
    BY <1>4, <1>7
  <2>2. a \in Seq(S) /\ b \in Seq(S)
    BY <1>2, <1>3
  <2>3. QED
    BY <2>1, <2>2, SumJoin, ZenonT(60)
<1>6. QED
  BY <1>2, <1>3, <1>5 DEF a, b

LEMMA SumTail ==
  ASSUME NEW S, NEW list \in Seq(S), \A e \in S : e.bytes \in Nat, list # << >>
  PROVE  Sum(list) = Head(list).bytes + Sum(Tail(list))
<1> DEFINE f == [i \in DOMAIN list |-> list[i].bytes]
           rest == Tail(list)
           g == [i \in DOMAIN rest |-> rest[i].bytes]
<1>1. /\ rest \in Seq(S) /\ Len(rest) = Len(list) - 1 /\ Len(list) \in Nat \ {0}
      /\ \A i \in 1 .. Len(rest) : rest[i] = list[i + 1]
  BY HeadTailProperties, EmptySeq
<1>2. Head(list) = list[1]
  BY <1>1
<1> HIDE DEF rest
<1>3. f \in Seq(Int) /\ Len(f) = Len(list) /\ Sum(list) = Total[f]
  BY SumList
<1>4. g \in Seq(Int) /\ Len(g) = Len(rest) /\ Sum(rest) = Total[g]
  BY <1>1, SumList
<1>5. DOMAIN list = 1 .. Len(list) /\ DOMAIN rest = 1 .. Len(rest)
  BY <1>1, LenProperties
<1>6. f[1] = list[1].bytes /\ Len(f) = Len(g) + 1
  BY <1>1, <1>3, <1>4, <1>5
<1>7. \A i \in 1 .. Len(g) : f[i + 1] = g[i]
  BY <1>1, <1>4, <1>5
<1> HIDE DEF f, g
<1>8. Total[f] = f[1] + Total[g]
  BY <1>3, <1>4, <1>6, <1>7, TotalFirst
<1>9. QED
  BY <1>2, <1>3, <1>4, <1>6, <1>8 DEF rest

-----------------------------------------------------------------------------
(* What is left of access units.                                           *)
LEMMA BytesList ==
  ASSUME NEW aus \in Seq(AUs)
  PROVE  /\ [i \in DOMAIN aus |-> Rest(aus[i])] \in Seq(Int)
         /\ Len([i \in DOMAIN aus |-> Rest(aus[i])]) = Len(aus)
         /\ Bytes(aus) = Total[[i \in DOMAIN aus |-> Rest(aus[i])]]
         /\ Bytes(aus) \in Int
<1> DEFINE f == [i \in DOMAIN aus |-> Rest(aus[i])]
<1>1. Len(aus) \in Nat /\ DOMAIN aus = 1 .. Len(aus)
  BY LenProperties
<1>2. \A i \in 1 .. Len(aus) : aus[i] \in AUs
  BY ElementOfSeq
<1>3. f \in [1 .. Len(aus) -> Int]
  BY <1>1, <1>2 DEF Rest, AUs
<1>4. f \in Seq(Int) /\ Len(f) = Len(aus)
  BY <1>1, <1>3, FcnIsSeq
<1>5. Bytes(aus) = Total[f]
  BY DEF Bytes
<1>6. QED
  BY <1>4, <1>5, TotalType

LEMMA BytesNat ==
  ASSUME NEW aus \in Seq(AUs), \A i \in 1 .. Len(aus) : aus[i].pos < aus[i].size
  PROVE  Bytes(aus) \in Nat
<1> DEFINE f == [i \in DOMAIN aus |-> Rest(aus[i])]
<1>1. Len(aus) \in Nat /\ DOMAIN aus = 1 .. Len(aus)
  BY LenProperties
<1>2. \A i \in 1 .. Len(aus) : aus[i] \in AUs
  BY ElementOfSeq
<1>3. f \in [1 .. Len(aus) -> Nat]
  BY <1>1, <1>2 DEF Rest, AUs
<1>4. f \in Seq(Nat)
  BY <1>1, <1>3, FcnIsSeq
<1>5. Bytes(aus) = Total[f]
  BY DEF Bytes
<1>6. QED
  BY <1>4, <1>5, TotalNat

LEMMA BytesEmpty == Bytes(<< >>) = 0
<1> DEFINE f == [i \in DOMAIN << >> |-> Rest(<< >>[i])]
<1>1. f \in [1 .. 0 -> Int]
  OBVIOUS
<1>2. f \in Seq(Int) /\ Len(f) = 0
  BY <1>1, FcnIsSeq
<1>3. Total[f] = 0
  BY <1>2, TotalEmpty
<1>4. QED
  BY <1>3 DEF Bytes

LEMMA BytesJoin ==
  ASSUME NEW a \in Seq(AUs), NEW b \in Seq(AUs), NEW c \in Seq(AUs),
         Len(c) = Len(a) + Len(b),
         \A i \in 1 .. Len(a) : c[i] = a[i],
         \A i \in Len(a) + 1 .. Len(c) : c[i] = b[i - Len(a)]
  PROVE  Bytes(c) = Bytes(a) + Bytes(b)
<1> DEFINE f == [i \in DOMAIN a |-> Rest(a[i])]
           g == [i \in DOMAIN b |-> Rest(b[i])]
           h == [i \in DOMAIN c |-> Rest(c[i])]
<1>1. f \in Seq(Int) /\ Len(f) = Len(a) /\ Bytes(a) = Total[f]
  BY BytesList
<1>2. g \in Seq(Int) /\ Len(g) = Len(b) /\ Bytes(b) = Total[g]
  BY BytesList
<1>3. h \in Seq(Int) /\ Len(h) = Len(c) /\ Bytes(c) = Total[h]
  BY BytesList
<1>4. /\ Len(a) \in Nat /\ Len(b) \in Nat /\ DOMAIN a = 1 .. Len(a)
      /\ DOMAIN b = 1 .. Len(b) /\ DOMAIN c = 1 .. Len(a) + Len(b)
  BY LenProperties
<1>5. \A i \in 1 .. Len(f) : h[i] = f[i]
  BY <1>1, <1>4
<1>6. ASSUME NEW i \in Len(f) + 1 .. Len(h)
      PROVE  h[i] = g[i - Len(f)]
  <2>1. i \in Len(a) + 1 .. Len(c) /\ i \in DOMAIN c /\ i - Len(a) \in DOMAIN b
    BY <1>1, <1>3, <1>4
  <2>2. QED
    BY <1>1, <2>1
<1>7. Len(h) = Len(f) + Len(g)
  BY <1>1, <1>2, <1>3
<1> HIDE DEF f, g, h
<1>8. Total[h] = Total[f] + Total[g]
  BY <1>1, <1>2, <1>3, <1>5, <1>6, <1>7, TotalJoin
<1>9. QED
  BY <1>1, <1>2, <1>3, <1>8

LEMMA BytesOne ==
  ASSUME NEW au \in AUs
  PROVE  Bytes(<<au>>) = Rest(au)
<1> DEFINE f == [i \in DOMAIN <<au>> |-> Rest(<<au>>[i])]
<1>1. <<au>> \in Seq(AUs) /\ Len(<<au>>) = 1 /\ <<au>>[1] = au /\ DOMAIN <<au>> = 1 .. 1
  OBVIOUS
<1>2. f \in Seq(Int) /\ Len(f) = 1 /\ Bytes(<<au>>) = Total[f]
  BY <1>1, BytesList
<1>3. f[1] = Rest(au) /\ f[1] \in Int
  BY <1>1 DEF Rest, AUs
<1> DEFINE none == [i \in 1 .. 0 |-> 0]
<1>4. none \in Seq(Int) /\ Len(none) = 0
  <2>1. none \in [1 .. 0 -> Int]
    OBVIOUS
  <2>2. QED
    BY <2>1, FcnIsSeq
<1>5. Total[none] = 0
  BY <1>4, TotalEmpty
<1> HIDE DEF f, none
<1>6. Len(f) = Len(none) + 1 /\ \A i \in 1 .. Len(none) : none[i] = f[i + 1]
  BY <1>2, <1>4
<1>7. Total[f] = f[1] + Total[none]
  BY <1>2, <1>4, <1>6, TotalFirst
<1>8. QED
  BY <1>2, <1>3, <1>5, <1>7

(* Up to an access unit, and from it on.                                   *)
LEMMA BytesCut ==
  ASSUME NEW aus \in Seq(AUs), NEW k \in 0 .. Len(aus)
  PROVE  /\ SubSeq(aus, 1, k) \in Seq(AUs)
         /\ SubSeq(aus, k + 1, Len(aus)) \in Seq(AUs)
         /\ Len(SubSeq(aus, k + 1, Len(aus))) = Len(aus) - k
         /\ \A i \in 1 .. Len(aus) - k : SubSeq(aus, k + 1, Len(aus))[i] = aus[k + i]
         /\ Bytes(aus) = Bytes(SubSeq(aus, 1, k)) + Bytes(SubSeq(aus, k + 1, Len(aus)))
<1>1. Len(aus) \in Nat /\ \A i \in 1 .. Len(aus) : aus[i] \in AUs
  BY LenProperties, ElementOfSeq
<1> DEFINE a == SubSeq(aus, 1, k)
           b == SubSeq(aus, k + 1, Len(aus))
<1>2. a \in Seq(AUs) /\ Len(a) = k /\ \A i \in 1 .. k : a[i] = aus[i]
  <2>1. \A i \in 1 .. k : aus[i] \in AUs
    BY <1>1
  <2>2. QED
    BY <1>1, <2>1, SubSeqProperties
<1>3. /\ b \in Seq(AUs) /\ Len(b) = Len(aus) - k
      /\ \A i \in 1 .. Len(aus) - k : b[i] = aus[k + i]
  <2>1. \A i \in k + 1 .. Len(aus) : aus[i] \in AUs
    BY <1>1
  <2>2. /\ b \in Seq(AUs) /\ Len(b) = Len(aus) - k
        /\ \A i \in 1 .. Len(aus) - (k + 1) + 1 : b[i] = aus[k + 1 + i - 1]
    BY <1>1, <2>1, SubSeqProperties
  <2>3. ASSUME NEW i \in 1 .. Len(aus) - k
        PROVE  b[i] = aus[k + i]
    <3>1. i \in 1 .. Len(aus) - (k + 1) + 1 /\ k + 1 + i - 1 = k + i
      BY <1>1
    <3>2. QED
      BY <2>2, <3>1
  <2>4. QED
    BY <2>2, <2>3
<1> HIDE DEF a, b
<1>4. Len(aus) = Len(a) + Len(b) /\ \A i \in 1 .. Len(a) : aus[i] = a[i]
  BY <1>1, <1>2, <1>3
<1>5. ASSUME NEW i \in Len(a) + 1 .. Len(aus)
      PROVE  aus[i] = b[i - Len(a)]
  <2>1. i - k \in 1 .. Len(aus) - k /\ k + (i - k) = i
    BY <1>1, <1>2
  <2>2. QED
    BY <1>2, <1>3, <2>1
<1>6. Bytes(aus) = Bytes(a) + Bytes(b)
  BY <1>2, <1>3, <1>4, <1>5, BytesJoin
<1>7. QED
  BY <1>2, <1>3, <1>6 DEF a, b

LEMMA BytesFirst ==
  ASSUME NEW aus \in Seq(AUs), aus # << >>
  PROVE  /\ Tail(aus) \in Seq(AUs) /\ aus[1] \in AUs /\ Len(aus) \in Nat \ {0}
         /\ Len(Tail(aus)) = Len(aus) - 1
         /\ \A i \in 1 .. Len(aus) - 1 : Tail(aus)[i] = aus[i + 1]
         /\ Bytes(aus) = Rest(aus[1]) + Bytes(Tail(aus))
<1> DEFINE rest == Tail(aus)
<1>1. /\ rest \in Seq(AUs) /\ Len(rest) = Len(aus) - 1 /\ Len(aus) \in Nat \ {0}
      /\ \A i \in 1 .. Len(rest) : rest[i] = aus[i + 1]
  BY HeadTailProperties, EmptySeq
<1>2. aus[1] \in AUs
  BY <1>1, ElementOfSeq
<1> DEFINE one == <<aus[1]>>
<1>3. one \in Seq(AUs) /\ Len(one) = 1 /\ one[1] = aus[1] /\ Bytes(one) = Rest(aus[1])
  BY <1>2, BytesOne
<1> HIDE DEF one, rest
<1>4. Len(aus) = Len(one) + Len(rest) /\ \A i \in 1 .. Len(one) : aus[i] = one[i]
  BY <1>1, <1>3
<1>5. ASSUME NEW i \in Len(one) + 1 .. Len(aus)
      PROVE  aus[i] = rest[i - Len(one)]
  <2>1. i - 1 \in 1 .. Len(rest) /\ (i - 1) + 1 = i
    BY <1>1, <1>3
  <2>2. QED
    BY <1>1, <1>3, <2>1
<1>6. Bytes(aus) = Bytes(one) + Bytes(rest)
  BY <1>1, <1>3, <1>4, <1>5, BytesJoin
<1>7. QED
  BY <1>1, <1>2, <1>3, <1>6 DEF rest

(* One more access unit up to a place.                                     *)
LEMMA BytesNext ==
  ASSUME NEW aus \in Seq(AUs), NEW k \in 0 .. Len(aus) - 1
  PROVE  Bytes(SubSeq(aus, 1, k + 1)) = Bytes(SubSeq(aus, 1, k)) + Rest(aus[k + 1])
<1>1. Len(aus) \in Nat /\ k + 1 \in 1 .. Len(aus)
  BY LenProperties
<1> DEFINE a == SubSeq(aus, 1, k)
           c == SubSeq(aus, 1, k + 1)
           one == <<aus[k + 1]>>
<1>2. \A i \in 1 .. k + 1 : aus[i] \in AUs
  BY <1>1, ElementOfSeq
<1>3. a \in Seq(AUs) /\ Len(a) = k /\ \A i \in 1 .. k : a[i] = aus[i]
  <2>1. \A i \in 1 .. k : aus[i] \in AUs
    BY <1>1, <1>2
  <2>2. QED
    BY <1>1, <2>1, SubSeqProperties
<1>4. c \in Seq(AUs) /\ Len(c) = k + 1 /\ \A i \in 1 .. k + 1 : c[i] = aus[i]
  BY <1>1, <1>2, SubSeqProperties
<1>5. /\ one \in Seq(AUs) /\ Len(one) = 1 /\ one[1] = aus[k + 1]
      /\ Bytes(one) = Rest(aus[k + 1])
  BY <1>1, <1>2, BytesOne
<1> HIDE DEF a, c, one
<1>6. Len(c) = Len(a) + Len(one) /\ \A i \in 1 .. Len(a) : c[i] = a[i]
  BY <1>1, <1>3, <1>4, <1>5
<1>7. \A i \in Len(a) + 1 .. Len(c) : c[i] = one[i - Len(a)]
  <2>1. ASSUME NEW i \in Len(a) + 1 .. Len(c)
        PROVE  c[i] = one[i - Len(a)]
    <3>1. i = k + 1 /\ i - Len(a) = 1
      BY <1>1, <1>3, <1>4
    <3>2. QED
      BY <1>4, <1>5, <3>1
  <2>2. QED
    BY <2>1
<1>8. Bytes(c) = Bytes(a) + Bytes(one)
  BY <1>3, <1>4, <1>5, <1>6, <1>7, BytesJoin
<1>9. QED
  BY <1>5, <1>8 DEF a, c

-----------------------------------------------------------------------------
(* What a stream has got, what of it is in the file and what is decoded.   *)
AllGiven == Seq([size: Nat, dts: Nat])

LEMMA GivenFacts ==
  ASSUME NEW s \in Streams, given[s] \in AllGiven, NEW t \in Int
  PROVE  Given(s) \in Nat /\ Decoded(s, t) \in Nat /\ Decoded(s, t) <= Given(s)
<1> DEFINE g == given[s]
           f == [i \in DOMAIN given[s] |-> given[s][i].size]
           d == [i \in DOMAIN given[s] |->
                   IF given[s][i].dts <= t THEN given[s][i].size ELSE 0]
<1>1. Len(g) \in Nat /\ DOMAIN g = 1 .. Len(g)
  BY LenProperties DEF AllGiven
<1>2. \A i \in 1 .. Len(g) : g[i] \in [size: Nat, dts: Nat]
  BY ElementOfSeq DEF AllGiven
<1>3. f \in [1 .. Len(g) -> Nat] /\ d \in [1 .. Len(g) -> Nat]
  BY <1>1, <1>2
<1>4. f \in Seq(Nat) /\ d \in Seq(Nat) /\ f \in Seq(Int) /\ d \in Seq(Int)
      /\ Len(f) = Len(g) /\ Len(d) = Len(g)
  <2>1. f \in Seq(Nat) /\ Len(f) = Len(g) /\ d \in Seq(Nat) /\ Len(d) = Len(g)
    BY <1>1, <1>3, FcnIsSeq
  <2>2. f \in Seq(Int) /\ d \in Seq(Int)
    BY <2>1, SeqMonotonic
  <2>3. QED
    BY <2>1, <2>2
<1>5. \A i \in 1 .. Len(d) : d[i] <= f[i]
  BY <1>1, <1>2, <1>4
<1>6. Given(s) = Total[f] /\ Decoded(s, t) = Total[d]
  BY DEF Given, Decoded
<1> HIDE DEF f, d
<1>7. Total[f] \in Nat /\ Total[d] \in Nat
  BY <1>4, TotalNat
<1>8. Total[d] <= Total[f]
  BY <1>4, <1>5, TotalMonotonic
<1>9. QED
  BY <1>6, <1>7, <1>8

(* A new access unit.                                                      *)
LEMMA GivenAppend ==
  ASSUME NEW s \in Streams, given[s] \in AllGiven, NEW au \in [size: Nat, dts: Nat],
         given'[s] = Append(given[s], au)
  PROVE  Given(s)' = Given(s) + au.size
<1> DEFINE g == given[s]
           h == given'[s]
           a == [i \in DOMAIN given[s] |-> given[s][i].size]
           b == [i \in DOMAIN given'[s] |-> given'[s][i].size]
<1>1. /\ Len(g) \in Nat /\ DOMAIN g = 1 .. Len(g)
      /\ h \in AllGiven /\ Len(h) = Len(g) + 1 /\ DOMAIN h = 1 .. Len(g) + 1
      /\ h[Len(g) + 1] = au /\ \A i \in 1 .. Len(g) : h[i] = g[i]
  BY AppendProperties, LenProperties DEF AllGiven
<1>2. /\ \A i \in 1 .. Len(g) : g[i] \in [size: Nat, dts: Nat]
      /\ \A i \in 1 .. Len(g) + 1 : h[i] \in [size: Nat, dts: Nat]
  BY <1>1, ElementOfSeq DEF AllGiven
<1>3. a \in [1 .. Len(g) -> Int] /\ b \in [1 .. Len(g) + 1 -> Int]
  BY <1>1, <1>2
<1>4. /\ a \in Seq(Int) /\ Len(a) = Len(g)
      /\ b \in Seq(Int) /\ Len(b) = Len(g) + 1
  BY <1>1, <1>3, FcnIsSeq
<1>5. \A i \in 1 .. Len(a) : b[i] = a[i]
  BY <1>1, <1>2, <1>4
<1>6. b[Len(b)] = au.size
  BY <1>1, <1>2, <1>4
<1>7. Given(s) = Total[a] /\ Given(s)' = Total[b]
  BY DEF Given
<1> HIDE DEF a, b
<1>8. Len(b) = Len(a) + 1
  BY <1>1, <1>4
<1>9. Total[b] = Total[a] + b[Len(b)] /\ Total[a] \in Int
  BY <1>4, <1>5, <1>8, TotalAppend, TotalType
<1>10. QED
  BY <1>6, <1>7, <1>9

LEMMA DecodedAppend ==
  ASSUME NEW s \in Streams, given[s] \in AllGiven, NEW au \in [size: Nat, dts: Nat],
         given'[s] = Append(given[s], au), NEW t \in Int
  PROVE  Decoded(s, t)' \in Int /\ Decoded(s, t) <= Decoded(s, t)'
<1> DEFINE g == given[s]
           h == given'[s]
           a == [i \in DOMAIN given[s] |-> IF given[s][i].dts <= t THEN given[s][i].size ELSE 0]
           b == [i \in DOMAIN given'[s] |-> IF given'[s][i].dts <= t THEN given'[s][i].size ELSE 0]
<1>1. /\ Len(g) \in Nat /\ DOMAIN g = 1 .. Len(g)
      /\ h \in AllGiven /\ Len(h) = Len(g) + 1 /\ DOMAIN h = 1 .. Len(g) + 1
      /\ h[Len(g) + 1] = au /\ \A i \in 1 .. Len(g) : h[i] = g[i]
  BY AppendProperties, LenProperties DEF AllGiven
<1>2. /\ \A i \in 1 .. Len(g) : g[i] \in [size: Nat, dts: Nat]
      /\ \A i \in 1 .. Len(g) + 1 : h[i] \in [size: Nat, dts: Nat]
  BY <1>1, ElementOfSeq DEF AllGiven
<1>3. a \in [1 .. Len(g) -> Int] /\ b \in [1 .. Len(g) + 1 -> Int]
  BY <1>1, <1>2
<1>4. /\ a \in Seq(Int) /\ Len(a) = Len(g)
      /\ b \in Seq(Int) /\ Len(b) = Len(g) + 1
  BY <1>1, <1>3, FcnIsSeq
<1>5. \A i \in 1 .. Len(a) : b[i] = a[i]
  BY <1>1, <1>2, <1>4
<1>6. b[Len(b)] \in Nat
  BY <1>1, <1>2, <1>4
<1>7. Decoded(s, t) = Total[a] /\ Decoded(s, t)' = Total[b]
  BY DEF Decoded
<1> HIDE DEF a, b
<1>8. Len(b) = Len(a) + 1
  BY <1>1, <1>4
<1>9. Total[b] = Total[a] + b[Len(b)] /\ Total[a] \in Int
  BY <1>4, <1>5, <1>8, TotalAppend, TotalType
<1>10. QED
  BY <1>6, <1>7, <1>9

(* What has been decoded is at least what has been removed.                *)
LEMMA DecodedAtLeast ==
  ASSUME NEW s \in Streams, given[s] \in AllGiven, NEW removals \in Seq(Removals),
         NEW t \in Int, Matches(s, removals, t)
  PROVE  Given(s) - Sum(removals) <= Decoded(s, t)
<1> DEFINE g == given[s]
           m == Gone(s, removals)
           n == Len(removals)
           f == [i \in DOMAIN given[s] |-> given[s][i].size]
           d == [i \in DOMAIN given[s] |->
                   IF given[s][i].dts <= t THEN given[s][i].size ELSE 0]
           p == [i \in 1 .. m |-> g[i].size]
           r == [i \in DOMAIN removals |-> removals[i].bytes]
           q == [i \in 1 .. n |-> d[m + i]]
<1>1. /\ Len(g) \in Nat /\ DOMAIN g = 1 .. Len(g) /\ n \in Nat /\ m \in Nat
      /\ DOMAIN removals = 1 .. n /\ Len(g) = m + n
  BY LenProperties DEF AllGiven, Matches, Gone
<1>2. /\ \A i \in 1 .. Len(g) : g[i].size \in Nat /\ g[i].dts \in Nat
      /\ \A i \in 1 .. n : removals[i].bytes \in Nat
      /\ \A i \in 1 .. n : removals[i].bytes = g[m + i].size
      /\ \A i \in 1 .. m : g[i].dts <= t
  <2>1. \A i \in 1 .. Len(g) : g[i] \in [size: Nat, dts: Nat]
    BY ElementOfSeq DEF AllGiven
  <2>2. \A i \in 1 .. n : removals[i] \in Removals
    BY ElementOfSeq
  <2>3. QED
    BY <1>1, <2>1, <2>2 DEF Matches, Removals
<1> HIDE DEF g, m, n
<1>3. f \in [1 .. m + n -> Int] /\ d \in [1 .. m + n -> Nat] /\ p \in [1 .. m -> Int]
      /\ r \in [1 .. n -> Int]
  <2>1. f \in [1 .. m + n -> Int] /\ d \in [1 .. m + n -> Nat]
    BY <1>1, <1>2 DEF g
  <2>2. p \in [1 .. m -> Int]
    BY <1>1, <1>2
  <2>3. r \in [1 .. n -> Int]
    BY <1>1, <1>2
  <2>4. QED
    BY <2>1, <2>2, <2>3
<1>4. q \in [1 .. n -> Nat]
  <2> HIDE DEF d
  <2>1. \A i \in 1 .. n : m + i \in 1 .. m + n
    BY <1>1
  <2>2. QED
    BY <1>3, <2>1
<1>5. f \in Seq(Int) /\ Len(f) = m + n
  BY <1>1, <1>3, FcnIsSeq
<1>6. d \in Seq(Int) /\ Len(d) = m + n
  <2>1. d \in Seq(Nat) /\ Len(d) = m + n
    BY <1>1, <1>3, FcnIsSeq
  <2>2. QED
    BY <2>1, SeqMonotonic
<1>7. p \in Seq(Int) /\ Len(p) = m
  BY <1>1, <1>3, FcnIsSeq
<1>8. r \in Seq(Int) /\ Len(r) = n
  BY <1>1, <1>3, FcnIsSeq
<1>9. q \in Seq(Nat) /\ Len(q) = n
  <2> HIDE DEF q
  <2>1. QED
    BY <1>1, <1>4, FcnIsSeq
<1>10. q \in Seq(Int)
  BY <1>9, SeqMonotonic
<1>11. \A i \in 1 .. m : f[i] = p[i] /\ d[i] = p[i]
  BY <1>1, <1>2 DEF g
<1>12. ASSUME NEW i \in m + 1 .. m + n
       PROVE  f[i] = r[i - m] /\ d[i] = q[i - m]
  <2>1. i - m \in 1 .. n /\ m + (i - m) = i /\ i \in 1 .. Len(g)
    BY <1>1
  <2>2. f[i] = g[i].size
    BY <1>1, <2>1 DEF g
  <2>3. r[i - m] = removals[i - m].bytes
    BY <1>1, <2>1
  <2>4. removals[i - m].bytes = g[m + (i - m)].size
    BY <1>2, <2>1
  <2>5. d[i] = q[i - m]
    <3> HIDE DEF d
    <3>1. QED
      BY <2>1
  <2>6. QED
    BY <2>1, <2>2, <2>3, <2>4, <2>5
<1>13. Given(s) = Total[f] /\ Decoded(s, t) = Total[d] /\ Sum(removals) = Total[r]
  BY DEF Given, Decoded, Sum
<1> HIDE DEF f, d, p, r, q
<1>14. Total[f] = Total[p] + Total[r]
  <2>1. Len(f) = Len(p) + Len(r) /\ \A i \in 1 .. Len(p) : f[i] = p[i]
    BY <1>5, <1>7, <1>8, <1>11
  <2>2. \A i \in Len(p) + 1 .. Len(f) : f[i] = r[i - Len(p)]
    BY <1>5, <1>7, <1>12
  <2>3. QED
    BY <1>5, <1>7, <1>8, <2>1, <2>2, TotalJoin
<1>15. Total[d] = Total[p] + Total[q]
  <2>1. Len(d) = Len(p) + Len(q) /\ \A i \in 1 .. Len(p) : d[i] = p[i]
    BY <1>6, <1>7, <1>9, <1>11
  <2>2. \A i \in Len(p) + 1 .. Len(d) : d[i] = q[i - Len(p)]
    BY <1>6, <1>7, <1>12
  <2>3. QED
    BY <1>6, <1>7, <1>10, <2>1, <2>2, TotalJoin
<1>16. Total[q] \in Nat /\ Total[p] \in Int /\ Total[r] \in Int
  BY <1>7, <1>8, <1>9, TotalNat, TotalType
<1>17. QED
  BY <1>13, <1>14, <1>15, <1>16

(* A pack more in the file.                                                *)
LEMMA CarriedNat ==
  ASSUME NEW s, file \in Seq(InFile)
  PROVE  Carried(s) \in Nat
<1> DEFINE f == [i \in DOMAIN file |->
                   IF file[i].stream = s /\ file[i].whole THEN file[i].bytes ELSE 0]
<1>1. Len(file) \in Nat /\ DOMAIN file = 1 .. Len(file)
  BY LenProperties
<1>2. \A i \in 1 .. Len(file) : file[i] \in InFile
  BY ElementOfSeq
<1>3. f \in [1 .. Len(file) -> Nat]
  BY <1>1, <1>2 DEF InFile
<1>4. f \in Seq(Nat)
  BY <1>1, <1>3, FcnIsSeq
<1>5. QED
  BY <1>4, TotalNat DEF Carried

LEMMA CarriedAppend ==
  ASSUME NEW s, file \in Seq(InFile), NEW entry \in InFile, file' = Append(file, entry)
  PROVE  Carried(s)' = Carried(s) + IF entry.stream = s /\ entry.whole
                                      THEN entry.bytes ELSE 0
<1> DEFINE f1 == [i \in DOMAIN file |->
                    IF file[i].stream = s /\ file[i].whole THEN file[i].bytes ELSE 0]
           f2 == [i \in DOMAIN file' |->
                    IF file'[i].stream = s /\ file'[i].whole THEN file'[i].bytes ELSE 0]
<1>1. /\ Len(file) \in Nat /\ DOMAIN file = 1 .. Len(file)
      /\ file' \in Seq(InFile) /\ Len(file') = Len(file) + 1
      /\ DOMAIN file' = 1 .. Len(file) + 1
      /\ file'[Len(file) + 1] = entry /\ \A i \in 1 .. Len(file) : file'[i] = file[i]
  BY AppendProperties, LenProperties
<1>2. /\ \A i \in 1 .. Len(file) : file[i] \in InFile
      /\ \A i \in 1 .. Len(file) + 1 : file'[i] \in InFile
  BY <1>1, ElementOfSeq
<1>3. f1 \in [1 .. Len(file) -> Int] /\ f2 \in [1 .. Len(file) + 1 -> Int]
  <2>1. /\ \A i \in 1 .. Len(file) : file[i].bytes \in Int
        /\ \A i \in 1 .. Len(file) + 1 : file'[i].bytes \in Int
    <3>1. \A e \in InFile : e.bytes \in Int
      BY DEF InFile
    <3>2. QED
      BY <1>2, <3>1
  <2>2. f1 \in [1 .. Len(file) -> Int]
    BY <1>1, <2>1
  <2>3. f2 \in [1 .. Len(file) + 1 -> Int]
    BY <1>1, <2>1
  <2>4. QED
    BY <2>2, <2>3
<1>4. f1 \in Seq(Int) /\ Len(f1) = Len(file) /\ f2 \in Seq(Int) /\ Len(f2) = Len(file) + 1
  BY <1>1, <1>3, FcnIsSeq
<1>5. /\ \A i \in 1 .. Len(f1) : f2[i] = f1[i]
      /\ f2[Len(f2)] = IF entry.stream = s /\ entry.whole THEN entry.bytes ELSE 0
  BY <1>1, <1>4
<1>6. Carried(s) = Total[f1]
  BY DEF Carried
<1>7. Carried(s)' = Total[f2]
  BY DEF Carried
<1> HIDE DEF f1, f2
<1>8. Total[f2] = Total[f1] + f2[Len(f2)]
  BY <1>4, <1>5, TotalAppend
<1>9. QED
  BY <1>5, <1>6, <1>7, <1>8

-----------------------------------------------------------------------------
(* What has been decoded is taken from the account.                        *)
LEMMA StreamType ==
  ASSUME TypeOK, NEW s \in Streams
  PROVE  /\ st[s] \in StreamRec /\ given[s] \in AllGiven
         /\ st[s].aulist \in Seq(AUs) /\ st[s].packlist \in Seq(Packs)
         /\ st[s].removals \in Seq(Removals) /\ st[s].fill \in Nat
<1>1. st[s] \in StreamRec /\ given[s] \in AllGiven
  BY DEF TypeOK, StreamRec, AUs, Packs, Removals, AllGiven
<1>2. QED
  BY <1>1 DEF StreamRec

(* Removals that are still to come, and those that are due.                *)
LEMMA DueExists ==
  ASSUME NEW removals \in Seq(Removals), scr \in Nat
  PROVE  \E k \in 0 .. Len(removals) :
           /\ \A i \in 1 .. k : removals[i].scr <= scr
           /\ k = Len(removals) \/ removals[k + 1].scr > scr
<1> DEFINE n == Len(removals)
           T == {k \in 0 .. n : k = n \/ ~(removals[k + 1].scr <= scr)}
<1>1. n \in Nat
  BY LenProperties
<1>2. T \subseteq Nat /\ T # {}
  <2>1. n \in T
    BY <1>1
  <2>2. QED
    BY <2>1
<1>3. PICK k \in T : \A j \in T : k <= j
  <2> HIDE DEF T
  <2>1. QED
    BY <1>2, LeastNat
<1>4. ASSUME NEW i \in 1 .. k
      PROVE  removals[i].scr <= scr
  <2>1. i - 1 \in 0 .. n /\ i - 1 # n /\ i - 1 < k /\ (i - 1) + 1 = i
    BY <1>1, <1>3
  <2>2. ~(i - 1 \in T)
    <3> HIDE DEF T
    <3>1. QED
      BY <1>2, <1>3, <2>1
  <2>3. QED
    BY <2>1, <2>2
<1>5. k = n \/ ~(removals[k + 1].scr <= scr)
  BY <1>3
<1>6. CASE k = n
  BY <1>3, <1>4, <1>6
<1>7. CASE k # n
  <2>1. k + 1 \in 1 .. n
    BY <1>1, <1>3, <1>7
  <2>2. removals[k + 1] \in Removals
    BY <2>1, ElementOfSeq
  <2>3. ~(removals[k + 1].scr <= scr)
    BY <1>5, <1>7
  <2>4. removals[k + 1].scr > scr
    BY <2>2, <2>3 DEF Removals
  <2>5. QED
    BY <1>3, <1>4, <2>4
<1>8. QED
  BY <1>6, <1>7

LEMMA RemovedFacts ==
  ASSUME TypeOK, NEW s \in Streams, GivenOrder, Matches(s, st[s].removals, scr),
         Covers(s, st[s]), Carried(s) <= Given(s), Carried(s) \in Nat, Given(s) \in Nat
  PROVE  /\ Removed(st[s]) \in StreamRec
         /\ Removed(st[s]).aulist = st[s].aulist
         /\ Removed(st[s]).packlist = st[s].packlist
         /\ Matches(s, Removed(st[s]).removals, scr)
         /\ Covers(s, Removed(st[s]))
         /\ \A i \in DOMAIN Removed(st[s]).removals : Removed(st[s]).removals[i].scr > scr
<1> DEFINE old == st[s]
           rem == st[s].removals
           g   == given[s]
           m   == Gone(s, rem)
           n   == Len(rem)
           new == Removed(st[s])
<1>1. /\ old \in StreamRec /\ rem \in Seq(Removals) /\ g \in AllGiven /\ scr \in Nat
      /\ old.fill \in Nat
  BY StreamType DEF TypeOK
<1>2. /\ n \in Nat /\ DOMAIN rem = 1 .. n /\ m \in Nat /\ Len(g) = m + n
      /\ DOMAIN g = 1 .. m + n
  BY <1>1, LenProperties DEF Matches, Gone, AllGiven
<1>3. /\ \A i \in 1 .. n : rem[i].scr = g[m + i].dts /\ rem[i].bytes = g[m + i].size
      /\ \A i \in 1 .. m : g[i].dts <= scr
  BY <1>2 DEF Matches
<1>4. /\ \A i \in 1 .. m + n : g[i].dts \in Nat
      /\ \A i, j \in 1 .. m + n : i < j => g[i].dts < g[j].dts
  <2>1. \A i \in 1 .. m + n : g[i] \in [size: Nat, dts: Nat]
    BY <1>1, <1>2, ElementOfSeq DEF AllGiven
  <2>2. QED
    BY <1>2, <2>1 DEF GivenOrder
<1>5. CASE rem = << >>
  <2>1. new = old
    BY <1>5 DEF Removed
  <2>2. \A i \in DOMAIN rem : FALSE
    BY <1>5
  <2>3. QED
    BY <1>1, <2>1, <2>2
<1>6. CASE rem # << >> /\ Last(rem).scr <= scr
  <2>1. new = [old EXCEPT !.removals = << >>, !.fill = 0]
    BY <1>6 DEF Removed
  <2>2. n \in Nat \ {0} /\ Last(rem) = rem[n]
    BY <1>1, <1>6, EmptySeq DEF Last
  <2>3. /\ new \in StreamRec /\ new.aulist = old.aulist
        /\ new.packlist = old.packlist /\ new.removals = << >> /\ new.fill = 0
    <3>1. << >> \in Seq(Removals)
      BY EmptySeq
    <3> HIDE DEF old, new
    <3>2. QED
      BY <1>1, <2>1, <3>1 DEF StreamRec
  <2>4. g[m + n].dts <= scr
    <3>1. rem[n].scr = g[m + n].dts
      BY <1>3, <2>2
    <3>2. QED
      BY <1>6, <2>2, <3>1
  <2>5. \A i \in 1 .. m + n : g[i].dts <= scr
    <3>1. ASSUME NEW i \in 1 .. m + n
          PROVE  g[i].dts <= scr
      <4>1. m + n \in 1 .. m + n
        BY <1>2, <2>2
      <4>2. i < m + n => g[i].dts < g[m + n].dts
        BY <1>4, <4>1
      <4>3. i = m + n \/ i < m + n
        BY <1>2
      <4>4. QED
        BY <1>1, <1>4, <2>4, <4>1, <4>2, <4>3
    <3>2. QED
      BY <3>1
  <2>6. Matches(s, new.removals, scr)
    <3>1. Len(<< >>) = 0 /\ Gone(s, << >>) = m + n /\ DOMAIN << >> = {}
      BY <1>2 DEF Gone
    <3>2. Matches(s, << >>, scr)
      BY <1>2, <2>5, <3>1 DEF Matches
    <3>3. QED
      BY <2>3, <3>2
  <2>7. Covers(s, new)
    BY <2>3, SumEmpty DEF Covers
  <2>8. \A i \in DOMAIN new.removals : FALSE
    BY <2>3
  <2>9. QED
    BY <2>3, <2>6, <2>7, <2>8
<1>7. CASE rem # << >> /\ ~(Last(rem).scr <= scr)
  <2> DEFINE k == CHOOSE k \in 0 .. n : /\ \A i \in 1 .. k : rem[i].scr <= scr
                                        /\ k = n \/ rem[k + 1].scr > scr
             left == SubSeq(rem, k + 1, n)
             gone == SubSeq(rem, 1, k)
  <2>1. new = [old EXCEPT !.removals = left, !.fill = Most(0, old.fill - Sum(gone))]
    BY <1>7 DEF Removed
  <2>2. /\ k \in 0 .. n /\ \A i \in 1 .. k : rem[i].scr <= scr
        /\ k = n \/ rem[k + 1].scr > scr
    <3>1. \E j \in 0 .. n : /\ \A i \in 1 .. j : rem[i].scr <= scr
                            /\ j = n \/ rem[j + 1].scr > scr
      BY <1>1, DueExists
    <3>2. QED
      BY <3>1
  <2> HIDE DEF k
  <2>3. \A e \in Removals : e.bytes \in Nat /\ e.scr \in Nat
    BY DEF Removals
  <2>4. gone \in Seq(Removals) /\ left \in Seq(Removals) /\ Sum(rem) = Sum(gone) + Sum(left)
    BY <1>1, <2>2, <2>3, SumCut
  <2>5. /\ Len(left) = n - k /\ DOMAIN left = 1 .. n - k
        /\ \A i \in 1 .. n - k : left[i] = rem[k + i]
    <3>1. \A i \in k + 1 .. n : rem[i] \in Removals
      BY <1>1, <1>2, <2>2, ElementOfSeq
    <3>2. /\ Len(left) = n - k
          /\ \A i \in 1 .. n - (k + 1) + 1 : left[i] = rem[k + 1 + i - 1]
      BY <1>2, <2>2, <3>1, SubSeqProperties
    <3>3. ASSUME NEW i \in 1 .. n - k
          PROVE  left[i] = rem[k + i]
      <4>1. i \in 1 .. n - (k + 1) + 1 /\ k + 1 + i - 1 = k + i
        BY <1>2, <2>2
      <4>2. QED
        BY <3>2, <4>1
    <3>4. DOMAIN left = 1 .. Len(left)
      BY <2>4, LenProperties
    <3>5. QED
      BY <3>2, <3>3, <3>4
  <2>6. Sum(gone) \in Nat /\ Sum(left) \in Nat
    BY <2>3, <2>4, SumList
  <2> HIDE DEF left, gone
  <2>7. /\ new \in StreamRec /\ new.aulist = old.aulist /\ new.packlist = old.packlist
        /\ new.removals = left /\ new.fill = Most(0, old.fill - Sum(gone))
    <3>1. Most(0, old.fill - Sum(gone)) \in Nat
      BY <1>1, <2>6 DEF Most
    <3> DEFINE fill == Most(0, old.fill - Sum(gone))
    <3>2. fill \in Nat /\ new = [old EXCEPT !.removals = left, !.fill = fill]
      BY <2>1, <3>1
    <3> HIDE DEF old, new, fill
    <3>3. /\ new \in StreamRec /\ new.aulist = old.aulist
          /\ new.packlist = old.packlist /\ new.removals = left /\ new.fill = fill
      BY <1>1, <2>4, <3>2 DEF StreamRec
    <3>4. QED
      BY <3>3 DEF fill
  <2>8. Gone(s, left) = m + k
    BY <1>2, <2>2, <2>5 DEF Gone
  <2>9. \A i \in 1 .. m + k : g[i].dts <= scr
    <3>1. ASSUME NEW i \in 1 .. m + k
          PROVE  g[i].dts <= scr
      <4>1. CASE i <= m
        <5>1. i \in 1 .. m
          BY <1>2, <2>2, <4>1
        <5>2. QED
          BY <1>3, <5>1
      <4>2. CASE ~(i <= m)
        <5>1. i - m \in 1 .. k /\ i - m \in 1 .. n /\ m + (i - m) = i
          BY <1>2, <2>2, <4>2, SMTT(30)
        <5>2. rem[i - m].scr <= scr /\ rem[i - m].scr = g[m + (i - m)].dts
          BY <1>3, <2>2, <5>1
        <5>3. QED
          BY <5>1, <5>2
      <4>3. QED
        BY <4>1, <4>2
    <3>2. QED
      BY <3>1
  <2>10. Matches(s, left, scr)
    <3>1. ASSUME NEW i \in 1 .. n - k
          PROVE  left[i].scr = g[m + k + i].dts /\ left[i].bytes = g[m + k + i].size
      <4>1. k + i \in 1 .. n /\ m + (k + i) = m + k + i
        BY <1>2, <2>2
      <4>2. QED
        BY <1>3, <2>5, <4>1
    <3>2. m + k \in Nat
      BY <1>2, <2>2
    <3>3. QED
      BY <2>5, <2>8, <2>9, <3>1, <3>2 DEF Matches
  <2>11. Covers(s, new)
    <3>1. Carried(s) - (Given(s) - Sum(rem)) <= old.fill
      BY DEF Covers
    <3>2. Carried(s) - (Given(s) - Sum(left)) <= old.fill - Sum(gone)
      BY <1>1, <2>4, <2>6, <3>1, SMTT(30)
    <3>3. old.fill - Sum(gone) <= Most(0, old.fill - Sum(gone))
      BY <1>1, <2>6 DEF Most
    <3>4. Most(0, old.fill - Sum(gone)) \in Nat
      BY <1>1, <2>6 DEF Most
    <3>5. Carried(s) - (Given(s) - Sum(left)) <= Most(0, old.fill - Sum(gone))
      BY <1>1, <2>6, <3>2, <3>3, <3>4
    <3>6. QED
      BY <2>7, <3>5 DEF Covers
  <2>12. ASSUME NEW i \in 1 .. n - k
         PROVE  left[i].scr > scr
    <3>1. /\ k # n /\ k + 1 \in 1 .. n /\ m + (k + 1) \in 1 .. m + n
          /\ k + i \in 1 .. n /\ m + (k + i) \in 1 .. m + n
      <4>1. i <= n - k /\ 1 <= i /\ i \in Nat /\ k <= n /\ k \in Nat
        BY <1>2, <2>2
      <4> HIDE DEF m, n
      <4>2. QED
        BY <1>2, <4>1, SMTT(30)
    <3>2. rem[k + 1].scr > scr /\ rem[k + 1].scr = g[m + (k + 1)].dts
      BY <1>3, <2>2, <3>1
    <3>3. left[i].scr = g[m + (k + i)].dts
      BY <1>3, <2>5, <3>1
    <3>4. i = 1 \/ m + (k + 1) < m + (k + i)
      BY <1>2, <2>2
    <3>5. /\ g[m + (k + 1)].dts \in Nat /\ g[m + (k + i)].dts \in Nat
          /\ m + (k + 1) < m + (k + i) => g[m + (k + 1)].dts < g[m + (k + i)].dts
      BY <1>4, <3>1
    <3>6. i = 1 => m + (k + i) = m + (k + 1)
      OBVIOUS
    <3>7. scr \in Int
      BY <1>1
    <3> HIDE DEF left, g, m, n, rem
    <3>8. g[m + (k + 1)].dts <= g[m + (k + i)].dts
      BY <3>4, <3>5, <3>6
    <3>9. QED
      BY <3>2, <3>3, <3>5, <3>7, <3>8
  <2>13. QED
    BY <2>5, <2>7, <2>10, <2>11, <2>12
<1>8. QED
  BY <1>5, <1>6, <1>7

-----------------------------------------------------------------------------
(* Least and greatest of what a list gives.                                *)
LEMMA LeastOfList ==
  ASSUME NEW n \in Nat \ {0}, NEW f \in [1 .. n -> Int]
  PROVE  \E j \in 1 .. n : \A i \in 1 .. n : f[j] <= f[i]
<1> DEFINE P == {k \in Nat : k < n =>
                   \E j \in 1 .. k + 1 : \A i \in 1 .. k + 1 : f[j] <= f[i]}
<1>1. 0 \in P
  <2>1. 1 \in 1 .. 0 + 1 /\ \A i \in 1 .. 0 + 1 : i = 1
    OBVIOUS
  <2>2. \A i \in 1 .. 0 + 1 : f[1] <= f[i]
    BY <2>1
  <2>3. QED
    BY <2>1, <2>2
<1>2. ASSUME NEW k \in P
      PROVE  k + 1 \in P
  <2>1. SUFFICES ASSUME k + 1 < n
                 PROVE  \E j \in 1 .. k + 2 : \A i \in 1 .. k + 2 : f[j] <= f[i]
    OBVIOUS
  <2>2. PICK j \in 1 .. k + 1 : \A i \in 1 .. k + 1 : f[j] <= f[i]
    BY <1>2, <2>1
  <2>3. /\ \A i \in 1 .. k + 2 : f[i] \in Int /\ (i \in 1 .. k + 1 \/ i = k + 2)
        /\ j \in 1 .. k + 2 /\ k + 2 \in 1 .. k + 2
    BY <2>1
  <2>4. CASE f[j] <= f[k + 2]
    BY <2>2, <2>3, <2>4
  <2>5. CASE ~(f[j] <= f[k + 2])
    <3>3. f[j] \in Int /\ f[k + 2] \in Int
      BY <2>3
    <3>4. ASSUME NEW i \in 1 .. k + 2
          PROVE  f[k + 2] <= f[i]
      <4>1. f[i] \in Int /\ (i \in 1 .. k + 1 \/ i = k + 2)
        BY <2>3
      <4>2. i \in 1 .. k + 1 => f[j] <= f[i]
        BY <2>2
      <4>3. QED
        BY <2>5, <3>3, <4>1, <4>2
    <3>1. \A i \in 1 .. k + 2 : f[k + 2] <= f[i]
      BY <3>4
    <3>2. QED
      BY <2>3, <3>1
  <2>6. QED
    BY <2>4, <2>5
<1>3. P = Nat
  <2>1. P \subseteq Nat
    OBVIOUS
  <2> HIDE DEF P
  <2>2. QED
    BY <1>1, <1>2, <2>1, Induction
<1>4. n - 1 \in Nat /\ n - 1 < n /\ (n - 1) + 1 = n
  OBVIOUS
<1>5. n - 1 \in P
  <2> HIDE DEF P
  <2>1. QED
    BY <1>3, <1>4
<1>6. QED
  BY <1>4, <1>5

LEMMA LeastOfSet ==
  ASSUME NEW T, NEW n \in Nat \ {0}, NEW f \in [1 .. n -> Int],
         \A x \in T : \E i \in 1 .. n : f[i] = x,
         \A i \in 1 .. n : f[i] \in T
  PROVE  Min(T) \in T /\ \A x \in T : Min(T) <= x
<1>1. PICK j \in 1 .. n : \A i \in 1 .. n : f[j] <= f[i]
  BY LeastOfList
<1>2. f[j] \in T /\ \A x \in T : f[j] <= x
  BY <1>1
<1>3. QED
  BY <1>2 DEF Min

LEMMA GreatestOfSet ==
  ASSUME NEW T, NEW n \in Nat \ {0}, NEW f \in [1 .. n -> Int],
         \A x \in T : \E i \in 1 .. n : f[i] = x,
         \A i \in 1 .. n : f[i] \in T
  PROVE  Max(T) \in T /\ \A x \in T : x <= Max(T)
<1> DEFINE g == [i \in 1 .. n |-> 0 - f[i]]
<1>1. g \in [1 .. n -> Int]
  OBVIOUS
<1>2. PICK j \in 1 .. n : \A i \in 1 .. n : g[j] <= g[i]
  <2> HIDE DEF g
  <2>1. QED
    BY <1>1, LeastOfList
<1>3. \A i \in 1 .. n : f[i] \in Int /\ g[i] = 0 - f[i]
  OBVIOUS
<1> HIDE DEF g
<1>4. \A i \in 1 .. n : f[i] <= f[j]
  BY <1>2, <1>3
<1>5. f[j] \in T /\ \A x \in T : x <= f[j]
  BY <1>4
<1>6. QED
  BY <1>5 DEF Max

(* The decoding time of the last access unit: flush() goes no further.     *)
LEMMA FlushLimitInt ==
  ASSUME NEW streams, \A s \in Streams : streams[s].aulist \in Seq(AUs)
  PROVE  FlushLimit(streams) \in Int
<1> DEFINE some == {s \in Streams : streams[s].aulist # << >>}
           last == {Last(streams[s].aulist).dts : s \in some}
           T == {0} \cup last
<1>1. PICK n \in Nat : ExistsSurjection(1 .. n, Streams)
  BY MpegMuxerAssumption, FS_NatSurjection
<1>2. PICK q \in [1 .. n -> Streams] : \A s \in Streams : \E i \in 1 .. n : q[i] = s
  BY <1>1 DEF ExistsSurjection, Surjection
<1>3. \A s \in some : Last(streams[s].aulist).dts \in Int
  <2>1. ASSUME NEW s \in some
        PROVE  Last(streams[s].aulist).dts \in Int
    <3> DEFINE list == streams[s].aulist
    <3>1. list \in Seq(AUs) /\ list # << >>
      OBVIOUS
    <3> HIDE DEF list
    <3>2. Len(list) \in 1 .. Len(list) /\ Last(list) = list[Len(list)]
      BY <3>1, EmptySeq DEF Last
    <3>3. list[Len(list)] \in AUs
      BY <3>1, <3>2, ElementOfSeq
    <3>4. Last(list).dts \in Int
      BY <3>2, <3>3 DEF AUs
    <3>5. QED
      BY <3>4 DEF list
  <2>2. QED
    BY <2>1
<1> DEFINE f == [i \in 1 .. n + 1 |->
                   IF i <= n /\ q[i] \in some THEN Last(streams[q[i]].aulist).dts ELSE 0]
<1>4. f \in [1 .. n + 1 -> Int]
  BY <1>3
<1>5. \A i \in 1 .. n + 1 : f[i] \in T
  OBVIOUS
<1>6. ASSUME NEW x \in T
      PROVE  \E i \in 1 .. n + 1 : f[i] = x
  <2>1. CASE x = 0
    <3>1. n + 1 \in 1 .. n + 1 /\ ~(n + 1 <= n)
      OBVIOUS
    <3>2. f[n + 1] = 0
      BY <3>1
    <3>3. QED
      BY <2>1, <3>1, <3>2
  <2>2. CASE x \in last
    <3>1. PICK s \in some : x = Last(streams[s].aulist).dts
      BY <2>2
    <3>2. PICK i \in 1 .. n : q[i] = s
      BY <1>2
    <3>3. i \in 1 .. n + 1 /\ i <= n
      OBVIOUS
    <3>4. f[i] = x
      BY <3>1, <3>2, <3>3
    <3>5. QED
      BY <3>3, <3>4
  <2>3. QED
    BY <2>1, <2>2
<1>7. n + 1 \in Nat \ {0}
  OBVIOUS
<1> HIDE DEF f, T
<1>8. Max(T) \in T
  BY <1>4, <1>5, <1>6, <1>7, GreatestOfSet
<1>9. Max(T) \in Int
  BY <1>3, <1>8 DEF T
<1>10. Available(streams) = Max(T)
  BY DEF Available, T
<1>11. QED
  BY <1>9, <1>10, MpegMuxerAssumption DEF FlushLimit

-----------------------------------------------------------------------------
(* What goes into a pack, and what remains.                                *)
Waiting(aus) ==
  /\ aus \in Seq(AUs)
  /\ \A i \in 1 .. Len(aus) : aus[i].pos < aus[i].size

LEMMA FirstPlace ==
  ASSUME NEW T, NEW n \in Nat, T \subseteq 0 .. n, n \in T
  PROVE  \E k \in T : \A j \in 0 .. n : j < k => ~(j \in T)
<1>1. PICK k \in T : \A y \in T : k <= y
  <2>1. T \subseteq Nat /\ T # {}
    OBVIOUS
  <2>2. QED
    BY <2>1, LeastNat
<1>2. ASSUME NEW j \in 0 .. n, j < k
      PROVE  ~(j \in T)
  BY <1>1, <1>2
<1>3. QED
  BY <1>2

LEMMA TogetherFacts ==
  ASSUME NEW s, NEW aus, Waiting(aus), aus # << >>
  PROVE  Together(s, aus) \in 1 .. Len(aus)
<1> DEFINE n == Len(aus)
           T == {k \in 1 .. n : k = n \/ ~MayFollow(s, aus, k + 1)}
<1>1. n \in Nat \ {0}
  BY EmptySeq DEF Waiting
<1>2. n \in T /\ T \subseteq 0 .. n
  BY <1>1
<1>3. PICK k \in T : \A j \in 0 .. n : j < k => ~(j \in T)
  <2> HIDE DEF T, n
  <2>1. n \in Nat
    BY <1>1
  <2>2. QED
    BY <1>2, <2>1, FirstPlace
<1>4. ASSUME NEW j \in 2 .. k
      PROVE  MayFollow(s, aus, j)
  <2>1. j - 1 \in 0 .. n /\ j - 1 \in 1 .. n /\ j - 1 < k /\ (j - 1) + 1 = j
    BY <1>1, <1>3
  <2>2. ~(j - 1 \in T)
    <3> HIDE DEF T
    <3>1. QED
      BY <1>3, <2>1
  <2>3. QED
    BY <2>1, <2>2
<1>5. k \in 1 .. n /\ (k = n \/ ~MayFollow(s, aus, k + 1))
  BY <1>3
<1>6. QED
  BY <1>4, <1>5 DEF Together

LEMMA BytesOfPart ==
  ASSUME NEW aus, Waiting(aus), NEW k \in 0 .. Len(aus)
  PROVE  /\ Bytes(SubSeq(aus, 1, k)) \in Nat
         /\ Bytes(SubSeq(aus, k + 1, Len(aus))) \in Nat
         /\ Bytes(aus) = Bytes(SubSeq(aus, 1, k)) + Bytes(SubSeq(aus, k + 1, Len(aus)))
         /\ k = 0 => Bytes(SubSeq(aus, 1, k)) = 0
<1> DEFINE a == SubSeq(aus, 1, k)
           b == SubSeq(aus, k + 1, Len(aus))
<1>1. Len(aus) \in Nat /\ aus \in Seq(AUs)
  BY LenProperties DEF Waiting
<1>2. /\ a \in Seq(AUs) /\ b \in Seq(AUs) /\ Len(b) = Len(aus) - k
      /\ \A i \in 1 .. Len(aus) - k : b[i] = aus[k + i]
      /\ Bytes(aus) = Bytes(a) + Bytes(b)
  BY <1>1, BytesCut
<1>3. Len(a) = k /\ \A i \in 1 .. k : a[i] = aus[i]
  <2>1. \A i \in 1 .. k : aus[i] \in AUs
    BY <1>1, ElementOfSeq
  <2>2. QED
    BY <1>1, <2>1, SubSeqProperties
<1> HIDE DEF a, b
<1>4. \A i \in 1 .. Len(a) : a[i].pos < a[i].size
  BY <1>1, <1>3 DEF Waiting
<1>5. ASSUME NEW i \in 1 .. Len(b)
      PROVE  b[i].pos < b[i].size
  <2>1. i \in 1 .. Len(aus) - k /\ k + i \in 1 .. Len(aus)
    BY <1>1, <1>2
  <2>2. QED
    BY <1>2, <2>1 DEF Waiting
<1>6. Bytes(a) \in Nat /\ Bytes(b) \in Nat
  BY <1>2, <1>4, <1>5, BytesNat
<1>7. k = 0 => Bytes(a) = 0
  <2>1. SUFFICES ASSUME k = 0
                 PROVE  Bytes(a) = 0
    OBVIOUS
  <2>2. a = << >>
    BY <2>1, SubSeqEmpty DEF a
  <2>3. QED
    BY <2>2, BytesEmpty
<1>8. QED
  BY <1>2, <1>6, <1>7 DEF a, b

LEMMA BytesOfPack ==
  ASSUME NEW s, NEW aus, Waiting(aus), aus # << >>
  PROVE  LET bytes == Least(Payload, Bytes(SubSeq(aus, 1, Together(s, aus))))
         IN  bytes \in Nat \ {0} /\ bytes <= Bytes(aus)
<1> DEFINE k == Together(s, aus)
           part == Bytes(SubSeq(aus, 1, k))
<1>1. k \in 1 .. Len(aus) /\ aus \in Seq(AUs)
  BY TogetherFacts DEF Waiting
<1>2. Len(aus) \in Nat
  BY <1>1, LenProperties
<1> HIDE DEF k
<1>3. k - 1 \in 0 .. Len(aus) /\ k \in 0 .. Len(aus) /\ k - 1 \in 0 .. Len(aus) - 1
      /\ (k - 1) + 1 = k
  BY <1>1, <1>2
<1>4. /\ part \in Nat /\ Bytes(SubSeq(aus, k + 1, Len(aus))) \in Nat
      /\ Bytes(aus) = part + Bytes(SubSeq(aus, k + 1, Len(aus)))
  BY <1>3, BytesOfPart
<1>5. Bytes(SubSeq(aus, 1, k - 1)) \in Nat
  BY <1>3, BytesOfPart
<1>6. part = Bytes(SubSeq(aus, 1, k - 1)) + Rest(aus[k])
  <2> DEFINE j == k - 1
  <2>1. j \in 0 .. Len(aus) - 1 /\ j + 1 = k
    BY <1>3
  <2> HIDE DEF j
  <2>2. Bytes(SubSeq(aus, 1, j + 1)) = Bytes(SubSeq(aus, 1, j)) + Rest(aus[j + 1])
    BY <1>1, <2>1, BytesNext
  <2>3. QED
    BY <2>1, <2>2 DEF j
<1>7. Rest(aus[k]) \in Nat \ {0}
  <2>1. aus[k] \in AUs /\ aus[k].pos < aus[k].size
    BY <1>1, ElementOfSeq DEF Waiting
  <2>2. QED
    BY <2>1 DEF Rest, AUs
<1> HIDE DEF part
<1>8. part \in Nat \ {0} /\ part <= Bytes(aus) /\ Bytes(aus) \in Nat
  BY <1>4, <1>5, <1>6, <1>7
<1>9. Payload \in Nat \ {0}
  BY MpegMuxerAssumption
<1>10. Least(Payload, part) \in Nat \ {0} /\ Least(Payload, part) <= Bytes(aus)
  BY <1>8, <1>9 DEF Least
<1>11. QED
  BY <1>10 DEF part, k

LEMMA ConsumedFacts ==
  ASSUME NEW aus, Waiting(aus), NEW bytes \in Nat
  PROVE  LET k == Consumed(aus, bytes)
         IN  /\ k \in 0 .. Len(aus)
             /\ Bytes(SubSeq(aus, 1, k)) <= bytes
             /\ k = Len(aus) \/ bytes < Bytes(SubSeq(aus, 1, k + 1))
<1> DEFINE n == Len(aus)
           T == {k \in 0 .. n : k = n \/ bytes < Bytes(SubSeq(aus, 1, k + 1))}
<1>1. n \in Nat /\ n \in T /\ T \subseteq 0 .. n
  <2>1. n \in Nat
    BY LenProperties DEF Waiting
  <2>2. QED
    BY <2>1
<1>2. PICK k \in T : \A j \in 0 .. n : j < k => ~(j \in T)
  <2> HIDE DEF T, n
  <2>1. QED
    BY <1>1, FirstPlace
<1>3. Bytes(SubSeq(aus, 1, k)) <= bytes
  <2>1. CASE k = 0
    <3>1. Bytes(SubSeq(aus, 1, k)) = 0
      BY <1>1, <2>1, BytesOfPart
    <3>2. QED
      BY <3>1
  <2>2. CASE k # 0
    <3> DEFINE j == k - 1
    <3>1. j \in 0 .. n /\ j # n /\ j < k /\ j + 1 = k
      BY <1>1, <1>2, <2>2
    <3>2. ~(j \in T)
      <4> HIDE DEF T
      <4>1. QED
        BY <1>2, <3>1
    <3> HIDE DEF j
    <3>3. ~(bytes < Bytes(SubSeq(aus, 1, j + 1)))
      BY <3>1, <3>2
    <3>4. Bytes(SubSeq(aus, 1, k)) \in Nat
      BY <1>1, <1>2, BytesOfPart
    <3>5. QED
      BY <3>1, <3>3, <3>4
  <2>3. QED
    BY <2>1, <2>2
<1>4. \E j \in 0 .. n : /\ Bytes(SubSeq(aus, 1, j)) <= bytes
                        /\ j = n \/ bytes < Bytes(SubSeq(aus, 1, j + 1))
  BY <1>2, <1>3
<1>5. QED
  BY <1>4 DEF Consumed

(* In the order of decoding, none later than the given time.               *)
InOrder(aus, time) ==
  /\ \A i \in 1 .. Len(aus) : aus[i].dts < time
  /\ \A i, j \in 1 .. Len(aus) : i < j => aus[i].dts <= aus[j].dts

LEMMA CutWaiting ==
  ASSUME NEW aus, Waiting(aus), NEW k \in 0 .. Len(aus), NEW time, InOrder(aus, time)
  PROVE  LET left == SubSeq(aus, k + 1, Len(aus))
         IN  Waiting(left) /\ InOrder(left, time) /\ Len(left) = Len(aus) - k
<1> DEFINE left == SubSeq(aus, k + 1, Len(aus))
<1>1. Len(aus) \in Nat /\ aus \in Seq(AUs)
  BY LenProperties DEF Waiting
<1>2. /\ left \in Seq(AUs) /\ Len(left) = Len(aus) - k
      /\ \A i \in 1 .. Len(aus) - k : left[i] = aus[k + i]
  BY <1>1, BytesCut
<1> HIDE DEF left
<1>3. ASSUME NEW i \in 1 .. Len(left)
      PROVE  /\ left[i].pos < left[i].size /\ left[i].dts < time
             /\ \A j \in 1 .. Len(left) : i < j => left[i].dts <= left[j].dts
  <2>1. i \in 1 .. Len(aus) - k /\ k + i \in 1 .. Len(aus)
    BY <1>1, <1>2
  <2>2. left[i].pos < left[i].size /\ left[i].dts < time
    BY <1>2, <2>1 DEF Waiting, InOrder
  <2>3. ASSUME NEW j \in 1 .. Len(left), i < j
        PROVE  left[i].dts <= left[j].dts
    <3>1. j \in 1 .. Len(aus) - k /\ k + j \in 1 .. Len(aus) /\ k + i < k + j
      BY <1>1, <1>2, <2>3
    <3>2. aus[k + i].dts <= aus[k + j].dts
      BY <2>1, <3>1 DEF InOrder
    <3>3. QED
      BY <1>2, <2>1, <3>1, <3>2
  <2>4. QED
    BY <2>2, <2>3
<1>4. Waiting(left)
  BY <1>2, <1>3 DEF Waiting
<1>5. InOrder(left, time)
  BY <1>3 DEF InOrder
<1>6. QED
  BY <1>2, <1>4, <1>5 DEF left

LEMMA BegunFacts ==
  ASSUME NEW left, Waiting(left), left # << >>, NEW time, InOrder(left, time),
         NEW d \in Nat, d < Rest(left[1]), NEW new,
         new = [left EXCEPT ![1].pos = @ + d]
  PROVE  Waiting(new) /\ InOrder(new, time) /\ Bytes(new) = Bytes(left) - d
<1> DEFINE n == Len(left)
           au == [left[1] EXCEPT !.pos = @ + d]
<1>1. left \in Seq(AUs) /\ n \in Nat \ {0} /\ left[1] \in AUs /\ DOMAIN left = 1 .. n
  <2>1. left \in Seq(AUs)
    BY DEF Waiting
  <2>2. n \in Nat \ {0} /\ left[1] \in AUs /\ DOMAIN left = 1 .. n
    BY <2>1, BytesFirst, LenProperties
  <2>3. QED
    BY <2>1, <2>2
<1>2. /\ au \in AUs /\ au.dts = left[1].dts /\ au.size = left[1].size
      /\ au.pos = left[1].pos + d /\ au.pos < au.size
  <2> DEFINE first == left[1]
  <2>1. first \in AUs /\ d < first.size - first.pos
    BY <1>1 DEF Rest
  <2>2. au = [first EXCEPT !.pos = @ + d]
    OBVIOUS
  <2> HIDE DEF first, au
  <2>3. au \in AUs /\ au.pos = first.pos + d /\ au.dts = first.dts /\ au.size = first.size
    BY <2>1, <2>2 DEF AUs
  <2>4. first.pos \in Nat /\ first.size \in Nat
    BY <2>1 DEF AUs
  <2>5. au.pos < au.size
    BY <2>1, <2>3, <2>4
  <2>6. QED
    BY <2>3, <2>5 DEF first
<1>3. new = [left EXCEPT ![1] = au]
  OBVIOUS
<1> HIDE DEF au
<1>4. /\ new \in Seq(AUs) /\ Len(new) = n
      /\ \A j \in 1 .. n : new[j] = IF j = 1 THEN au ELSE left[j]
  <2>1. 1 \in 1 .. Len(left)
    BY <1>1
  <2>2. QED
    BY <1>1, <1>2, <1>3, <2>1, ExceptSeq
<1>5. Waiting(new)
  BY <1>2, <1>4 DEF Waiting
<1>6. InOrder(new, time)
  <2>1. \A i \in 1 .. n : new[i].dts = left[i].dts
    BY <1>2, <1>4
  <2>2. QED
    BY <1>4, <2>1 DEF InOrder
<1>7. /\ Bytes(left) = Rest(left[1]) + Bytes(Tail(left)) /\ Tail(left) \in Seq(AUs)
      /\ Len(Tail(left)) = n - 1 /\ \A i \in 1 .. n - 1 : Tail(left)[i] = left[i + 1]
  BY <1>1, BytesFirst
<1>8. /\ Bytes(new) = Rest(new[1]) + Bytes(Tail(new)) /\ Tail(new) \in Seq(AUs)
      /\ Len(Tail(new)) = n - 1 /\ \A i \in 1 .. n - 1 : Tail(new)[i] = new[i + 1]
  <2>1. new # << >>
    BY <1>1, <1>4
  <2>2. QED
    BY <1>4, <2>1, BytesFirst
<1>9. Tail(new) = Tail(left)
  <2>1. ASSUME NEW i \in 1 .. n - 1
        PROVE  Tail(new)[i] = Tail(left)[i]
    <3>1. i + 1 \in 1 .. n /\ i + 1 # 1
      BY <1>1
    <3>2. QED
      BY <1>4, <1>7, <1>8, <3>1
  <2>2. QED
    BY <1>7, <1>8, <2>1, SeqEqual
<1>10. new[1] = au /\ Rest(au) = Rest(left[1]) - d /\ Rest(left[1]) \in Int
  BY <1>1, <1>2, <1>4, SMTT(30) DEF Rest, AUs
<1>11. Bytes(Tail(left)) \in Int
  BY <1>7, BytesList
<1>12. Bytes(new) = Bytes(left) - d
  <2>1. Bytes(new) = Rest(au) + Bytes(Tail(left))
    BY <1>8, <1>9, <1>10
  <2>2. QED
    BY <1>7, <1>10, <1>11, <2>1
<1>13. QED
  BY <1>5, <1>6, <1>12

LEMMA RemainingFacts ==
  ASSUME NEW aus, Waiting(aus), NEW time, InOrder(aus, time),
         NEW bytes \in Nat, bytes <= Bytes(aus)
  PROVE  LET left == Remaining(aus, bytes)
         IN  Waiting(left) /\ InOrder(left, time) /\ Bytes(left) = Bytes(aus) - bytes
<1> DEFINE k == Consumed(aus, bytes)
           left == SubSeq(aus, k + 1, Len(aus))
           part == Bytes(SubSeq(aus, 1, k))
<1>1. /\ k \in 0 .. Len(aus) /\ part <= bytes
      /\ k = Len(aus) \/ bytes < Bytes(SubSeq(aus, 1, k + 1))
  BY ConsumedFacts
<1>2. Len(aus) \in Nat /\ aus \in Seq(AUs)
  BY LenProperties DEF Waiting
<1> HIDE DEF k
<1>3. part \in Nat /\ Bytes(left) \in Nat /\ Bytes(aus) = part + Bytes(left)
  BY <1>1, BytesOfPart
<1>4. Waiting(left) /\ InOrder(left, time) /\ Len(left) = Len(aus) - k
  BY <1>1, CutWaiting
<1>5. /\ left = << >> => Remaining(aus, bytes) = left
      /\ left # << >> => Remaining(aus, bytes) = [left EXCEPT ![1].pos = @ + bytes - part]
  BY DEF Remaining, k
<1>6. CASE left = << >>
  <2>1. Bytes(left) = 0
    BY <1>6, BytesEmpty
  <2>2. Bytes(left) = Bytes(aus) - bytes
    <3> HIDE DEF left, part
    <3>1. QED
      BY <1>1, <1>3, <2>1
  <2>3. QED
    BY <1>4, <1>5, <1>6, <2>2
<1>7. CASE left # << >>
  <2> DEFINE d == bytes - part
  <2>1. k # Len(aus) /\ k \in 0 .. Len(aus) - 1
    <3>1. Len(left) # 0
      <4>1. left \in Seq(AUs)
        BY <1>4 DEF Waiting
      <4> HIDE DEF left
      <4>2. QED
        BY <1>7, <4>1, EmptySeq
    <3> HIDE DEF left
    <3>2. QED
      BY <1>1, <1>2, <1>4, <3>1
  <2>2. Bytes(SubSeq(aus, 1, k + 1)) = part + Rest(aus[k + 1])
    BY <1>2, <2>1, BytesNext
  <2>3. left[1] = aus[k + 1] /\ Rest(aus[k + 1]) \in Int
    <3>1. \A i \in 1 .. Len(aus) - k : left[i] = aus[k + i]
      BY <1>1, <1>2, BytesCut
    <3>2. 1 \in 1 .. Len(aus) - k /\ k + 1 \in 1 .. Len(aus)
      BY <1>2, <2>1
    <3>3. aus[k + 1] \in AUs
      BY <1>2, <3>2, ElementOfSeq
    <3> HIDE DEF left
    <3>4. QED
      BY <3>1, <3>2, <3>3 DEF Rest, AUs
  <2>4. d \in Nat /\ d < Rest(left[1])
    <3> HIDE DEF left, part
    <3>1. QED
      BY <1>1, <1>3, <2>1, <2>2, <2>3
  <2>5. Remaining(aus, bytes) = [left EXCEPT ![1].pos = @ + d]
    <3>1. left[1].pos + bytes - part = left[1].pos + d
      <4>1. left[1].pos \in Nat
        <5>1. k + 1 \in 1 .. Len(aus)
          BY <1>2, <2>1
        <5>2. aus[k + 1] \in AUs
          BY <1>2, <5>1, ElementOfSeq
        <5>3. QED
          BY <2>3, <5>2 DEF AUs
      <4> HIDE DEF left, part
      <4>2. QED
        BY <1>3, <4>1
    <3>2. QED
      BY <1>5, <1>7, <3>1
  <2> DEFINE new == Remaining(aus, bytes)
  <2> HIDE DEF left, d, new
  <2>6. new = [left EXCEPT ![1].pos = @ + d]
    BY <2>5 DEF new
  <2>7. Waiting(new) /\ InOrder(new, time) /\ Bytes(new) = Bytes(left) - d
    BY <1>4, <1>7, <2>4, <2>6, BegunFacts
  <2>8. Bytes(left) - d = Bytes(aus) - bytes
    <3> HIDE DEF part
    <3>1. QED
      BY <1>3 DEF d
  <2>9. QED
    BY <2>7, <2>8 DEF new
<1>8. QED
  BY <1>6, <1>7

-----------------------------------------------------------------------------
(* New packs, and packs that must be early enough for those behind them.   *)
Early(packs) ==
  /\ packs \in Seq(Packs)
  /\ \A i \in 1 .. Len(packs) : packs[i].last - Second <= packs[i].minscr

LEMMA EarlyOne ==
  ASSUME NEW p \in Packs, p.last - Second <= p.minscr
  PROVE  Early(<<p>>) /\ Sum(<<p>>) = p.bytes
<1>1. <<p>> \in Seq(Packs) /\ Len(<<p>>) = 1 /\ <<p>>[1] = p /\ <<p>> # << >>
  OBVIOUS
<1>2. Early(<<p>>)
  BY <1>1 DEF Early
<1>3. Head(<<p>>) = p /\ Tail(<<p>>) = << >>
  BY <1>1
<1>4. \A e \in Packs : e.bytes \in Nat
  BY DEF Packs
<1>5. Sum(<<p>>) = Head(<<p>>).bytes + Sum(Tail(<<p>>))
  BY <1>1, <1>4, SumTail
<1>6. QED
  BY <1>2, <1>3, <1>4, <1>5, SumEmpty

LEMMA EarlyConcat ==
  ASSUME NEW a, NEW b, Early(a), Early(b)
  PROVE  Early(a \o b) /\ Sum(a \o b) = Sum(a) + Sum(b)
<1>1. a \in Seq(Packs) /\ b \in Seq(Packs)
  BY DEF Early
<1>2. \A e \in Packs : e.bytes \in Nat
  BY DEF Packs
<1>3. Sum(a \o b) = Sum(a) + Sum(b)
  BY <1>1, <1>2, SumConcat
<1>4. /\ a \o b \in Seq(Packs) /\ Len(a \o b) = Len(a) + Len(b)
      /\ \A i \in 1 .. Len(a) + Len(b) :
           (a \o b)[i] = IF i <= Len(a) THEN a[i] ELSE b[i - Len(a)]
  BY <1>1, ConcatProperties
<1>5. Len(a) \in Nat /\ Len(b) \in Nat
  BY <1>1, LenProperties
<1> DEFINE c == a \o b
<1> HIDE DEF c
<1>6. ASSUME NEW i \in 1 .. Len(c)
      PROVE  c[i].last - Second <= c[i].minscr
  <2>1. CASE i <= Len(a)
    <3>1. i \in 1 .. Len(a) /\ c[i] = a[i]
      BY <1>4, <1>5, <2>1 DEF c
    <3>2. QED
      BY <3>1 DEF Early
  <2>2. CASE ~(i <= Len(a))
    <3>1. i - Len(a) \in 1 .. Len(b) /\ c[i] = b[i - Len(a)]
      BY <1>4, <1>5, <2>2 DEF c
    <3>2. QED
      BY <3>1 DEF Early
  <2>3. QED
    BY <2>1, <2>2
<1>7. Early(c)
  BY <1>4, <1>6 DEF Early, c
<1>8. QED
  BY <1>3, <1>7 DEF c

LEMMA NewPackFacts ==
  ASSUME NEW aus, Waiting(aus), aus # << >>, NEW time, InOrder(aus, time),
         NEW bytes \in Nat \ {0}
  PROVE  LET p == NewPack(aus, bytes)
         IN  p \in Packs /\ p.bytes = bytes /\ p.last - Second <= p.minscr
<1> DEFINE k == Consumed(aus, bytes)
           l == Least(k + 1, Len(aus))
           next == aus[l].dts
           last == IF bytes > Bytes(SubSeq(aus, 1, k)) THEN next ELSE aus[k].dts
           p == NewPack(aus, bytes)
<1>1. aus \in Seq(AUs) /\ Len(aus) \in Nat \ {0}
  BY EmptySeq DEF Waiting
<1>2. k \in 0 .. Len(aus) /\ Bytes(SubSeq(aus, 1, k)) <= bytes
  BY ConsumedFacts
<1>3. p = [bytes |-> bytes, dts |-> aus[1].dts, minscr |-> next - Second,
           maxscr |-> aus[1].dts, last |-> last]
  BY DEF NewPack
<1> HIDE DEF k
<1>4. l \in 1 .. Len(aus) /\ 1 \in 1 .. Len(aus)
  BY <1>1, <1>2 DEF Least
<1>5. \A i \in 1 .. Len(aus) : aus[i].dts \in Nat
  <2>1. \A i \in 1 .. Len(aus) : aus[i] \in AUs
    BY <1>1, ElementOfSeq
  <2>2. QED
    BY <2>1 DEF AUs
<1>6. last \in Nat /\ last <= next /\ next \in Nat
  <2>1. CASE bytes > Bytes(SubSeq(aus, 1, k))
    BY <1>4, <1>5, <2>1
  <2>2. CASE ~(bytes > Bytes(SubSeq(aus, 1, k)))
    <3>1. k # 0
      <4>1. Bytes(SubSeq(aus, 1, k)) \in Nat /\ (k = 0 => Bytes(SubSeq(aus, 1, k)) = 0)
        BY <1>2, BytesOfPart
      <4>2. QED
        BY <2>2, <4>1
    <3>2. k \in 1 .. Len(aus) /\ (k = l \/ k < l)
      BY <1>1, <1>2, <3>1 DEF Least
    <3>3. last = aus[k].dts
      BY <2>2
    <3> HIDE DEF l
    <3>4. aus[k].dts <= aus[l].dts
      BY <1>4, <1>5, <3>2 DEF InOrder
    <3>5. QED
      BY <1>4, <1>5, <3>2, <3>3, <3>4
  <2>3. QED
    BY <2>1, <2>2
<1>7. aus[1].dts \in Nat /\ Second \in Nat
  BY <1>4, <1>5, MpegMuxerAssumption
<1> HIDE DEF last, next, p
<1>8. p \in Packs
  BY <1>3, <1>6, <1>7 DEF Packs
<1>9. p.bytes = bytes /\ p.last - Second <= p.minscr
  BY <1>3, <1>6, <1>7
<1>10. QED
  BY <1>8, <1>9 DEF p

LEMMA HeaderFacts ==
  ASSUME NEW s, NEW au \in AUs
  PROVE  Early(HeaderPacks(s, au)) /\ Sum(HeaderPacks(s, au)) = 0
<1> DEFINE p == [bytes |-> 0, dts |-> au.dts, minscr |-> au.dts - Second,
                 maxscr |-> au.dts, last |-> au.dts]
<1>1. au.dts \in Nat /\ Second \in Nat
  BY MpegMuxerAssumption DEF AUs
<1>2. p \in Packs /\ p.bytes = 0 /\ p.last - Second <= p.minscr
  BY <1>1 DEF Packs
<1>3. HeaderPacks(s, au) = <<p>> \/ HeaderPacks(s, au) = << >>
  BY DEF HeaderPacks
<1> HIDE DEF p
<1>4. Early(<<p>>) /\ Sum(<<p>>) = 0
  BY <1>2, EarlyOne
<1>5. Early(<< >>) /\ Sum(<< >>) = 0
  BY SumEmpty, EmptySeq DEF Early
<1>6. QED
  BY <1>3, <1>4, <1>5

LEMMA UrgentFacts ==
  ASSUME NEW packs, Early(packs)
  PROVE  /\ Early(Urgent(packs)) /\ Sum(Urgent(packs)) = Sum(packs)
         /\ Len(Urgent(packs)) = Len(packs)
<1> DEFINE n == Len(packs)
           times(i) == {packs[j].maxscr - (j - i) * PackTime : j \in i .. Len(packs)}
           new == Urgent(packs)
<1>1. packs \in Seq(Packs) /\ n \in Nat /\ DOMAIN packs = 1 .. n
  BY LenProperties DEF Early
<1>2. \A i \in 1 .. n : packs[i] \in Packs
  BY <1>1, ElementOfSeq
<1>3. ASSUME NEW i \in 1 .. n
      PROVE  Min(times(i)) \in Int
  <2> DEFINE m == n - i + 1
             f == [j \in 1 .. m |-> packs[i + j - 1].maxscr - (j - 1) * PackTime]
             T == times(i)
  <2>1. m \in Nat \ {0}
    BY <1>1
  <2>2. ASSUME NEW j \in 1 .. m
        PROVE  /\ packs[i + j - 1].maxscr - (j - 1) * PackTime \in Int
               /\ packs[i + j - 1].maxscr - (j - 1) * PackTime \in T
    <3>1. i + j - 1 \in i .. n /\ i + j - 1 \in 1 .. n /\ (i + j - 1) - i = j - 1
      BY <1>1
    <3>2. packs[i + j - 1].maxscr \in Int
      BY <1>2, <3>1 DEF Packs
    <3>3. (j - 1) * PackTime \in Int
      <4>1. PackTime \in Int /\ j - 1 \in Int
        BY MpegMuxerAssumption
      <4>2. QED
        BY <4>1
    <3>4. QED
      BY <3>1, <3>2, <3>3
  <2>3. f \in [1 .. m -> Int] /\ \A j \in 1 .. m : f[j] \in T
    BY <2>2
  <2>4. ASSUME NEW x \in T
        PROVE  \E j \in 1 .. m : f[j] = x
    <3>1. PICK j \in i .. n : x = packs[j].maxscr - (j - i) * PackTime
      OBVIOUS
    <3>2. j - i + 1 \in 1 .. m /\ i + (j - i + 1) - 1 = j /\ (j - i + 1) - 1 = j - i
      BY <1>1
    <3>3. f[j - i + 1] = x
      BY <3>1, <3>2
    <3>4. QED
      BY <3>2, <3>3
  <2> HIDE DEF f, T, m
  <2>5. \A x \in T : x \in Int
    BY <2>3, <2>4
  <2>6. Min(T) \in T
    BY <2>1, <2>3, <2>4, LeastOfSet
  <2>7. QED
    BY <2>5, <2>6 DEF T
<1>4. new = [i \in 1 .. n |-> [packs[i] EXCEPT !.maxscr = Min(times(i))]]
  BY <1>1 DEF Urgent
<1>5. ASSUME NEW i \in 1 .. n
      PROVE  /\ new[i] \in Packs /\ new[i].bytes = packs[i].bytes
             /\ new[i].last = packs[i].last /\ new[i].minscr = packs[i].minscr
  <2> DEFINE a == packs[i]
             m == Min(times(i))
             b == new[i]
  <2>1. b = [a EXCEPT !.maxscr = m] /\ a \in Packs /\ m \in Int
    BY <1>2, <1>3, <1>4
  <2> HIDE DEF a, b, m
  <2>2. b \in Packs /\ b.bytes = a.bytes /\ b.last = a.last /\ b.minscr = a.minscr
    BY <2>1 DEF Packs
  <2>3. QED
    BY <2>2 DEF a, b
<1>6. new \in Seq(Packs) /\ Len(new) = n
  <2>1. new \in [1 .. n -> Packs]
    BY <1>4, <1>5
  <2> HIDE DEF new
  <2>2. QED
    BY <1>1, <2>1, FcnIsSeq
<1> HIDE DEF new
<1>7. Sum(new) = Sum(packs)
  BY <1>1, <1>5, <1>6, SumSame
<1>8. Early(new)
  BY <1>5, <1>6 DEF Early
<1>9. QED
  BY <1>6, <1>7, <1>8 DEF new

-----------------------------------------------------------------------------
(* The list of streams: each once, those without packs at its end.         *)
Listed(list, streams) ==
  /\ list \in Seq(Streams)
  /\ \A i, j \in 1 .. Len(list) : i < j =>
       /\ list[i] # list[j]
       /\ streams[list[i]].packlist = << >> => streams[list[j]].packlist = << >>

LEMMA SortedFacts ==
  ASSUME NEW streams, NEW list \in Sorted(streams)
  PROVE  /\ Listed(list, streams)
         /\ \A s \in Streams : streams[s].packlist # << >> =>
              \E i \in 1 .. Len(list) : list[i] = s
<1> DEFINE filled == {s \in Streams : streams[s].packlist # << >>}
           n == Cardinality(filled)
<1>1. n \in Nat
  <2>1. filled \in SUBSET Streams
    OBVIOUS
  <2> HIDE DEF filled
  <2>2. IsFiniteSet(filled)
    BY <2>1, MpegMuxerAssumption, FS_Subset
  <2>3. QED
    BY <2>2, FS_CardinalityType
<1>2. /\ list \in [1 .. n -> filled] /\ Range(list) = filled
      /\ \A i, j \in DOMAIN list : i < j =>
           /\ ~Before(streams, list[j], list[i])
           /\ Before(streams, list[i], list[j]) \/ list[i] < list[j]
  BY DEF Sorted
<1> HIDE DEF n
<1>3. list \in Seq(filled) /\ Len(list) = n /\ DOMAIN list = 1 .. n
  <2> HIDE DEF filled
  <2>1. QED
    BY <1>1, <1>2, FcnIsSeq
<1>4. list \in Seq(Streams)
  <2>1. filled \subseteq Streams
    OBVIOUS
  <2> HIDE DEF filled
  <2>2. QED
    BY <1>3, <2>1, SeqMonotonic
<1>5. ASSUME NEW i \in 1 .. n, NEW j \in 1 .. n, i < j
      PROVE  list[i] # list[j]
  <2>1. /\ ~Before(streams, list[j], list[i])
        /\ Before(streams, list[i], list[j]) \/ list[i] < list[j]
    BY <1>2, <1>3, <1>5
  <2>2. list[i] \in Nat
    BY <1>2, MpegMuxerAssumption
  <2>3. QED
    BY <2>1, <2>2
<1>6. \A i \in 1 .. n : streams[list[i]].packlist # << >>
  BY <1>2
<1>7. Listed(list, streams)
  BY <1>3, <1>4, <1>5, <1>6 DEF Listed
<1>8. ASSUME NEW s \in Streams, streams[s].packlist # << >>
      PROVE  \E i \in 1 .. Len(list) : list[i] = s
  <2>1. s \in Range(list)
    BY <1>2, <1>8
  <2>2. QED
    BY <1>3, <2>1 DEF Range
<1>9. QED
  BY <1>7, <1>8

(* A stream that has sent a pack goes to its new place: the list is still  *)
(* complete, and the streams without packs are at its end.                 *)
LEMMA ReinsertFacts ==
  ASSUME NEW streams, NEW list, NEW k \in 1 .. Len(list), Listed(list, streams),
         NEW new, \A r \in Streams : r # list[k] => new[r] = streams[r]
  PROVE  LET result == Insert(new, RemoveAt(list, k), list[k])
         IN  /\ Listed(result, new)
             /\ \A i \in 1 .. Len(list) : \E j \in 1 .. Len(result) : result[j] = list[i]
<1> DEFINE n == Len(list)
           s == list[k]
           rest == RemoveAt(list, k)
           empty(r) == new[r].packlist = << >>
           less == {i \in DOMAIN rest : Before(new, s, rest[i])}
           result == Insert(new, rest, s)
<1>1. /\ list \in Seq(Streams) /\ n \in Nat \ {0} /\ s \in Streams
      /\ \A i \in 1 .. n : list[i] \in Streams
  <2>1. list \in Seq(Streams)
    BY DEF Listed
  <2>2. n \in Nat \ {0} /\ \A i \in 1 .. n : list[i] \in Streams
    BY <2>1, LenProperties, ElementOfSeq
  <2>3. QED
    BY <2>1, <2>2
<1>2. /\ rest \in Seq(Streams) /\ Len(rest) = n - 1
      /\ \A i \in 1 .. n - 1 : rest[i] = IF i < k THEN list[i] ELSE list[i + 1]
  BY <1>1, RemoveAtFacts
<1>3. DOMAIN rest = 1 .. n - 1
  BY <1>2, LenProperties
<1>4. \A i, j \in 1 .. n : i < j =>
        /\ list[i] # list[j]
        /\ streams[list[i]].packlist = << >> => streams[list[j]].packlist = << >>
  BY DEF Listed
<1> HIDE DEF rest, s
<1>5. \A i \in 1 .. n : i # k => list[i] # s
  <2>1. ASSUME NEW i \in 1 .. n, i # k
        PROVE  list[i] # s
    <3>1. i < k \/ k < i
      BY <2>1
    <3>2. QED
      BY <1>4, <3>1 DEF s
  <2>2. QED
    BY <2>1
<1>6. ASSUME NEW i \in 1 .. n - 1
      PROVE  \E p \in 1 .. n : p # k /\ rest[i] = list[p] /\ (i < k => p = i)
                               /\ (~(i < k) => p = i + 1)
  <2>1. i \in 1 .. n /\ i + 1 \in 1 .. n
    BY <1>1
  <2>2. CASE i < k
    BY <1>2, <2>1, <2>2
  <2>3. CASE ~(i < k)
    <3>1. i + 1 # k
      BY <2>3
    <3>2. QED
      BY <1>2, <2>1, <2>3, <3>1
  <2>4. QED
    BY <2>2, <2>3
<1>7. \A i \in 1 .. n - 1 : rest[i] # s /\ rest[i] \in Streams
                            /\ new[rest[i]] = streams[rest[i]]
  BY <1>1, <1>5, <1>6 DEF s
<1>8. ASSUME NEW i \in 1 .. n - 1, NEW j \in 1 .. n - 1, i < j
      PROVE  rest[i] # rest[j] /\ (empty(rest[i]) => empty(rest[j]))
  <2>1. PICK p \in 1 .. n : p # k /\ rest[i] = list[p] /\ (i < k => p = i)
                            /\ (~(i < k) => p = i + 1)
    BY <1>6
  <2>2. PICK q \in 1 .. n : q # k /\ rest[j] = list[q] /\ (j < k => q = j)
                            /\ (~(j < k) => q = j + 1)
    BY <1>6
  <2>3. p < q
    BY <1>8, <2>1, <2>2
  <2>4. QED
    BY <1>4, <1>7, <2>1, <2>2, <2>3
<1>9. \A i \in 1 .. n : i # k => \E j \in 1 .. n - 1 : rest[j] = list[i]
  <2>1. ASSUME NEW i \in 1 .. n, i # k
        PROVE  \E j \in 1 .. n - 1 : rest[j] = list[i]
    <3>1. CASE i < k
      <4>1. i \in 1 .. n - 1
        BY <1>1, <3>1
      <4>2. QED
        BY <1>2, <3>1, <4>1
    <3>2. CASE k < i
      <4>1. i - 1 \in 1 .. n - 1 /\ ~(i - 1 < k) /\ (i - 1) + 1 = i
        BY <1>1, <3>2
      <4>2. rest[i - 1] = list[(i - 1) + 1]
        BY <1>2, <4>1
      <4>3. QED
        BY <4>1, <4>2
    <3>3. QED
      BY <2>1, <3>1, <3>2
  <2>2. QED
    BY <2>1
<1>10. \E m \in 1 .. n :
         /\ result \in Seq(Streams) /\ Len(result) = n
         /\ \A i \in 1 .. n : result[i] = IF i < m THEN rest[i]
                                          ELSE IF i = m THEN s ELSE rest[i - 1]
         /\ \A i \in 1 .. m - 1 : ~Before(new, s, rest[i])
         /\ m # n => Before(new, s, rest[m])
  <2>1. CASE less = {}
    <3>1. result = Append(rest, s)
      BY <2>1 DEF Insert
    <3>2. /\ result \in Seq(Streams) /\ Len(result) = n - 1 + 1
          /\ \A i \in 1 .. n - 1 : result[i] = rest[i]
          /\ result[n - 1 + 1] = s
      <4> HIDE DEF result
      <4>1. QED
        BY <1>1, <1>2, <3>1, AppendProperties
    <3>3. n - 1 + 1 = n
      BY <1>1
    <3>4. \A i \in 1 .. n - 1 : ~Before(new, s, rest[i])
      BY <1>3, <2>1
    <3> HIDE DEF result, n
    <3>5. \A i \in 1 .. n : result[i] = IF i < n THEN rest[i]
                                        ELSE IF i = n THEN s ELSE rest[i - 1]
      <4>1. ASSUME NEW i \in 1 .. n
            PROVE  result[i] = IF i < n THEN rest[i] ELSE IF i = n THEN s ELSE rest[i - 1]
        <5>1. i = n \/ (i < n /\ i \in 1 .. n - 1)
          BY <1>1
        <5>2. QED
          BY <1>1, <3>2, <3>3, <5>1
      <4>2. QED
        BY <4>1
    <3>6. n \in 1 .. n
      BY <1>1
    <3>7. QED
      BY <3>2, <3>3, <3>4, <3>5, <3>6
  <2>2. CASE less # {}
    <3> DEFINE m == Min(less)
    <3>1. less \subseteq Nat
      BY <1>1, <1>3
    <3>2. m \in less /\ \A x \in less : m <= x
      <4> HIDE DEF less
      <4>1. QED
        BY <2>2, <3>1, LeastIndex
    <3>3. result = InsertAt(rest, m, s)
      BY <2>2 DEF Insert
    <3>4. m \in 1 .. n - 1 /\ m \in 1 .. n /\ Before(new, s, rest[m])
      BY <1>1, <1>3, <3>2
    <3>5. ASSUME NEW i \in 1 .. m - 1
          PROVE  ~Before(new, s, rest[i])
      <4> HIDE DEF m
      <4>1. i \in 1 .. n - 1 /\ ~(m <= i)
        BY <1>1, <3>4
      <4>2. ~(i \in less)
        BY <3>2, <4>1
      <4>3. QED
        BY <1>3, <4>1, <4>2
    <3> HIDE DEF m, result, less
    <3>6. /\ result \in Seq(Streams) /\ Len(result) = n - 1 + 1
          /\ \A i \in 1 .. n - 1 + 1 : result[i] = IF i < m THEN rest[i]
                                         ELSE IF i = m THEN s ELSE rest[i - 1]
      <4>1. m \in 1 .. Len(rest) /\ rest \in Seq(Streams) /\ s \in Streams
        BY <1>1, <1>2, <3>4
      <4>2. /\ result \in Seq(Streams) /\ Len(result) = Len(rest) + 1
            /\ \A i \in 1 .. Len(rest) + 1 : result[i] = IF i < m THEN rest[i]
                                           ELSE IF i = m THEN s ELSE rest[i - 1]
        BY <3>3, <4>1, InsertAtFacts
      <4>3. QED
        BY <1>2, <4>2
    <3>7. n - 1 + 1 = n
      BY <1>1
    <3>8. QED
      BY <3>4, <3>5, <3>6, <3>7
  <2>3. QED
    BY <2>1, <2>2
<1>11. PICK m \in 1 .. n :
         /\ result \in Seq(Streams) /\ Len(result) = n
         /\ \A i \in 1 .. n : result[i] = IF i < m THEN rest[i]
                                          ELSE IF i = m THEN s ELSE rest[i - 1]
         /\ \A i \in 1 .. m - 1 : ~Before(new, s, rest[i])
         /\ m # n => Before(new, s, rest[m])
  BY <1>10
<1> HIDE DEF result
<1>12. ASSUME NEW i \in 1 .. n
       PROVE  /\ i < m => result[i] = rest[i] /\ i \in 1 .. n - 1
              /\ i = m => result[i] = s
              /\ m < i => result[i] = rest[i - 1] /\ i - 1 \in 1 .. n - 1
  <2>1. n \in Nat /\ m \in Nat /\ i \in Nat /\ 1 <= i /\ i <= n /\ 1 <= m /\ m <= n
    BY <1>1
  <2>2. result[i] = IF i < m THEN rest[i] ELSE IF i = m THEN s ELSE rest[i - 1]
    BY <1>11
  <2> HIDE DEF n
  <2>3. /\ i < m => i \in 1 .. n - 1
        /\ m < i => i - 1 \in 1 .. n - 1 /\ ~(i < m) /\ i # m
        /\ i = m => ~(i < m)
    BY <2>1
  <2>4. QED
    BY <2>2, <2>3
<1>13. ASSUME NEW i \in 1 .. n, NEW j \in 1 .. n, i < j
       PROVE  result[i] # result[j] /\ (empty(result[i]) => empty(result[j]))
  <2>1. CASE j < m
    <3>1. i < m /\ i \in 1 .. n - 1 /\ j \in 1 .. n - 1
      BY <1>1, <1>13, <2>1
    <3>2. result[i] = rest[i] /\ result[j] = rest[j]
      BY <1>12, <2>1, <3>1
    <3>3. QED
      BY <1>8, <1>13, <3>1, <3>2
  <2>2. CASE j = m
    <3>1. i < m /\ i \in 1 .. n - 1 /\ i \in 1 .. m - 1
      BY <1>1, <1>13, <2>2
    <3>2. result[i] = rest[i] /\ result[j] = s
      BY <1>12, <2>2, <3>1
    <3>3. ~Before(new, s, rest[i])
      BY <1>11, <3>1
    <3>4. empty(rest[i]) => empty(s)
      BY <3>3 DEF Before
    <3>5. QED
      BY <1>7, <3>1, <3>2, <3>4
  <2>3. CASE m < j /\ i < m
    <3> DEFINE h == j - 1
    <3>1. i \in 1 .. n - 1 /\ h \in 1 .. n - 1 /\ i < h
      BY <1>1, <2>3
    <3>2. result[i] = rest[i] /\ result[j] = rest[h]
      BY <1>12, <2>3
    <3> HIDE DEF h
    <3>3. QED
      BY <1>8, <3>1, <3>2
  <2>4. CASE m < j /\ i = m
    <3>1. j - 1 \in 1 .. n - 1 /\ m # n /\ m \in 1 .. n - 1 /\ (m = j - 1 \/ m < j - 1)
      BY <1>1, <2>4
    <3>2. result[i] = s /\ result[j] = rest[j - 1]
      BY <1>12, <2>4
    <3>3. ~empty(s)
      BY <1>11, <3>1 DEF Before
    <3>4. QED
      BY <1>7, <3>1, <3>2, <3>3
  <2>5. CASE m < i
    <3> DEFINE g == i - 1
               h == j - 1
    <3>1. g \in 1 .. n - 1 /\ h \in 1 .. n - 1 /\ g < h /\ m < j
      BY <1>1, <1>13, <2>5
    <3>2. result[i] = rest[g] /\ result[j] = rest[h]
      BY <1>12, <2>5, <3>1
    <3> HIDE DEF g, h
    <3>3. QED
      BY <1>8, <3>1, <3>2
  <2>6. QED
    BY <1>13, <2>1, <2>2, <2>3, <2>4, <2>5
<1>14. Listed(result, new)
  BY <1>11, <1>13 DEF Listed
<1>15. ASSUME NEW i \in 1 .. n
       PROVE  \E j \in 1 .. n : result[j] = list[i]
  <2>1. CASE i = k
    <3>1. result[m] = s
      BY <1>11
    <3>2. QED
      BY <2>1, <3>1 DEF s
  <2>2. CASE i # k
    <3>1. PICK j \in 1 .. n - 1 : rest[j] = list[i]
      BY <1>9, <2>2
    <3>2. CASE j < m
      <4>1. j \in 1 .. n
        BY <1>1
      <4>2. QED
        BY <1>12, <3>1, <3>2, <4>1
    <3>3. CASE ~(j < m)
      <4> DEFINE h == j + 1
      <4>1. h \in 1 .. n /\ m < h /\ h - 1 = j
        BY <1>1, <3>3
      <4> HIDE DEF h
      <4>2. result[h] = rest[h - 1]
        BY <1>12, <4>1
      <4>3. QED
        BY <3>1, <4>1, <4>2
    <3>4. QED
      BY <3>2, <3>3
  <2>3. QED
    BY <2>1, <2>2
<1>16. QED
  BY <1>11, <1>14, <1>15 DEF result, s, rest

-----------------------------------------------------------------------------
(* The invariant, stream by stream.                                        *)
StreamOK(s) ==
  /\ st[s] \in StreamRec /\ given[s] \in AllGiven
  /\ Waiting(st[s].aulist) /\ InOrder(st[s].aulist, NextDts(s))
  /\ Early(st[s].packlist)
  /\ \A i \in 1 .. Len(given[s]) : given[s][i].dts < NextDts(s)
  /\ \A i, j \in 1 .. Len(given[s]) : i < j => given[s][i].dts < given[s][j].dts
  /\ Carried(s) + Sum(st[s].packlist) + Bytes(st[s].aulist) = Given(s)
  /\ Matches(s, st[s].removals, scr)
  /\ Covers(s, st[s])

OtherTypes ==
  /\ st \in [Streams -> StreamRec] /\ given \in [Streams -> AllGiven]
  /\ scr \in Nat /\ aucounter \in 0 .. FlushEvery - 1
  /\ pc \in {"idle", "pack", "mux", "closed"}
  /\ maxdts \in Nat \cup {-1}
  /\ streamlist \in Seq(Streams)
  /\ failures \in 0 .. MaxFailures
  /\ file \in Seq(InFile)

StreamsInv ==
  TypeOK /\ AuOrder /\ Conserved /\ EarliestTimes /\ GivenOrder /\ RemovalsGiven /\ FillCovers

LEMMA TypesSplit == TypeOK => OtherTypes
BY DEF TypeOK, OtherTypes, StreamRec, AllGiven, InFile, AUs, Packs, Removals

LEMMA StreamsSplit ==
  ASSUME StreamsInv
  PROVE  OtherTypes /\ \A s \in Streams : StreamOK(s)
<1>1. OtherTypes
  BY TypesSplit DEF StreamsInv
<1>2. ASSUME NEW s \in Streams
      PROVE  StreamOK(s)
  <2>1. /\ st[s] \in StreamRec /\ given[s] \in AllGiven
        /\ st[s].aulist \in Seq(AUs) /\ st[s].packlist \in Seq(Packs)
        /\ st[s].removals \in Seq(Removals) /\ st[s].fill \in Nat
    BY StreamType DEF StreamsInv
  <2>2. /\ DOMAIN st[s].aulist = 1 .. Len(st[s].aulist)
        /\ DOMAIN st[s].packlist = 1 .. Len(st[s].packlist)
        /\ DOMAIN given[s] = 1 .. Len(given[s])
    BY <2>1, LenProperties DEF AllGiven
  <2>3. Waiting(st[s].aulist)
    BY <2>1, <2>2 DEF StreamsInv, TypeOK, Waiting
  <2>4. InOrder(st[s].aulist, NextDts(s))
    BY <2>1, <2>2 DEF StreamsInv, AuOrder, InOrder
  <2>5. Early(st[s].packlist)
    BY <2>1, <2>2 DEF StreamsInv, EarliestTimes, Early
  <2>6. /\ \A i \in 1 .. Len(given[s]) : given[s][i].dts < NextDts(s)
        /\ \A i, j \in 1 .. Len(given[s]) : i < j => given[s][i].dts < given[s][j].dts
    BY <2>1, <2>2 DEF StreamsInv, GivenOrder
  <2>7. Carried(s) + Sum(st[s].packlist) + Bytes(st[s].aulist) = Given(s)
    BY DEF StreamsInv, Conserved
  <2>8. Matches(s, st[s].removals, scr) /\ Covers(s, st[s])
    BY DEF StreamsInv, RemovalsGiven, FillCovers
  <2>9. QED
    BY <2>1, <2>3, <2>4, <2>5, <2>6, <2>7, <2>8 DEF StreamOK
<1>3. QED
  BY <1>1, <1>2

LEMMA StreamsJoin ==
  ASSUME OtherTypes', \A s \in Streams : StreamOK(s)'
  PROVE  StreamsInv'
<1>1. ASSUME NEW s \in Streams
      PROVE  /\ DOMAIN st'[s].aulist = 1 .. Len(st'[s].aulist)
             /\ DOMAIN st'[s].packlist = 1 .. Len(st'[s].packlist)
             /\ DOMAIN given'[s] = 1 .. Len(given'[s])
  <2>1. /\ st'[s].aulist \in Seq(AUs) /\ st'[s].packlist \in Seq(Packs)
        /\ given'[s] \in AllGiven
    BY DEF StreamOK, Waiting, Early
  <2>2. QED
    BY <2>1, LenProperties DEF AllGiven
<1>2. TypeOK'
  <2>1. \A s \in Streams : \A i \in DOMAIN st'[s].aulist :
          st'[s].aulist[i].pos < st'[s].aulist[i].size
    BY <1>1 DEF StreamOK, Waiting
  <2>2. QED
    BY <2>1 DEF TypeOK, OtherTypes, StreamRec, AllGiven, InFile, AUs, Packs, Removals
<1>3. AuOrder'
  BY <1>1 DEF StreamOK, InOrder, AuOrder
<1>4. Conserved'
  BY DEF StreamOK, Conserved
<1>5. EarliestTimes'
  BY <1>1 DEF StreamOK, Early, EarliestTimes
<1>6. GivenOrder'
  BY <1>1 DEF StreamOK, GivenOrder
<1>7. RemovalsGiven' /\ FillCovers'
  BY DEF StreamOK, RemovalsGiven, FillCovers
<1>8. QED
  BY <1>2, <1>3, <1>4, <1>5, <1>6, <1>7 DEF StreamsInv

(* A stream to which nothing happens but that time goes on.                *)
LEMMA SameGiven ==
  ASSUME NEW s, given'[s] = given[s]
  PROVE  /\ Given(s)' = Given(s) /\ NextDts(s)' = NextDts(s)
         /\ \A t : Decoded(s, t)' = Decoded(s, t)
BY DEF Given, NextDts, Decoded

LEMMA SameFileCarried ==
  ASSUME NEW s, file' = file
  PROVE  Carried(s)' = Carried(s)
BY DEF Carried

LEMMA LaterMatches ==
  ASSUME NEW s, given[s] \in AllGiven, given'[s] = given[s],
         NEW removals \in Seq(Removals), st'[s].removals = removals,
         scr \in Nat, scr' \in Nat, scr <= scr', Matches(s, removals, scr)
  PROVE  Matches(s, st[s].removals, scr)'
<1> DEFINE m == Gone(s, removals)
<1>1. m = Len(given[s]) - Len(removals) /\ Len(given[s]) \in Nat /\ Len(removals) \in Nat
  BY LenProperties DEF Gone, AllGiven
<1>2. Gone(s, st[s].removals)' = m
  BY DEF Gone
<1>3. ASSUME NEW i \in 1 .. m
      PROVE  given[s][i].dts <= scr'
  <2>1. given[s][i].dts <= scr
    BY DEF Matches
  <2>2. i \in 1 .. Len(given[s])
    BY <1>1
  <2>3. given[s][i] \in [size: Nat, dts: Nat]
    BY <2>2, ElementOfSeq DEF AllGiven
  <2>4. given[s][i].dts \in Nat
    BY <2>3
  <2>5. QED
    BY <2>1, <2>4
<1>4. /\ m \in Nat
      /\ \A i \in DOMAIN removals :
           /\ removals[i].scr = given[s][m + i].dts
           /\ removals[i].bytes = given[s][m + i].size
  BY DEF Matches
<1> HIDE DEF m
<1>5. QED
  BY <1>2, <1>3, <1>4 DEF Matches

LEMMA SameStream ==
  ASSUME NEW s \in Streams, StreamOK(s), st'[s] = st[s], given'[s] = given[s],
         Carried(s)' = Carried(s), scr \in Nat, scr' \in Nat, scr <= scr'
  PROVE  StreamOK(s)'
<1>1. Given(s)' = Given(s) /\ NextDts(s)' = NextDts(s)
  BY SameGiven
<1>2. st[s].removals \in Seq(Removals) /\ given[s] \in AllGiven
      /\ Matches(s, st[s].removals, scr)
  BY DEF StreamOK, StreamRec
<1>3. Matches(s, st[s].removals, scr)'
  BY <1>2, LaterMatches
<1>4. Covers(s, st[s])'
  BY <1>1 DEF Covers, StreamOK
<1>5. QED
  BY <1>1, <1>3, <1>4 DEF StreamOK

LEMMA SameFile ==
  ASSUME OtherTypes, NotTooEarly, RateKept, BufferHolds, file' = file,
         \A s \in Streams : \A t \in Int :
           /\ Decoded(s, t) \in Int /\ Decoded(s, t)' \in Int
           /\ Decoded(s, t) <= Decoded(s, t)'
  PROVE  NotTooEarly' /\ RateKept' /\ BufferHolds'
<1>1. NotTooEarly' /\ RateKept'
  BY DEF NotTooEarly, RateKept
<1>2. BufferHolds'
  <2>1. SUFFICES ASSUME file # << >>, Last(file).stream # -1
                 PROVE  Carried(Last(file).stream)' - Decoded(Last(file).stream, Last(file).scr)'
                          <= BufSize[Last(file).stream]
    BY DEF BufferHolds
  <2> DEFINE s == Last(file).stream
             t == Last(file).scr
  <2>2. s \in Streams /\ t \in Int
    <3>1. file \in Seq(InFile)
      BY DEF OtherTypes
    <3>2. Len(file) \in 1 .. Len(file) /\ Last(file) = file[Len(file)]
      BY <2>1, <3>1, EmptySeq DEF Last
    <3>3. Last(file) \in InFile
      BY <3>1, <3>2, ElementOfSeq
    <3>4. QED
      BY <2>1, <3>3 DEF InFile
  <2>3. Carried(s) - Decoded(s, t) <= BufSize[s]
    BY <2>1 DEF BufferHolds
  <2>4. Carried(s) \in Nat /\ BufSize[s] \in Nat
    BY <2>2, CarriedNat, MpegMuxerAssumption DEF OtherTypes
  <2>5. Carried(s)' = Carried(s)
    BY SameFileCarried
  <2>6. Decoded(s, t) \in Int /\ Decoded(s, t)' \in Int /\ Decoded(s, t) <= Decoded(s, t)'
    BY <2>2
  <2> HIDE DEF s, t
  <2>7. Carried(s)' - Decoded(s, t)' <= BufSize[s]
    BY <2>3, <2>4, <2>5, <2>6
  <2>8. QED
    BY <2>7 DEF s, t
<1>3. QED
  BY <1>1, <1>2

LEMMA DecodedInt ==
  ASSUME OtherTypes, NEW s \in Streams, NEW t \in Int
  PROVE  Given(s) \in Nat /\ Decoded(s, t) \in Nat /\ Decoded(s, t) <= Given(s)
         /\ Carried(s) \in Nat
BY GivenFacts, CarriedNat DEF OtherTypes

LEMMA GivenNat ==
  ASSUME OtherTypes, NEW s \in Streams
  PROVE  Given(s) \in Nat /\ Carried(s) \in Nat
<1>1. Given(s) \in Nat /\ Decoded(s, 0) \in Nat /\ Decoded(s, 0) <= Given(s)
      /\ Carried(s) \in Nat
  BY DecodedInt
<1>2. QED
  BY <1>1

LEMMA QuietFile ==
  ASSUME OtherTypes, NotTooEarly, RateKept, BufferHolds, file' = file, given' = given
  PROVE  NotTooEarly' /\ RateKept' /\ BufferHolds'
<1>1. ASSUME NEW s \in Streams, NEW t \in Int
      PROVE  /\ Decoded(s, t) \in Int /\ Decoded(s, t)' \in Int
             /\ Decoded(s, t) <= Decoded(s, t)'
  <2>1. Decoded(s, t) \in Nat
    BY DecodedInt
  <2>2. Decoded(s, t)' = Decoded(s, t)
    BY SameGiven
  <2>3. QED
    BY <2>1, <2>2
<1>2. QED
  BY <1>1, SameFile

LEMMA QuietStreams ==
  ASSUME OtherTypes, \A s \in Streams : StreamOK(s), st' = st, given' = given,
         \A s \in Streams : Carried(s)' = Carried(s), scr' \in Nat, scr <= scr'
  PROVE  \A s \in Streams : StreamOK(s)'
BY SameStream DEF OtherTypes

(* Outside of mux() no bridge is the last in the file at this time.        *)
LEMMA ClockIdle ==
  ASSUME ClockPastFile, file' = file, scr' = scr,
         pc # "mux" \/ ~More \/ Ready # {}
  PROVE  ClockPastFile'
BY DEF ClockPastFile

-----------------------------------------------------------------------------
(* One lemma for each action.                                              *)
LEMMA NewAu ==
  ASSUME NEW aus, Waiting(aus), NEW au \in AUs, au.pos < au.size,
         NEW time \in Nat, InOrder(aus, time), au.dts = time,
         NEW next \in Nat, time < next
  PROVE  LET new == Append(aus, au)
         IN  Waiting(new) /\ InOrder(new, next) /\ Bytes(new) = Bytes(aus) + Rest(au)
<1> DEFINE n == Len(aus)
           new == Append(aus, au)
           one == <<au>>
<1>1. aus \in Seq(AUs) /\ n \in Nat
  BY LenProperties DEF Waiting
<1>2. /\ new \in Seq(AUs) /\ Len(new) = n + 1 /\ new[n + 1] = au
      /\ \A i \in 1 .. n : new[i] = aus[i]
  BY <1>1, AppendProperties
<1>3. one \in Seq(AUs) /\ Len(one) = 1 /\ one[1] = au /\ Bytes(one) = Rest(au)
  BY BytesOne
<1> HIDE DEF new, one
<1>4. Bytes(new) = Bytes(aus) + Rest(au)
  <2>1. Len(new) = Len(aus) + Len(one) /\ \A i \in 1 .. Len(aus) : new[i] = aus[i]
    BY <1>2, <1>3
  <2>2. ASSUME NEW i \in Len(aus) + 1 .. Len(new)
        PROVE  new[i] = one[i - Len(aus)]
    <3>1. i = n + 1 /\ i - Len(aus) = 1
      BY <1>1, <1>2
    <3>2. QED
      BY <1>2, <1>3, <3>1
  <2>3. Bytes(new) = Bytes(aus) + Bytes(one)
    BY <1>1, <1>2, <1>3, <2>1, <2>2, BytesJoin
  <2>4. QED
    BY <1>3, <2>3
<1>5. ASSUME NEW i \in 1 .. n + 1
      PROVE  (i \in 1 .. n /\ new[i] = aus[i]) \/ (i = n + 1 /\ new[i] = au)
  BY <1>1, <1>2
<1>6. Waiting(new)
  BY <1>2, <1>5 DEF Waiting
<1>7. \A i \in 1 .. n : aus[i].dts \in Nat
  <2>1. \A i \in 1 .. n : aus[i] \in AUs
    BY <1>1, ElementOfSeq
  <2>2. QED
    BY <2>1 DEF AUs
<1>8. \A i \in 1 .. n + 1 : new[i].dts < next
  BY <1>2, <1>5, <1>7 DEF InOrder
<1>9. ASSUME NEW i \in 1 .. n + 1, NEW j \in 1 .. n + 1, i < j
      PROVE  new[i].dts <= new[j].dts
  <2>1. i \in 1 .. n /\ new[i] = aus[i]
    BY <1>1, <1>2, <1>9
  <2>2. CASE j \in 1 .. n
    BY <1>2, <1>9, <2>1, <2>2 DEF InOrder
  <2>3. CASE j = n + 1
    BY <1>2, <1>7, <2>1, <2>3 DEF InOrder
  <2>4. QED
    BY <1>1, <2>2, <2>3
<1>10. InOrder(new, next)
  BY <1>2, <1>8, <1>9 DEF InOrder
<1>11. QED
  BY <1>4, <1>6, <1>10 DEF new

LEMMA NewRemoval ==
  ASSUME NEW list \in Seq(Removals), NEW e \in Removals
  PROVE  LET new == Append(list, e)
         IN  new \in Seq(Removals) /\ Sum(new) = Sum(list) + e.bytes
<1> DEFINE new == Append(list, e)
           one == <<e>>
<1>1. /\ new \in Seq(Removals) /\ Len(new) = Len(list) + 1 /\ new[Len(list) + 1] = e
      /\ \A i \in 1 .. Len(list) : new[i] = list[i]
  BY AppendProperties
<1>2. one \in Seq(Removals) /\ Len(one) = 1 /\ one[1] = e /\ one # << >>
      /\ Head(one) = e /\ Tail(one) = << >>
  OBVIOUS
<1>3. \A r \in Removals : r.bytes \in Nat
  BY DEF Removals
<1>4. Len(list) \in Nat
  BY LenProperties
<1> HIDE DEF new, one
<1>5. Sum(one) = e.bytes
  <2>1. Sum(one) = Head(one).bytes + Sum(Tail(one))
    BY <1>2, <1>3, SumTail
  <2>2. e.bytes \in Nat /\ Head(one) = e /\ Sum(Tail(one)) = 0
    BY <1>2, <1>3, SumEmpty
  <2>3. QED
    BY <2>1, <2>2
<1>6. ASSUME NEW i \in Len(list) + 1 .. Len(new)
      PROVE  new[i].bytes = one[i - Len(list)].bytes
  <2>1. i = Len(list) + 1 /\ i - Len(list) = 1
    BY <1>1, <1>4
  <2>2. QED
    BY <1>1, <1>2, <2>1
<1>7. Len(new) = Len(list) + Len(one)
      /\ \A i \in 1 .. Len(list) : new[i].bytes = list[i].bytes
  BY <1>1, <1>2
<1>8. Sum(new) = Sum(list) + Sum(one)
  BY <1>1, <1>2, <1>3, <1>6, <1>7, SumJoin
<1>9. QED
  BY <1>1, <1>5, <1>8 DEF new

LEMMA NextDtsLater ==
  ASSUME OtherTypes, NEW s \in Streams, NEW au \in [size: Nat, dts: Nat],
         given'[s] = Append(given[s], au)
  PROVE  NextDts(s) \in Nat /\ NextDts(s)' \in Nat /\ NextDts(s) < NextDts(s)'
<1>1. given[s] \in AllGiven
  BY DEF OtherTypes
<1>2. Len(given[s]) \in Nat /\ Len(given'[s]) = Len(given[s]) + 1
  BY <1>1, LenProperties, AppendProperties DEF AllGiven
<1>3. Interval[s] \in Nat \ {0} /\ PtsOffset \in Nat
  BY MpegMuxerAssumption
<1> DEFINE n == Len(given[s])
           d == Interval[s]
<1>4. NextDts(s) = PtsOffset + n * d /\ NextDts(s)' = PtsOffset + (n + 1) * d
  BY <1>2 DEF NextDts
<1> HIDE DEF n, d
<1>5. n \in Nat /\ d \in Nat \ {0}
  BY <1>2, <1>3 DEF n, d
<1>6. n * d \in Nat /\ (n + 1) * d = n * d + d
  BY <1>5
<1>7. /\ PtsOffset + n * d \in Nat /\ PtsOffset + (n * d + d) \in Nat
      /\ PtsOffset + n * d < PtsOffset + (n * d + d)
  BY <1>3, <1>5, <1>6
<1>8. QED
  BY <1>4, <1>6, <1>7

(* The invariant in two parts, that of the streams and that of the file.   *)
FileInv ==
  /\ ListComplete /\ AllFlushed /\ NotTooEarly /\ ClockPastFile /\ RateKept
  /\ BufferHolds

LEMMA PutPacketStream ==
  ASSUME OtherTypes, NEW s \in Streams, StreamOK(s), PutPacket(s)
  PROVE  /\ StreamOK(s)' /\ st'[s] \in StreamRec /\ given'[s] \in AllGiven
         /\ \A t \in Int : /\ Decoded(s, t) \in Int /\ Decoded(s, t)' \in Int
                           /\ Decoded(s, t) <= Decoded(s, t)'
<1> DEFINE time == NextDts(s)
           key == Len(given[s]) % KeyEvery = 0
           old == st[s]
           new == st'[s]
<1>1. PICK size \in Sizes[s] :
        /\ st' = [st EXCEPT
             ![s].aulist = Append(@, [size |-> size, dts |-> time, pos |-> 0, key |-> key]),
             ![s].removals = Append(@, [scr |-> time, bytes |-> size])]
        /\ given' = [given EXCEPT ![s] = Append(@, [size |-> size, dts |-> time])]
  BY DEF PutPacket
<1> DEFINE au == [size |-> size, dts |-> time, pos |-> 0, key |-> key]
           removal == [scr |-> time, bytes |-> size]
           one == [size |-> size, dts |-> time]
<1>2. size \in Nat \ {0}
  BY MpegMuxerAssumption
<1>3. /\ given'[s] = Append(given[s], one) /\ given[s] \in AllGiven
      /\ new = [old EXCEPT !.aulist = Append(@, au), !.removals = Append(@, removal)]
      /\ old \in StreamRec
  BY <1>1 DEF OtherTypes
<1>4. Len(given[s]) \in Nat
  BY <1>3, LenProperties DEF AllGiven
<1> HIDE DEF key
<1>5. time \in Nat /\ NextDts(s)' \in Nat /\ time < NextDts(s)'
  <2>1. Interval[s] \in Nat /\ PtsOffset \in Nat
    BY MpegMuxerAssumption
  <2>2. Len(given[s]) * Interval[s] \in Nat
    BY <1>4, <2>1
  <2>3. time \in Nat
    BY <2>1, <2>2 DEF NextDts
  <2> HIDE DEF time
  <2>4. one \in [size: Nat, dts: Nat]
    BY <1>2, <2>3
  <2> HIDE DEF one
  <2>5. NextDts(s) < NextDts(s)' /\ NextDts(s)' \in Nat
    BY <1>3, <2>4, NextDtsLater
  <2>6. QED
    BY <2>3, <2>5 DEF time
<1> DEFINE next == NextDts(s)'
<1>6. one \in [size: Nat, dts: Nat] /\ removal \in Removals
  <2> HIDE DEF time
  <2>1. QED
    BY <1>2, <1>5 DEF Removals
<1>7. au \in AUs /\ au.pos < au.size /\ au.dts = time /\ Rest(au) = size
  <2>1. key \in BOOLEAN
    BY DEF key
  <2> HIDE DEF time
  <2>2. QED
    BY <1>2, <1>5, <2>1 DEF AUs, Rest
<1>8. /\ Waiting(old.aulist) /\ InOrder(old.aulist, time)
      /\ old.removals \in Seq(Removals) /\ old.aulist \in Seq(AUs)
  BY <1>3 DEF StreamOK, StreamRec
<1> DEFINE aus == Append(old.aulist, au)
           removals == Append(old.removals, removal)
<1> HIDE DEF au, removal, one, time, next
<1>9. Waiting(aus) /\ InOrder(aus, next) /\ Bytes(aus) = Bytes(old.aulist) + size
  <2>1. Waiting(aus) /\ InOrder(aus, next) /\ Bytes(aus) = Bytes(old.aulist) + Rest(au)
    BY <1>5, <1>7, <1>8, NewAu DEF next
  <2>2. QED
    BY <1>7, <2>1
<1>10. removals \in Seq(Removals) /\ Sum(removals) = Sum(old.removals) + size
  <2>1. removal.bytes = size
    BY DEF removal
  <2>2. QED
    BY <1>6, <1>8, <2>1, NewRemoval
<1>11. /\ new \in StreamRec /\ new.aulist = aus /\ new.removals = removals
       /\ new.packlist = old.packlist /\ new.fill = old.fill
  <2>1. aus \in Seq(AUs)
    BY <1>9 DEF Waiting
  <2>2. new = [old EXCEPT !.aulist = aus, !.removals = removals]
    BY <1>3
  <2> HIDE DEF aus, removals, old, new
  <2>3. QED
    BY <1>3, <1>10, <2>1, <2>2 DEF StreamRec
<1>12. given'[s] \in AllGiven /\ Len(given'[s]) = Len(given[s]) + 1
       /\ given'[s][Len(given[s]) + 1] = one
       /\ \A i \in 1 .. Len(given[s]) : given'[s][i] = given[s][i]
  BY <1>3, <1>6, AppendProperties DEF AllGiven
<1>13. Given(s)' = Given(s) + size
  <2>1. one.size = size
    BY DEF one
  <2>2. QED
    BY <1>3, <1>6, <2>1, GivenAppend
<1>14. \A t \in Int : /\ Decoded(s, t) \in Int /\ Decoded(s, t)' \in Int
                      /\ Decoded(s, t) <= Decoded(s, t)'
  BY <1>3, <1>6, DecodedAppend, DecodedInt
<1>15. Carried(s)' = Carried(s)
  BY SameFileCarried DEF PutPacket
<1>16. Carried(s) \in Nat /\ Given(s) \in Nat
  BY GivenNat
<1>17. /\ Bytes(old.aulist) \in Nat /\ Sum(old.packlist) \in Nat /\ Sum(old.removals) \in Nat
       /\ old.fill \in Nat
  <2>1. \A e \in Packs : e.bytes \in Nat
    BY DEF Packs
  <2>2. \A e \in Removals : e.bytes \in Nat
    BY DEF Removals
  <2>3. Bytes(old.aulist) \in Nat
    BY <1>8, BytesNat DEF Waiting
  <2>4. Sum(old.packlist) \in Nat
    <3>1. old.packlist \in Seq(Packs)
      BY <1>3 DEF StreamRec
    <3>2. QED
      BY <2>1, <3>1, SumList
  <2>5. Sum(old.removals) \in Nat
    BY <1>8, <2>2, SumList
  <2>6. QED
    BY <1>3, <2>3, <2>4, <2>5 DEF StreamRec
<1>18. Carried(s)' + Sum(new.packlist) + Bytes(new.aulist) = Given(s)'
  <2>1. Carried(s) + Sum(old.packlist) + Bytes(old.aulist) = Given(s)
    BY DEF StreamOK
  <2> HIDE DEF aus, old, new
  <2>2. QED
    BY <1>2, <1>9, <1>11, <1>13, <1>15, <1>16, <1>17, <2>1
<1>19. Covers(s, st[s])'
  <2>1. Carried(s) - (Given(s) - Sum(old.removals)) <= old.fill
    BY DEF StreamOK, Covers
  <2> HIDE DEF removals, old
  <2>2. Carried(s)' - (Given(s)' - Sum(removals)) <= old.fill
    BY <1>2, <1>10, <1>13, <1>15, <1>16, <1>17, <2>1
  <2>3. QED
    BY <1>11, <2>2 DEF Covers
<1>20. Matches(s, st[s].removals, scr)'
  <2> DEFINE m == Gone(s, old.removals)
             n == Len(old.removals)
             g == given[s]
             h == given'[s]
  <2>1. n \in Nat /\ m \in Nat /\ Len(g) = m + n
    BY <1>4, <1>8, LenProperties DEF StreamOK, Matches, Gone
  <2>2. /\ Len(removals) = n + 1 /\ removals[n + 1] = removal
        /\ \A i \in 1 .. n : removals[i] = old.removals[i]
        /\ DOMAIN removals = 1 .. n + 1 /\ DOMAIN old.removals = 1 .. n
    <3>1. /\ Len(removals) = n + 1 /\ removals[n + 1] = removal
          /\ \A i \in 1 .. n : removals[i] = old.removals[i]
      BY <1>6, <1>8, AppendProperties
    <3>2. DOMAIN removals = 1 .. Len(removals) /\ DOMAIN old.removals = 1 .. n
      BY <1>8, <1>10, LenProperties
    <3>3. QED
      BY <3>1, <3>2
  <2>3. /\ \A i \in 1 .. n : /\ old.removals[i].scr = g[m + i].dts
                             /\ old.removals[i].bytes = g[m + i].size
        /\ \A i \in 1 .. m : g[i].dts <= scr
    BY <2>2 DEF StreamOK, Matches
  <2>4. Gone(s, st[s].removals)' = m
    <3>1. Gone(s, st[s].removals)' = Len(h) - Len(new.removals)
      BY DEF Gone
    <3>2. Len(h) = Len(g) + 1
      BY <1>12
    <3>3. Len(new.removals) = n + 1
      BY <1>11, <2>2
    <3> HIDE DEF m, n, g, h, new
    <3>4. QED
      BY <2>1, <3>1, <3>2, <3>3
  <2> HIDE DEF m, n, removals
  <2>5. ASSUME NEW i \in 1 .. n + 1
        PROVE  removals[i].scr = h[m + i].dts /\ removals[i].bytes = h[m + i].size
    <3>1. CASE i = n + 1
      <4>1. h[m + i] = one
        <5>1. m + i = Len(g) + 1
          BY <2>1, <3>1
        <5>2. QED
          BY <1>12, <5>1
      <4>2. removals[i] = removal
        BY <2>2, <3>1
      <4>3. QED
        BY <4>1, <4>2 DEF one, removal
    <3>2. CASE i # n + 1
      <4>1. i \in 1 .. n /\ m + i \in 1 .. Len(g)
        BY <2>1, <3>2
      <4>2. removals[i] = old.removals[i]
        BY <2>2, <4>1
      <4>3. h[m + i] = g[m + i]
        BY <1>12, <4>1
      <4>4. QED
        BY <2>3, <4>1, <4>2, <4>3
    <3>3. QED
      BY <3>1, <3>2
  <2>6. ASSUME NEW i \in 1 .. m
        PROVE  h[i].dts <= scr
    <3>1. i \in 1 .. Len(g)
      BY <2>1
    <3>2. h[i] = g[i]
      BY <1>12, <3>1
    <3>3. QED
      BY <2>3, <3>2
  <2>7. scr' = scr /\ m \in Nat
    BY <2>1 DEF PutPacket
  <2>8. QED
    BY <1>11, <2>2, <2>4, <2>5, <2>6, <2>7 DEF Matches
<1>21. /\ \A i \in 1 .. Len(given'[s]) : given'[s][i].dts < next
       /\ \A i, j \in 1 .. Len(given'[s]) : i < j => given'[s][i].dts < given'[s][j].dts
  <2> DEFINE g == given[s]
             h == given'[s]
             n == Len(given[s])
  <2>1. /\ \A i \in 1 .. n : g[i].dts < time
        /\ \A i, j \in 1 .. n : i < j => g[i].dts < g[j].dts
    BY DEF StreamOK, time
  <2>2. \A i \in 1 .. n : g[i].dts \in Nat
    <3>1. \A i \in 1 .. n : g[i] \in [size: Nat, dts: Nat]
      BY <1>3, ElementOfSeq DEF AllGiven
    <3>2. QED
      BY <3>1
  <2>3. one.dts = time
    BY DEF one
  <2>4. ASSUME NEW i \in 1 .. n + 1
        PROVE  (i \in 1 .. n /\ h[i] = g[i]) \/ (i = n + 1 /\ h[i] = one)
    BY <1>4, <1>12
  <2>5. \A i \in 1 .. n : h[i].dts = g[i].dts
    BY <1>12
  <2>6. h[n + 1].dts = time
    BY <1>12, <2>3
  <2>7. Len(h) = n + 1
    BY <1>12
  <2>8. time \in Nat /\ next \in Nat /\ time < next /\ n \in Nat
    BY <1>4, <1>5 DEF next
  <2> HIDE DEF g, h, n
  <2>9. \A i \in 1 .. n + 1 : i \in 1 .. n \/ i = n + 1
    BY <2>8
  <2>10. \A i \in 1 .. n + 1 : h[i].dts < next
    BY <2>1, <2>2, <2>5, <2>6, <2>8, <2>9
  <2>11. ASSUME NEW i \in 1 .. n + 1, NEW j \in 1 .. n + 1, i < j
         PROVE  h[i].dts < h[j].dts
    <3>1. i \in 1 .. n
      BY <2>8, <2>11
    <3>2. CASE j \in 1 .. n
      BY <2>1, <2>5, <2>11, <3>1, <3>2
    <3>3. CASE j = n + 1
      BY <2>1, <2>5, <2>6, <3>1, <3>3
    <3>4. QED
      BY <2>9, <3>2, <3>3
  <2>12. QED
    BY <2>7, <2>10, <2>11 DEF h
<1>22. Early(new.packlist)
  BY <1>11 DEF StreamOK
<1>23. StreamOK(s)'
  BY <1>9, <1>11, <1>12, <1>18, <1>19, <1>20, <1>21, <1>22 DEF StreamOK, next
<1>24. QED
  BY <1>11, <1>12, <1>14, <1>23

LEMMA PutPacketKeeps ==
  ASSUME StreamsInv, FileInv, NEW s \in Streams, PutPacket(s)
  PROVE  StreamsInv' /\ FileInv'
<1>1. OtherTypes /\ \A r \in Streams : StreamOK(r)
  BY StreamsSplit
<1>2. /\ pc = "idle" /\ UNCHANGED <<scr, streamlist, file, failures>>
      /\ \A r \in Streams : r # s => st'[r] = st[r] /\ given'[r] = given[r]
      /\ DOMAIN st' = Streams /\ DOMAIN given' = Streams
      /\ st' = [st EXCEPT ![s] = st'[s]] /\ given' = [given EXCEPT ![s] = given'[s]]
  BY <1>1 DEF PutPacket, OtherTypes
<1>3. /\ StreamOK(s)' /\ st'[s] \in StreamRec /\ given'[s] \in AllGiven
      /\ \A t \in Int : /\ Decoded(s, t) \in Int /\ Decoded(s, t)' \in Int
                        /\ Decoded(s, t) <= Decoded(s, t)'
  BY <1>1, PutPacketStream
<1>4. ASSUME NEW r \in Streams, r # s
      PROVE  /\ StreamOK(r)'
             /\ \A t \in Int : /\ Decoded(r, t) \in Int /\ Decoded(r, t)' \in Int
                               /\ Decoded(r, t) <= Decoded(r, t)'
  <2>1. Carried(r)' = Carried(r)
    BY <1>2, SameFileCarried
  <2>2. StreamOK(r)'
    BY <1>1, <1>2, <1>4, <2>1, SameStream DEF OtherTypes
  <2>3. ASSUME NEW t \in Int
        PROVE  /\ Decoded(r, t) \in Int /\ Decoded(r, t)' \in Int
               /\ Decoded(r, t) <= Decoded(r, t)'
    <3>1. Decoded(r, t) \in Nat
      BY <1>1, DecodedInt
    <3>2. Decoded(r, t)' = Decoded(r, t)
      BY <1>2, <1>4, SameGiven
    <3>3. QED
      BY <3>1, <3>2
  <2>4. QED
    BY <2>2, <2>3
<1>5. st' \in [Streams -> StreamRec] /\ given' \in [Streams -> AllGiven]
  BY <1>1, <1>2, <1>3 DEF OtherTypes
<1>6. /\ aucounter' \in 0 .. FlushEvery - 1 /\ pc' \in {"idle", "pack"}
      /\ maxdts' \in Nat \cup {-1}
  <2>1. FlushLimit(st') \in Int
    <3>1. \A r \in Streams : st'[r].aulist \in Seq(AUs)
      BY <1>5 DEF StreamRec
    <3>2. QED
      BY <3>1, FlushLimitInt
  <2>2. Second \in Nat /\ FlushEvery \in Nat \ {0}
    BY MpegMuxerAssumption
  <2>3. CASE aucounter + 1 >= FlushEvery
    <3>1. aucounter' = 0 /\ StartFlush(st')
      BY <2>3 DEF PutPacket
    <3>2. CASE FlushLimit(st') < Second
      BY <1>1, <1>2, <2>2, <3>1, <3>2 DEF StartFlush, OtherTypes
    <3>3. CASE ~(FlushLimit(st') < Second)
      <4>1. pc' = "pack" /\ maxdts' = FlushLimit(st')
        BY <3>1, <3>3 DEF StartFlush
      <4>2. QED
        BY <2>1, <2>2, <3>1, <3>3, <4>1
    <3>4. QED
      BY <3>2, <3>3
  <2>4. CASE ~(aucounter + 1 >= FlushEvery)
    BY <1>1, <1>2, <2>2, <2>4 DEF PutPacket, OtherTypes
  <2>5. QED
    BY <2>3, <2>4
<1>7. OtherTypes'
  BY <1>1, <1>2, <1>5, <1>6 DEF OtherTypes
<1>8. StreamsInv'
  BY <1>3, <1>4, <1>7, StreamsJoin
<1>9. ListComplete' /\ AllFlushed'
  BY <1>6 DEF ListComplete, AllFlushed
<1>10. NotTooEarly' /\ RateKept' /\ BufferHolds'
  BY <1>1, <1>2, <1>3, <1>4, SameFile DEF FileInv
<1>11. ClockPastFile'
  BY <1>2, ClockIdle DEF FileInv
<1>12. QED
  BY <1>8, <1>9, <1>10, <1>11 DEF FileInv

LEMMA CloseKeeps ==
  ASSUME StreamsInv, FileInv, Close
  PROVE  StreamsInv' /\ FileInv'
<1>1. OtherTypes /\ \A r \in Streams : StreamOK(r)
  BY StreamsSplit
<1>2. /\ pc = "idle" /\ pc' = "pack" /\ maxdts' = -1
      /\ UNCHANGED <<st, scr, aucounter, streamlist, given, file, failures>>
  BY DEF Close
<1>3. \A r \in Streams : StreamOK(r)'
  BY <1>1, <1>2, SameFileCarried, QuietStreams DEF OtherTypes
<1>4. OtherTypes'
  BY <1>1, <1>2 DEF OtherTypes
<1>5. ListComplete' /\ AllFlushed'
  BY <1>2 DEF ListComplete, AllFlushed
<1>6. NotTooEarly' /\ RateKept' /\ BufferHolds'
  BY <1>1, <1>2, QuietFile DEF FileInv
<1>7. ClockPastFile'
  BY <1>2, ClockIdle DEF FileInv
<1>8. QED
  BY <1>3, <1>4, <1>5, <1>6, <1>7, StreamsJoin DEF FileInv

(* The stream of a step that only moves its bytes, packs and removals.     *)
LEMMA StreamMoves ==
  ASSUME NEW s \in Streams, StreamOK(s), OtherTypes, st'[s] \in StreamRec, given'[s] = given[s],
         scr' \in Nat, scr <= scr',
         Waiting(st'[s].aulist), InOrder(st'[s].aulist, NextDts(s)),
         Early(st'[s].packlist),
         Carried(s)' + Sum(st'[s].packlist) + Bytes(st'[s].aulist)
           = Carried(s) + Sum(st[s].packlist) + Bytes(st[s].aulist),
         Matches(s, st'[s].removals, scr),
         Carried(s)' - (Given(s) - Sum(st'[s].removals)) <= st'[s].fill
  PROVE  StreamOK(s)'
<1>1. Given(s)' = Given(s) /\ NextDts(s)' = NextDts(s)
  BY SameGiven
<1>2. Matches(s, st[s].removals, scr)'
  <2>1. st'[s].removals \in Seq(Removals) /\ given[s] \in AllGiven
    BY DEF StreamOK, StreamRec
  <2>2. QED
    BY <2>1, LaterMatches DEF OtherTypes
<1>3. Covers(s, st[s])'
  BY <1>1 DEF Covers
<1>4. given'[s] \in AllGiven
      /\ (\A i \in 1 .. Len(given'[s]) : given'[s][i].dts < NextDts(s)')
      /\ \A i, j \in 1 .. Len(given'[s]) : i < j => given'[s][i].dts < given'[s][j].dts
  BY <1>1 DEF StreamOK
<1>5. Carried(s)' + Sum(st'[s].packlist) + Bytes(st'[s].aulist) = Given(s)'
  BY <1>1 DEF StreamOK
<1>6. QED
  BY <1>1, <1>2, <1>3, <1>4, <1>5 DEF StreamOK

LEMMA PacketizeStream ==
  ASSUME OtherTypes, NEW s \in Streams, StreamOK(s), Packetize(s)
  PROVE  StreamOK(s)' /\ st'[s] \in StreamRec
<1> DEFINE old == st[s]
           new == st'[s]
           aus == old.aulist
           bytes == Least(Payload, Bytes(SubSeq(aus, 1, Together(s, aus))))
           head == HeaderPacks(s, aus[1])
           pack == NewPack(aus, bytes)
           packs == old.packlist \o head \o <<pack>>
           left == Remaining(aus, bytes)
           time == NextDts(s)
<1>1. /\ old \in StreamRec /\ Waiting(aus) /\ InOrder(aus, time)
      /\ Early(old.packlist) /\ aus # << >>
  BY DEF StreamOK, Packetize, Pending
<1>2. new = [old EXCEPT !.packlist = packs, !.aulist = left]
      /\ UNCHANGED <<scr, given, file>>
  BY DEF Packetize, OtherTypes
<1> HIDE DEF old, new, time
<1>3. bytes \in Nat \ {0} /\ bytes <= Bytes(aus)
  BY <1>1, BytesOfPack
<1> HIDE DEF bytes
<1>4. Waiting(left) /\ InOrder(left, time) /\ Bytes(left) = Bytes(aus) - bytes
  BY <1>1, <1>3, RemainingFacts
<1>5. pack \in Packs /\ pack.bytes = bytes /\ pack.last - Second <= pack.minscr
  BY <1>1, <1>3, NewPackFacts
<1>6. Early(head) /\ Sum(head) = 0
  <2>1. aus[1] \in AUs
    BY <1>1, BytesFirst DEF Waiting
  <2>2. QED
    BY <2>1, HeaderFacts
<1> HIDE DEF pack, head, left, aus
<1>7. Early(packs) /\ Sum(packs) = Sum(old.packlist) + bytes
  <2>1. Early(<<pack>>) /\ Sum(<<pack>>) = bytes
    BY <1>5, EarlyOne
  <2>2. Early(old.packlist \o head)
        /\ Sum(old.packlist \o head) = Sum(old.packlist) + Sum(head)
    BY <1>1, <1>6, EarlyConcat
  <2>3. Early(packs) /\ Sum(packs) = Sum(old.packlist \o head) + Sum(<<pack>>)
    BY <2>1, <2>2, EarlyConcat
  <2>4. Sum(old.packlist) \in Nat
    <3>1. \A e \in Packs : e.bytes \in Nat
      BY DEF Packs
    <3>2. old.packlist \in Seq(Packs)
      BY <1>1 DEF Early
    <3>3. QED
      BY <3>1, <3>2, SumList
  <2>5. QED
    BY <1>6, <2>1, <2>2, <2>3, <2>4
<1> HIDE DEF packs
<1>8. /\ new \in StreamRec /\ new.packlist = packs /\ new.aulist = left
      /\ new.removals = old.removals /\ new.fill = old.fill
  BY <1>1, <1>2, <1>4, <1>7 DEF StreamRec, Waiting, Early
<1>9. Carried(s)' = Carried(s) /\ Carried(s) \in Nat
  BY <1>2, SameFileCarried, GivenNat
<1>10. Bytes(aus) \in Nat /\ Sum(old.packlist) \in Nat
  <2>1. \A e \in Packs : e.bytes \in Nat
    BY DEF Packs
  <2>2. old.packlist \in Seq(Packs)
    BY <1>1 DEF Early
  <2>3. Sum(old.packlist) \in Nat
    BY <2>1, <2>2, SumList
  <2>4. Bytes(aus) \in Nat
    BY <1>1, BytesNat DEF Waiting
  <2>5. QED
    BY <2>3, <2>4
<1>11. Carried(s)' + Sum(new.packlist) + Bytes(new.aulist)
         = Carried(s) + Sum(old.packlist) + Bytes(aus)
  BY <1>3, <1>4, <1>7, <1>8, <1>9, <1>10
<1>12. Matches(s, new.removals, scr)
  BY <1>8 DEF StreamOK, old
<1>13. Carried(s)' - (Given(s) - Sum(new.removals)) <= new.fill
  BY <1>8, <1>9 DEF StreamOK, Covers, old
<1>14. scr' \in Nat /\ scr <= scr' /\ given'[s] = given[s]
  BY <1>2 DEF OtherTypes
<1>15. /\ Waiting(new.aulist) /\ InOrder(new.aulist, time) /\ Early(new.packlist)
  BY <1>4, <1>7, <1>8
<1>16. StreamOK(s)'
  BY <1>8, <1>11, <1>12, <1>13, <1>14, <1>15, StreamMoves DEF new, old, aus, time
<1>17. QED
  BY <1>8, <1>16 DEF new

LEMMA PacketizeKeeps ==
  ASSUME StreamsInv, FileInv, NEW s \in Streams, Packetize(s)
  PROVE  StreamsInv' /\ FileInv'
<1>1. OtherTypes /\ \A r \in Streams : StreamOK(r)
  BY StreamsSplit
<1>2. /\ pc = "pack" /\ UNCHANGED <<scr, aucounter, pc, maxdts, streamlist, given, file, failures>>
      /\ \A r \in Streams : r # s => st'[r] = st[r]
      /\ DOMAIN st' = Streams /\ st' = [st EXCEPT ![s] = st'[s]]
  BY <1>1 DEF Packetize, OtherTypes
<1>3. StreamOK(s)' /\ st'[s] \in StreamRec
  BY <1>1, PacketizeStream
<1>4. ASSUME NEW r \in Streams, r # s
      PROVE  StreamOK(r)'
  <2>1. Carried(r)' = Carried(r)
    BY <1>2, SameFileCarried
  <2>2. QED
    BY <1>1, <1>2, <1>4, <2>1, SameStream DEF OtherTypes
<1>5. OtherTypes'
  BY <1>1, <1>2, <1>3 DEF OtherTypes
<1>6. ListComplete' /\ AllFlushed'
  BY <1>2 DEF ListComplete, AllFlushed
<1>7. NotTooEarly' /\ RateKept' /\ BufferHolds'
  BY <1>1, <1>2, QuietFile DEF FileInv
<1>8. ClockPastFile'
  BY <1>2, ClockIdle DEF FileInv
<1>9. QED
  BY <1>3, <1>4, <1>5, <1>6, <1>7, <1>8, StreamsJoin DEF FileInv

LEMMA StartMuxKeeps ==
  ASSUME StreamsInv, FileInv, StartMux
  PROVE  StreamsInv' /\ FileInv'
<1>1. OtherTypes /\ \A r \in Streams : StreamOK(r)
  BY StreamsSplit
<1>2. /\ pc = "pack" /\ pc' = "mux" /\ \A s \in Streams : ~Pending(s)
      /\ st' = [s \in Streams |-> [st[s] EXCEPT !.packlist = Urgent(@)]]
      /\ streamlist' \in Sorted(st')
      /\ UNCHANGED <<scr, aucounter, maxdts, given, file, failures>>
  BY DEF StartMux
<1>3. ASSUME NEW s \in Streams
      PROVE  StreamOK(s)' /\ st'[s] \in StreamRec /\ st'[s].aulist = st[s].aulist
  <2> DEFINE old == st[s]
             new == st'[s]
             packs == Urgent(old.packlist)
  <2>1. /\ old \in StreamRec /\ Early(old.packlist) /\ Waiting(old.aulist)
        /\ InOrder(old.aulist, NextDts(s)) /\ Matches(s, old.removals, scr)
        /\ Covers(s, old)
    BY <1>1 DEF StreamOK
  <2>2. new = [old EXCEPT !.packlist = packs]
    BY <1>2
  <2> HIDE DEF old, new
  <2>3. Early(packs) /\ Sum(packs) = Sum(old.packlist)
    BY <2>1, UrgentFacts
  <2> HIDE DEF packs
  <2>4. /\ new \in StreamRec /\ new.packlist = packs /\ new.aulist = old.aulist
        /\ new.removals = old.removals /\ new.fill = old.fill
    BY <2>1, <2>2, <2>3 DEF StreamRec, Early
  <2>5. Carried(s)' = Carried(s)
    BY <1>2, SameFileCarried
  <2>6. Carried(s)' + Sum(new.packlist) + Bytes(new.aulist)
          = Carried(s) + Sum(old.packlist) + Bytes(old.aulist)
    BY <2>3, <2>4, <2>5
  <2>7. Carried(s)' - (Given(s) - Sum(new.removals)) <= new.fill
    BY <2>1, <2>4, <2>5 DEF Covers
  <2>8. scr' \in Nat /\ scr <= scr' /\ given'[s] = given[s]
    BY <1>1, <1>2 DEF OtherTypes
  <2>9. /\ Waiting(new.aulist) /\ InOrder(new.aulist, NextDts(s)) /\ Early(new.packlist)
        /\ Matches(s, new.removals, scr)
    BY <2>1, <2>3, <2>4
  <2>10. StreamOK(s)
    BY <1>1
  <2>11. StreamOK(s)'
    BY <1>1, <2>4, <2>6, <2>7, <2>8, <2>9, <2>10, StreamMoves DEF new, old
  <2>12. QED
    BY <2>4, <2>11 DEF new, old
<1>4. st' \in [Streams -> StreamRec]
  BY <1>2, <1>3
<1>5. /\ Listed(streamlist', st')
      /\ \A s \in Streams : st'[s].packlist # << >> =>
           \E i \in 1 .. Len(streamlist') : streamlist'[i] = s
  <2> DEFINE streams == st'
             list == streamlist'
  <2>1. list \in Sorted(streams)
    BY <1>2
  <2> HIDE DEF streams, list
  <2>2. /\ Listed(list, streams)
        /\ \A s \in Streams : streams[s].packlist # << >> =>
             \E i \in 1 .. Len(list) : list[i] = s
    BY <2>1, SortedFacts
  <2>3. QED
    BY <2>2 DEF streams, list
<1>6. streamlist' \in Seq(Streams) /\ DOMAIN streamlist' = 1 .. Len(streamlist')
  <2>1. streamlist' \in Seq(Streams)
    BY <1>5 DEF Listed
  <2>2. QED
    BY <2>1, LenProperties
<1>7. OtherTypes'
  BY <1>1, <1>2, <1>4, <1>6 DEF OtherTypes
<1>8. ListComplete'
  BY <1>5, <1>6 DEF ListComplete, Listed
<1>9. AllFlushed'
  <2>1. ASSUME maxdts < 0, NEW s \in Streams
        PROVE  st'[s].aulist = << >>
    BY <1>2, <1>3, <2>1 DEF Pending
  <2>2. QED
    BY <1>2, <2>1 DEF AllFlushed
<1>10. NotTooEarly' /\ RateKept' /\ BufferHolds'
  BY <1>1, <1>2, QuietFile DEF FileInv
<1>11. ClockPastFile'
  BY <1>2, ClockIdle DEF FileInv
<1>12. QED
  BY <1>3, <1>7, <1>8, <1>9, <1>10, <1>11, StreamsJoin DEF FileInv

(* If no stream at the head of the list has packs, none has.               *)
LEMMA NothingMore ==
  ASSUME OtherTypes, ListComplete, pc = "mux", maxdts < 0, ~More
  PROVE  \A s \in Streams : st[s].packlist = << >>
<1>1. streamlist \in Seq(Streams) /\ DOMAIN streamlist = 1 .. Len(streamlist)
  BY LenProperties DEF OtherTypes
<1>2. streamlist = << >> \/ st[Head(streamlist)].packlist = << >>
  BY DEF More, stopscr
<1>3. ASSUME NEW s \in Streams, st[s].packlist # << >>
      PROVE  FALSE
  <2>1. PICK i \in 1 .. Len(streamlist) : streamlist[i] = s
    BY <1>1, <1>3 DEF ListComplete
  <2>2. streamlist # << >> /\ Head(streamlist) = streamlist[1] /\ 1 \in 1 .. Len(streamlist)
    BY <1>1, <2>1
  <2>3. st[streamlist[1]].packlist = << >>
    BY <1>2, <2>2
  <2>4. i = 1 \/ 1 < i
    BY <1>1, <2>1
  <2>5. QED
    BY <1>1, <1>3, <2>1, <2>2, <2>3, <2>4 DEF ListComplete
<1>4. QED
  BY <1>3

LEMMA MuxEndsKeeps ==
  ASSUME StreamsInv, FileInv, MuxEnds
  PROVE  StreamsInv' /\ FileInv'
<1>1. OtherTypes /\ \A r \in Streams : StreamOK(r)
  BY StreamsSplit
<1>2. /\ pc = "mux" /\ ~More /\ pc' = IF maxdts < 0 THEN "closed" ELSE "idle"
      /\ streamlist' = << >>
      /\ UNCHANGED <<st, scr, aucounter, maxdts, given, file, failures>>
  BY DEF MuxEnds, Done
<1>3. \A r \in Streams : StreamOK(r)'
  BY <1>1, <1>2, SameFileCarried, QuietStreams DEF OtherTypes
<1>4. OtherTypes'
  BY <1>1, <1>2, EmptySeq DEF OtherTypes
<1>5. ListComplete'
  BY <1>2 DEF ListComplete
<1>6. AllFlushed'
  <2>1. ASSUME maxdts < 0
        PROVE  \A s \in Streams : st[s].aulist = << >> /\ st[s].packlist = << >>
    BY <1>1, <1>2, <2>1, NothingMore DEF FileInv, AllFlushed
  <2>2. QED
    BY <1>2, <2>1 DEF AllFlushed
<1>7. NotTooEarly' /\ RateKept' /\ BufferHolds'
  BY <1>1, <1>2, QuietFile DEF FileInv
<1>8. ClockPastFile'
  BY <1>2, ClockIdle DEF FileInv
<1>9. QED
  BY <1>3, <1>4, <1>5, <1>6, <1>7, <1>8, StreamsJoin DEF FileInv

(* The first pack that can be sent.                                        *)
LEMMA WithPacksFacts ==
  ASSUME OtherTypes, NEW i \in WithPacks
  PROVE  /\ i \in 1 .. Len(streamlist) /\ streamlist[i] \in Streams
         /\ st[streamlist[i]].packlist # << >>
         /\ First(st, streamlist[i]) = st[streamlist[i]].packlist[1]
         /\ First(st, streamlist[i]) \in Packs
<1>1. i \in 1 .. Len(streamlist) /\ streamlist \in Seq(Streams)
  BY LenProperties DEF WithPacks, OtherTypes
<1>2. streamlist[i] \in Streams
  BY <1>1, ElementOfSeq
<1>3. Len(streamlist) \in Nat
  BY <1>1, LenProperties
<1>4. st[streamlist[i]].packlist # << >>
  <2>1. i \in 1 .. i
    BY <1>1, <1>3
  <2>2. QED
    BY <2>1 DEF WithPacks
<1> DEFINE packs == st[streamlist[i]].packlist
<1>5. packs \in Seq(Packs)
  BY <1>2 DEF OtherTypes, StreamRec
<1>6. First(st, streamlist[i]) = Head(packs)
  BY DEF First
<1> HIDE DEF packs
<1>7. Head(packs) = packs[1] /\ Head(packs) \in Packs
  BY <1>4, <1>5, HeadTailProperties DEF packs
<1>8. QED
  BY <1>1, <1>2, <1>4, <1>6, <1>7 DEF packs

LEMMA MinscrFacts ==
  ASSUME OtherTypes, More
  PROVE  /\ minscr \in Int
         /\ \A i \in WithPacks : First(st, streamlist[i]).minscr \in Int
                                 /\ minscr <= First(st, streamlist[i]).minscr
         /\ Ready = {} => scr < minscr
<1> DEFINE n == Len(streamlist)
           time(i) == First(st, streamlist[i]).minscr
           T == {First(st, streamlist[i]).minscr : i \in WithPacks}
           f == [i \in 1 .. n |-> IF i \in WithPacks THEN time(i) ELSE time(1)]
<1>1. streamlist \in Seq(Streams) /\ streamlist # << >> /\ n \in Nat \ {0}
      /\ DOMAIN streamlist = 1 .. n
  BY EmptySeq, LenProperties DEF OtherTypes, More
<1>2. 1 \in WithPacks
  <2>1. Head(streamlist) = streamlist[1] /\ 1 \in 1 .. n /\ \A j \in 1 .. 1 : j = 1
    BY <1>1
  <2>2. st[streamlist[1]].packlist # << >>
    BY <2>1 DEF More
  <2>3. QED
    BY <1>1, <2>1, <2>2 DEF WithPacks
<1>3. \A i \in WithPacks : i \in 1 .. n /\ time(i) \in Int
  <2>1. ASSUME NEW i \in WithPacks
        PROVE  i \in 1 .. n /\ time(i) \in Int
    <3>1. i \in 1 .. n /\ First(st, streamlist[i]) \in Packs
      BY WithPacksFacts
    <3>2. QED
      BY <3>1 DEF Packs
  <2>2. QED
    BY <2>1
<1>4. /\ f \in [1 .. n -> Int] /\ \A i \in 1 .. n : f[i] \in T
      /\ \A x \in T : \E i \in 1 .. n : f[i] = x
  <2> HIDE DEF n
  <2>1. f \in [1 .. n -> Int]
    BY <1>2, <1>3
  <2>2. \A i \in 1 .. n : f[i] \in T
    BY <1>2
  <2>3. ASSUME NEW x \in T
        PROVE  \E i \in 1 .. n : f[i] = x
    <3>1. PICK i \in WithPacks : x = time(i)
      OBVIOUS
    <3>2. i \in 1 .. n
      BY <1>3
    <3>3. f[i] = x
      BY <3>1, <3>2
    <3>4. QED
      BY <3>2, <3>3
  <2>4. QED
    BY <2>1, <2>2, <2>3
<1> HIDE DEF f
<1>5. minscr = Min(T)
  BY DEF minscr
<1> HIDE DEF n, T
<1>6. minscr \in T /\ \A x \in T : minscr <= x
  BY <1>1, <1>4, <1>5, LeastOfSet
<1>7. \A i \in WithPacks : minscr <= time(i)
  BY <1>6 DEF T
<1>8. PICK k \in WithPacks : minscr = time(k)
  BY <1>6 DEF T
<1>9. ASSUME Ready = {}
      PROVE  scr < minscr
  <2>1. ~(time(k) <= scr)
    BY <1>8, <1>9 DEF Ready
  <2>2. scr \in Int
    BY DEF OtherTypes
  <2>3. QED
    BY <1>3, <1>8, <2>1, <2>2
<1>10. QED
  BY <1>3, <1>7, <1>8, <1>9

(* One pack more in the file.                                              *)
LEMMA FileGrows ==
  ASSUME OtherTypes, FileInv, NEW entry \in InFile, file' = Append(file, entry),
         entry.last - Second <= entry.scr, scr <= entry.scr,
         Ready # {} \/ scr < entry.scr
  PROVE  /\ file' \in Seq(InFile) /\ file' # << >> /\ file'[Len(file')] = entry
         /\ Last(file') = entry /\ NotTooEarly' /\ RateKept'
<1> DEFINE n == Len(file)
<1>1. /\ file \in Seq(InFile) /\ n \in Nat /\ DOMAIN file = 1 .. n
      /\ file' \in Seq(InFile) /\ file' # << >> /\ Len(file') = n + 1
      /\ DOMAIN file' = 1 .. n + 1
      /\ file'[n + 1] = entry /\ \A i \in 1 .. n : file'[i] = file[i]
  BY AppendProperties, LenProperties DEF OtherTypes
<1>2. Last(file') = entry
  BY <1>1 DEF Last
<1>3. NotTooEarly'
  BY <1>1 DEF NotTooEarly, FileInv
<1>4. ASSUME n # 0
      PROVE  entry.scr - file[n].scr >=
               CASE file[n].stream # -1 -> PackTime
                 [] file[n].stream = -1 /\ file[n].whole -> 1
                 [] OTHER -> 0
  <2> DEFINE e == file[n]
  <2>1. n \in 1 .. n /\ file # << >>
    BY <1>1, <1>4
  <2>2. e \in InFile
    BY <1>1, <2>1, ElementOfSeq
  <2>3. /\ e.scr <= scr /\ (e.stream # -1 => e.scr + PackTime <= scr)
        /\ (e.stream = -1 /\ e.whole /\ e.scr = scr => Ready = {})
    BY <2>1 DEF FileInv, ClockPastFile
  <2>4. e.scr \in Nat /\ scr \in Nat /\ entry.scr \in Nat /\ PackTime \in Nat /\ e.whole \in BOOLEAN
    BY <2>2, MpegMuxerAssumption DEF InFile, OtherTypes
  <2> HIDE DEF e
  <2>5. CASE e.stream # -1
    <3>1. entry.scr - e.scr >= PackTime
      BY <2>3, <2>4, <2>5
    <3>2. QED
      BY <2>5, <3>1 DEF e
  <2>6. CASE e.stream = -1 /\ e.whole
    <3>1. e.scr < scr \/ scr < entry.scr
      BY <2>3, <2>4, <2>6
    <3>2. entry.scr - e.scr >= 1
      BY <2>3, <2>4, <3>1
    <3>3. QED
      BY <2>6, <3>2 DEF e
  <2>7. CASE e.stream = -1 /\ ~e.whole
    <3>1. entry.scr - e.scr >= 0
      BY <2>3, <2>4
    <3>2. QED
      BY <2>7, <3>1 DEF e
  <2>8. QED
    BY <2>5, <2>6, <2>7
<1>5. RateKept'
  <2>1. ASSUME NEW i \in 2 .. n + 1
        PROVE  file'[i].scr - file'[i - 1].scr >=
                 CASE file'[i - 1].stream # -1 -> PackTime
                   [] file'[i - 1].stream = -1 /\ file'[i - 1].whole -> 1
                   [] OTHER -> 0
    <3>1. CASE i = n + 1
      <4>1. n # 0 /\ i - 1 = n /\ n \in 1 .. n
        BY <1>1, <3>1
      <4>2. file'[i] = entry /\ file'[i - 1] = file[n]
        BY <1>1, <3>1, <4>1
      <4>3. QED
        BY <1>4, <4>1, <4>2
    <3>2. CASE i # n + 1
      <4>1. i \in 2 .. n /\ i \in 1 .. n /\ i - 1 \in 1 .. n
        BY <1>1, <3>2
      <4>2. file'[i] = file[i] /\ file'[i - 1] = file[i - 1]
        BY <1>1, <4>1
      <4>3. QED
        BY <4>1, <4>2 DEF FileInv, RateKept
    <3>3. QED
      BY <3>1, <3>2
  <2>2. QED
    BY <1>1, <2>1 DEF RateKept
<1>6. QED
  BY <1>1, <1>2, <1>3, <1>5

LEMMA BridgeFacts ==
  ASSUME NEW time \in Nat, NEW whole \in BOOLEAN
  PROVE  /\ Bridge(time, whole) \in InFile /\ Bridge(time, whole).stream = -1
         /\ Bridge(time, whole).scr = time /\ Bridge(time, whole).whole = whole
         /\ Bridge(time, whole).last - Second <= time
<1>1. PackTime \in Nat /\ Second \in Nat
  BY MpegMuxerAssumption
<1>2. QED
  BY <1>1 DEF Bridge, Written, InFile

(* A bridge carries nothing.                                               *)
LEMMA BridgeCarries ==
  ASSUME OtherTypes, NEW entry \in InFile, entry.stream = -1, file' = Append(file, entry)
  PROVE  \A s \in Streams : Carried(s)' = Carried(s)
<1>1. ASSUME NEW s \in Streams
      PROVE  Carried(s)' = Carried(s)
  <2>1. s # -1
    BY MpegMuxerAssumption
  <2>2. Carried(s)' = Carried(s) + IF entry.stream = s /\ entry.whole
                                     THEN entry.bytes ELSE 0
    BY CarriedAppend DEF OtherTypes
  <2>3. Carried(s) \in Nat
    BY GivenNat
  <2>4. QED
    BY <2>1, <2>2, <2>3
<1>2. QED
  BY <1>1

LEMMA FillerKeeps ==
  ASSUME StreamsInv, FileInv, Filler
  PROVE  StreamsInv' /\ FileInv'
<1>1. OtherTypes /\ \A r \in Streams : StreamOK(r)
  BY StreamsSplit
<1>2. /\ pc = "mux" /\ More /\ Ready = {} /\ minscr - scr > FillerStep
      /\ scr' = scr + FillerStep /\ file' = Append(file, Bridge(scr', TRUE))
      /\ UNCHANGED <<st, aucounter, pc, maxdts, streamlist, given, failures>>
  BY DEF Filler
<1>3. scr \in Nat /\ scr' \in Nat /\ scr < scr'
  BY <1>1, <1>2, MpegMuxerAssumption DEF OtherTypes
<1> DEFINE entry == Bridge(scr', TRUE)
<1>4. /\ entry \in InFile /\ entry.stream = -1 /\ entry.scr = scr' /\ entry.whole = TRUE
      /\ entry.last - Second <= entry.scr
  BY <1>3, BridgeFacts
<1>5. file' = Append(file, entry)
  BY <1>2
<1> HIDE DEF entry
<1>6. /\ file' \in Seq(InFile) /\ file' # << >> /\ file'[Len(file')] = entry
      /\ Last(file') = entry /\ NotTooEarly' /\ RateKept'
  BY <1>1, <1>3, <1>4, <1>5, FileGrows
<1>7. \A s \in Streams : Carried(s)' = Carried(s)
  BY <1>1, <1>4, <1>5, BridgeCarries
<1>8. \A r \in Streams : StreamOK(r)'
  BY <1>1, <1>2, <1>3, <1>7, QuietStreams
<1>9. OtherTypes'
  BY <1>1, <1>2, <1>3, <1>6 DEF OtherTypes
<1>10. ListComplete' /\ AllFlushed'
  BY <1>2 DEF FileInv, ListComplete, AllFlushed
<1>11. BufferHolds'
  BY <1>4, <1>6 DEF BufferHolds
<1>12. ClockPastFile'
  <2>1. More'
    BY <1>2 DEF More, First, stopscr
  <2>2. Ready' = {}
    <3>1. WithPacks' = WithPacks
      BY <1>2 DEF WithPacks
    <3>2. ASSUME NEW i \in WithPacks
          PROVE  ~(First(st, streamlist[i]).minscr <= scr')
      <4>1. /\ First(st, streamlist[i]).minscr \in Int /\ minscr \in Int
            /\ minscr <= First(st, streamlist[i]).minscr
        BY <1>1, <1>2, MinscrFacts
      <4>2. QED
        BY <1>2, <1>3, <4>1, MpegMuxerAssumption
    <3>3. QED
      BY <1>2, <3>1, <3>2 DEF Ready, First
  <2>3. entry.scr <= scr'
    BY <1>3, <1>4
  <2>4. QED
    BY <1>2, <1>4, <1>6, <2>1, <2>2, <2>3 DEF ClockPastFile
<1>13. QED
  BY <1>6, <1>8, <1>9, <1>10, <1>11, <1>12, StreamsJoin DEF FileInv

LEMMA AdvanceKeeps ==
  ASSUME StreamsInv, FileInv, Advance
  PROVE  StreamsInv' /\ FileInv'
<1>1. OtherTypes /\ \A r \in Streams : StreamOK(r)
  BY StreamsSplit
<1>2. /\ pc = "mux" /\ More /\ Ready = {} /\ scr' = minscr
      /\ UNCHANGED <<st, aucounter, pc, maxdts, streamlist, given, file, failures>>
  BY DEF Advance
<1>3. scr \in Nat /\ scr' \in Nat /\ scr < scr'
  BY <1>1, <1>2, MinscrFacts DEF OtherTypes
<1>4. \A r \in Streams : StreamOK(r)'
  BY <1>1, <1>2, <1>3, SameFileCarried, QuietStreams
<1>5. OtherTypes'
  BY <1>1, <1>2, <1>3 DEF OtherTypes
<1>6. ListComplete' /\ AllFlushed'
  BY <1>2 DEF FileInv, ListComplete, AllFlushed
<1>7. NotTooEarly' /\ RateKept' /\ BufferHolds'
  BY <1>1, <1>2, QuietFile DEF FileInv
<1>8. ClockPastFile'
  <2>1. SUFFICES ASSUME file # << >>
                 PROVE  /\ file[Len(file)].scr <= scr' /\ file[Len(file)].scr # scr'
                        /\ file[Len(file)].stream # -1 => file[Len(file)].scr + PackTime <= scr'
    BY <1>2, <1>3 DEF ClockPastFile
  <2> DEFINE e == file[Len(file)]
  <2>2. e \in InFile
    <3>1. file \in Seq(InFile)
      BY <1>1 DEF OtherTypes
    <3>2. Len(file) \in 1 .. Len(file)
      BY <2>1, <3>1, EmptySeq
    <3>3. QED
      BY <3>1, <3>2, ElementOfSeq
  <2>3. e.scr <= scr /\ (e.stream # -1 => e.scr + PackTime <= scr)
    BY <2>1 DEF FileInv, ClockPastFile
  <2>4. e.scr \in Nat /\ PackTime \in Nat
    BY <2>2, MpegMuxerAssumption DEF InFile
  <2> HIDE DEF e
  <2>5. e.scr <= scr' /\ e.scr # scr' /\ (e.stream # -1 => e.scr + PackTime <= scr')
    BY <1>3, <2>3, <2>4
  <2>6. QED
    BY <2>5 DEF e
<1>9. QED
  BY <1>4, <1>5, <1>6, <1>7, <1>8, StreamsJoin DEF FileInv

(* The stream whose pack is sent next, after what has been decoded is      *)
(* taken from its account.                                                 *)
LEMMA ChosenFacts ==
  ASSUME OtherTypes, \A r \in Streams : StreamOK(r), TypeOK, GivenOrder, Ready # {}
  PROVE  LET s == Chosen
             stream == Removed(st[s])
             pack == Head(stream.packlist)
         IN  /\ Min(Ready) \in 1 .. Len(streamlist) /\ s \in Streams
             /\ stream \in StreamRec /\ stream.aulist = st[s].aulist
             /\ stream.packlist = st[s].packlist /\ stream.packlist # << >>
             /\ Matches(s, stream.removals, scr) /\ Covers(s, stream)
             /\ \A i \in DOMAIN stream.removals : stream.removals[i].scr > scr
             /\ pack \in Packs /\ pack.last - Second <= scr
<1> DEFINE k == Min(Ready)
           s == Chosen
           stream == Removed(st[s])
<1>1. Ready \subseteq WithPacks /\ WithPacks \subseteq Nat
  <2>1. DOMAIN streamlist \subseteq Nat
    BY LenProperties DEF OtherTypes
  <2>2. QED
    BY <2>1 DEF Ready, WithPacks
<1>2. k \in Ready
  BY <1>1, LeastIndex
<1>3. s = streamlist[k]
  BY DEF Chosen
<1> HIDE DEF k, s
<1>4. /\ k \in 1 .. Len(streamlist) /\ s \in Streams /\ st[s].packlist # << >>
      /\ First(st, s) = st[s].packlist[1] /\ First(st, s) \in Packs
  BY <1>1, <1>2, <1>3, WithPacksFacts
<1>5. First(st, s).minscr <= scr
  BY <1>2, <1>3 DEF Ready
<1>6. Carried(s) \in Nat /\ Given(s) \in Nat
  BY <1>4, GivenNat
<1>7. Carried(s) <= Given(s)
  <2>1. Sum(st[s].packlist) \in Nat
    <3>1. \A e \in Packs : e.bytes \in Nat
      BY DEF Packs
    <3>2. st[s].packlist \in Seq(Packs)
      BY <1>4 DEF StreamOK, Early
    <3>3. QED
      BY <3>1, <3>2, SumList
  <2>2. Bytes(st[s].aulist) \in Nat
    <3>1. Waiting(st[s].aulist)
      BY <1>4 DEF StreamOK
    <3>2. QED
      BY <3>1, BytesNat DEF Waiting
  <2>3. Carried(s) + Sum(st[s].packlist) + Bytes(st[s].aulist) = Given(s)
    BY <1>4 DEF StreamOK
  <2>4. QED
    BY <1>6, <2>1, <2>2, <2>3
<1>8. Matches(s, st[s].removals, scr) /\ Covers(s, st[s])
  BY <1>4 DEF StreamOK
<1>9. /\ stream \in StreamRec /\ stream.aulist = st[s].aulist
      /\ stream.packlist = st[s].packlist
      /\ Matches(s, stream.removals, scr) /\ Covers(s, stream)
      /\ \A i \in DOMAIN stream.removals : stream.removals[i].scr > scr
  BY <1>4, <1>6, <1>7, <1>8, RemovedFacts
<1> HIDE DEF stream
<1>10. Head(stream.packlist) = First(st, s)
  BY <1>9 DEF First
<1>11. First(st, s).last - Second <= scr
  <2>1. Early(st[s].packlist) /\ st[s].packlist \in Seq(Packs)
    BY <1>4 DEF StreamOK, Early
  <2>2. 1 \in 1 .. Len(st[s].packlist)
    BY <1>4, <2>1, EmptySeq
  <2>3. First(st, s).last - Second <= First(st, s).minscr
    BY <1>4, <2>1, <2>2 DEF Early
  <2>4. First(st, s).last \in Nat /\ First(st, s).minscr \in Int /\ Second \in Nat
        /\ scr \in Nat
    BY <1>4, MpegMuxerAssumption DEF Packs, OtherTypes
  <2>5. QED
    BY <1>5, <2>3, <2>4
<1>12. QED
  BY <1>4, <1>9, <1>10, <1>11 DEF stream, s, k

(* There is room for a pack behind one of the removals.                    *)
LEMMA RoomAtFacts ==
  ASSUME NEW s \in Streams, NEW stream \in StreamRec, stream.removals # << >>
  PROVE  \E k \in 1 .. Len(stream.removals) :
           RoomAt(s, stream) = stream.removals[k].scr + Later
<1> DEFINE rem == stream.removals
           enough == {k \in DOMAIN stream.removals :
                        BufSize[s] - stream.fill + Sum(SubSeq(stream.removals, 1, k))
                          >= Head(stream.packlist).bytes}
           k == IF enough = {} THEN Len(stream.removals) ELSE Min(enough)
<1>1. /\ rem \in Seq(Removals) /\ DOMAIN rem = 1 .. Len(rem) /\ Len(rem) \in Nat \ {0}
  <2>1. rem \in Seq(Removals)
    BY DEF StreamRec
  <2>2. QED
    BY <2>1, EmptySeq, LenProperties
<1>2. RoomAt(s, stream) = rem[k].scr + Later
  BY DEF RoomAt
<1>3. k \in 1 .. Len(rem)
  <2>1. CASE enough = {}
    BY <1>1, <2>1
  <2>2. CASE enough # {}
    <3>1. enough \subseteq Nat
      BY <1>1
    <3>2. Min(enough) \in enough
      <4> HIDE DEF enough
      <4>1. QED
        BY <2>2, <3>1, LeastIndex
    <3>3. QED
      BY <1>1, <2>2, <3>2
  <2>3. QED
    BY <2>1, <2>2
<1> HIDE DEF k
<1>4. QED
  BY <1>2, <1>3

LEMMA RoomForPack ==
  ASSUME NEW s \in Streams, NEW stream \in StreamRec, scr \in Nat,
         stream.packlist # << >>,
         \A i \in DOMAIN stream.removals : stream.removals[i].scr > scr,
         MaySend(s, stream)
  PROVE  \/ stream.removals = << >>
         \/ Head(stream.packlist).bytes <= BufSize[s] - stream.fill
<1> DEFINE rem == stream.removals
           need == Head(stream.packlist).bytes
           free == BufSize[s] - stream.fill
<1>1. rem \in Seq(Removals) /\ DOMAIN rem = 1 .. Len(rem)
  BY LenProperties DEF StreamRec
<1>2. need \in Nat /\ free \in Int
  <2>1. Head(stream.packlist) \in Packs
    BY HeadTailProperties DEF StreamRec
  <2>2. need \in Nat
    BY <2>1 DEF Packs
  <2>3. BufSize[s] \in Nat /\ stream.fill \in Nat
    BY MpegMuxerAssumption DEF StreamRec
  <2>4. QED
    BY <2>2, <2>3
<1>3. SUFFICES ASSUME rem # << >>, need > free
               PROVE  FALSE
  <2> HIDE DEF need, free, rem
  <2>1. need <= free \/ need > free
    BY <1>2
  <2>2. QED
    BY <2>1 DEF need, free, rem
<1>4. RoomAt(s, stream) <= scr
  BY <1>3 DEF MaySend, Full
<1>5. PICK k \in 1 .. Len(rem) : RoomAt(s, stream) = rem[k].scr + Later
  BY <1>3, RoomAtFacts
<1>6. rem[k].scr > scr /\ rem[k] \in Removals
  BY <1>1, ElementOfSeq
<1>7. rem[k].scr \in Nat /\ Later \in Nat
  BY <1>6, MpegMuxerAssumption DEF Removals
<1>8. QED
  BY <1>4, <1>5, <1>6, <1>7

(* A pack that is sent now does not fill the buffer more than it holds.    *)
LEMMA BufferHasRoom ==
  ASSUME OtherTypes, NEW s \in Streams, NEW stream \in StreamRec,
         stream.packlist # << >>, Matches(s, stream.removals, scr), Covers(s, stream),
         \A i \in DOMAIN stream.removals : stream.removals[i].scr > scr,
         MaySend(s, stream), NEW bytes \in Nat, bytes <= Head(stream.packlist).bytes,
         Carried(s) + bytes <= Given(s)
  PROVE  Carried(s) + bytes - Decoded(s, scr) <= BufSize[s]
<1> DEFINE rem == stream.removals
           need == Head(stream.packlist).bytes
<1>1. rem \in Seq(Removals) /\ stream.fill \in Nat /\ scr \in Nat
  BY DEF StreamRec, OtherTypes
<1>2. need \in Nat /\ BufSize[s] \in Nat
  <2>1. Head(stream.packlist) \in Packs
    BY HeadTailProperties DEF StreamRec
  <2>2. QED
    BY <2>1, MpegMuxerAssumption DEF Packs
<1>3. Given(s) - Sum(rem) <= Decoded(s, scr)
  <2>1. given[s] \in AllGiven /\ scr \in Int
    BY <1>1 DEF OtherTypes
  <2>2. QED
    BY <1>1, <2>1, DecodedAtLeast
<1>4. Decoded(s, scr) \in Nat /\ Given(s) \in Nat /\ Carried(s) \in Nat
  <2>1. scr \in Int
    BY <1>1
  <2>2. QED
    BY <2>1, DecodedInt
<1>5. Sum(rem) \in Nat
  <2>1. \A e \in Removals : e.bytes \in Nat
    BY DEF Removals
  <2>2. QED
    BY <1>1, <2>1, SumList
<1>6. Carried(s) - (Given(s) - Sum(rem)) <= stream.fill
  BY DEF Covers
<1>7. rem = << >> \/ need <= BufSize[s] - stream.fill
  BY <1>1, RoomForPack
<1>8. CASE rem = << >>
  <2>1. Sum(rem) = 0
    BY <1>8, SumEmpty
  <2> HIDE DEF rem
  <2>2. QED
    BY <1>2, <1>3, <1>4, <2>1
<1>9. CASE need <= BufSize[s] - stream.fill
  <2> HIDE DEF rem, need
  <2>1. bytes <= need
    BY DEF need
  <2>2. QED
    BY <1>1, <1>2, <1>3, <1>4, <1>5, <1>6, <1>9, <2>1, SMTT(30)
<1>10. QED
  BY <1>7, <1>8, <1>9

LEMMA EarlyTail ==
  ASSUME NEW packs, Early(packs), packs # << >>
  PROVE  /\ Early(Tail(packs)) /\ Sum(packs) = Head(packs).bytes + Sum(Tail(packs))
         /\ Head(packs) \in Packs /\ Sum(Tail(packs)) \in Nat
<1>1. packs \in Seq(Packs) /\ \A e \in Packs : e.bytes \in Nat
  BY DEF Early, Packs
<1>2. /\ Head(packs) \in Packs /\ Tail(packs) \in Seq(Packs)
      /\ Len(Tail(packs)) = Len(packs) - 1 /\ Len(packs) \in Nat
      /\ \A i \in 1 .. Len(Tail(packs)) : Tail(packs)[i] = packs[i + 1]
  BY <1>1, HeadTailProperties, LenProperties
<1>3. ASSUME NEW i \in 1 .. Len(Tail(packs))
      PROVE  Tail(packs)[i].last - Second <= Tail(packs)[i].minscr
  <2>1. i + 1 \in 1 .. Len(packs) /\ Tail(packs)[i] = packs[i + 1]
    BY <1>2
  <2>2. QED
    BY <2>1 DEF Early
<1>4. QED
  BY <1>1, <1>2, <1>3, SumTail, SumList DEF Early

LEMMA EarlyPostponed ==
  ASSUME NEW packs, Early(packs), packs # << >>, NEW time \in Int,
         NEW new, new = [packs EXCEPT ![1].minscr = Most(@, time)]
  PROVE  Early(new) /\ Sum(new) = Sum(packs) /\ new # << >>
<1> DEFINE a == packs[1]
           m == Most(a.minscr, time)
           b == [a EXCEPT !.minscr = m]
<1>1. packs \in Seq(Packs)
  BY DEF Early
<1>2. Len(packs) \in Nat \ {0} /\ 1 \in 1 .. Len(packs) /\ DOMAIN packs = 1 .. Len(packs)
  BY <1>1, EmptySeq, LenProperties
<1>3. a \in Packs
  BY <1>1, <1>2, ElementOfSeq
<1>4. m \in Int /\ a.minscr <= m /\ a.minscr \in Int
  BY <1>3 DEF Packs, Most
<1>5. new = [packs EXCEPT ![1] = b]
  OBVIOUS
<1> HIDE DEF a, m
<1>6. b \in Packs /\ b.bytes = a.bytes /\ b.last = a.last /\ b.minscr = m
  BY <1>3, <1>4 DEF Packs
<1> HIDE DEF b
<1>7. /\ new \in Seq(Packs) /\ Len(new) = Len(packs)
      /\ \A j \in 1 .. Len(packs) : new[j] = IF j = 1 THEN b ELSE packs[j]
  BY <1>1, <1>2, <1>5, <1>6, ExceptSeq
<1>8. Sum(new) = Sum(packs)
  <2>1. \A i \in 1 .. Len(new) : new[i].bytes = packs[i].bytes
    BY <1>6, <1>7 DEF a
  <2>2. DOMAIN new = 1 .. Len(new) /\ DOMAIN packs = 1 .. Len(new)
    BY <1>1, <1>7, LenProperties
  <2>3. [i \in DOMAIN new |-> new[i].bytes] = [i \in DOMAIN packs |-> packs[i].bytes]
    BY <2>1, <2>2
  <2>4. QED
    BY <2>3 DEF Sum
<1>9. b.last - Second <= b.minscr
  <2>1. a.last - Second <= a.minscr
    BY <1>2 DEF Early, a
  <2>2. a.last \in Nat /\ Second \in Nat
    BY <1>3, MpegMuxerAssumption DEF Packs
  <2>3. QED
    BY <1>4, <1>6, <2>1, <2>2
<1>10. Early(new)
  BY <1>7, <1>9 DEF Early
<1>11. new # << >>
  BY <1>2, <1>7
<1>12. QED
  BY <1>8, <1>10, <1>11

LEMMA BufferFullKeeps ==
  ASSUME StreamsInv, FileInv, BufferFull
  PROVE  StreamsInv' /\ FileInv'
<1>1. PICK s : s = Chosen
  OBVIOUS
<1> DEFINE stream == Removed(st[s])
           time == RoomAt(s, stream)
           packs == [stream.packlist EXCEPT ![1].minscr = Most(@, time)]
           old == st[s]
           new == st'[s]
<1>2. OtherTypes /\ \A r \in Streams : StreamOK(r)
  BY StreamsSplit
<1>3. /\ pc = "mux" /\ Ready # {} /\ Full(s, stream)
      /\ st' = [st EXCEPT ![s] = [stream EXCEPT !.packlist = packs]]
      /\ UNCHANGED <<scr, aucounter, pc, maxdts, streamlist, given, file, failures>>
  BY <1>1 DEF BufferFull
<1>4. /\ s \in Streams /\ stream \in StreamRec /\ stream.aulist = old.aulist
      /\ stream.packlist = old.packlist /\ stream.packlist # << >>
      /\ Matches(s, stream.removals, scr) /\ Covers(s, stream)
  BY <1>2, <1>3, <1>1, ChosenFacts DEF StreamsInv
<1> HIDE DEF stream, time
<1>5. time \in Int
  <2>1. stream.removals # << >>
    BY <1>3 DEF Full
  <2>2. PICK k \in 1 .. Len(stream.removals) : time = stream.removals[k].scr + Later
    BY <1>4, <2>1, RoomAtFacts DEF time
  <2>3. stream.removals \in Seq(Removals)
    BY <1>4 DEF StreamRec
  <2>4. stream.removals[k] \in Removals
    BY <2>3, ElementOfSeq
  <2>5. QED
    BY <2>2, <2>4, MpegMuxerAssumption, SMTT(30) DEF Removals
<1>6. /\ StreamOK(s) /\ Early(stream.packlist)
      /\ Waiting(old.aulist) /\ InOrder(old.aulist, NextDts(s))
  BY <1>2, <1>4 DEF StreamOK
<1>7. Early(packs) /\ Sum(packs) = Sum(stream.packlist) /\ packs # << >>
  <2> HIDE DEF packs
  <2>1. packs = [stream.packlist EXCEPT ![1].minscr = Most(@, time)]
    BY DEF packs
  <2>2. QED
    BY <1>4, <1>5, <1>6, <2>1, EarlyPostponed
<1>8. new = [stream EXCEPT !.packlist = packs] /\ DOMAIN st' = Streams
      /\ \A r \in Streams : r # s => st'[r] = st[r]
  BY <1>2, <1>3, <1>4 DEF OtherTypes
<1> HIDE DEF packs, new, old
<1>9. /\ new \in StreamRec /\ new.packlist = packs /\ new.aulist = stream.aulist
      /\ new.removals = stream.removals /\ new.fill = stream.fill
  BY <1>4, <1>7, <1>8 DEF StreamRec, Early
<1>10. \A r \in Streams : Carried(r)' = Carried(r)
  BY <1>3, SameFileCarried
<1>11. StreamOK(s)'
  <2>1. Carried(s)' + Sum(new.packlist) + Bytes(new.aulist)
          = Carried(s) + Sum(old.packlist) + Bytes(old.aulist)
    BY <1>4, <1>7, <1>9, <1>10
  <2>2. Carried(s)' - (Given(s) - Sum(new.removals)) <= new.fill
    BY <1>4, <1>9, <1>10 DEF Covers
  <2>3. scr' \in Nat /\ scr <= scr' /\ given'[s] = given[s]
    BY <1>2, <1>3 DEF OtherTypes
  <2>4. /\ Waiting(new.aulist) /\ InOrder(new.aulist, NextDts(s)) /\ Early(new.packlist)
        /\ Matches(s, new.removals, scr)
    BY <1>4, <1>6, <1>7, <1>9
  <2>5. QED
    BY <1>2, <1>4, <1>6, <1>9, <2>1, <2>2, <2>3, <2>4, StreamMoves DEF new, old
<1>12. ASSUME NEW r \in Streams, r # s
       PROVE  StreamOK(r)'
  BY <1>2, <1>3, <1>8, <1>10, <1>12, SameStream DEF OtherTypes
<1>13. st' \in [Streams -> StreamRec]
  <2>1. st' = [st EXCEPT ![s] = new]
    BY <1>3, <1>8
  <2>2. QED
    BY <1>2, <1>4, <1>9, <2>1 DEF OtherTypes
<1>14. OtherTypes'
  BY <1>2, <1>3, <1>13 DEF OtherTypes
<1>15. ASSUME NEW r \in Streams
       PROVE  /\ st'[r].packlist = << >> <=> st[r].packlist = << >>
              /\ st'[r].aulist = st[r].aulist
  <2>1. CASE r = s
    BY <1>4, <1>7, <1>9, <2>1 DEF new, old
  <2>2. CASE r # s
    BY <1>8, <2>2
  <2>3. QED
    BY <2>1, <2>2
<1>16. ListComplete'
  <2>1. streamlist \in Seq(Streams) /\ \A i \in DOMAIN streamlist : streamlist[i] \in Streams
    <3>1. streamlist \in Seq(Streams)
      BY <1>2 DEF OtherTypes
    <3>2. QED
      BY <3>1, ElementOfSeq, LenProperties
  <2>2. QED
    BY <1>3, <1>15, <2>1 DEF ListComplete, FileInv
<1>17. AllFlushed'
  BY <1>3, <1>15 DEF AllFlushed, FileInv
<1>18. NotTooEarly' /\ RateKept' /\ BufferHolds'
  BY <1>2, <1>3, QuietFile DEF FileInv
<1>19. ClockPastFile'
  BY <1>3, ClockIdle DEF FileInv
<1>20. QED
  BY <1>11, <1>12, <1>14, <1>16, <1>17, <1>18, <1>19, StreamsJoin DEF FileInv

(* A pack of a stream gets into the file, perhaps only a part of it.       *)
LEMMA PackInFile ==
  ASSUME OtherTypes, FileInv, Ready # {}, NEW s \in Streams, NEW pack \in Packs,
         NEW whole \in BOOLEAN, pack.last - Second <= scr,
         file' = Append(file, Written(s, pack, scr, whole)), given' = given,
         scr' = scr + PackTime, NEW bytes, bytes = IF whole THEN pack.bytes ELSE 0,
         Carried(s) + bytes - Decoded(s, scr) <= BufSize[s]
  PROVE  /\ file' \in Seq(InFile)
         /\ NotTooEarly' /\ RateKept' /\ BufferHolds' /\ ClockPastFile'
         /\ \A r \in Streams : Carried(r)' = Carried(r) + IF r = s THEN bytes ELSE 0
<1> DEFINE entry == Written(s, pack, scr, whole)
<1>1. scr \in Nat /\ PackTime \in Nat \ {0} /\ s # -1 /\ pack.bytes \in Nat
  BY MpegMuxerAssumption DEF OtherTypes, Packs
<1>2. /\ entry \in InFile /\ entry.stream = s /\ entry.whole = whole /\ entry.scr = scr
      /\ entry.bytes = pack.bytes /\ entry.last = pack.last
  BY <1>1 DEF Written, InFile, Packs
<1>3. file' = Append(file, entry)
  OBVIOUS
<1> HIDE DEF entry
<1>4. /\ file' \in Seq(InFile) /\ file' # << >> /\ file'[Len(file')] = entry
      /\ Last(file') = entry /\ NotTooEarly' /\ RateKept'
  <2>1. entry.last - Second <= entry.scr /\ scr <= entry.scr
    BY <1>1, <1>2
  <2>2. QED
    BY <1>2, <1>3, <2>1, FileGrows
<1>5. ASSUME NEW r \in Streams
      PROVE  Carried(r)' = Carried(r) + IF r = s THEN bytes ELSE 0
  <2>1. Carried(r)' = Carried(r) + IF entry.stream = r /\ entry.whole
                                     THEN entry.bytes ELSE 0
    BY <1>2, <1>3, CarriedAppend DEF OtherTypes
  <2>2. QED
    BY <1>2, <2>1
<1>6. ClockPastFile'
  <2>1. scr <= scr' /\ scr + PackTime <= scr'
    BY <1>1
  <2>2. QED
    BY <1>1, <1>2, <1>4, <2>1 DEF ClockPastFile
<1>7. BufferHolds'
  <2>1. PICK t : t = scr
    OBVIOUS
  <2>2. Decoded(s, t)' = Decoded(s, t)
    BY SameGiven
  <2>3. Carried(s)' = Carried(s) + bytes
    BY <1>5
  <2>4. Carried(s) + bytes - Decoded(s, t) <= BufSize[s]
    BY <2>1 DEF Decoded
  <2>5. Carried(s)' - Decoded(s, t)' <= BufSize[s]
    <3> DEFINE c == Carried(s)'
               d == Decoded(s, t)'
    <3>1. c = Carried(s) + bytes /\ d = Decoded(s, t)
      BY <2>2, <2>3
    <3>2. Carried(s) \in Nat /\ Decoded(s, t) \in Nat /\ bytes \in Nat /\ BufSize[s] \in Nat
      <4>1. t \in Int /\ BufSize[s] \in Nat
        BY <1>1, <2>1, MpegMuxerAssumption
      <4>2. Carried(s) \in Nat /\ Decoded(s, t) \in Nat
        BY <4>1, DecodedInt
      <4>3. QED
        BY <1>1, <4>1, <4>2
    <3> HIDE DEF c, d
    <3>3. c - d <= BufSize[s]
      BY <2>4, <3>1, <3>2
    <3>4. QED
      BY <3>3 DEF c, d
  <2>6. Last(file').stream = s /\ Last(file').scr = t
    BY <1>2, <1>4, <2>1
  <2>7. QED
    BY <2>5, <2>6 DEF BufferHolds, Carried, Decoded
<1>8. QED
  BY <1>4, <1>5, <1>6, <1>7

LEMMA WritePackKeeps ==
  ASSUME StreamsInv, FileInv, WritePack
  PROVE  StreamsInv' /\ FileInv'
<1>1. PICK s : s = Chosen
  OBVIOUS
<1> DEFINE stream == Removed(st[s])
           pack == Head(stream.packlist)
           k == Min(Ready)
           old == st[s]
           new == st'[s]
<1>2. OtherTypes /\ \A r \in Streams : StreamOK(r)
  BY StreamsSplit
<1>3. /\ pc = "mux" /\ Ready # {} /\ MaySend(s, stream)
      /\ file' = Append(file, Written(s, pack, scr, TRUE))
      /\ st' = [st EXCEPT ![s] = SentPack(stream)]
      /\ streamlist' = Insert(st', RemoveAt(streamlist, k), s)
      /\ scr' = scr + PackTime
      /\ UNCHANGED <<aucounter, pc, maxdts, given, failures>>
  BY <1>1 DEF WritePack, AfterPack
<1>4. /\ k \in 1 .. Len(streamlist) /\ s = streamlist[k] /\ s \in Streams
      /\ stream \in StreamRec /\ stream.aulist = old.aulist
      /\ stream.packlist = old.packlist /\ stream.packlist # << >>
      /\ Matches(s, stream.removals, scr) /\ Covers(s, stream)
      /\ \A i \in DOMAIN stream.removals : stream.removals[i].scr > scr
      /\ pack \in Packs /\ pack.last - Second <= scr
  BY <1>1, <1>2, <1>3, ChosenFacts DEF StreamsInv, Chosen
<1> HIDE DEF stream, k
<1>5. /\ StreamOK(s) /\ Early(stream.packlist)
      /\ Waiting(old.aulist) /\ InOrder(old.aulist, NextDts(s))
      /\ Carried(s) + Sum(old.packlist) + Bytes(old.aulist) = Given(s)
  BY <1>2, <1>4 DEF StreamOK
<1>6. /\ Early(Tail(stream.packlist)) /\ Sum(Tail(stream.packlist)) \in Nat
      /\ Sum(stream.packlist) = pack.bytes + Sum(Tail(stream.packlist))
  BY <1>4, <1>5, EarlyTail
<1>7. /\ pack.bytes \in Nat /\ Bytes(old.aulist) \in Nat /\ Carried(s) \in Nat
      /\ Given(s) \in Nat /\ Sum(stream.removals) \in Nat /\ stream.fill \in Nat
  <2>1. \A e \in Removals : e.bytes \in Nat
    BY DEF Removals
  <2>2. stream.removals \in Seq(Removals) /\ stream.fill \in Nat
    BY <1>4 DEF StreamRec
  <2>3. Sum(stream.removals) \in Nat
    BY <2>1, <2>2, SumList
  <2>4. Bytes(old.aulist) \in Nat
    BY <1>5, BytesNat DEF Waiting
  <2>5. pack.bytes \in Nat
    BY <1>4 DEF Packs
  <2>6. QED
    BY <1>2, <1>4, <2>2, <2>3, <2>4, <2>5, GivenNat
<1>8. new = [stream EXCEPT !.packlist = Tail(@), !.fill = @ + pack.bytes]
      /\ DOMAIN st' = Streams /\ \A r \in Streams : r # s => st'[r] = st[r]
  BY <1>2, <1>3, <1>4 DEF OtherTypes, SentPack
<1> HIDE DEF pack, new, old
<1>9. /\ new \in StreamRec /\ new.packlist = Tail(stream.packlist)
      /\ new.aulist = stream.aulist
      /\ new.removals = stream.removals /\ new.fill = stream.fill + pack.bytes
  <2>1. stream.fill + pack.bytes \in Nat
    BY <1>7
  <2>2. Tail(stream.packlist) \in Seq(Packs)
    BY <1>6 DEF Early
  <2>3. QED
    BY <1>4, <1>8, <2>1, <2>2 DEF StreamRec
<1>10. Carried(s) + pack.bytes - Decoded(s, scr) <= BufSize[s]
  <2>1. Carried(s) + pack.bytes <= Given(s)
    BY <1>4, <1>5, <1>6, <1>7
  <2>2. pack.bytes <= Head(stream.packlist).bytes
    BY <1>7 DEF pack
  <2>3. QED
    BY <1>2, <1>3, <1>4, <1>7, <2>1, <2>2, BufferHasRoom
<1>11. /\ file' \in Seq(InFile)
       /\ NotTooEarly' /\ RateKept' /\ BufferHolds' /\ ClockPastFile'
       /\ \A r \in Streams : Carried(r)' = Carried(r) + IF r = s THEN pack.bytes ELSE 0
  <2>1. TRUE \in BOOLEAN /\ pack.bytes = IF TRUE THEN pack.bytes ELSE 0
    OBVIOUS
  <2>2. QED
    BY <1>2, <1>3, <1>4, <1>10, <2>1, PackInFile
<1>12. scr \in Nat /\ scr' \in Nat /\ scr <= scr'
  BY <1>2, <1>3, MpegMuxerAssumption DEF OtherTypes
<1>13. StreamOK(s)'
  <2>1. Carried(s)' = Carried(s) + pack.bytes
    BY <1>4, <1>11
  <2>2. Carried(s)' + Sum(new.packlist) + Bytes(new.aulist)
          = Carried(s) + Sum(old.packlist) + Bytes(old.aulist)
    BY <1>4, <1>6, <1>7, <1>9, <2>1
  <2>3. Carried(s)' - (Given(s) - Sum(new.removals)) <= new.fill
    <3>1. Carried(s) - (Given(s) - Sum(stream.removals)) <= stream.fill
      BY <1>4 DEF Covers
    <3>2. QED
      BY <1>7, <1>9, <2>1, <3>1
  <2>4. /\ Waiting(new.aulist) /\ InOrder(new.aulist, NextDts(s)) /\ Early(new.packlist)
        /\ Matches(s, new.removals, scr)
    BY <1>4, <1>5, <1>6, <1>9
  <2>5. given'[s] = given[s]
    BY <1>3
  <2>6. QED
    BY <1>2, <1>4, <1>5, <1>9, <1>12, <2>2, <2>3, <2>4, <2>5, StreamMoves DEF new, old
<1>14. ASSUME NEW r \in Streams, r # s
       PROVE  StreamOK(r)'
  <2>1. Carried(r)' = Carried(r)
    <3>1. Carried(r)' = Carried(r) + 0 /\ Carried(r) \in Nat
      BY <1>2, <1>11, <1>14, GivenNat
    <3>2. QED
      BY <3>1
  <2>2. st'[r] = st[r] /\ given'[r] = given[r]
    BY <1>3, <1>8, <1>14
  <2>3. QED
    BY <1>2, <1>12, <2>1, <2>2, SameStream
<1>15. st' \in [Streams -> StreamRec]
  <2>1. st' = [st EXCEPT ![s] = new]
    BY <1>2, <1>3, <1>4 DEF OtherTypes, new
  <2>2. QED
    BY <1>2, <1>4, <1>9, <2>1 DEF OtherTypes
<1>16. streamlist \in Seq(Streams) /\ DOMAIN streamlist = 1 .. Len(streamlist)
  BY <1>2, LenProperties DEF OtherTypes
<1>17. /\ Listed(streamlist', st')
       /\ \A i \in 1 .. Len(streamlist) : \E j \in 1 .. Len(streamlist') :
            streamlist'[j] = streamlist[i]
  <2> DEFINE list == streamlist
             result == streamlist'
             streams == st
             after == st'
  <2>1. Listed(list, streams)
    BY <1>3, <1>16 DEF Listed, ListComplete, FileInv
  <2>2. \A r \in Streams : r # list[k] => after[r] = streams[r]
    BY <1>4, <1>8
  <2>3. result = Insert(after, RemoveAt(list, k), list[k])
    BY <1>3, <1>4
  <2>4. k \in 1 .. Len(list)
    BY <1>4
  <2> HIDE DEF list, result, streams, after
  <2>5. /\ Listed(result, after)
        /\ \A i \in 1 .. Len(list) : \E j \in 1 .. Len(result) : result[j] = list[i]
    BY <2>1, <2>2, <2>3, <2>4, ReinsertFacts, SMTT(60)
  <2>6. QED
    BY <2>5 DEF list, result, after
<1>18. streamlist' \in Seq(Streams) /\ DOMAIN streamlist' = 1 .. Len(streamlist')
  <2>1. streamlist' \in Seq(Streams)
    BY <1>17 DEF Listed
  <2>2. QED
    BY <2>1, LenProperties
<1>19. ListComplete'
  <2>1. ASSUME NEW r \in Streams, st'[r].packlist # << >>
        PROVE  \E j \in 1 .. Len(streamlist') : streamlist'[j] = r
    <3>1. st[r].packlist # << >>
      <4>1. CASE r = s
        BY <1>4, <4>1 DEF old
      <4>2. CASE r # s
        BY <1>8, <2>1, <4>2
      <4>3. QED
        BY <4>1, <4>2
    <3>2. PICK i \in 1 .. Len(streamlist) : streamlist[i] = r
      BY <1>3, <1>16, <3>1 DEF ListComplete, FileInv
    <3>3. QED
      BY <1>17, <3>2
  <2>2. QED
    BY <1>17, <1>18, <2>1 DEF ListComplete, Listed
<1>20. AllFlushed'
  <2>1. \A r \in Streams : st'[r].aulist = st[r].aulist
    BY <1>4, <1>8, <1>9 DEF new, old
  <2>2. QED
    BY <1>3, <2>1 DEF AllFlushed, FileInv
<1>21. OtherTypes'
  BY <1>2, <1>3, <1>11, <1>12, <1>15, <1>18 DEF OtherTypes
<1>22. QED
  BY <1>11, <1>13, <1>14, <1>19, <1>20, <1>21, StreamsJoin DEF FileInv

(* After a write that failed the list of the streams is empty, and nothing *)
(* is asked of what is left behind.                                        *)
LEMMA FlushGivenUp ==
  ASSUME OtherTypes, FileInv, st' \in [Streams -> StreamRec], scr' \in Nat,
         file' \in Seq(InFile), failures < MaxFailures, failures' = failures + 1,
         Done, streamlist' = << >>, UNCHANGED <<aucounter, maxdts, given>>
  PROVE  OtherTypes' /\ ListComplete' /\ AllFlushed' /\ pc' # "mux"
<1>1. pc' = IF maxdts < 0 THEN "closed" ELSE "idle"
  BY DEF Done
<1>2. /\ failures \in Nat /\ MaxFailures \in Nat
      /\ failures' \in 0 .. MaxFailures /\ failures' # 0
  BY MpegMuxerAssumption DEF OtherTypes
<1>3. OtherTypes'
  BY <1>1, <1>2, EmptySeq DEF OtherTypes
<1>4. ListComplete' /\ AllFlushed' /\ pc' # "mux"
  BY <1>1, <1>2 DEF ListComplete, AllFlushed
<1>5. QED
  BY <1>3, <1>4

LEMMA PackFails ==
  ASSUME StreamsInv, FileInv, pc = "mux", Ready # {}, NEW s, s = Chosen,
         MaySend(s, Removed(st[s])),
         file' = Append(file, Written(s, Head(Removed(st[s]).packlist), scr, FALSE)),
         st' = [st EXCEPT ![s] = Removed(st[s])], scr' = scr + PackTime,
         given' = given
  PROVE  /\ st' \in [Streams -> StreamRec] /\ scr' \in Nat /\ file' \in Seq(InFile)
         /\ NotTooEarly' /\ RateKept' /\ BufferHolds' /\ ClockPastFile'
         /\ \A r \in Streams : StreamOK(r)'
<1> DEFINE stream == Removed(st[s])
           pack == Head(stream.packlist)
           old == st[s]
           new == st'[s]
<1>1. OtherTypes /\ \A r \in Streams : StreamOK(r)
  BY StreamsSplit
<1>2. /\ file' = Append(file, Written(s, pack, scr, FALSE)) /\ MaySend(s, stream)
      /\ st' = [st EXCEPT ![s] = stream]
  OBVIOUS
<1>3. /\ s \in Streams /\ stream \in StreamRec /\ stream.aulist = old.aulist
      /\ stream.packlist = old.packlist /\ stream.packlist # << >>
      /\ Matches(s, stream.removals, scr) /\ Covers(s, stream)
      /\ \A i \in DOMAIN stream.removals : stream.removals[i].scr > scr
      /\ pack \in Packs /\ pack.last - Second <= scr
  BY <1>1, ChosenFacts DEF StreamsInv
<1> HIDE DEF stream
<1>4. /\ StreamOK(s) /\ Waiting(old.aulist) /\ InOrder(old.aulist, NextDts(s))
      /\ Early(old.packlist)
      /\ Carried(s) + Sum(old.packlist) + Bytes(old.aulist) = Given(s)
  BY <1>1, <1>3 DEF StreamOK
<1>5. new = stream /\ \A r \in Streams : r # s => st'[r] = st[r]
  BY <1>1, <1>2, <1>3 DEF OtherTypes
<1>6. st' \in [Streams -> StreamRec]
  BY <1>1, <1>2, <1>3 DEF OtherTypes
<1>7. Sum(old.packlist) \in Nat /\ Bytes(old.aulist) \in Nat /\ Carried(s) \in Nat
      /\ Given(s) \in Nat /\ pack.bytes \in Nat
  <2>1. \A e \in Packs : e.bytes \in Nat
    BY DEF Packs
  <2>2. Sum(old.packlist) \in Nat
    BY <1>4, <2>1, SumList DEF Early
  <2>3. Bytes(old.aulist) \in Nat
    BY <1>4, BytesNat DEF Waiting
  <2>4. QED
    BY <1>1, <1>3, <2>1, <2>2, <2>3, GivenNat
<1>8. Carried(s) + 0 - Decoded(s, scr) <= BufSize[s]
  <2>1. Carried(s) + 0 <= Given(s) /\ 0 <= Head(stream.packlist).bytes /\ 0 \in Nat
    BY <1>4, <1>7
  <2>2. QED
    BY <1>1, <1>2, <1>3, <2>1, BufferHasRoom
<1> HIDE DEF pack, old, new
<1>9. /\ file' \in Seq(InFile)
      /\ NotTooEarly' /\ RateKept' /\ BufferHolds' /\ ClockPastFile'
      /\ \A r \in Streams : Carried(r)' = Carried(r) + IF r = s THEN 0 ELSE 0
  <2>1. FALSE \in BOOLEAN /\ 0 = IF FALSE THEN pack.bytes ELSE 0
    OBVIOUS
  <2>2. QED
    BY <1>1, <1>2, <1>3, <1>8, <2>1, PackInFile
<1>10. ASSUME NEW r \in Streams
       PROVE  Carried(r)' = Carried(r)
  <2>1. Carried(r)' = Carried(r) + 0 /\ Carried(r) \in Nat
    BY <1>1, <1>9, GivenNat
  <2>2. QED
    BY <2>1
<1>11. scr \in Nat /\ scr' \in Nat /\ scr <= scr'
  BY <1>1, MpegMuxerAssumption DEF OtherTypes
<1>12. StreamOK(s)'
  <2>1. Carried(s)' = Carried(s)
    BY <1>3, <1>10
  <2>2. Carried(s)' + Sum(new.packlist) + Bytes(new.aulist)
          = Carried(s) + Sum(old.packlist) + Bytes(old.aulist)
    BY <1>3, <1>5, <2>1
  <2>3. Carried(s)' - (Given(s) - Sum(new.removals)) <= new.fill
    BY <1>3, <1>5, <2>1 DEF Covers
  <2>4. /\ Waiting(new.aulist) /\ InOrder(new.aulist, NextDts(s)) /\ Early(new.packlist)
        /\ Matches(s, new.removals, scr) /\ new \in StreamRec
    BY <1>3, <1>4, <1>5
  <2>5. given'[s] = given[s]
    OBVIOUS
  <2>6. QED
    BY <1>1, <1>3, <1>4, <1>11, <2>2, <2>3, <2>4, <2>5, StreamMoves DEF new, old
<1>13. ASSUME NEW r \in Streams, r # s
       PROVE  StreamOK(r)'
  <2>1. st'[r] = st[r] /\ given'[r] = given[r] /\ Carried(r)' = Carried(r)
    BY <1>5, <1>10, <1>13
  <2>2. QED
    BY <1>1, <1>11, <2>1, SameStream
<1>14. QED
  BY <1>6, <1>9, <1>11, <1>12, <1>13

LEMMA BridgeFails ==
  ASSUME StreamsInv, FileInv, scr' = scr + FillerStep,
         file' = Append(file, Bridge(scr', FALSE)), st' = st, given' = given
  PROVE  /\ scr' \in Nat /\ file' \in Seq(InFile)
         /\ NotTooEarly' /\ RateKept' /\ BufferHolds' /\ ClockPastFile'
         /\ \A r \in Streams : StreamOK(r)'
<1>1. OtherTypes /\ \A r \in Streams : StreamOK(r)
  BY StreamsSplit
<1>2. scr \in Nat /\ scr' \in Nat /\ scr < scr'
  BY <1>1, MpegMuxerAssumption DEF OtherTypes
<1> DEFINE entry == Bridge(scr', FALSE)
<1>3. /\ entry \in InFile /\ entry.stream = -1 /\ entry.scr = scr' /\ entry.whole = FALSE
      /\ entry.last - Second <= entry.scr
  BY <1>2, BridgeFacts
<1>4. file' = Append(file, entry)
  OBVIOUS
<1> HIDE DEF entry
<1>5. /\ file' \in Seq(InFile) /\ file' # << >> /\ file'[Len(file')] = entry
      /\ Last(file') = entry /\ NotTooEarly' /\ RateKept'
  <2>1. scr <= entry.scr /\ scr < entry.scr
    BY <1>2, <1>3
  <2>2. QED
    BY <1>1, <1>3, <1>4, <2>1, FileGrows
<1>6. \A s \in Streams : Carried(s)' = Carried(s)
  BY <1>1, <1>3, <1>4, BridgeCarries
<1>7. \A r \in Streams : StreamOK(r)'
  BY <1>1, <1>2, <1>6, QuietStreams
<1>8. BufferHolds'
  BY <1>3, <1>5 DEF BufferHolds
<1>9. ClockPastFile'
  <2>1. entry.scr <= scr'
    BY <1>2, <1>3
  <2>2. QED
    BY <1>3, <1>5, <2>1 DEF ClockPastFile
<1>10. QED
  BY <1>2, <1>5, <1>7, <1>8, <1>9

LEMMA WriteFailsKeeps ==
  ASSUME StreamsInv, FileInv, WriteFails
  PROVE  StreamsInv' /\ FileInv'
<1>1. PICK s : s = Chosen
  OBVIOUS
<1>2. OtherTypes
  BY StreamsSplit
<1>3. /\ pc = "mux" /\ failures < MaxFailures /\ failures' = failures + 1
      /\ Done /\ streamlist' = << >> /\ UNCHANGED <<aucounter, maxdts, given>>
  BY DEF WriteFails
<1>4. /\ st' \in [Streams -> StreamRec] /\ scr' \in Nat /\ file' \in Seq(InFile)
      /\ NotTooEarly' /\ RateKept' /\ BufferHolds' /\ ClockPastFile'
      /\ \A r \in Streams : StreamOK(r)'
  <2>1. CASE Ready # {}
    <3>1. /\ MaySend(s, Removed(st[s]))
          /\ file' = Append(file, Written(s, Head(Removed(st[s]).packlist), scr, FALSE))
          /\ st' = [st EXCEPT ![s] = Removed(st[s])]
          /\ scr' = scr + PackTime /\ given' = given
      BY <1>1, <2>1 DEF WriteFails, Unsent, AfterPack
    <3>2. QED
      BY <1>1, <1>3, <2>1, <3>1, PackFails
  <2>2. CASE Ready = {}
    <3>1. /\ scr' = scr + FillerStep /\ file' = Append(file, Bridge(scr', FALSE))
          /\ st' = st /\ given' = given
      BY <2>2 DEF WriteFails
    <3>2. st' \in [Streams -> StreamRec]
      BY <1>2, <3>1 DEF OtherTypes
    <3>3. QED
      BY <3>1, <3>2, BridgeFails
  <2>3. QED
    BY <2>1, <2>2
<1>5. OtherTypes' /\ ListComplete' /\ AllFlushed'
  BY <1>2, <1>3, <1>4, FlushGivenUp
<1>6. QED
  BY <1>4, <1>5, StreamsJoin DEF FileInv

-----------------------------------------------------------------------------
LEMMA NothingYet ==
  ASSUME Init, NEW s \in Streams
  PROVE  /\ Given(s) = 0 /\ Carried(s) = 0
         /\ Sum(st[s].packlist) = 0 /\ Sum(st[s].removals) = 0 /\ Bytes(st[s].aulist) = 0
<1>1. /\ given[s] = << >> /\ file = << >> /\ st[s].packlist = << >>
      /\ st[s].removals = << >> /\ st[s].aulist = << >>
  BY DEF Init
<1>2. Sum(st[s].packlist) = 0 /\ Sum(st[s].removals) = 0 /\ Bytes(st[s].aulist) = 0
  BY <1>1, SumEmpty, BytesEmpty
<1>3. ASSUME NEW f, f \in [1 .. 0 -> Int]
      PROVE  Total[f] = 0
  <2>1. f \in Seq(Int) /\ Len(f) = 0
    BY <1>3, FcnIsSeq
  <2>2. QED
    BY <2>1, TotalEmpty
<1>4. Given(s) = 0
  <2> DEFINE f == [i \in DOMAIN given[s] |-> given[s][i].size]
  <2>1. DOMAIN given[s] = 1 .. 0
    BY <1>1
  <2>2. f \in [1 .. 0 -> Int]
    BY <2>1
  <2> HIDE DEF f
  <2>3. Total[f] = 0
    BY <1>3, <2>2
  <2>4. QED
    BY <2>3 DEF f, Given
<1>5. Carried(s) = 0
  <2> DEFINE f == [i \in DOMAIN file |->
                     IF file[i].stream = s /\ file[i].whole THEN file[i].bytes ELSE 0]
  <2>1. DOMAIN file = 1 .. 0
    BY <1>1
  <2>2. f \in [1 .. 0 -> Int]
    BY <2>1
  <2> HIDE DEF f
  <2>3. Total[f] = 0
    BY <1>3, <2>2
  <2>4. QED
    BY <2>3 DEF f, Carried
<1>6. QED
  BY <1>2, <1>4, <1>5

LEMMA InitHolds == Init => StreamsInv /\ FileInv
<1> SUFFICES ASSUME Init
             PROVE  StreamsInv /\ FileInv
  OBVIOUS
<1>1. /\ st = [s \in Streams |-> [aulist |-> << >>, packlist |-> << >>,
                                  removals |-> << >>, fill |-> 0]]
      /\ scr = 0 /\ aucounter = 0 /\ pc = "idle" /\ maxdts = 0 /\ streamlist = << >>
      /\ given = [s \in Streams |-> << >>] /\ file = << >> /\ failures = 0
  BY DEF Init
<1>2. \A s \in Streams :
        /\ given[s] = << >> /\ st[s].aulist = << >> /\ st[s].packlist = << >>
        /\ st[s].removals = << >> /\ st[s].fill = 0
  BY <1>1
<1>3. TypeOK
  <2>1. st \in [Streams -> StreamRec]
    BY <1>1 DEF StreamRec
  <2>2. given \in [Streams -> AllGiven] /\ file \in Seq(InFile) /\ streamlist \in Seq(Streams)
    BY <1>1 DEF AllGiven
  <2>3. aucounter \in 0 .. FlushEvery - 1 /\ failures \in 0 .. MaxFailures
    BY <1>1, MpegMuxerAssumption
  <2>4. \A s \in Streams : \A i \in DOMAIN st[s].aulist :
          st[s].aulist[i].pos < st[s].aulist[i].size
    BY <1>2
  <2>5. QED
    BY <1>1, <2>1, <2>2, <2>3, <2>4
       DEF TypeOK, StreamRec, AllGiven, InFile, AUs, Packs, Removals
<1>4. AuOrder /\ EarliestTimes /\ GivenOrder
  BY <1>2 DEF AuOrder, EarliestTimes, GivenOrder
<1>5. ASSUME NEW s \in Streams
      PROVE  /\ Carried(s) + Sum(st[s].packlist) + Bytes(st[s].aulist) = Given(s)
             /\ Matches(s, st[s].removals, scr) /\ Covers(s, st[s])
  <2>1. /\ Given(s) = 0 /\ Carried(s) = 0
        /\ Sum(st[s].packlist) = 0 /\ Sum(st[s].removals) = 0 /\ Bytes(st[s].aulist) = 0
    BY NothingYet
  <2>2. Matches(s, st[s].removals, scr)
    <3>1. Gone(s, st[s].removals) = 0
      BY <1>2 DEF Gone
    <3>2. DOMAIN st[s].removals = {}
      BY <1>2
    <3>3. QED
      BY <3>1, <3>2 DEF Matches
  <2>3. Covers(s, st[s])
    BY <1>2, <2>1 DEF Covers
  <2>4. QED
    BY <2>1, <2>2, <2>3
<1>6. Conserved /\ RemovalsGiven /\ FillCovers
  BY <1>5 DEF Conserved, RemovalsGiven, FillCovers
<1>7. Len(file) = 0 /\ DOMAIN file = {} /\ 2 .. 0 = {}
  BY <1>1
<1>8. FileInv
  BY <1>1, <1>7 DEF FileInv, ListComplete, AllFlushed, NotTooEarly, ClockPastFile,
     RateKept, BufferHolds
<1>9. QED
  BY <1>3, <1>4, <1>6, <1>8 DEF StreamsInv

LEMMA NothingHappens ==
  ASSUME StreamsInv, FileInv, UNCHANGED vars
  PROVE  StreamsInv' /\ FileInv'
<1>1. OtherTypes /\ \A r \in Streams : StreamOK(r)
  BY StreamsSplit
<1>2. UNCHANGED <<st, scr, aucounter, pc, maxdts, streamlist, given, file, failures>>
  BY DEF vars
<1>3. \A r \in Streams : StreamOK(r)'
  BY <1>1, <1>2, SameFileCarried, QuietStreams DEF OtherTypes
<1>4. OtherTypes'
  BY <1>1, <1>2 DEF OtherTypes
<1>5. ListComplete' /\ AllFlushed'
  BY <1>2 DEF FileInv, ListComplete, AllFlushed
<1>6. NotTooEarly' /\ RateKept' /\ BufferHolds'
  BY <1>1, <1>2, QuietFile DEF FileInv
<1>7. ClockPastFile'
  <2>1. More' <=> More
    BY <1>2 DEF More, First, stopscr
  <2>2. Ready' = Ready
    BY <1>2 DEF Ready, WithPacks, First
  <2>3. QED
    BY <1>2, <2>1, <2>2 DEF FileInv, ClockPastFile
<1>8. QED
  BY <1>3, <1>4, <1>5, <1>6, <1>7, StreamsJoin DEF FileInv

LEMMA StepKeeps ==
  ASSUME StreamsInv, FileInv, [Next]_vars
  PROVE  StreamsInv' /\ FileInv'
<1>1. CASE \E s \in Streams : PutPacket(s) \/ Packetize(s)
  BY <1>1, PutPacketKeeps, PacketizeKeeps
<1>2. CASE Close
  BY <1>2, CloseKeeps
<1>3. CASE StartMux
  BY <1>3, StartMuxKeeps
<1>4. CASE MuxEnds
  BY <1>4, MuxEndsKeeps
<1>5. CASE Filler
  BY <1>5, FillerKeeps
<1>6. CASE Advance
  BY <1>6, AdvanceKeeps
<1>7. CASE BufferFull
  BY <1>7, BufferFullKeeps
<1>8. CASE WritePack
  BY <1>8, WritePackKeeps
<1>9. CASE WriteFails
  BY <1>9, WriteFailsKeeps
<1>10. CASE UNCHANGED vars
  BY <1>10, NothingHappens
<1>11. QED
  BY <1>1, <1>2, <1>3, <1>4, <1>5, <1>6, <1>7, <1>8, <1>9, <1>10 DEF Next

LEMMA InvariantParts == IInv <=> StreamsInv /\ FileInv
BY DEF IInv, StreamsInv, FileInv

(* Whatever is muxed and however writes fail: the multiplexer is always in *)
(* a state in which no byte is lost, its lists are complete and in order,  *)
(* its account of the decoder's buffers is not below what is in them, and  *)
(* the clock is past the packs in the file.                                *)
THEOREM MuxInvariant == Spec => []IInv
<1>1. Init => IInv
  BY InitHolds, InvariantParts
<1>2. IInv /\ [Next]_vars => IInv'
  <2>1. ASSUME IInv, [Next]_vars
        PROVE  StreamsInv' /\ FileInv'
    BY <2>1, StepKeeps, InvariantParts
  <2>2. StreamsInv' /\ FileInv' => IInv'
    BY DEF IInv, StreamsInv, FileInv
  <2>3. QED
    BY <2>1, <2>2
<1>3. QED
  BY <1>1, <1>2, PTL DEF Spec

(* Lists, fill levels and clock keep their types; no access unit that      *)
(* waits has been packed to its end.                                       *)
THEOREM TypeCorrect == Spec => []TypeOK
<1>1. IInv => TypeOK
  BY DEF IInv
<1>2. QED
  BY <1>1, MuxInvariant, PTL

(* Every byte that was given to putpacket() is in the file, in a pack or   *)
(* in an access unit that waits, once, also after writes that failed and   *)
(* were repeated; when the destructor is done and none failed, all are in  *)
(* the file.                                                               *)
THEOREM NothingIsLost == Spec => []NothingLost
<1>1. IInv => NothingLost
  <2>1. ASSUME IInv, NEW s \in Streams
        PROVE  Carried(s) + Sum(st[s].packlist) + Bytes(st[s].aulist) = Given(s)
    BY <2>1 DEF IInv, Conserved
  <2>2. ASSUME IInv, NEW s \in Streams, pc = "closed", failures = 0
        PROVE  Carried(s) = Given(s) /\ st[s].aulist = << >>
    <3>1. st[s].aulist = << >> /\ st[s].packlist = << >>
      BY <2>2 DEF IInv, AllFlushed
    <3>2. Sum(st[s].packlist) = 0 /\ Bytes(st[s].aulist) = 0
      BY <3>1, SumEmpty, BytesEmpty
    <3>3. Carried(s) \in Nat
      BY <2>2, TypesSplit, GivenNat DEF IInv
    <3>4. Carried(s) + 0 + 0 = Given(s)
      BY <2>1, <2>2, <3>2
    <3>5. QED
      BY <3>1, <3>3, <3>4
  <2>3. QED
    BY <2>1, <2>2 DEF NothingLost
<1>2. QED
  BY <1>1, MuxInvariant, PTL

(* Packs with access units are at least the duration of a pack apart, over *)
(* all calls of flush(), whatever bridges gaps and whatever writes fail.   *)
THEOREM RateIsKept == Spec => []RateKept
<1>1. IInv => RateKept
  BY DEF IInv
<1>2. QED
  BY <1>1, MuxInvariant, PTL

(* No pack is sent more than a second before its last byte is decoded.     *)
THEOREM NeverTooEarly == Spec => []NotTooEarly
<1>1. IInv => NotTooEarly
  BY DEF IInv
<1>2. QED
  BY <1>1, MuxInvariant, PTL

(* However late the packs and however large the access units are: when a   *)
(* pack has arrived, what the decoder has got and not yet decoded fits     *)
(* into its buffer for the stream.                                         *)
THEOREM BufferNeverOverflows == Spec => []BufferHolds
<1>1. IInv => BufferHolds
  BY DEF IInv
<1>2. QED
  BY <1>1, MuxInvariant, PTL
=============================================================================
