---------------------------- MODULE MCIndexGen ----------------------------
(* Streams for the model checker.                                          *)
EXTENDS IndexGen

Hdr(size) == [code |-> "seq", size |-> size]
Pic(type, tr, gop) == [code |-> "pic", type |-> type, tr |-> tr, gop |-> gop]

(* Any stream of at most four start codes, and any of five that begins     *)
(* with a sequence header, of no group that an encoder would make.         *)
AnyItem == {Hdr(1), Hdr(2)} \cup {Pic(t, tr, 0) : t \in {"I", "P", "B"}, tr \in 0 .. 1}
AnyStreams == UNION {[1 .. n -> AnyItem] : n \in 0 .. 4}
              \cup {<<Hdr(1)>> \o s : s \in [1 .. 4 -> AnyItem]}

(* Two groups of pictures as an encoder makes them, in one sequence or in  *)
(* two, with any of their pictures missing.                                *)
Open(g)   == <<Pic("I", 2, g), Pic("B", 0, g), Pic("B", 1, g),
               Pic("P", 4, g), Pic("B", 3, g)>>
Closed(g) == <<Pic("I", 0, g), Pic("P", 2, g), Pic("B", 1, g), Pic("P", 3, g)>>

Lossy(s) ==
  {LET f[i \in 0 .. Len(s)] ==
         IF i = 0 THEN << >>
         ELSE IF i \in keep THEN Append(f[i - 1], s[i]) ELSE f[i - 1]
   IN  f[Len(s)] : keep \in {k \in SUBSET DOMAIN s : 1 \in k}}

LossyStreams ==
  {<<Hdr(1)>> \o a \o h \o b :
     a \in Lossy(Open(1)) \cup Lossy(Closed(1)),
     b \in Lossy(Open(2)) \cup Lossy(Closed(2)),
     h \in {<< >>, <<Hdr(1)>>}}
(* Sequences with more pictures than they have ranks.                      *)
LongStreams ==
  {<<Hdr(1), Pic("I", 0, 0)>> \o [i \in 1 .. n |-> Pic(t, i % 4, 0)] :
     n \in SeqNrs .. SeqNrs + 1, t \in {"P", "B"}}

(* A sequence header and any four pictures in the order of an encoder,     *)
(* and a header in the middle of any four.                                 *)
CodedPic == {Pic(t, tr, g) : t \in {"I", "P", "B"}, tr \in 0 .. 2, g \in 1 .. 2}
OneMore(S) ==
  {s \in {Append(x, c) : x \in S, c \in CodedPic} : InCodingOrder(s, Len(s))}
TwoMore(S) == OneMore(OneMore(S))
TwoPictures == TwoMore({<<Hdr(1)>>})
CodedStreams ==
  TwoMore(TwoPictures) \cup TwoMore({Append(s, Hdr(1)) : s \in TwoPictures})

AllStreams == AnyStreams \cup LossyStreams \cup LongStreams \cup CodedStreams

(* What DisplayOrder needs of the streams it is checked with.              *)
ASSUME AllCoded == \A s \in AllStreams : CodingOrder(s)
=============================================================================
