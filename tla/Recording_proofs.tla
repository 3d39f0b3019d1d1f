-------------------------- MODULE Recording_proofs --------------------------
(***************************************************************************)
(* Proofs about the readers of a recording, the buffer of a stream and     *)
(* those who take its bytes, for every recording in which rubbish can be   *)
(* told from packets.                                                      *)
(***************************************************************************)
EXTENDS Recording, Common_proofs

-----------------------------------------------------------------------------
(* Sequences that are joined: e says where each of them ends.              *)
AreEnds(e, seqs) ==
  /\ e \in [0 .. Len(seqs) -> Nat] /\ e[0] = 0
  /\ \A i \in 1 .. Len(seqs) : e[i] = e[i - 1] + Len(seqs[i])

Ends(seqs) == CHOOSE e : AreEnds(e, seqs)

LEMMA EndsExist ==
  ASSUME NEW S, NEW seqs \in Seq(Seq(S))
  PROVE  AreEnds(Ends(seqs), seqs)
<1> DEFINE n == Len(seqs)
           step == [x \in Nat \X (1 .. n) |-> x[1] + Len(seqs[x[2]])]
<1>1. n \in Nat /\ \A i \in 1 .. n : seqs[i] \in Seq(S)
  OBVIOUS
<1>2. \A i \in 1 .. n : Len(seqs[i]) \in Nat
  <2> TAKE i \in 1 .. n
  <2>1. seqs[i] \in Seq(S)
    BY <1>1
  <2>2. QED
    BY <2>1
<1>3. ASSUME NEW x \in Nat, NEW i \in 1 .. n
      PROVE  step[<<x, i>>] = x + Len(seqs[i]) /\ step[<<x, i>>] \in Nat
  <2>1. step[<<x, i>>] = x + Len(seqs[i])
    OBVIOUS
  <2> HIDE DEF step
  <2>2. QED
    BY <1>2, <2>1
<1> HIDE DEF step
<1>4. Steps(step, Nat, n)
  BY <1>3 DEF Steps
<1>5. Reached(0, step, Nat, n)
  BY <1>1, <1>4, Recursion
<1>6. PICK e \in [0 .. n -> Nat] :
        e[0] = 0 /\ \A i \in 1 .. n : e[i] = step[<<e[i - 1], i>>]
  BY <1>5 DEF Reached
<1>7. ASSUME NEW i \in 1 .. n
      PROVE  e[i] = e[i - 1] + Len(seqs[i])
  <2>1. i - 1 \in 0 .. n
    BY <1>1
  <2>2. e[i - 1] \in Nat
    BY <2>1
  <2>3. QED
    BY <1>3, <1>6, <2>2
<1>8. AreEnds(e, seqs)
  BY <1>6, <1>7 DEF AreEnds
<1>9. QED
  BY <1>8 DEF Ends

LEMMA EndsGrow ==
  ASSUME NEW seqs, Len(seqs) \in Nat, \A i \in 1 .. Len(seqs) : Len(seqs[i]) \in Nat,
         NEW e, AreEnds(e, seqs),
         NEW i \in 0 .. Len(seqs), NEW j \in i .. Len(seqs)
  PROVE  /\ e[i] <= e[j]
         /\ i < j => e[i] <= e[j - 1]
<1> DEFINE n == Len(seqs)
           P == {k \in Nat : i <= k /\ k <= n => e[i] <= e[k]}
<1>1. n \in Nat /\ \A k \in 0 .. n : e[k] \in Nat
  BY DEF AreEnds
<1>2. 0 \in P
  BY <1>1
<1>3. ASSUME NEW k \in P
      PROVE  k + 1 \in P
  <2>1. k \in Nat
    OBVIOUS
  <2>2. CASE i <= k /\ k + 1 <= n
    <3>1. k \in 0 .. n /\ k + 1 \in 1 .. n /\ (k + 1) - 1 = k
      BY <1>1, <2>1, <2>2
    <3>2. e[k + 1] = e[k] + Len(seqs[k + 1])
      BY <3>1 DEF AreEnds
    <3>3. Len(seqs[k + 1]) \in Nat /\ e[k] \in Nat /\ e[i] \in Nat
      BY <1>1, <3>1
    <3>4. e[i] <= e[k]
      BY <2>2, <3>1
    <3>5. e[i] <= e[k + 1]
      BY <3>2, <3>3, <3>4
    <3>6. QED
      BY <2>1, <3>5
  <2>3. CASE ~(i <= k /\ k + 1 <= n)
    <3>1. i <= k + 1 /\ k + 1 <= n => i = k + 1
      BY <1>1, <2>1, <2>3
    <3>2. e[i] \in Nat
      BY <1>1
    <3>3. QED
      BY <2>1, <3>1, <3>2
  <2>4. QED
    BY <2>2, <2>3
<1>4. P = Nat
  <2> HIDE DEF P
  <2>1. P \subseteq Nat
    BY DEF P
  <2>2. QED
    BY <1>2, <1>3, <2>1, Induction
<1>5. j \in P
  BY <1>1, <1>4
<1>6. e[i] <= e[j]
  BY <1>1, <1>5
<1>7. i < j => e[i] <= e[j - 1]
  <2> HAVE i < j
  <2>1. j - 1 \in Nat /\ i <= j - 1 /\ j - 1 <= n
    BY <1>1
  <2>2. j - 1 \in P
    BY <1>4, <2>1
  <2>3. QED
    BY <2>1, <2>2
<1>8. QED
  BY <1>6, <1>7

LEMMA JoinedAt ==
  ASSUME NEW seqs, Len(seqs) \in Nat, \A i \in 1 .. Len(seqs) : Len(seqs[i]) \in Nat,
         NEW e, AreEnds(e, seqs), NEW k \in 1 .. e[Len(seqs)]
  PROVE  \E i \in 1 .. Len(seqs) : e[i - 1] < k /\ k <= e[i]
<1> DEFINE n == Len(seqs)
           T == {i \in 0 .. n : k <= e[i]}
<1>1. n \in Nat /\ \A i \in 0 .. n : e[i] \in Nat
  BY DEF AreEnds
<1>2. T \subseteq Nat /\ T # {}
  <2>1. n \in T
    BY <1>1
  <2>2. QED
    BY <1>1, <2>1
<1>3. PICK i \in T : \A j \in T : i <= j
  BY <1>2, LeastNat
<1>4. i # 0
  BY <1>1 DEF AreEnds
<1>5. i \in 1 .. n /\ i - 1 \in 0 .. n /\ ~(i <= i - 1)
  BY <1>1, <1>4
<1>6. i - 1 \notin T
  BY <1>3, <1>5
<1>7. e[i - 1] \in Nat /\ k \in Nat
  BY <1>1, <1>5
<1>8. e[i - 1] < k
  BY <1>5, <1>6, <1>7
<1>9. QED
  BY <1>5, <1>8

LEMMA PlaceIn ==
  ASSUME NEW a \in Nat, NEW l \in Nat, NEW b \in Nat, NEW c \in Nat, NEW j \in 1 .. l,
         b = a + l, b <= c
  PROVE  a + j \in a + 1 .. b /\ a + j \in 1 .. c
OBVIOUS

IsJoined(seqs, S) ==
  /\ FlattenSeq(seqs) \in Seq(S)
  /\ Len(FlattenSeq(seqs)) = Ends(seqs)[Len(seqs)]
  /\ \A i \in 1 .. Len(seqs) : \A j \in 1 .. Len(seqs[i]) :
       FlattenSeq(seqs)[Ends(seqs)[i - 1] + j] = seqs[i][j]

LEMMA Joined ==
  ASSUME NEW S, NEW seqs \in Seq(Seq(S))
  PROVE  IsJoined(seqs, S)
<1> DEFINE n == Len(seqs)
           e == Ends(seqs)
           step == [x \in Seq(S) \X (1 .. n) |-> x[1] \o seqs[x[2]]]
           Rec(f) == [i \in 1 .. n |-> IF i = 1 THEN seqs[i] ELSE f[i - 1] \o seqs[i]]
           flatten == CHOOSE f : f = Rec(f)
<1>1. n \in Nat /\ \A i \in 1 .. n : seqs[i] \in Seq(S)
  OBVIOUS
<1>2. AreEnds(e, seqs)
  BY EndsExist
<1>3. CASE n = 0
  <2>1. FlattenSeq(seqs) = seqs /\ seqs = << >> /\ Len(seqs) = 0
    BY <1>3 DEF FlattenSeq
  <2>2. << >> \in Seq(S) /\ 1 .. 0 = {}
    OBVIOUS
  <2>3. e[0] = 0
    BY <1>2 DEF AreEnds
  <2>4. QED
    BY <2>1, <2>2, <2>3 DEF IsJoined
<1>4. CASE n # 0
  <2>1. << >> \in Seq(S)
    OBVIOUS
  <2>2. ASSUME NEW s \in Seq(S), NEW i \in 1 .. n
        PROVE  step[<<s, i>>] = s \o seqs[i] /\ step[<<s, i>>] \in Seq(S)
    <3>1. step[<<s, i>>] = s \o seqs[i]
      OBVIOUS
    <3> HIDE DEF step
    <3>2. seqs[i] \in Seq(S)
      BY <1>1
    <3>3. s \o seqs[i] \in Seq(S)
      BY <3>2, ConcatProperties
    <3>4. QED
      BY <3>1, <3>3
  <2> HIDE DEF step
  <2>3. Steps(step, Seq(S), n)
    BY <2>2 DEF Steps
  <2>4. Reached(<< >>, step, Seq(S), n)
    BY <1>1, <2>1, <2>3, Recursion
  <2>5. PICK f \in [0 .. n -> Seq(S)] :
          f[0] = << >> /\ \A i \in 1 .. n : f[i] = step[<<f[i - 1], i>>]
    BY <2>4 DEF Reached
  <2>6. ASSUME NEW i \in 1 .. n
        PROVE  f[i] = f[i - 1] \o seqs[i]
    <3>1. i - 1 \in 0 .. n
      BY <1>1
    <3>2. f[i - 1] \in Seq(S)
      BY <3>1
    <3>3. QED
      BY <2>2, <2>5, <3>2
  <2> DEFINE g == [i \in 1 .. n |-> f[i]]
  <2>7. g = Rec(g)
    <3>1. ASSUME NEW i \in 1 .. n
          PROVE  g[i] = IF i = 1 THEN seqs[i] ELSE g[i - 1] \o seqs[i]
      <4>1. CASE i = 1
        <5>1. f[1] = << >> \o seqs[1] /\ seqs[1] \in Seq(S)
          <6>1. 1 - 1 = 0 /\ 1 \in 1 .. n
            BY <4>1
          <6>2. f[1] = f[1 - 1] \o seqs[1]
            BY <2>6, <6>1
          <6>3. QED
            BY <1>1, <2>5, <6>1, <6>2
        <5>2. f[1] = seqs[1]
          BY <5>1, ConcatEmptySeq
        <5>3. QED
          BY <4>1, <5>2
      <4>2. CASE i # 1
        <5>1. i - 1 \in 1 .. n
          BY <1>1, <4>2
        <5>2. QED
          BY <2>6, <4>2, <5>1
      <4>3. QED
        BY <4>1, <4>2
    <3> HIDE DEF g
    <3>2. g = [i \in 1 .. n |-> g[i]]
      BY DEF g
    <3>3. QED
      BY <3>1, <3>2
  <2>8. flatten = Rec(flatten)
    <3> HIDE DEF Rec
    <3>1. QED
      BY <2>7
  <2>9. FlattenSeq(seqs) = flatten[n]
    BY <1>4 DEF FlattenSeq
  <2> HIDE DEF flatten
  <2>10. \A i \in 1 .. n :
           flatten[i] = IF i = 1 THEN seqs[i] ELSE flatten[i - 1] \o seqs[i]
    BY <2>8
  <2> DEFINE P == {k \in Nat : k \in 1 .. n =>
                     /\ flatten[k] \in Seq(S) /\ Len(flatten[k]) = e[k]
                     /\ \A i \in 1 .. k : \A j \in 1 .. Len(seqs[i]) :
                          flatten[k][e[i - 1] + j] = seqs[i][j]}
  <2>11. 0 \in P
    OBVIOUS
  <2>12. ASSUME NEW k \in P
         PROVE  k + 1 \in P
    <3>1. CASE k + 1 \notin 1 .. n
      BY <3>1
    <3>2. CASE k + 1 \in 1 .. n /\ k = 0
      <4>1. flatten[1] = seqs[1] /\ seqs[1] \in Seq(S) /\ 1 \in 1 .. n
        BY <1>1, <2>10, <3>2
      <4>2. e[1] = e[0] + Len(seqs[1]) /\ e[0] = 0
        BY <1>2, <4>1 DEF AreEnds
      <4>3. Len(seqs[1]) \in Nat
        BY <4>1
      <4>4. \A i \in 1 .. 1 : i = 1 /\ i - 1 = 0
        OBVIOUS
      <4>5. \A j \in 1 .. Len(seqs[1]) : e[0] + j = j
        BY <4>2, <4>3
      <4>6. QED
        BY <3>2, <4>1, <4>2, <4>3, <4>4, <4>5
    <3>3. CASE k + 1 \in 1 .. n /\ k # 0
      <4>1. k \in 1 .. n /\ k \in Nat /\ k + 1 # 1 /\ (k + 1) - 1 = k /\ k \in 0 .. n
        BY <1>1, <3>3
      <4>2. flatten[k + 1] = flatten[k] \o seqs[k + 1]
        BY <2>10, <3>3, <4>1
      <4>3. /\ flatten[k] \in Seq(S) /\ Len(flatten[k]) = e[k]
            /\ \A i \in 1 .. k : \A j \in 1 .. Len(seqs[i]) :
                 flatten[k][e[i - 1] + j] = seqs[i][j]
        BY <4>1
      <4>4. e[k + 1] = e[k] + Len(seqs[k + 1]) /\ e[k] \in Nat
        BY <1>2, <3>3, <4>1 DEF AreEnds
      <4>5. seqs[k + 1] \in Seq(S)
        BY <1>1, <3>3
      <4> DEFINE s == flatten[k]
                 t == seqs[k + 1]
      <4>6. flatten[k + 1] = s \o t /\ s \in Seq(S) /\ t \in Seq(S)
        BY <4>2, <4>3, <4>5
      <4>7. Len(s) = e[k] /\ e[k + 1] = e[k] + Len(t) /\ Len(t) \in Nat
        BY <4>3, <4>4, <4>5
      <4>8. \A i \in 1 .. k : \A j \in 1 .. Len(seqs[i]) : s[e[i - 1] + j] = seqs[i][j]
        BY <4>3
      <4> HIDE DEF s, t
      <4>9. /\ s \o t \in Seq(S) /\ Len(s \o t) = Len(s) + Len(t)
            /\ \A m \in 1 .. Len(s) : (s \o t)[m] = s[m]
            /\ \A m \in Len(s) + 1 .. Len(s) + Len(t) : (s \o t)[m] = t[m - Len(s)]
        <5>1. /\ s \o t \in Seq(S) /\ Len(s \o t) = Len(s) + Len(t)
              /\ \A m \in 1 .. Len(s) + Len(t) :
                   (s \o t)[m] = IF m <= Len(s) THEN s[m] ELSE t[m - Len(s)]
          BY <4>6, ConcatProperties
        <5>2. Len(s) \in Nat /\ Len(t) \in Nat
          BY <4>6
        <5>3. \A m \in 1 .. Len(s) : m \in 1 .. Len(s) + Len(t) /\ m <= Len(s)
          BY <5>2
        <5>4. \A m \in Len(s) + 1 .. Len(s) + Len(t) :
                m \in 1 .. Len(s) + Len(t) /\ ~(m <= Len(s))
          BY <5>2
        <5>5. QED
          BY <5>1, <5>3, <5>4
      <4>10. ASSUME NEW i \in 1 .. k + 1, NEW j \in 1 .. Len(seqs[i])
             PROVE  (s \o t)[e[i - 1] + j] = seqs[i][j]
        <5>1. CASE i = k + 1
          <6>1. i - 1 = k /\ seqs[i] = t /\ j \in 1 .. Len(t)
            BY <4>1, <5>1 DEF t
          <6>2. /\ e[i - 1] + j \in Len(s) + 1 .. Len(s) + Len(t)
                /\ (e[i - 1] + j) - Len(s) = j
            BY <4>4, <4>7, <6>1
          <6>3. QED
            BY <4>9, <6>1, <6>2
        <5>2. CASE i # k + 1
          <6>1. i \in 1 .. k /\ i \in 1 .. n /\ i - 1 \in 0 .. n /\ i \in 0 .. n
            BY <1>1, <4>1, <5>2
          <6>2. e[i] = e[i - 1] + Len(seqs[i])
            BY <1>2, <6>1 DEF AreEnds
          <6>3. e[i] \in Nat /\ e[i - 1] \in Nat
            BY <1>2, <6>1 DEF AreEnds
          <6>4. seqs[i] \in Seq(S)
            BY <1>1, <6>1
          <6>5. Len(seqs[i]) \in Nat
            BY <6>4
          <6>6. \A m \in 1 .. n : Len(seqs[m]) \in Nat
            <7> TAKE m \in 1 .. n
            <7>1. seqs[m] \in Seq(S)
              BY <1>1
            <7>2. QED
              BY <7>1
          <6>7. k \in i .. n
            BY <1>1, <4>1, <6>1
          <6>8. e[i] <= e[k]
            BY <1>1, <1>2, <6>1, <6>6, <6>7, EndsGrow
          <6>9. e[i - 1] + j \in 1 .. Len(s)
            <7>1. Len(s) = e[k] /\ e[k] \in Nat
              BY <4>4, <4>7
            <7>2. QED
              BY <6>2, <6>3, <6>5, <6>8, <7>1, PlaceIn
          <6>10. QED
            BY <4>8, <4>9, <6>1, <6>9
        <5>3. QED
          BY <5>1, <5>2
      <4>11. /\ flatten[k + 1] \in Seq(S) /\ Len(flatten[k + 1]) = e[k + 1]
             /\ \A i \in 1 .. k + 1 : \A j \in 1 .. Len(seqs[i]) :
                  flatten[k + 1][e[i - 1] + j] = seqs[i][j]
        BY <4>6, <4>7, <4>9, <4>10
      <4>12. QED
        BY <4>1, <4>11
    <3>4. QED
      BY <3>1, <3>2, <3>3
  <2>13. P = Nat
    <3> HIDE DEF P
    <3>1. P \subseteq Nat
      BY DEF P
    <3>2. QED
      BY <2>11, <2>12, <3>1, Induction
  <2>14. n \in P /\ n \in 1 .. n
    BY <1>1, <1>4, <2>13
  <2>15. QED
    BY <2>9, <2>14 DEF IsJoined
<1>5. QED
  BY <1>3, <1>4

LaidOut(seqs, l, e, S) ==
  /\ Len(seqs) \in Nat /\ l \in Seq(S) /\ Len(l) = e[Len(seqs)]
  /\ e \in [0 .. Len(seqs) -> Nat] /\ e[0] = 0
  /\ \A i \in 1 .. Len(seqs) : seqs[i] \in Seq(S) /\ e[i] = e[i - 1] + Len(seqs[i])
  /\ \A i \in 0 .. Len(seqs) : \A j \in i .. Len(seqs) :
       e[i] <= e[j] /\ (i < j => e[i] <= e[j - 1])
  /\ \A i \in 1 .. Len(seqs) : \A j \in 1 .. Len(seqs[i]) : l[e[i - 1] + j] = seqs[i][j]
  /\ \A k \in 1 .. Len(l) :
       \E i \in 1 .. Len(seqs) : \E j \in 1 .. Len(seqs[i]) : k = e[i - 1] + j

LEMMA Laid ==
  ASSUME NEW S, NEW seqs \in Seq(Seq(S))
  PROVE  LaidOut(seqs, FlattenSeq(seqs), Ends(seqs), S)
<1> DEFINE n == Len(seqs)
           e == Ends(seqs)
           l == FlattenSeq(seqs)
<1>1. n \in Nat /\ \A i \in 1 .. n : seqs[i] \in Seq(S)
  OBVIOUS
<1>2. \A i \in 1 .. n : Len(seqs[i]) \in Nat
  <2> TAKE i \in 1 .. n
  <2>1. seqs[i] \in Seq(S)
    BY <1>1
  <2>2. QED
    BY <2>1
<1>3. AreEnds(e, seqs)
  BY EndsExist
<1>4. IsJoined(seqs, S)
  BY Joined
<1> HIDE DEF e, l
<1>5. /\ l \in Seq(S) /\ Len(l) = e[n]
      /\ \A i \in 1 .. n : \A j \in 1 .. Len(seqs[i]) : l[e[i - 1] + j] = seqs[i][j]
  BY <1>4 DEF IsJoined, e, l
<1>6. \A i \in 0 .. n : \A j \in i .. n : e[i] <= e[j] /\ (i < j => e[i] <= e[j - 1])
  BY <1>1, <1>2, <1>3, EndsGrow
<1>7. ASSUME NEW k \in 1 .. Len(l)
      PROVE  \E i \in 1 .. n : \E j \in 1 .. Len(seqs[i]) : k = e[i - 1] + j
  <2>1. PICK i \in 1 .. n : e[i - 1] < k /\ k <= e[i]
    BY <1>1, <1>2, <1>3, <1>5, JoinedAt
  <2>2. e[i] = e[i - 1] + Len(seqs[i]) /\ e[i - 1] \in Nat
    <3>1. i - 1 \in 0 .. n
      BY <1>1
    <3>2. QED
      BY <1>3, <3>1 DEF AreEnds
  <2>3. k - e[i - 1] \in 1 .. Len(seqs[i]) /\ k = e[i - 1] + (k - e[i - 1])
    BY <1>2, <2>1, <2>2
  <2>4. QED
    BY <2>3
<1>8. e \in [0 .. n -> Nat] /\ e[0] = 0
  BY <1>3 DEF AreEnds
<1>9. \A i \in 1 .. n : seqs[i] \in Seq(S) /\ e[i] = e[i - 1] + Len(seqs[i])
  BY <1>1, <1>3 DEF AreEnds
<1>10. QED
  BY <1>1, <1>5, <1>6, <1>7, <1>8, <1>9 DEF LaidOut, e, l

-----------------------------------------------------------------------------
(* The cells of the blocks.                                                *)
CellTypes == [block : Nat, nr : Nat, sync : BOOLEAN]

BlockCells(blocks, b) ==
  [c \in DOMAIN blocks[b].cells |->
     [block |-> b, nr |-> c, sync |-> blocks[b].cells[c] = 1]]

CellLists(blocks) == [b \in DOMAIN blocks |-> BlockCells(blocks, b)]

Begin(blocks, b) == Ends(CellLists(blocks))[b - 1]

SizeOf(blocks, b) == Len(blocks[b].cells)

CellsLaid(blocks, cells) ==
  /\ Len(blocks) \in Nat /\ cells \in Seq(CellTypes)
  /\ \A b \in 1 .. Len(blocks) :
       /\ Begin(blocks, b) \in Nat /\ SizeOf(blocks, b) \in Nat
       /\ Begin(blocks, b) + SizeOf(blocks, b) <= Len(cells)
       /\ \A d \in b + 1 .. Len(blocks) :
            Begin(blocks, b) + SizeOf(blocks, b) <= Begin(blocks, d)
       /\ SizeOf(blocks, b) > 0 =>
            /\ cells[Begin(blocks, b) + 1].block = b
            /\ cells[Begin(blocks, b) + 1].nr = 1
            /\ cells[Begin(blocks, b) + 1].sync <=> blocks[b].cells[1] = 1
  /\ \A n \in 0 .. Len(cells) - 1 :
       /\ cells[n + 1].block \in 1 .. Len(blocks)
       /\ cells[n + 1].nr \in 1 .. SizeOf(blocks, cells[n + 1].block)
       /\ n = (Begin(blocks, cells[n + 1].block) + cells[n + 1].nr) - 1

LEMMA BlockCellsFacts ==
  ASSUME NEW blocks \in Seq(BlockTypes), NEW b \in 1 .. Len(blocks)
  PROVE  /\ BlockCells(blocks, b) \in Seq(CellTypes)
         /\ Len(BlockCells(blocks, b)) = SizeOf(blocks, b) /\ SizeOf(blocks, b) \in Nat
         /\ \A c \in 1 .. SizeOf(blocks, b) :
              /\ BlockCells(blocks, b)[c].block = b
              /\ BlockCells(blocks, b)[c].nr = c
              /\ BlockCells(blocks, b)[c].sync <=> blocks[b].cells[c] = 1
<1> DEFINE n == SizeOf(blocks, b)
           s == BlockCells(blocks, b)
<1>1. blocks[b] \in BlockTypes
  OBVIOUS
<1>2. blocks[b].cells \in Seq({0, 1})
  BY <1>1 DEF BlockTypes
<1>3. n \in Nat /\ DOMAIN blocks[b].cells = 1 .. n
  BY <1>2 DEF SizeOf
<1>4. \A c \in 1 .. n :
        s[c] = [block |-> b, nr |-> c, sync |-> blocks[b].cells[c] = 1]
  BY <1>3 DEF BlockCells
<1>5. \A c \in 1 .. n : s[c] \in CellTypes
  <2> TAKE c \in 1 .. n
  <2>1. b \in Nat /\ c \in Nat /\ (blocks[b].cells[c] = 1) \in BOOLEAN
    BY <1>3
  <2>2. [block |-> b, nr |-> c, sync |-> blocks[b].cells[c] = 1] \in CellTypes
    BY <2>1 DEF CellTypes
  <2>3. QED
    BY <1>4, <2>2
<1>6. s \in [1 .. n -> CellTypes]
  BY <1>3, <1>5 DEF BlockCells
<1>7. s \in Seq(CellTypes) /\ Len(s) = n
  BY <1>3, <1>6, FcnIsSeq
<1>8. ASSUME NEW c \in 1 .. n
      PROVE  s[c].block = b /\ s[c].nr = c /\ (s[c].sync <=> blocks[b].cells[c] = 1)
  <2>1. s[c] = [block |-> b, nr |-> c, sync |-> blocks[b].cells[c] = 1]
    BY <1>4
  <2> HIDE DEF s
  <2>2. s[c].block = b /\ s[c].nr = c
    BY <2>1
  <2>3. s[c].sync <=> blocks[b].cells[c] = 1
    <3>1. ASSUME NEW p \in BOOLEAN, p = (blocks[b].cells[c] = 1)
          PROVE  s[c].sync = p
      BY <2>1, <3>1
    <3>2. CASE blocks[b].cells[c] = 1
      BY <3>1, <3>2
    <3>3. CASE blocks[b].cells[c] # 1
      BY <3>1, <3>3
    <3>4. QED
      BY <3>2, <3>3
  <2>4. QED
    BY <2>2, <2>3
<1> HIDE DEF s, n
<1>9. /\ s \in Seq(CellTypes) /\ Len(s) = n /\ n \in Nat
      /\ \A c \in 1 .. n :
           s[c].block = b /\ s[c].nr = c /\ (s[c].sync <=> blocks[b].cells[c] = 1)
  BY <1>3, <1>7, <1>8
<1>10. QED
  BY <1>9, Zenon DEF s, n

LEMMA CellsFacts ==
  ASSUME NEW blocks \in Seq(BlockTypes)
  PROVE  CellsLaid(blocks, Cells(blocks))
<1> DEFINE n == Len(blocks)
           seqs == CellLists(blocks)
           e == Ends(seqs)
           l == Cells(blocks)
<1>1. n \in Nat /\ DOMAIN blocks = 1 .. n
  OBVIOUS
<1>2. \A b \in 1 .. n : seqs[b] = BlockCells(blocks, b)
  BY <1>1 DEF CellLists
<1>3. seqs \in Seq(Seq(CellTypes)) /\ Len(seqs) = n
  <2>1. seqs \in [1 .. n -> Seq(CellTypes)]
    BY <1>1, BlockCellsFacts DEF CellLists
  <2>2. QED
    BY <1>1, <2>1, FcnIsSeq
<1>4. l = FlattenSeq(seqs)
  BY DEF Cells, CellLists, BlockCells
<1>5. LaidOut(seqs, l, e, CellTypes)
  BY <1>3, <1>4, Laid
<1> HIDE DEF seqs, e, l
<1>6. \A b \in 1 .. n : Begin(blocks, b) = e[b - 1]
  BY DEF Begin, e, seqs
<1>7. /\ l \in Seq(CellTypes) /\ Len(l) = e[n]
      /\ \A i \in 0 .. n : e[i] \in Nat
      /\ \A i \in 1 .. n : e[i] = e[i - 1] + Len(seqs[i])
      /\ \A i \in 0 .. n : \A j \in i .. n : e[i] <= e[j] /\ (i < j => e[i] <= e[j - 1])
      /\ \A i \in 1 .. n : \A j \in 1 .. Len(seqs[i]) : l[e[i - 1] + j] = seqs[i][j]
      /\ \A k \in 1 .. Len(l) :
           \E i \in 1 .. n : \E j \in 1 .. Len(seqs[i]) : k = e[i - 1] + j
  <2>1. Len(seqs) = n
    BY <1>3
  <2>2. l \in Seq(CellTypes) /\ Len(l) = e[n] /\ e \in [0 .. n -> Nat]
    BY <1>5, <2>1 DEF LaidOut
  <2>3. \A i \in 1 .. n : e[i] = e[i - 1] + Len(seqs[i])
    BY <1>5, <2>1 DEF LaidOut
  <2>4. \A i \in 0 .. n : \A j \in i .. n : e[i] <= e[j] /\ (i < j => e[i] <= e[j - 1])
    BY <1>5, <2>1 DEF LaidOut
  <2>5. \A i \in 1 .. n : \A j \in 1 .. Len(seqs[i]) : l[e[i - 1] + j] = seqs[i][j]
    BY <1>5, <2>1 DEF LaidOut
  <2>6. \A k \in 1 .. Len(l) :
          \E i \in 1 .. n : \E j \in 1 .. Len(seqs[i]) : k = e[i - 1] + j
    <3>1. \A k \in 1 .. Len(l) :
            \E i \in 1 .. Len(seqs) : \E j \in 1 .. Len(seqs[i]) : k = e[i - 1] + j
      BY <1>5, Zenon DEF LaidOut
    <3>2. QED
      BY <2>1, <3>1, Zenon
  <2>7. QED
    BY <2>2, <2>3, <2>4, <2>5, <2>6
<1> HIDE DEF n
<1>a. \A b \in 1 .. n : Len(seqs[b]) = SizeOf(blocks, b) /\ SizeOf(blocks, b) \in Nat
  BY <1>2, BlockCellsFacts DEF n
<1>8. ASSUME NEW b \in 1 .. n
      PROVE  /\ Begin(blocks, b) \in Nat /\ SizeOf(blocks, b) \in Nat
             /\ Begin(blocks, b) + SizeOf(blocks, b) <= Len(l)
             /\ \A d \in b + 1 .. n : Begin(blocks, b) + SizeOf(blocks, b) <= Begin(blocks, d)
             /\ SizeOf(blocks, b) > 0 =>
                  /\ l[Begin(blocks, b) + 1].block = b
                  /\ l[Begin(blocks, b) + 1].nr = 1
                  /\ l[Begin(blocks, b) + 1].sync <=> blocks[b].cells[1] = 1
  <2>1. b - 1 \in 0 .. n /\ b \in 0 .. n /\ n \in b .. n
    BY <1>1
  <2>2. e[b] = e[b - 1] + SizeOf(blocks, b) /\ SizeOf(blocks, b) \in Nat
    BY <1>7, <1>a
  <2>3. e[b - 1] \in Nat /\ e[b] \in Nat
    BY <1>7, <2>1
  <2>4. Begin(blocks, b) = e[b - 1]
    BY <1>6
  <2>5. Begin(blocks, b) + SizeOf(blocks, b) <= Len(l)
    <3>1. e[b] <= e[n]
      BY <1>7, <2>1
    <3>2. QED
      BY <1>7, <2>2, <2>4, <3>1
  <2>6. ASSUME NEW d \in b + 1 .. n
        PROVE  Begin(blocks, b) + SizeOf(blocks, b) <= Begin(blocks, d)
    <3>1. d \in 1 .. n /\ d \in b .. n /\ b < d
      BY <1>1
    <3>2. e[b] <= e[d - 1]
      BY <1>7, <2>1, <3>1
    <3>3. Begin(blocks, d) = e[d - 1]
      BY <1>6, <3>1
    <3>4. QED
      BY <2>2, <2>4, <3>2, <3>3
  <2>7. SizeOf(blocks, b) > 0 =>
          /\ l[Begin(blocks, b) + 1].block = b
          /\ l[Begin(blocks, b) + 1].nr = 1
          /\ l[Begin(blocks, b) + 1].sync <=> blocks[b].cells[1] = 1
    <3> HAVE SizeOf(blocks, b) > 0
    <3>1. 1 \in 1 .. SizeOf(blocks, b)
      BY <2>2
    <3>2. l[e[b - 1] + 1] = BlockCells(blocks, b)[1]
      BY <1>2, <1>7, <1>a, <3>1
    <3>3. /\ BlockCells(blocks, b)[1].block = b
          /\ BlockCells(blocks, b)[1].nr = 1
          /\ BlockCells(blocks, b)[1].sync <=> blocks[b].cells[1] = 1
      BY <3>1, BlockCellsFacts DEF n
    <3>4. QED
      BY <2>4, <3>2, <3>3
  <2>8. QED
    BY <2>2, <2>3, <2>4, <2>5, <2>6, <2>7
<1>9. ASSUME NEW k \in 0 .. Len(l) - 1
      PROVE  /\ l[k + 1].block \in 1 .. n
             /\ l[k + 1].nr \in 1 .. SizeOf(blocks, l[k + 1].block)
             /\ k = (Begin(blocks, l[k + 1].block) + l[k + 1].nr) - 1
  <2>1. Len(l) \in Nat
    BY <1>7
  <2>2. k + 1 \in 1 .. Len(l)
    BY <2>1
  <2>3a. PICK b \in 1 .. n : \E c \in 1 .. Len(seqs[b]) : k + 1 = e[b - 1] + c
    BY <1>7, <2>2
  <2>3. PICK c \in 1 .. Len(seqs[b]) : k + 1 = e[b - 1] + c
    BY <2>3a
  <2>4. l[k + 1] = BlockCells(blocks, b)[c] /\ c \in 1 .. SizeOf(blocks, b)
    BY <1>2, <1>7, <1>a, <2>3
  <2>5. l[k + 1].block = b /\ l[k + 1].nr = c
    BY <2>4, BlockCellsFacts DEF n
  <2>6. Begin(blocks, b) = e[b - 1] /\ e[b - 1] \in Nat
    BY <1>6, <1>8
  <2>7. k = (e[b - 1] + c) - 1
    BY <2>3, <2>6
  <2>8. QED
    BY <2>4, <2>5, <2>6, <2>7
<1>10. QED
  BY <1>1, <1>7, <1>8, <1>9 DEF CellsLaid, l, n

-----------------------------------------------------------------------------
(* The units.                                                              *)
LEMMA Largest ==
  ASSUME NEW n \in Int, NEW S, S \subseteq Int, S # {}, \A x \in S : x <= n
  PROVE  Max(S) \in S /\ \A x \in S : x <= Max(S)
<1> DEFINE T == {n - x : x \in S}
<1>1. T \subseteq Nat
  OBVIOUS
<1>2. T # {}
  OBVIOUS
<1>3. PICK t \in T : \A y \in T : t <= y
  BY <1>1, <1>2, LeastNat
<1>4. PICK x \in S : t = n - x
  OBVIOUS
<1>5. \A y \in S : x >= y
  <2> TAKE y \in S
  <2>1. n - y \in T
    OBVIOUS
  <2>2. t <= n - y
    BY <1>3, <2>1
  <2>3. x \in Int /\ y \in Int
    OBVIOUS
  <2>4. QED
    BY <1>4, <2>2, <2>3
<1>6. Max(S) \in S /\ \A y \in S : Max(S) >= y
  BY <1>4, <1>5 DEF Max
<1>7. \A y \in S : y <= Max(S)
  BY <1>6
<1>8. QED
  BY <1>6, <1>7

StartsTo(blocks, b) == {s \in Own(blocks) : s <= b /\ blocks[s].start}

LEMMA UnitIs ==
  ASSUME NEW blocks \in Seq(BlockTypes), NEW b \in 0 .. Len(blocks)
  PROVE  /\ \/ UnitOf(blocks, b) = None /\ StartsTo(blocks, b) = {}
            \/ UnitOf(blocks, b) # None /\ UnitOf(blocks, b) \in StartsTo(blocks, b)
         /\ \A s \in StartsTo(blocks, b) : s <= UnitOf(blocks, b)
<1> DEFINE T == StartsTo(blocks, b)
           S == {None} \cup T
<1>1. T \subseteq 1 .. Len(blocks) /\ Len(blocks) \in Nat
  BY DEF StartsTo, Own
<1>2. None \in Int /\ None < 0
  BY DEF None
<1>3. S \subseteq Int /\ S # {}
  BY <1>1, <1>2
<1>4. \A x \in S : x <= Len(blocks)
  BY <1>1, <1>2
<1>5. Max(S) \in S /\ \A x \in S : x <= Max(S)
  <2> HIDE DEF S
  <2>1. Len(blocks) \in Int
    BY <1>1
  <2>2. QED
    BY <1>3, <1>4, <2>1, Largest
<1>6. UnitOf(blocks, b) = Max(S)
  BY DEF UnitOf, StartsTo
<1>7. \A x \in T : x > None
  BY <1>1, <1>2
<1> HIDE DEF T
<1>8. CASE Max(S) = None
  <2>1. T = {}
    <3>1. \A x \in T : x \in Int /\ x <= None
      <4>1. T \subseteq S
        OBVIOUS
      <4> HIDE DEF S
      <4>2. QED
        BY <1>1, <1>5, <1>8, <4>1
    <3>2. QED
      BY <1>2, <1>7, <3>1
  <2>2. QED
    BY <1>5, <1>6, <1>8, <2>1 DEF T
<1>9. CASE Max(S) # None
  BY <1>5, <1>6, <1>9 DEF T
<1>10. QED
  BY <1>8, <1>9

LEMMA UnitTypes ==
  ASSUME NEW blocks \in Seq(BlockTypes), NEW b \in 0 .. Len(blocks),
         UnitOf(blocks, b) # None
  PROVE  /\ UnitOf(blocks, b) \in 1 .. b /\ UnitOf(blocks, b) \in Own(blocks)
         /\ blocks[UnitOf(blocks, b)].start
         /\ UnitOf(blocks, b) \in 1 .. Len(blocks)
<1>1. UnitOf(blocks, b) \in StartsTo(blocks, b)
  BY UnitIs
<1>2. QED
  BY <1>1 DEF StartsTo, Own

(* b is the next block of the stream behind c, or the first.               *)
NextOwn(blocks, c, b) ==
  /\ b \in Own(blocks) /\ c \in {0} \cup Own(blocks) /\ c < b
  /\ \A d \in Own(blocks) : d <= c \/ b <= d

LEMMA UnitBegins ==
  ASSUME NEW blocks \in Seq(BlockTypes), NEW b \in Own(blocks), blocks[b].start
  PROVE  UnitOf(blocks, b) = b
<1>1. b \in 0 .. Len(blocks) /\ b \in Nat /\ b # None
  BY DEF Own, None
<1>2. b \in StartsTo(blocks, b)
  BY <1>1 DEF StartsTo
<1>3. UnitOf(blocks, b) \in StartsTo(blocks, b) /\ b <= UnitOf(blocks, b)
  BY <1>1, <1>2, UnitIs
<1>4. UnitOf(blocks, b) <= b /\ UnitOf(blocks, b) \in Nat
  BY <1>3 DEF StartsTo, Own
<1>5. QED
  BY <1>1, <1>3, <1>4

LEMMA UnitGoesOn ==
  ASSUME NEW blocks \in Seq(BlockTypes), NEW c, NEW b, NextOwn(blocks, c, b),
         ~blocks[b].start
  PROVE  UnitOf(blocks, b) = UnitOf(blocks, c)
<1>1. c \in Nat /\ b \in Nat /\ c < b
  BY DEF NextOwn, Own
<1>2. ASSUME NEW s \in Own(blocks)
      PROVE  s <= b /\ blocks[s].start <=> s <= c /\ blocks[s].start
  <2>1. s \in Nat /\ (s <= c \/ b <= s)
    BY DEF NextOwn, Own
  <2>2. s = b => ~blocks[s].start
    OBVIOUS
  <2>3. s <= b <=> s <= c \/ s = b
    BY <1>1, <2>1
  <2>4. QED
    BY <2>2, <2>3
<1>3. QED
  BY <1>2 DEF UnitOf

LEMMA UnitOfZero ==
  ASSUME NEW blocks \in Seq(BlockTypes)
  PROVE  UnitOf(blocks, 0) = None
<1>1. StartsTo(blocks, 0) = {}
  BY DEF StartsTo, Own
<1>2. 0 \in 0 .. Len(blocks)
  OBVIOUS
<1>3. QED
  BY <1>1, <1>2, UnitIs

(* What lies between the begin of a unit and a block of it.                *)
InFront(blocks, b) ==
  [c \in 1 .. b - 1 |-> IF c \in Own(blocks) /\ UnitOf(blocks, c) = UnitOf(blocks, b)
                          THEN blocks[c].len ELSE 0]

LEMMA LenNat ==
  ASSUME NEW blocks \in Seq(BlockTypes), NEW b \in Own(blocks)
  PROVE  /\ blocks[b].len \in Nat /\ blocks[b].hl \in Nat
         /\ b \in 1 .. Len(blocks) /\ b \in Nat /\ Len(blocks) \in Nat
         /\ blocks[b] \in BlockTypes
<1>1. b \in 1 .. Len(blocks)
  BY DEF Own
<1>2. blocks[b] \in BlockTypes
  BY <1>1
<1>3. QED
  BY <1>1, <1>2 DEF BlockTypes

LEMMA InFrontFacts ==
  ASSUME NEW blocks \in Seq(BlockTypes), NEW b \in 1 .. Len(blocks)
  PROVE  /\ InFront(blocks, b) \in Seq(Nat) /\ InFront(blocks, b) \in Seq(Int)
         /\ Len(InFront(blocks, b)) = b - 1
         /\ Before(blocks, b) = Total[InFront(blocks, b)] /\ Before(blocks, b) \in Nat
<1> DEFINE l == InFront(blocks, b)
<1>1. b - 1 \in Nat
  OBVIOUS
<1>2. \A c \in 1 .. b - 1 :
        (IF c \in Own(blocks) /\ UnitOf(blocks, c) = UnitOf(blocks, b)
           THEN blocks[c].len ELSE 0) \in Nat
  BY LenNat
<1>3. l \in [1 .. b - 1 -> Nat]
  BY <1>2 DEF InFront
<1> HIDE DEF l
<1>4. l \in Seq(Nat) /\ Len(l) = b - 1
  BY <1>1, <1>3, FcnIsSeq
<1>5. l \in Seq(Int)
  BY <1>4
<1>6. Total[l] \in Nat
  BY <1>4, TotalNat
<1>7. Before(blocks, b) = Total[l]
  BY DEF Before, InFront, l
<1>8. QED
  BY <1>4, <1>5, <1>6, <1>7 DEF l

(* A list of nothing but zeros behind some number.                         *)
LEMMA ZerosBehind ==
  ASSUME NEW a \in Seq(Int), NEW b \in Seq(Int), Len(a) <= Len(b),
         \A i \in 1 .. Len(a) : b[i] = a[i],
         \A i \in Len(a) + 1 .. Len(b) : b[i] = 0
  PROVE  Total[b] = Total[a]
<1> DEFINE d == [i \in 1 .. Len(b) - Len(a) |-> 0]
<1>1. Len(a) \in Nat /\ Len(b) \in Nat /\ Len(b) - Len(a) \in Nat
  OBVIOUS
<1>2. d \in [1 .. Len(b) - Len(a) -> Nat] /\ d \in [1 .. Len(b) - Len(a) -> Int]
  OBVIOUS
<1>3. d \in Seq(Int) /\ Len(d) = Len(b) - Len(a)
  BY <1>1, <1>2, FcnIsSeq
<1>4. Total[b] = Total[a] + Total[d]
  <2>1. \A i \in Len(a) + 1 .. Len(b) : b[i] = d[i - Len(a)]
    BY <1>1
  <2> HIDE DEF d
  <2>2. Len(b) = Len(a) + Len(d)
    BY <1>1, <1>3
  <2>3. QED
    BY <1>3, <2>1, <2>2, TotalJoin
<1>5. Total[d] = 0
  <2> DEFINE P == {k \in Nat : Total[[i \in 1 .. k |-> 0]] = 0}
  <2>1. \A k \in Nat : LET z == [i \in 1 .. k |-> 0] IN z \in Seq(Int) /\ Len(z) = k
    <3> TAKE k \in Nat
    <3> DEFINE z == [i \in 1 .. k |-> 0]
    <3>1. z \in [1 .. k -> Int]
      OBVIOUS
    <3> HIDE DEF z
    <3>2. z \in Seq(Int) /\ Len(z) = k
      BY <3>1, FcnIsSeq
    <3>3. QED
      BY <3>2 DEF z
  <2>2. 0 \in P
    BY <2>1, TotalEmpty
  <2>3. ASSUME NEW k \in P
        PROVE  k + 1 \in P
    <3> DEFINE y == [i \in 1 .. k |-> 0]
               z == [i \in 1 .. k + 1 |-> 0]
    <3>1. k \in Nat /\ Total[y] = 0
      OBVIOUS
    <3>2. y \in Seq(Int) /\ Len(y) = k /\ z \in Seq(Int) /\ Len(z) = k + 1
      BY <2>1, <3>1
    <3>3. z[k + 1] = 0 /\ \A i \in 1 .. k : z[i] = y[i]
      BY <3>1
    <3> HIDE DEF y, z
    <3>4. Total[z] = Total[y] + z[Len(z)]
      BY <3>2, <3>3, TotalAppend
    <3>5. Total[z] = 0
      BY <3>1, <3>2, <3>3, <3>4
    <3>6. QED
      BY <3>1, <3>5 DEF z
  <2>4. P = Nat
    <3> HIDE DEF P
    <3>1. P \subseteq Nat
      BY DEF P
    <3>2. QED
      BY <2>2, <2>3, <3>1, Induction
  <2>5. Len(b) - Len(a) \in P
    BY <1>1, <2>4
  <2>6. QED
    BY <2>5
<1>6. QED
  <2>1. Total[a] \in Int
    BY TotalType
  <2>2. QED
    BY <1>4, <1>5, <2>1

LEMMA NothingBefore ==
  ASSUME NEW blocks \in Seq(BlockTypes), NEW b \in Own(blocks), blocks[b].start
  PROVE  Before(blocks, b) = 0
<1>1. b \in 1 .. Len(blocks)
  BY LenNat
<1> DEFINE l == InFront(blocks, b)
<1>2. l \in Seq(Int) /\ Len(l) = b - 1 /\ Before(blocks, b) = Total[l]
  BY <1>1, InFrontFacts
<1>3. UnitOf(blocks, b) = b
  BY UnitBegins
<1>4. ASSUME NEW c \in 1 .. b - 1
      PROVE  l[c] = 0
  <2>1. c \in 0 .. Len(blocks) /\ c < b /\ b # None
    BY <1>1 DEF None
  <2>2. UnitOf(blocks, c) # b
    <3>1. UnitOf(blocks, c) = None \/ UnitOf(blocks, c) \in StartsTo(blocks, c)
      BY <2>1, UnitIs
    <3>2. UnitOf(blocks, c) \in StartsTo(blocks, c) => UnitOf(blocks, c) <= c
      BY DEF StartsTo
    <3>3. QED
      BY <1>1, <2>1, <3>1, <3>2
  <2>3. QED
    BY <1>3, <2>2 DEF InFront
<1> HIDE DEF l
<1>5. << >> \in Seq(Int) /\ Len(<< >>) = 0
  OBVIOUS
<1>6. Total[<< >>] = 0
  BY <1>5, TotalEmpty
<1>7. Total[l] = Total[<< >>]
  <2>1. Len(l) \in Nat
    BY <1>2
  <2>2. \A i \in 1 .. Len(<< >>) : l[i] = << >>[i]
    BY <1>5
  <2>3. \A i \in Len(<< >>) + 1 .. Len(l) : l[i] = 0
    BY <1>2, <1>4, <1>5
  <2>4. Len(<< >>) <= Len(l)
    BY <1>5, <2>1
  <2>5. QED
    BY <1>2, <1>5, <2>2, <2>3, <2>4, ZerosBehind
<1>8. QED
  BY <1>2, <1>6, <1>7

LEMMA BeforeNext ==
  ASSUME NEW blocks \in Seq(BlockTypes), NEW c, NEW b, NextOwn(blocks, c, b),
         ~blocks[b].start, UnitOf(blocks, b) # None
  PROVE  /\ c \in Own(blocks) /\ UnitOf(blocks, c) = UnitOf(blocks, b)
         /\ Before(blocks, b) = Before(blocks, c) + blocks[c].len
<1>1. UnitOf(blocks, b) = UnitOf(blocks, c)
  BY UnitGoesOn
<1>2. c # 0
  BY <1>1, UnitOfZero
<1>3. c \in Own(blocks) /\ b \in Own(blocks) /\ c < b
  BY <1>2 DEF NextOwn
<1>4. c \in 1 .. Len(blocks) /\ b \in 1 .. Len(blocks) /\ blocks[c].len \in Nat
  BY <1>3, LenNat
<1> DEFINE k == InFront(blocks, c)
           l == InFront(blocks, b)
           m == Append(k, blocks[c].len)
<1>5. /\ k \in Seq(Int) /\ Len(k) = c - 1 /\ Before(blocks, c) = Total[k]
      /\ l \in Seq(Int) /\ Len(l) = b - 1 /\ Before(blocks, b) = Total[l]
  BY <1>4, InFrontFacts
<1>6. \A i \in 1 .. c - 1 : l[i] = k[i]
  BY <1>1, <1>3, <1>4 DEF InFront
<1>7. l[c] = blocks[c].len
  BY <1>1, <1>3, <1>4 DEF InFront
<1>8. ASSUME NEW i \in c + 1 .. b - 1
      PROVE  l[i] = 0
  <2>1. i \notin Own(blocks)
    <3>1. ~(i <= c) /\ ~(b <= i)
      BY <1>4
    <3>2. QED
      BY <3>1 DEF NextOwn
  <2>2. i \in 1 .. b - 1
    BY <1>4
  <2>3. QED
    BY <2>1, <2>2 DEF InFront
<1> HIDE DEF k, l
<1>9. /\ m \in Seq(Int) /\ Len(m) = c /\ m[c] = blocks[c].len
      /\ \A i \in 1 .. c - 1 : m[i] = k[i]
  <2>1. blocks[c].len \in Int /\ Len(k) + 1 = c
    BY <1>4, <1>5
  <2>2. /\ m \in Seq(Int) /\ Len(m) = Len(k) + 1 /\ m[Len(k) + 1] = blocks[c].len
        /\ \A i \in 1 .. Len(k) : m[i] = k[i]
    BY <1>5, <2>1, AppendProperties
  <2>3. QED
    BY <1>5, <2>1, <2>2
<1> HIDE DEF m
<1>10. Total[m] = Total[k] + m[Len(m)]
  <2>1. Len(m) = Len(k) + 1 /\ \A i \in 1 .. Len(k) : m[i] = k[i]
    BY <1>4, <1>5, <1>9
  <2>2. QED
    BY <1>5, <1>9, <2>1, TotalAppend
<1>11. Total[l] = Total[m]
  <2>1. \A i \in 1 .. Len(m) : l[i] = m[i]
    <3> TAKE i \in 1 .. Len(m)
    <3>1. i = c \/ i \in 1 .. c - 1
      BY <1>4, <1>9
    <3>2. QED
      BY <1>6, <1>7, <1>9, <3>1
  <2>2. Len(m) <= Len(l)
    BY <1>3, <1>4, <1>5, <1>9
  <2>3. \A i \in Len(m) + 1 .. Len(l) : l[i] = 0
    BY <1>5, <1>8, <1>9
  <2>4. QED
    BY <1>5, <1>9, <2>1, <2>2, <2>3, ZerosBehind
<1>12. QED
  BY <1>1, <1>3, <1>5, <1>9, <1>10, <1>11

-----------------------------------------------------------------------------
(* The bytes of the stream.                                                *)
Bytes == Nat \X Nat \X BOOLEAN

LEMMA MaxOfTwo ==
  ASSUME NEW x \in Int
  PROVE  Max({1, x}) = IF x <= 1 THEN 1 ELSE x
<1>1. {1, x} \subseteq Int /\ {1, x} # {}
  OBVIOUS
<1>2. \E n \in Int : \A y \in {1, x} : y <= n
  <2>1. CASE x <= 1
    BY <2>1
  <2>2. CASE x > 1
    BY <2>2
  <2>3. QED
    BY <2>1, <2>2
<1>3. Max({1, x}) \in {1, x} /\ \A y \in {1, x} : y <= Max({1, x})
  BY <1>1, <1>2, Largest
<1>4. QED
  BY <1>3

(* The end of a sequence.                                                  *)
LEMMA EndOf ==
  ASSUME NEW S, NEW s \in Seq(S), NEW k \in Nat
  PROVE  /\ SubSeq(s, k + 1, Len(s)) \in Seq(S)
         /\ Len(SubSeq(s, k + 1, Len(s))) = IF k <= Len(s) THEN Len(s) - k ELSE 0
         /\ \A i \in 1 .. Len(s) - k :
              SubSeq(s, k + 1, Len(s))[i] = s[k + i] /\ k + i \in 1 .. Len(s)
<1>1. Len(s) \in Nat /\ k + 1 \in Int
  OBVIOUS
<1>2. \A i \in k + 1 .. Len(s) : s[i] \in S
  BY <1>1
<1>3. /\ SubSeq(s, k + 1, Len(s)) \in Seq(S)
      /\ Len(SubSeq(s, k + 1, Len(s))) =
           IF k + 1 <= Len(s) THEN Len(s) - (k + 1) + 1 ELSE 0
      /\ \A i \in 1 .. Len(s) - (k + 1) + 1 :
           SubSeq(s, k + 1, Len(s))[i] = s[(k + 1) + i - 1]
  BY <1>1, <1>2, SubSeqProperties
<1>4. Len(SubSeq(s, k + 1, Len(s))) = IF k <= Len(s) THEN Len(s) - k ELSE 0
  BY <1>1, <1>3
<1>5. ASSUME NEW i \in 1 .. Len(s) - k
      PROVE  SubSeq(s, k + 1, Len(s))[i] = s[k + i] /\ k + i \in 1 .. Len(s)
  <2>1. i \in 1 .. Len(s) - (k + 1) + 1 /\ (k + 1) + i - 1 = k + i
    BY <1>1
  <2>2. k + i \in 1 .. Len(s)
    BY <1>1
  <2>3. QED
    BY <1>3, <2>1, <2>2
<1>6. QED
  BY <1>3, <1>4, <1>5

LEMMA PayloadFacts ==
  ASSUME NEW blocks \in Seq(BlockTypes), NEW b \in 1 .. Len(blocks)
  PROVE  /\ BlockPayload(blocks, b) \in Seq(Bytes)
         /\ Len(BlockPayload(blocks, b)) = blocks[b].len /\ blocks[b].len \in Nat
         /\ \A u \in 1 .. blocks[b].len :
              /\ BlockPayload(blocks, b)[u][1] = b
              /\ BlockPayload(blocks, b)[u][2] = u
              /\ BlockPayload(blocks, b)[u] = <<b, u, u \in blocks[b].marks>>
<1> DEFINE p == BlockPayload(blocks, b)
           n == blocks[b].len
<1>1. n \in Nat
  <2>1. blocks[b] \in BlockTypes
    OBVIOUS
  <2>2. QED
    BY <2>1 DEF BlockTypes
<1>2. \A u \in 1 .. n : p[u] = <<b, u, u \in blocks[b].marks>>
  BY DEF BlockPayload
<1>3. ASSUME NEW u \in 1 .. n
      PROVE  p[u] \in Bytes
  <2>1. b \in Nat /\ u \in Nat /\ (u \in blocks[b].marks) \in BOOLEAN
    BY <1>1
  <2>2. <<b, u, u \in blocks[b].marks>> \in Bytes
    BY <2>1 DEF Bytes
  <2>3. QED
    BY <1>2, <2>2
<1>4. p \in [1 .. n -> Bytes]
  BY <1>3 DEF BlockPayload
<1>5. p \in Seq(Bytes) /\ Len(p) = n
  BY <1>1, <1>4, FcnIsSeq
<1>6. QED
  BY <1>1, <1>2, <1>5

(* What a block carries is the end of its payload.                         *)
Skipped(blocks, b) ==
  IF b \notin Own(blocks) \/ UnitOf(blocks, b) = None THEN blocks[b].len
  ELSE IF blocks[UnitOf(blocks, b)].good
         THEN IF Before(blocks, b) < blocks[UnitOf(blocks, b)].hl
                THEN blocks[UnitOf(blocks, b)].hl - Before(blocks, b) ELSE 0
  ELSE IF Before(blocks, b) < MinHeader THEN blocks[b].len ELSE 0

LEMMA CarriesIs ==
  ASSUME NEW blocks \in Seq(BlockTypes), NEW b \in 1 .. Len(blocks)
  PROVE  /\ Carries(blocks, b) =
              SubSeq(BlockPayload(blocks, b), Skipped(blocks, b) + 1, blocks[b].len)
         /\ Skipped(blocks, b) \in Nat
<1> DEFINE p == BlockPayload(blocks, b)
           n == blocks[b].len
           u == UnitOf(blocks, b)
           before == Before(blocks, b)
<1>1. p \in Seq(Bytes) /\ Len(p) = n /\ n \in Nat
  BY PayloadFacts
<1>2. before \in Nat
  BY InFrontFacts
<1>3. SubSeq(p, n + 1, n) = << >>
  <2>1. n < n + 1 /\ n \in Int /\ n + 1 \in Int
    BY <1>1
  <2>2. QED
    BY <2>1, SubSeqEmpty
<1>4. SubSeq(p, 0 + 1, n) = p
  BY <1>1, SubSeqFull
<1>5. CASE b \notin Own(blocks) \/ u = None
  BY <1>1, <1>3, <1>5 DEF Carries, Skipped
<1>6. CASE b \in Own(blocks) /\ u # None /\ blocks[u].good
  <2>1. blocks[u].hl \in Nat
    <3>1. b \in 0 .. Len(blocks)
      OBVIOUS
    <3>2. u \in Own(blocks)
      BY <1>6, <3>1, UnitTypes
    <3>3. QED
      BY <3>2, LenNat
  <2> DEFINE x == blocks[u].hl - before + 1
  <2>2. x \in Int /\ x = (blocks[u].hl - before) + 1
    BY <1>2, <2>1
  <2>3. Max({1, x}) = IF x <= 1 THEN 1 ELSE x
    BY <2>2, MaxOfTwo
  <2>4. Skipped(blocks, b) =
          IF before < blocks[u].hl THEN blocks[u].hl - before ELSE 0
    BY <1>6 DEF Skipped
  <2>5. Max({1, x}) = Skipped(blocks, b) + 1
    <3>1. CASE before < blocks[u].hl
      <4>1. ~(x <= 1)
        BY <1>2, <2>1, <2>2, <3>1
      <4>2. QED
        BY <2>2, <2>3, <2>4, <3>1, <4>1
    <3>2. CASE ~(before < blocks[u].hl)
      <4>1. x <= 1
        BY <1>2, <2>1, <2>2, <3>2
      <4>2. QED
        BY <2>3, <2>4, <3>2, <4>1
    <3>3. QED
      BY <3>1, <3>2
  <2>6. Carries(blocks, b) = SubSeq(p, Max({1, x}), n)
    BY <1>6 DEF Carries
  <2>7. Skipped(blocks, b) \in Nat
    BY <1>2, <2>1, <2>4
  <2>8. QED
    BY <2>5, <2>6, <2>7
<1>7. CASE b \in Own(blocks) /\ u # None /\ ~blocks[u].good
  BY <1>1, <1>3, <1>4, <1>7 DEF Carries, Skipped
<1>8. QED
  BY <1>5, <1>6, <1>7

LEMMA CarriesFacts ==
  ASSUME NEW blocks \in Seq(BlockTypes), NEW b \in 1 .. Len(blocks)
  PROVE  /\ Carries(blocks, b) \in Seq(Bytes)
         /\ Len(Carries(blocks, b)) =
              IF Skipped(blocks, b) <= blocks[b].len
                THEN blocks[b].len - Skipped(blocks, b) ELSE 0
         /\ \A j \in 1 .. Len(Carries(blocks, b)) :
              /\ Carries(blocks, b)[j] = BlockPayload(blocks, b)[Skipped(blocks, b) + j]
              /\ Skipped(blocks, b) + j \in 1 .. blocks[b].len
              /\ Carries(blocks, b)[j][1] = b
              /\ Carries(blocks, b)[j][2] = Skipped(blocks, b) + j
<1> DEFINE p == BlockPayload(blocks, b)
           k == Skipped(blocks, b)
           s == Carries(blocks, b)
<1>1. /\ p \in Seq(Bytes) /\ Len(p) = blocks[b].len /\ blocks[b].len \in Nat
      /\ \A u \in 1 .. blocks[b].len : p[u][1] = b /\ p[u][2] = u
  BY PayloadFacts
<1>2. k \in Nat /\ s = SubSeq(p, k + 1, Len(p))
  BY <1>1, CarriesIs
<1> HIDE DEF p, k, s
<1>3. /\ s \in Seq(Bytes) /\ Len(s) = IF k <= Len(p) THEN Len(p) - k ELSE 0
      /\ \A i \in 1 .. Len(p) - k : s[i] = p[k + i] /\ k + i \in 1 .. Len(p)
  BY <1>1, <1>2, EndOf
<1>4. \A j \in 1 .. Len(s) : j \in 1 .. Len(p) - k
  BY <1>1, <1>2, <1>3
<1>5. \A j \in 1 .. Len(s) :
        s[j] = p[k + j] /\ k + j \in 1 .. blocks[b].len /\ s[j][1] = b /\ s[j][2] = k + j
  <2> TAKE j \in 1 .. Len(s)
  <2>1. s[j] = p[k + j] /\ k + j \in 1 .. Len(p)
    BY <1>3, <1>4
  <2>2. QED
    BY <1>1, <2>1
<1>6. QED
  BY <1>1, <1>3, <1>5 DEF p, k, s

PartOf(blocks, b) ==
  IF \E u \in Beginnings(blocks) : u <= b THEN Carries(blocks, b) ELSE << >>

Parts(blocks) == [b \in DOMAIN blocks |-> PartOf(blocks, b)]

PartEnd(blocks, b) == Ends(Parts(blocks))[b]

LEMMA PartFacts ==
  ASSUME NEW blocks \in Seq(BlockTypes), NEW b \in 1 .. Len(blocks)
  PROVE  /\ PartOf(blocks, b) \in Seq(Bytes)
         /\ \A j \in 1 .. Len(PartOf(blocks, b)) : PartOf(blocks, b)[j][1] = b
         /\ \A i, j \in 1 .. Len(PartOf(blocks, b)) :
              PartOf(blocks, b)[i] = PartOf(blocks, b)[j] => i = j
<1> DEFINE s == PartOf(blocks, b)
<1>1. CASE s = Carries(blocks, b)
  <2> DEFINE k == Skipped(blocks, b)
  <2>1. /\ s \in Seq(Bytes) /\ k \in Nat
        /\ \A j \in 1 .. Len(s) : s[j][1] = b /\ s[j][2] = k + j
    BY <1>1, CarriesFacts, CarriesIs
  <2> HIDE DEF s, k
  <2>2. \A i, j \in 1 .. Len(s) : s[i] = s[j] => i = j
    <3> TAKE i, j \in 1 .. Len(s)
    <3> HAVE s[i] = s[j]
    <3>1. k + i = k + j
      BY <2>1
    <3>2. i \in Nat /\ j \in Nat
      BY <2>1
    <3>3. QED
      BY <2>1, <3>1, <3>2
  <2>3. QED
    BY <2>1, <2>2 DEF s
<1>2. CASE s = << >>
  <2>1. 1 .. Len(s) = {} /\ s \in Seq(Bytes)
    BY <1>2
  <2> HIDE DEF s
  <2>2. QED
    BY <2>1 DEF s
<1>3. QED
  BY <1>1, <1>2 DEF PartOf

StreamLaid(blocks, stream) ==
  /\ Len(blocks) \in Nat /\ stream \in Seq(Bytes)
  /\ Len(stream) \in Nat
  /\ PartEnd(blocks, 0) = 0 /\ PartEnd(blocks, Len(blocks)) = Len(stream)
  /\ \A b \in 0 .. Len(blocks) :
       /\ PartEnd(blocks, b) \in Nat /\ PartEnd(blocks, b) <= Len(stream)
       /\ \A d \in b .. Len(blocks) : PartEnd(blocks, b) <= PartEnd(blocks, d)
  /\ \A b \in 1 .. Len(blocks) :
       PartEnd(blocks, b) = PartEnd(blocks, b - 1) + Len(PartOf(blocks, b))
  /\ \A b \in 1 .. Len(blocks) : \A j \in 1 .. Len(PartOf(blocks, b)) :
       stream[PartEnd(blocks, b - 1) + j] = PartOf(blocks, b)[j]
  /\ \A i, j \in 1 .. Len(stream) : stream[i] = stream[j] => i = j

LEMMA StreamFacts ==
  ASSUME NEW blocks \in Seq(BlockTypes)
  PROVE  StreamLaid(blocks, Stream(blocks))
<1> DEFINE n == Len(blocks)
           seqs == Parts(blocks)
           e == Ends(seqs)
           l == Stream(blocks)
<1>1. n \in Nat /\ DOMAIN blocks = 1 .. n
  OBVIOUS
<1>2. seqs \in Seq(Seq(Bytes)) /\ Len(seqs) = n
  <2>1. seqs \in [1 .. n -> Seq(Bytes)]
    BY <1>1, PartFacts DEF Parts
  <2>2. QED
    BY <1>1, <2>1, FcnIsSeq
<1>3. \A b \in 1 .. n : seqs[b] = PartOf(blocks, b)
  BY <1>1 DEF Parts
<1>4. l = FlattenSeq(seqs)
  BY DEF Stream, Parts, PartOf
<1>5. LaidOut(seqs, l, e, Bytes)
  BY <1>2, <1>4, Laid
<1> HIDE DEF seqs, e, l
<1>6. \A b \in 0 .. n : PartEnd(blocks, b) = e[b]
  BY DEF PartEnd, e, seqs
<1>7. /\ l \in Seq(Bytes) /\ Len(l) = e[n] /\ e[0] = 0 /\ e \in [0 .. n -> Nat]
      /\ \A i \in 1 .. n : e[i] = e[i - 1] + Len(PartOf(blocks, i))
  <2>1. /\ l \in Seq(Bytes) /\ Len(l) = e[n] /\ e[0] = 0 /\ e \in [0 .. n -> Nat]
        /\ \A i \in 1 .. n : e[i] = e[i - 1] + Len(seqs[i])
    BY <1>2, <1>5 DEF LaidOut
  <2>2. QED
    BY <1>3, <2>1
<1>8. \A i \in 0 .. n : \A j \in i .. n : e[i] <= e[j]
  BY <1>2, <1>5 DEF LaidOut
<1>9. \A i \in 1 .. n : \A j \in 1 .. Len(PartOf(blocks, i)) :
        l[e[i - 1] + j] = PartOf(blocks, i)[j]
  <2>1. \A i \in 1 .. n : \A j \in 1 .. Len(seqs[i]) : l[e[i - 1] + j] = seqs[i][j]
    BY <1>2, <1>5 DEF LaidOut
  <2>2. QED
    BY <1>3, <2>1
<1>10. \A k \in 1 .. Len(l) :
         \E i \in 1 .. n : \E j \in 1 .. Len(PartOf(blocks, i)) : k = e[i - 1] + j
  <2>1. \A k \in 1 .. Len(l) :
          \E i \in 1 .. n : \E j \in 1 .. Len(seqs[i]) : k = e[i - 1] + j
    BY <1>2, <1>5, SMTT(30) DEF LaidOut
  <2>2. QED
    BY <1>3, <2>1
<1>11. ASSUME NEW k \in 1 .. Len(l), NEW m \in 1 .. Len(l), l[k] = l[m]
       PROVE  k = m
  <2>1. PICK i \in 1 .. n : \E j \in 1 .. Len(PartOf(blocks, i)) : k = e[i - 1] + j
    BY <1>10
  <2>2. PICK j \in 1 .. Len(PartOf(blocks, i)) : k = e[i - 1] + j
    BY <2>1
  <2>3. PICK g \in 1 .. n : \E h \in 1 .. Len(PartOf(blocks, g)) : m = e[g - 1] + h
    BY <1>10
  <2>4. PICK h \in 1 .. Len(PartOf(blocks, g)) : m = e[g - 1] + h
    BY <2>3
  <2>5. l[k] = PartOf(blocks, i)[j] /\ l[m] = PartOf(blocks, g)[h]
    BY <1>9, <2>2, <2>4
  <2>6. i = g
    <3>1. PartOf(blocks, i)[j][1] = i /\ PartOf(blocks, g)[h][1] = g
      BY PartFacts
    <3>2. QED
      BY <1>11, <2>5, <3>1
  <2>7. j = h
    BY <1>11, <2>5, <2>6, PartFacts
  <2>8. QED
    BY <2>2, <2>4, <2>6, <2>7
<1>12. Len(l) \in Nat
  BY <1>7
<1>13. PartEnd(blocks, 0) = 0 /\ PartEnd(blocks, n) = Len(l)
  BY <1>1, <1>6, <1>7
<1>14. ASSUME NEW b \in 0 .. n
       PROVE  /\ PartEnd(blocks, b) \in Nat /\ PartEnd(blocks, b) <= Len(l)
              /\ \A d \in b .. n : PartEnd(blocks, b) <= PartEnd(blocks, d)
  <2>1. n \in b .. n /\ \A d \in b .. n : d \in 0 .. n
    BY <1>1
  <2>2. QED
    BY <1>6, <1>7, <1>8, <2>1
<1>15. ASSUME NEW b \in 1 .. n
       PROVE  /\ PartEnd(blocks, b) = PartEnd(blocks, b - 1) + Len(PartOf(blocks, b))
              /\ \A j \in 1 .. Len(PartOf(blocks, b)) :
                   l[PartEnd(blocks, b - 1) + j] = PartOf(blocks, b)[j]
  <2>1. b \in 0 .. n /\ b - 1 \in 0 .. n
    BY <1>1
  <2>2. PartEnd(blocks, b) = e[b] /\ PartEnd(blocks, b - 1) = e[b - 1]
    BY <1>6, <2>1
  <2>3. QED
    BY <1>7, <1>9, <2>2
<1>16. QED
  BY <1>1, <1>7, <1>11, <1>12, <1>13, <1>14, <1>15 DEF StreamLaid, l

(* Places of bytes, and the places at which units begin.                   *)
LEMMA PlaceIs ==
  ASSUME NEW stream, NEW i \in 1 .. Len(stream), stream \in Seq(Bytes),
         \A k, j \in 1 .. Len(stream) : stream[k] = stream[j] => k = j
  PROVE  PlaceOf(stream, stream[i]) = i
<1>1. DOMAIN stream = 1 .. Len(stream)
  OBVIOUS
<1>2. \E k \in DOMAIN stream : stream[k] = stream[i]
  BY <1>1
<1>3. PlaceOf(stream, stream[i]) \in DOMAIN stream /\ stream[PlaceOf(stream, stream[i])] = stream[i]
  BY <1>2 DEF PlaceOf
<1>4. QED
  BY <1>1, <1>3

FirstOf(blocks, b) == PartEnd(blocks, b - 1) + 1

LEMMA BeginningFacts ==
  ASSUME NEW blocks \in Seq(BlockTypes), NEW b \in Beginnings(blocks)
  PROVE  /\ b \in Own(blocks) /\ b \in 1 .. Len(blocks)
         /\ UnitOf(blocks, b) # None /\ blocks[UnitOf(blocks, b)].good
         /\ PartOf(blocks, b) = Carries(blocks, b)
         /\ 1 \in 1 .. Len(Carries(blocks, b))
         /\ FirstOf(blocks, b) \in 1 .. Len(Stream(blocks))
         /\ FirstOf(blocks, b) <= PartEnd(blocks, b)
         /\ Stream(blocks)[FirstOf(blocks, b)] = Carries(blocks, b)[1]
         /\ Stream(blocks)[FirstOf(blocks, b)][1] = b
<1> DEFINE s == Stream(blocks)
           c == Carries(blocks, b)
<1>1. /\ b \in Own(blocks) /\ UnitOf(blocks, b) # None /\ blocks[UnitOf(blocks, b)].good
      /\ c # << >>
  BY DEF Beginnings
<1>2. b \in 1 .. Len(blocks) /\ b \in Nat
  BY <1>1, LenNat
<1>3. PartOf(blocks, b) = c
  BY <1>2 DEF PartOf
<1>4. c \in Seq(Bytes)
  BY <1>2, CarriesFacts
<1>5. Len(c) \in Nat /\ Len(c) > 0
  BY <1>1, <1>4
<1>6. 1 \in 1 .. Len(c)
  BY <1>5
<1>7. StreamLaid(blocks, s)
  BY StreamFacts
<1> HIDE DEF s, c
<1>8. b \in 0 .. Len(blocks) /\ b - 1 \in 0 .. Len(blocks)
  BY <1>2
<1>9. /\ PartEnd(blocks, b - 1) \in Nat /\ PartEnd(blocks, b) <= Len(s)
      /\ PartEnd(blocks, b) = PartEnd(blocks, b - 1) + Len(c)
      /\ s[PartEnd(blocks, b - 1) + 1] = c[1] /\ Len(s) \in Nat
  BY <1>2, <1>3, <1>6, <1>7, <1>8 DEF StreamLaid
<1>10. FirstOf(blocks, b) \in 1 .. Len(s) /\ FirstOf(blocks, b) <= PartEnd(blocks, b)
  BY <1>5, <1>9 DEF FirstOf
<1>11. c[1][1] = b
  BY <1>2, <1>6, CarriesFacts DEF c
<1>12. QED
  BY <1>1, <1>2, <1>3, <1>6, <1>9, <1>10, <1>11 DEF FirstOf, s, c

LEMMA UnitPlaces ==
  ASSUME NEW blocks \in Seq(BlockTypes)
  PROVE  {PlaceOf(Stream(blocks), Carries(blocks, b)[1]) : b \in Beginnings(blocks)} =
           {FirstOf(blocks, b) : b \in Beginnings(blocks)}
<1>1. \A b \in Beginnings(blocks) :
        PlaceOf(Stream(blocks), Carries(blocks, b)[1]) = FirstOf(blocks, b)
  <2> TAKE b \in Beginnings(blocks)
  <2>1. /\ FirstOf(blocks, b) \in 1 .. Len(Stream(blocks))
        /\ Stream(blocks)[FirstOf(blocks, b)] = Carries(blocks, b)[1]
    BY BeginningFacts
  <2>2. StreamLaid(blocks, Stream(blocks))
    BY StreamFacts
  <2>3. PlaceOf(Stream(blocks), Stream(blocks)[FirstOf(blocks, b)]) = FirstOf(blocks, b)
    BY <2>1, <2>2, PlaceIs DEF StreamLaid
  <2>4. QED
    BY <2>1, <2>3
<1>2. QED
  BY <1>1

-----------------------------------------------------------------------------
(* The places at which the reader of a transport stream looks.             *)
SearchPlaces(cells, n) ==
  {Search} \cup {k \in 0 .. Search - 1 : MarksFollow(cells, n, n + k)}

LEMMA SearchEndsFacts ==
  ASSUME NEW cells, NEW n
  PROVE  SearchEnds(cells, n) \in 0 .. Search /\ Search \in Nat /\ Search <= Window
<1>1. Search \in Nat /\ Search <= Window
  BY TsFileAssumption
<1>2. SearchPlaces(cells, n) \subseteq Nat /\ SearchPlaces(cells, n) # {}
  BY <1>1 DEF SearchPlaces
<1>3. SearchEnds(cells, n) \in SearchPlaces(cells, n)
  <2>1. Min(SearchPlaces(cells, n)) \in SearchPlaces(cells, n)
    BY <1>2, MinFacts
  <2>2. QED
    BY <2>1 DEF SearchEnds, SearchPlaces
<1>4. QED
  BY <1>1, <1>3 DEF SearchPlaces

GoesTo(blocks, cells, places, n) ==
  (n < Len(cells) /\ OwnBegins(blocks, cells, n)) \/ Behind(cells, places, n)

LookedClosed(blocks, cells, places) ==
  /\ places \subseteq 0 .. Len(cells) /\ 0 \in places
  /\ \A n \in 0 .. Len(cells) - 1 : OwnBegins(blocks, cells, n) => n \in places
  /\ \A m \in places : LooksLikePacket(cells, m) => m + PacketSize \in places
  /\ \A m \in places : MaySearch(cells, places, m) => m + SearchEnds(cells, m) \in places

LEMMA LookedFacts ==
  ASSUME NEW blocks, NEW cells, Len(cells) \in Nat
  PROVE  LookedClosed(blocks, cells, Looked(blocks, cells))
<1> DEFINE N == Len(cells)
           S == SUBSET Nat
           step == [x \in S \X (1 .. N) |->
                      IF GoesTo(blocks, cells, x[1], x[2]) THEN x[1] \cup {x[2]} ELSE x[1]]
           Rec(f) == [n \in 0 .. N |->
                        IF n = 0 THEN {0}
                        ELSE IF GoesTo(blocks, cells, f[n - 1], n) THEN f[n - 1] \cup {n}
                        ELSE f[n - 1]]
           upto == CHOOSE f : f = Rec(f)
           L == Looked(blocks, cells)
<1>1. ASSUME NEW x \in S, NEW n \in 1 .. N
      PROVE  /\ step[<<x, n>>] = IF GoesTo(blocks, cells, x, n) THEN x \cup {n} ELSE x
             /\ step[<<x, n>>] \in S
  <2>1. step[<<x, n>>] = IF GoesTo(blocks, cells, x, n) THEN x \cup {n} ELSE x
    OBVIOUS
  <2> HIDE DEF step
  <2>2. QED
    BY <2>1
<1> HIDE DEF step
<1>2. Steps(step, S, N)
  BY <1>1 DEF Steps
<1>3. {0} \in S
  OBVIOUS
<1>4. Reached({0}, step, S, N)
  <2> HIDE DEF S
  <2>1. QED
    BY <1>2, <1>3, Recursion
<1>5. PICK f \in [0 .. N -> S] :
        f[0] = {0} /\ \A n \in 1 .. N : f[n] = step[<<f[n - 1], n>>]
  BY <1>4 DEF Reached
<1>6. f = Rec(f)
  <2>1. ASSUME NEW n \in 0 .. N
        PROVE  f[n] = IF n = 0 THEN {0}
                      ELSE IF GoesTo(blocks, cells, f[n - 1], n) THEN f[n - 1] \cup {n}
                      ELSE f[n - 1]
    <3>1. CASE n = 0
      BY <1>5, <3>1
    <3>2. CASE n # 0
      <4>1. n \in 1 .. N /\ n - 1 \in 0 .. N
        BY <3>2
      <4>2. f[n - 1] \in S
        BY <4>1
      <4>3. QED
        BY <1>1, <1>5, <3>2, <4>1, <4>2
    <3>3. QED
      BY <3>1, <3>2
  <2>2. f = [n \in 0 .. N |-> f[n]]
    OBVIOUS
  <2>3. QED
    BY <2>1, <2>2
<1>7. upto = Rec(upto)
  <2> HIDE DEF Rec
  <2>1. QED
    BY <1>6
<1>8. L = upto[N]
  BY DEF Looked, GoesTo
<1> HIDE DEF upto
<1>9. /\ upto[0] = {0}
      /\ \A n \in 1 .. N :
           upto[n] = IF GoesTo(blocks, cells, upto[n - 1], n) THEN upto[n - 1] \cup {n}
                     ELSE upto[n - 1]
  <2>1. \A n \in 0 .. N :
          upto[n] = IF n = 0 THEN {0}
                    ELSE IF GoesTo(blocks, cells, upto[n - 1], n) THEN upto[n - 1] \cup {n}
                    ELSE upto[n - 1]
    BY <1>7
  <2>2. 0 \in 0 .. N /\ \A n \in 1 .. N : n \in 0 .. N /\ n # 0
    OBVIOUS
  <2>3. upto[0] = {0}
    BY <2>1, <2>2
  <2>4. ASSUME NEW n \in 1 .. N
        PROVE  upto[n] = IF GoesTo(blocks, cells, upto[n - 1], n) THEN upto[n - 1] \cup {n}
                         ELSE upto[n - 1]
    <3>1. n \in 0 .. N /\ n # 0
      BY <2>2
    <3>2. QED
      BY <2>1, <3>1
  <2>5. QED
    BY <2>3, <2>4
<1> HIDE DEF Rec, L
<1> DEFINE P == {n \in Nat : n <= N => upto[n] \subseteq 0 .. n}
           Q == {n \in Nat : n <= N =>
                   \A m \in 0 .. n : \A k \in 0 .. m : k \in upto[n] <=> k \in upto[m]}
<1>10. P = Nat
  <2>1. 0 \in P
    BY <1>9
  <2>2. ASSUME NEW n \in P
        PROVE  n + 1 \in P
    <3>1. CASE n + 1 <= N
      <4>1. n \in Nat /\ n <= N /\ n + 1 \in 1 .. N /\ (n + 1) - 1 = n
        BY <3>1
      <4>2. upto[n] \subseteq 0 .. n
        BY <4>1
      <4>3. upto[n + 1] \subseteq upto[n] \cup {n + 1}
        BY <1>9, <4>1
      <4>4. \A k \in upto[n + 1] : k \in 0 .. n + 1
        <5> TAKE k \in upto[n + 1]
        <5>1. k \in 0 .. n \/ k = n + 1
          BY <4>2, <4>3
        <5>2. QED
          BY <4>1, <5>1
      <4>5. QED
        BY <4>1, <4>4
    <3>2. CASE ~(n + 1 <= N)
      BY <3>2
    <3>3. QED
      BY <3>1, <3>2
  <2> HIDE DEF P
  <2>3. P \subseteq Nat
    BY DEF P
  <2>4. QED
    BY <2>1, <2>2, <2>3, Induction
<1>11. Q = Nat
  <2>1. 0 \in Q
    OBVIOUS
  <2>2. ASSUME NEW n \in Q
        PROVE  n + 1 \in Q
    <3>1. CASE n + 1 <= N
      <4>1. n \in Nat /\ n <= N /\ n + 1 \in 1 .. N /\ (n + 1) - 1 = n
        BY <3>1
      <4>2. \A m \in 0 .. n : \A k \in 0 .. m : k \in upto[n] <=> k \in upto[m]
        BY <4>1
      <4>3. \A k \in 0 .. n : k \in upto[n + 1] <=> k \in upto[n]
        <5>1. \A k \in 0 .. n : k # n + 1
          BY <4>1
        <5>2. upto[n + 1] = upto[n] \cup {n + 1} \/ upto[n + 1] = upto[n]
          BY <1>9, <4>1
        <5>3. QED
          BY <5>1, <5>2
      <4>4. ASSUME NEW m \in 0 .. n + 1, NEW k \in 0 .. m
            PROVE  k \in upto[n + 1] <=> k \in upto[m]
        <5>1. CASE m = n + 1
          BY <5>1
        <5>2. CASE m # n + 1
          <6>1. m \in 0 .. n /\ k \in 0 .. n
            BY <4>1, <5>2
          <6>2. QED
            BY <4>2, <4>3, <6>1
        <5>3. QED
          BY <5>1, <5>2
      <4>5. QED
        BY <4>1, <4>4
    <3>2. CASE ~(n + 1 <= N)
      BY <3>2
    <3>3. QED
      BY <3>1, <3>2
  <2> HIDE DEF Q
  <2>3. Q \subseteq Nat
    BY DEF Q
  <2>4. QED
    BY <2>1, <2>2, <2>3, Induction
<1>12. N \in P /\ N \in Q
  BY <1>10, <1>11
<1>13. L \subseteq 0 .. N
  BY <1>8, <1>12
<1>14. \A m \in 0 .. N : \A k \in 0 .. m : k \in L <=> k \in upto[m]
  BY <1>8, <1>12
<1> HIDE DEF P, Q
<1>15. 0 \in L
  <2>1. 0 \in 0 .. N /\ 0 \in 0 .. 0
    OBVIOUS
  <2>2. QED
    BY <1>9, <1>14, <2>1
<1>16. ASSUME NEW n \in 1 .. N, GoesTo(blocks, cells, upto[n - 1], n)
       PROVE  n \in L
  <2>1. n \in upto[n]
    BY <1>9, <1>16
  <2>2. n \in 0 .. N /\ n \in 0 .. n
    OBVIOUS
  <2>3. QED
    BY <1>14, <2>1, <2>2
<1>17. ASSUME NEW n \in 0 .. N - 1, OwnBegins(blocks, cells, n)
       PROVE  n \in L
  <2>1. CASE n = 0
    BY <1>15, <2>1
  <2>2. CASE n # 0
    <3>1. n \in 1 .. N /\ n < Len(cells)
      BY <2>2
    <3>2. GoesTo(blocks, cells, upto[n - 1], n)
      BY <1>17, <3>1 DEF GoesTo
    <3>3. QED
      BY <1>16, <3>1, <3>2
  <2>3. QED
    BY <2>1, <2>2
<1>18. ASSUME NEW m \in L, LooksLikePacket(cells, m)
       PROVE  m + PacketSize \in L
  <2>1. m \in 0 .. N /\ m + PacketSize <= N /\ PacketSize \in Nat \ {0}
    BY <1>13, <1>18, TsFileAssumption DEF LooksLikePacket
  <2> DEFINE n == m + PacketSize
  <2>2. n \in 1 .. N /\ n - 1 \in 0 .. N /\ m \in 0 .. n - 1
    BY <2>1
  <2>3. m \in upto[n - 1]
    BY <1>14, <2>2
  <2>4. Behind(cells, upto[n - 1], n)
    BY <1>18, <2>3 DEF Behind
  <2>5. GoesTo(blocks, cells, upto[n - 1], n)
    BY <2>4 DEF GoesTo
  <2> HIDE DEF n
  <2>6. n \in L
    BY <1>16, <2>2, <2>5
  <2>7. QED
    BY <2>6 DEF n
<1>19. ASSUME NEW m \in L, MaySearch(cells, L, m)
       PROVE  m + SearchEnds(cells, m) \in L
  <2>1. /\ m \in 0 .. N /\ m + Window <= N /\ Window \in Nat
        /\ SearchEnds(cells, m) \in 0 .. Search /\ Search \in Nat /\ Search <= Window
    BY <1>13, <1>19, SearchEndsFacts, TsFileAssumption DEF MaySearch
  <2>2. CASE SearchEnds(cells, m) = 0
    BY <2>1, <2>2
  <2>3. CASE SearchEnds(cells, m) # 0
    <3> DEFINE n == m + SearchEnds(cells, m)
    <3>1. n \in 1 .. N /\ n - 1 \in 0 .. N /\ m \in 0 .. n - 1
      BY <2>1, <2>3
    <3>2. m \in upto[n - 1]
      BY <1>14, <3>1
    <3>3. m - Search \in L => m - Search \in upto[n - 1]
      <4> HAVE m - Search \in L
      <4>1. m - Search \in 0 .. N
        BY <1>13
      <4>2. m - Search \in 0 .. n - 1
        BY <2>1, <3>1, <4>1
      <4>3. QED
        BY <1>14, <3>1, <4>2
    <3>4. MaySearch(cells, upto[n - 1], m)
      BY <1>19, <3>3 DEF MaySearch
    <3>5. Behind(cells, upto[n - 1], n)
      BY <3>2, <3>4 DEF Behind
    <3>6. GoesTo(blocks, cells, upto[n - 1], n)
      BY <3>5 DEF GoesTo
    <3> HIDE DEF n
    <3>7. n \in L
      BY <1>16, <3>1, <3>6
    <3>8. QED
      BY <3>7 DEF n
  <2>4. QED
    BY <2>2, <2>3
<1>20. QED
  BY <1>13, <1>15, <1>17, <1>18, <1>19 DEF LookedClosed, L

-----------------------------------------------------------------------------
(* A recording that was opened, and where its reader stands in it.         *)
FileFacts(f) ==
  /\ f.ts \in BOOLEAN /\ f.audio \in BOOLEAN /\ f.blocks \in Seq(BlockTypes)
  /\ \A b \in Own(f.blocks) : PacketOK(f, f.blocks[b])
  /\ f.ts => Recognised(f.blocks, f.cells)
  /\ f.audio => SoundOK(f.blocks, f.stream)
  /\ f.cells = Cells(f.blocks) /\ f.stream = Stream(f.blocks)
  /\ f.units = {FirstOf(f.blocks, b) : b \in Beginnings(f.blocks)}

LEMMA OpenedFacts ==
  ASSUME NEW g \in Files
  PROVE  FileFacts(Opened(g))
<1> DEFINE f == Opened(g)
<1>1. FileOK(g)
  BY RecordingAssumption
<1>2. /\ f.ts = g.ts /\ f.audio = g.audio /\ f.blocks = g.blocks
      /\ f.cells = Cells(g.blocks) /\ f.stream = Stream(g.blocks)
      /\ f.units = {PlaceOf(Stream(g.blocks), Carries(g.blocks, b)[1]) :
                      b \in Beginnings(g.blocks)}
  BY DEF Opened
<1> HIDE DEF f
<1>3. g.ts \in BOOLEAN /\ g.audio \in BOOLEAN /\ g.blocks \in Seq(BlockTypes)
  BY <1>1 DEF FileOK
<1>4. f.units = {FirstOf(g.blocks, b) : b \in Beginnings(g.blocks)}
  BY <1>2, <1>3, UnitPlaces
<1>5. \A b \in Own(f.blocks) : PacketOK(f, f.blocks[b])
  BY <1>1, <1>2 DEF FileOK, PacketOK
<1>6. f.ts => Recognised(f.blocks, f.cells)
  BY <1>1, <1>2 DEF FileOK
<1>7. f.audio => SoundOK(f.blocks, f.stream)
  BY <1>1, <1>2 DEF FileOK
<1>8. QED
  BY <1>2, <1>3, <1>4, <1>5, <1>6, <1>7 DEF FileFacts, f

LEMMA FileLaid ==
  ASSUME NEW f, FileFacts(f)
  PROVE  /\ CellsLaid(f.blocks, f.cells) /\ StreamLaid(f.blocks, f.stream)
         /\ f.blocks \in Seq(BlockTypes) /\ Len(f.cells) \in Nat
         /\ Len(f.blocks) \in Nat /\ f.stream \in Seq(Bytes) /\ Len(f.stream) \in Nat
<1>1. CellsLaid(f.blocks, f.cells) /\ StreamLaid(f.blocks, f.stream)
  BY CellsFacts, StreamFacts DEF FileFacts
<1>2. f.blocks \in Seq(BlockTypes)
  BY DEF FileFacts
<1>3. f.cells \in Seq(CellTypes)
  BY <1>1 DEF CellsLaid
<1>4. QED
  BY <1>1, <1>2, <1>3 DEF CellsLaid, StreamLaid

LEMMA OwnPlace ==
  ASSUME NEW f, FileFacts(f), NEW b \in Own(f.blocks)
  PROVE  /\ b \in 1 .. Len(f.blocks) /\ b \in Nat
         /\ SizeOf(f.blocks, b) \in Nat /\ SizeOf(f.blocks, b) > 0
         /\ Begin(f.blocks, b) \in Nat /\ Begin(f.blocks, b) \in 0 .. Len(f.cells) - 1
         /\ Begin(f.blocks, b) + SizeOf(f.blocks, b) <= Len(f.cells)
         /\ f.cells[Begin(f.blocks, b) + 1].block = b
         /\ f.cells[Begin(f.blocks, b) + 1].nr = 1
         /\ f.cells[Begin(f.blocks, b) + 1].sync
         /\ \A d \in Own(f.blocks) : b < d =>
              Begin(f.blocks, b) + SizeOf(f.blocks, b) <= Begin(f.blocks, d)
         /\ f.ts => SizeOf(f.blocks, b) = PacketSize
<1> DEFINE bl == f.blocks
<1>1. bl \in Seq(BlockTypes) /\ CellsLaid(bl, f.cells) /\ Len(f.cells) \in Nat
  BY FileLaid
<1>2. b \in 1 .. Len(bl) /\ b \in Nat /\ Len(bl) \in Nat
  BY <1>1, LenNat
<1>3. PacketOK(f, bl[b])
  BY DEF FileFacts
<1>4. SizeOf(bl, b) \in Nat /\ SizeOf(bl, b) > 0
  <2>1. bl[b].cells # << >>
    BY <1>3 DEF PacketOK
  <2>2. bl[b] \in BlockTypes
    BY <1>1, <1>2
  <2>3. bl[b].cells \in Seq({0, 1})
    BY <2>2 DEF BlockTypes
  <2>4. Len(bl[b].cells) \in Nat /\ Len(bl[b].cells) > 0
    BY <2>1, <2>3
  <2>5. QED
    BY <2>4 DEF SizeOf
<1>5. /\ Begin(bl, b) \in Nat /\ Begin(bl, b) + SizeOf(bl, b) <= Len(f.cells)
      /\ f.cells[Begin(bl, b) + 1].block = b
      /\ f.cells[Begin(bl, b) + 1].nr = 1
      /\ f.cells[Begin(bl, b) + 1].sync <=> bl[b].cells[1] = 1
      /\ \A d \in b + 1 .. Len(bl) : Begin(bl, b) + SizeOf(bl, b) <= Begin(bl, d)
  BY <1>1, <1>2, <1>4 DEF CellsLaid
<1>6. bl[b].cells[1] = 1 /\ (f.ts => SizeOf(bl, b) = PacketSize)
  BY <1>3 DEF PacketOK, SizeOf
<1>7. Begin(bl, b) \in 0 .. Len(f.cells) - 1
  BY <1>1, <1>4, <1>5
<1>8. ASSUME NEW d \in Own(bl), b < d
      PROVE  Begin(bl, b) + SizeOf(bl, b) <= Begin(bl, d)
  <2>1. d \in 1 .. Len(bl)
    BY <1>1, LenNat
  <2>2. d \in b + 1 .. Len(bl)
    BY <1>2, <1>8, <2>1
  <2>3. QED
    BY <1>5, <2>2
<1>9. QED
  BY <1>2, <1>4, <1>5, <1>6, <1>7, <1>8

LEMMA OwnBeginsIs ==
  ASSUME NEW f, FileFacts(f), NEW n \in 0 .. Len(f.cells) - 1
  PROVE  /\ f.cells[n + 1].block \in 1 .. Len(f.blocks)
         /\ f.cells[n + 1].nr = 1 => Begin(f.blocks, f.cells[n + 1].block) = n
         /\ OwnBegins(f.blocks, f.cells, n) <=>
              \E b \in Own(f.blocks) : Begin(f.blocks, b) = n
<1> DEFINE bl == f.blocks
           d == f.cells[n + 1].block
<1>1. bl \in Seq(BlockTypes) /\ CellsLaid(bl, f.cells) /\ Len(f.cells) \in Nat
  BY FileLaid
<1>2. /\ d \in 1 .. Len(bl) /\ f.cells[n + 1].nr \in Nat
      /\ n = (Begin(bl, d) + f.cells[n + 1].nr) - 1
  BY <1>1 DEF CellsLaid
<1>3. Begin(bl, d) \in Nat
  BY <1>1, <1>2 DEF CellsLaid
<1>4. f.cells[n + 1].nr = 1 => Begin(bl, d) = n
  BY <1>2, <1>3
<1>5. ASSUME OwnBegins(bl, f.cells, n)
      PROVE  d \in Own(bl) /\ f.cells[n + 1].nr = 1
  <2>1. bl[d].own /\ f.cells[n + 1].nr = 1
    BY <1>5 DEF OwnBegins
  <2>2. d \in DOMAIN bl
    BY <1>1, <1>2
  <2>3. QED
    BY <2>1, <2>2 DEF Own
<1>6. ASSUME NEW b \in Own(bl), Begin(bl, b) = n
      PROVE  OwnBegins(bl, f.cells, n)
  <2>1. f.cells[n + 1].block = b /\ f.cells[n + 1].nr = 1
    BY <1>6, OwnPlace
  <2>2. bl[b].own
    BY DEF Own
  <2>3. QED
    BY <2>1, <2>2 DEF OwnBegins
<1>7. QED
  BY <1>2, <1>4, <1>5, <1>6

(* The last block of the stream that begins in front of a place.           *)
BegunBefore(blocks, n) == {b \in Own(blocks) : Begin(blocks, b) < n}

LastOwn(blocks, n) == Max({0} \cup BegunBefore(blocks, n))

Rest(blocks, n) == \E b \in Own(blocks) : n <= Begin(blocks, b)

LEMMA LastOwnIs ==
  ASSUME NEW f, FileFacts(f), NEW n \in Nat
  PROVE  LET c == LastOwn(f.blocks, n)
         IN  /\ c \in {0} \cup BegunBefore(f.blocks, n) /\ c \in 0 .. Len(f.blocks)
             /\ \A b \in BegunBefore(f.blocks, n) : b <= c
<1> DEFINE S == {0} \cup BegunBefore(f.blocks, n)
<1>1. \A b \in BegunBefore(f.blocks, n) : b \in 1 .. Len(f.blocks)
  BY OwnPlace DEF BegunBefore
<1>2. Len(f.blocks) \in Nat
  BY FileLaid
<1>3. S \subseteq 0 .. Len(f.blocks) /\ S # {}
  BY <1>1, <1>2
<1> HIDE DEF S
<1>4. Max(S) \in S /\ \A x \in S : x <= Max(S)
  BY <1>2, <1>3, MaxFacts
<1>5. LastOwn(f.blocks, n) = Max(S)
  BY DEF LastOwn, S
<1>6. LastOwn(f.blocks, n) \in 0 .. Len(f.blocks)
  BY <1>3, <1>4, <1>5
<1>7. QED
  BY <1>4, <1>5, <1>6 DEF S

LEMMA LastOwnSame ==
  ASSUME NEW blocks, NEW n, NEW m,
         \A b \in Own(blocks) : Begin(blocks, b) < n <=> Begin(blocks, b) < m
  PROVE  LastOwn(blocks, n) = LastOwn(blocks, m)
<1>1. BegunBefore(blocks, n) = BegunBefore(blocks, m)
  BY DEF BegunBefore
<1>2. QED
  BY <1>1 DEF LastOwn

LEMMA LastOwnNext ==
  ASSUME NEW f, FileFacts(f), NEW b \in Own(f.blocks), NEW m \in Nat,
         Begin(f.blocks, b) < m, m <= Begin(f.blocks, b) + SizeOf(f.blocks, b)
  PROVE  /\ NextOwn(f.blocks, LastOwn(f.blocks, Begin(f.blocks, b)), b)
         /\ LastOwn(f.blocks, m) = b
<1> DEFINE bl == f.blocks
           n == Begin(bl, b)
           c == LastOwn(bl, n)
<1>1. /\ b \in Nat /\ n \in Nat /\ SizeOf(bl, b) \in Nat
      /\ \A d \in Own(bl) : b < d => n + SizeOf(bl, b) <= Begin(bl, d)
  BY OwnPlace
<1>2. ASSUME NEW d \in Own(bl), d < b
      PROVE  Begin(bl, d) < n
  <2>1. /\ SizeOf(bl, d) \in Nat /\ SizeOf(bl, d) > 0 /\ Begin(bl, d) \in Nat
        /\ Begin(bl, d) + SizeOf(bl, d) <= n
    BY <1>2, OwnPlace
  <2>2. QED
    BY <1>1, <2>1
<1>3. \A d \in Own(bl) : d \in Nat /\ Begin(bl, d) \in Nat
  BY OwnPlace
<1>4. /\ c \in {0} \cup BegunBefore(bl, n) /\ c \in Nat
      /\ \A d \in BegunBefore(bl, n) : d <= c
  <2>1. Len(bl) \in Nat
    BY FileLaid
  <2>2. /\ c \in {0} \cup BegunBefore(bl, n) /\ c \in 0 .. Len(bl)
        /\ \A d \in BegunBefore(bl, n) : d <= c
    BY <1>1, LastOwnIs
  <2>3. QED
    BY <2>1, <2>2
<1>5. c < b
  <2>1. CASE c = 0
    <3>1. b # 0
      BY OwnPlace
    <3>2. QED
      BY <1>1, <2>1, <3>1
  <2>2. CASE c \in BegunBefore(bl, n)
    <3>1. c \in Own(bl) /\ Begin(bl, c) < n
      BY <2>2 DEF BegunBefore
    <3>2. c # b
      BY <1>1, <3>1
    <3>3. ~(b < c)
      <4>1. b < c => n + SizeOf(bl, b) <= Begin(bl, c)
        BY <1>1, <3>1
      <4>2. Begin(bl, c) \in Nat /\ Begin(bl, c) < n
        BY <1>3, <3>1
      <4> HIDE DEF c, n
      <4>3. QED
        BY <1>1, <4>1, <4>2
    <3>4. QED
      BY <1>1, <1>4, <3>2, <3>3
  <2>3. QED
    BY <1>4, <2>1, <2>2
<1>6. ASSUME NEW d \in Own(bl)
      PROVE  d <= c \/ b <= d
  <2>1. d < b => d \in BegunBefore(bl, n)
    BY <1>2 DEF BegunBefore
  <2>2. d < b \/ b <= d
    BY <1>1, <1>3
  <2>3. QED
    BY <1>4, <2>1, <2>2
<1>7. c \in {0} \cup Own(bl)
  BY <1>4 DEF BegunBefore
<1>8. NextOwn(bl, c, b)
  BY <1>5, <1>6, <1>7 DEF NextOwn
<1>9. LastOwn(bl, m) = b
  <2> DEFINE l == LastOwn(bl, m)
  <2>1. /\ l \in {0} \cup BegunBefore(bl, m) /\ l \in Nat
        /\ \A d \in BegunBefore(bl, m) : d <= l
    BY LastOwnIs
  <2> HIDE DEF l
  <2>2. b <= l
    BY <2>1 DEF BegunBefore
  <2>3. l # 0
    <3>1. b \in 1 .. Len(bl)
      BY OwnPlace
    <3>2. QED
      BY <1>1, <2>1, <2>2, <3>1
  <2>4. l \in Own(bl) /\ Begin(bl, l) < m
    BY <2>1, <2>3 DEF BegunBefore
  <2>5. ~(b < l)
    <3>1. b < l => n + SizeOf(bl, b) <= Begin(bl, l)
      BY <1>1, <2>4
    <3>2. QED
      BY <1>1, <1>3, <2>4, <3>1
  <2>6. QED
    BY <1>1, <2>1, <2>2, <2>5 DEF l
<1>10. QED
  BY <1>8, <1>9

(* Passing what is not of the stream changes nothing, or there is nothing  *)
(* of the stream left.                                                     *)
LEMMA Passed ==
  ASSUME NEW f, FileFacts(f), NEW n \in Nat, NEW m \in Nat, n <= m, m <= Len(f.cells),
         MayPass(f.blocks, f.cells, n, m), Rest(f.blocks, m)
  PROVE  LastOwn(f.blocks, m) = LastOwn(f.blocks, n) /\ Rest(f.blocks, n)
<1> DEFINE bl == f.blocks
<1>1. Len(f.cells) \in Nat
  BY FileLaid
<1>2. PICK r \in Own(bl) : m <= Begin(bl, r)
  BY DEF Rest
<1>3. Begin(bl, r) \in Nat /\ Begin(bl, r) \in 0 .. Len(f.cells) - 1
  BY OwnPlace
<1>4. ~NoneBegins(bl, f.cells, m, Len(f.cells))
  <2>1. Begin(bl, r) \in m .. Len(f.cells) - 1
    BY <1>1, <1>2, <1>3
  <2>2. OwnBegins(bl, f.cells, Begin(bl, r))
    BY <1>3, OwnBeginsIs
  <2>3. QED
    BY <2>1, <2>2 DEF NoneBegins
<1>5. NoneBegins(bl, f.cells, n, m)
  BY <1>4 DEF MayPass
<1>6. ASSUME NEW b \in Own(bl)
      PROVE  Begin(bl, b) < n <=> Begin(bl, b) < m
  <2>1. Begin(bl, b) \in Nat /\ Begin(bl, b) \in 0 .. Len(f.cells) - 1
    BY OwnPlace
  <2>2. OwnBegins(bl, f.cells, Begin(bl, b))
    BY <2>1, OwnBeginsIs
  <2>3. Begin(bl, b) \notin n .. m - 1
    BY <1>5, <2>2 DEF NoneBegins
  <2>4. QED
    BY <2>1, <2>3
<1>7. LastOwn(bl, m) = LastOwn(bl, n)
  BY <1>6, LastOwnSame
<1>8. n <= Begin(bl, r)
  BY <1>2, <1>3
<1>9. QED
  BY <1>7, <1>8 DEF Rest

(* Where packets carry nothing, the stream does not grow.                   *)
LEMMA SilentParts ==
  ASSUME NEW blocks \in Seq(BlockTypes), NEW stream, StreamLaid(blocks, stream),
         NEW c \in 0 .. Len(blocks), NEW e \in c .. Len(blocks),
         \A d \in c + 1 .. e : PartOf(blocks, d) = << >>
  PROVE  PartEnd(blocks, e) = PartEnd(blocks, c)
<1> DEFINE P == {i \in Nat : c + i <= e => PartEnd(blocks, c + i) = PartEnd(blocks, c)}
<1>1. Len(blocks) \in Nat
  BY DEF StreamLaid
<1>2. 0 \in P
  BY <1>1
<1>3. ASSUME NEW i \in P
      PROVE  i + 1 \in P
  <2>1. CASE c + (i + 1) <= e
    <3> DEFINE d == c + (i + 1)
    <3>1. i \in Nat /\ c + i <= e /\ d \in c + 1 .. e /\ d \in 1 .. Len(blocks) /\ d - 1 = c + i
      BY <1>1, <2>1
    <3>2. PartEnd(blocks, c + i) = PartEnd(blocks, c)
      BY <3>1
    <3> HIDE DEF d
    <3>3. PartOf(blocks, d) = << >>
      BY <3>1
    <3>4. PartEnd(blocks, d) = PartEnd(blocks, d - 1) + Len(PartOf(blocks, d))
      BY <3>1 DEF StreamLaid
    <3>5. PartEnd(blocks, c) \in Nat /\ Len(PartOf(blocks, d)) = 0
      BY <3>3 DEF StreamLaid
    <3>6. PartEnd(blocks, d) = PartEnd(blocks, c)
      BY <3>1, <3>2, <3>4, <3>5
    <3>7. QED
      BY <3>1, <3>6 DEF d
  <2>2. CASE ~(c + (i + 1) <= e)
    BY <2>2
  <2>3. QED
    BY <2>1, <2>2
<1>4. P = Nat
  <2> HIDE DEF P
  <2>1. P \subseteq Nat
    BY DEF P
  <2>2. QED
    BY <1>2, <1>3, <2>1, Induction
<1>5. e - c \in P /\ c + (e - c) = e
  <2>1. e - c \in Nat /\ c + (e - c) = e
    BY <1>1
  <2> HIDE DEF P
  <2>2. QED
    BY <1>4, <2>1
<1>6. QED
  BY <1>1, <1>5

(* Between two packets of the stream that follow each other there is       *)
(* nothing.                                                                *)
LEMMA PartsBetween ==
  ASSUME NEW f, FileFacts(f), NEW c, NEW b, NextOwn(f.blocks, c, b)
  PROVE  /\ PartEnd(f.blocks, b - 1) = PartEnd(f.blocks, c)
         /\ c \in 0 .. Len(f.blocks) /\ b \in 1 .. Len(f.blocks) /\ c < b
<1> DEFINE bl == f.blocks
<1>1. bl \in Seq(BlockTypes) /\ StreamLaid(bl, f.stream) /\ Len(bl) \in Nat
  BY FileLaid
<1>2. c \in 0 .. Len(bl) /\ b \in 1 .. Len(bl) /\ c < b
  <2>1. b \in 1 .. Len(bl) /\ (c \in Own(bl) => c \in 1 .. Len(bl))
    BY <1>1, LenNat DEF NextOwn
  <2>2. QED
    BY <1>1, <2>1 DEF NextOwn
<1>3. ASSUME NEW d \in c + 1 .. b - 1
      PROVE  PartOf(bl, d) = << >>
  <2>1. ~(d <= c) /\ ~(b <= d)
    BY <1>2
  <2>2. d \notin Own(bl)
    BY <2>1 DEF NextOwn
  <2>3. QED
    BY <2>2 DEF Carries, PartOf
<1>4. b - 1 \in c .. Len(bl)
  BY <1>2
<1>5. PartEnd(bl, b - 1) = PartEnd(bl, c)
  BY <1>1, <1>2, <1>3, <1>4, SilentParts
<1>6. QED
  BY <1>2, <1>5

-----------------------------------------------------------------------------
(* The header of a unit that is collected.                                 *)
Needs(blocks, s) == IF blocks[s].good THEN blocks[s].hl ELSE MinHeader

Past(blocks, c) ==
  UnitOf(blocks, c) # None =>
    Needs(blocks, UnitOf(blocks, c)) <= Before(blocks, c) + blocks[c].len

StartsNext(blocks, c) == \A b : NextOwn(blocks, c, b) => blocks[b].start

HeaderState(f, s, c) ==
  IF s.header = << >> THEN Past(f.blocks, c) \/ StartsNext(f.blocks, c)
  ELSE /\ f.ts /\ UnitOf(f.blocks, c) # None
       /\ s.header \in Seq(Bytes) /\ s.header[1][1] = UnitOf(f.blocks, c)
       /\ Len(s.header) = Before(f.blocks, c) + f.blocks[c].len
       /\ ~Past(f.blocks, c)
       /\ s.nextfilepos = Begin(f.blocks, UnitOf(f.blocks, c))

HeaderAfter(s, blocks, b) ==
  IF blocks[b].start THEN BlockPayload(blocks, b)
  ELSE IF s.header # << >> THEN s.header \o BlockPayload(blocks, b) ELSE << >>

LEMMA PacketFacts ==
  ASSUME NEW f, FileFacts(f), NEW b \in Own(f.blocks)
  PROVE  /\ b \in 1 .. Len(f.blocks) /\ b \in 0 .. Len(f.blocks)
         /\ f.blocks[b].len \in Nat /\ f.blocks[b].len > 0 /\ f.blocks[b].hl \in Nat
         /\ Before(f.blocks, b) \in Nat /\ MinHeader \in Nat /\ MinHeader > 0
         /\ f.blocks[b].pts \in Nat \cup {NoPts}
         /\ f.audio /\ f.blocks[b].start /\ f.blocks[b].good => f.blocks[b].pts \in Nat
         /\ UnitOf(f.blocks, b) # None =>
              /\ UnitOf(f.blocks, b) \in Own(f.blocks)
              /\ f.blocks[UnitOf(f.blocks, b)].start
              /\ f.blocks[UnitOf(f.blocks, b)].hl \in Nat
              /\ Needs(f.blocks, UnitOf(f.blocks, b)) \in Nat
              /\ Needs(f.blocks, UnitOf(f.blocks, b)) > 0
              /\ f.ts => MinHeader <= Needs(f.blocks, UnitOf(f.blocks, b))
<1> DEFINE bl == f.blocks
           u == UnitOf(bl, b)
<1>1. bl \in Seq(BlockTypes)
  BY FileLaid
<1>2. b \in 1 .. Len(bl) /\ bl[b].len \in Nat /\ bl[b].hl \in Nat /\ bl[b] \in BlockTypes
  BY <1>1, LenNat
<1>3. b \in 0 .. Len(bl)
  BY <1>1, <1>2
<1>4. PacketOK(f, bl[b])
  BY DEF FileFacts
<1>5. bl[b].len > 0
  BY <1>4 DEF PacketOK
<1>6. MinHeader \in Nat /\ MinHeader > 0
  BY RecordingAssumption
<1>7. Before(bl, b) \in Nat
  BY <1>1, <1>2, InFrontFacts
<1>8. bl[b].pts \in Nat \cup {NoPts}
  BY <1>2 DEF BlockTypes
<1>9. f.audio /\ bl[b].start /\ bl[b].good => bl[b].pts \in Nat
  BY <1>4, <1>8 DEF PacketOK
<1>10. ASSUME u # None
       PROVE  /\ u \in Own(bl) /\ bl[u].start /\ bl[u].hl \in Nat
              /\ Needs(bl, u) \in Nat /\ Needs(bl, u) > 0
              /\ f.ts => MinHeader <= Needs(bl, u)
  <2>1. u \in Own(bl) /\ bl[u].start
    BY <1>1, <1>3, <1>10, UnitTypes
  <2>2. bl[u].hl \in Nat
    BY <1>1, <2>1, LenNat
  <2>3. PacketOK(f, bl[u]) /\ f.ts \in BOOLEAN
    BY <2>1 DEF FileFacts
  <2>4. bl[u].good /\ f.ts => MinHeader <= bl[u].hl
    BY <1>6, <2>1, <2>2, <2>3 DEF PacketOK
  <2>5. bl[u].good /\ ~f.ts => bl[u].hl > 0
    BY <2>3 DEF PacketOK
  <2>6. CASE bl[u].good
    <3>1. Needs(bl, u) = bl[u].hl
      BY <2>6 DEF Needs
    <3>2. bl[u].hl > 0
      BY <1>6, <2>2, <2>3, <2>4, <2>5, <2>6
    <3>3. QED
      BY <2>1, <2>2, <2>4, <2>6, <3>1, <3>2
  <2>7. CASE ~bl[u].good
    <3>1. Needs(bl, u) = MinHeader
      BY <2>7 DEF Needs
    <3>2. QED
      BY <1>6, <2>1, <2>2, <3>1
  <2>8. QED
    BY <2>6, <2>7
<1>11. QED
  BY <1>2, <1>3, <1>5, <1>6, <1>7, <1>8, <1>9, <1>10

(* A packet that goes on with a unit whose header is complete, or with     *)
(* none.                                                                   *)
LEMMA HeaderGone ==
  ASSUME NEW f, FileFacts(f), NEW c, NEW b, NextOwn(f.blocks, c, b), NEW s,
         HeaderState(f, s, c), s.header = << >>, ~f.blocks[b].start
  PROVE  /\ Past(f.blocks, b)
         /\ UnitOf(f.blocks, b) # None =>
              Carries(f.blocks, b) = BlockPayload(f.blocks, b)
<1> DEFINE bl == f.blocks
           u == UnitOf(bl, b)
<1>1. bl \in Seq(BlockTypes) /\ b \in Own(bl)
  BY FileLaid DEF NextOwn
<1>2. Past(bl, c)
  BY DEF HeaderState, StartsNext
<1>3. CASE u = None
  BY <1>3 DEF Past
<1>4. CASE u # None
  <2>1. /\ c \in Own(bl) /\ UnitOf(bl, c) = u
        /\ Before(bl, b) = Before(bl, c) + bl[c].len
    BY <1>1, <1>4, BeforeNext
  <2>2. Needs(bl, u) <= Before(bl, b)
    BY <1>2, <1>4, <2>1 DEF Past
  <2>3. /\ Before(bl, b) \in Nat /\ bl[b].len \in Nat /\ Needs(bl, u) \in Nat
        /\ b \in 1 .. Len(bl)
    BY <1>1, <1>4, PacketFacts
  <2>4. Past(bl, b)
    <3>1. Needs(bl, u) <= Before(bl, b) + bl[b].len
      BY <2>2, <2>3
    <3>2. QED
      BY <3>1 DEF Past
  <2>5. Skipped(bl, b) = 0
    <3>1. bl[u].good => ~(Before(bl, b) < bl[u].hl)
      BY <2>2, <2>3 DEF Needs
    <3>2. ~bl[u].good => ~(Before(bl, b) < MinHeader)
      BY <2>2, <2>3 DEF Needs
    <3>3. QED
      BY <1>1, <1>4, <3>1, <3>2 DEF Skipped
  <2>6. Carries(bl, b) = SubSeq(BlockPayload(bl, b), 0 + 1, bl[b].len)
    BY <1>1, <2>3, <2>5, CarriesIs
  <2>7. BlockPayload(bl, b) \in Seq(Bytes) /\ Len(BlockPayload(bl, b)) = bl[b].len
    BY <1>1, <2>3, PayloadFacts
  <2>8. Carries(bl, b) = BlockPayload(bl, b)
    BY <2>6, <2>7, SubSeqFull
  <2>9. QED
    BY <2>4, <2>8
<1>5. QED
  BY <1>3, <1>4

Growing(f, s, b, h) ==
  /\ UnitOf(f.blocks, b) # None /\ h \in Seq(Bytes)
  /\ h[1][1] = UnitOf(f.blocks, b)
  /\ Len(h) = Before(f.blocks, b) + f.blocks[b].len
  /\ Before(f.blocks, b) < Needs(f.blocks, UnitOf(f.blocks, b))
  /\ \A i \in 1 .. f.blocks[b].len :
       h[Before(f.blocks, b) + i] = BlockPayload(f.blocks, b)[i]
  /\ ~f.blocks[b].start => s.nextfilepos = Begin(f.blocks, UnitOf(f.blocks, b))
  /\ f.blocks[b].start => UnitOf(f.blocks, b) = b

LEMMA HeaderGrows ==
  ASSUME NEW f, FileFacts(f), f.ts, NEW c, NEW b, NextOwn(f.blocks, c, b), NEW s,
         HeaderState(f, s, c), f.blocks[b].start \/ s.header # << >>
  PROVE  Growing(f, s, b, HeaderAfter(s, f.blocks, b))
<1> DEFINE bl == f.blocks
           u == UnitOf(bl, b)
           p == BlockPayload(bl, b)
           h == HeaderAfter(s, bl, b)
<1>1. bl \in Seq(BlockTypes) /\ b \in Own(bl)
  BY FileLaid DEF NextOwn
<1>2. /\ b \in 1 .. Len(bl) /\ bl[b].len \in Nat /\ bl[b].len > 0
      /\ Before(bl, b) \in Nat /\ MinHeader \in Nat /\ b \in Nat
  BY <1>1, PacketFacts
<1>3. /\ p \in Seq(Bytes) /\ Len(p) = bl[b].len
      /\ \A i \in 1 .. bl[b].len : p[i][1] = b
  BY <1>1, <1>2, PayloadFacts
<1>4. CASE bl[b].start
  <2>1. u = b /\ Before(bl, b) = 0
    BY <1>1, <1>4, UnitBegins, NothingBefore
  <2>2. u # None
    BY <1>2, <2>1 DEF None
  <2>3. Needs(bl, u) > 0 /\ Needs(bl, u) \in Nat
    BY <1>1, <2>2, PacketFacts
  <2>4. h = p
    BY <1>4 DEF HeaderAfter
  <2>5. p[1][1] = b
    BY <1>2, <1>3
  <2>6. \A i \in 1 .. bl[b].len : 0 + i = i
    BY <1>2
  <2>7. Len(p) = 0 + bl[b].len
    BY <1>2, <1>3
  <2> HIDE DEF h, p, u
  <2>8. /\ u # None /\ h \in Seq(Bytes) /\ h[1][1] = u
        /\ Len(h) = Before(bl, b) + bl[b].len /\ Before(bl, b) < Needs(bl, u)
        /\ \A i \in 1 .. bl[b].len : h[Before(bl, b) + i] = p[i]
    BY <1>3, <2>1, <2>2, <2>3, <2>4, <2>5, <2>6, <2>7
  <2>9. QED
    BY <1>4, <2>1, <2>8 DEF Growing, h, p, u
<1>5. CASE ~bl[b].start
  <2>1. /\ UnitOf(bl, c) # None /\ s.header \in Seq(Bytes)
        /\ s.header[1][1] = UnitOf(bl, c)
        /\ Len(s.header) = Before(bl, c) + bl[c].len /\ ~Past(bl, c)
        /\ s.nextfilepos = Begin(bl, UnitOf(bl, c))
    BY <1>5 DEF HeaderState
  <2>2. u = UnitOf(bl, c)
    BY <1>1, <1>5, UnitGoesOn
  <2>3. c \in Own(bl) /\ Before(bl, b) = Before(bl, c) + bl[c].len
    BY <1>1, <1>5, <2>1, <2>2, BeforeNext
  <2>4. Needs(bl, u) \in Nat
    BY <1>1, <2>1, <2>2, PacketFacts
  <2>5. Before(bl, b) < Needs(bl, u)
    BY <1>2, <2>1, <2>2, <2>3, <2>4 DEF Past
  <2>6. h = s.header \o p
    BY <1>5 DEF HeaderAfter
  <2> DEFINE k == s.header
  <2>7. k \in Seq(Bytes) /\ k # << >> /\ Len(k) = Before(bl, b) /\ k[1][1] = u
    BY <1>5, <2>1, <2>2, <2>3
  <2> HIDE DEF k, p, h, u
  <2>8. /\ k \o p \in Seq(Bytes) /\ Len(k \o p) = Len(k) + Len(p)
        /\ \A i \in 1 .. Len(k) + Len(p) :
             (k \o p)[i] = IF i <= Len(k) THEN k[i] ELSE p[i - Len(k)]
    <3>1. k \in Seq(Bytes)
      BY <2>7
    <3>2. p \in Seq(Bytes)
      BY <1>3
    <3>3. QED
      BY <3>1, <3>2, ConcatProperties
  <2>9. Len(k) \in Nat /\ Len(k) > 0
    BY <2>7
  <2>10. (k \o p)[1] = k[1]
    <3>1. 1 \in 1 .. Len(k) + Len(p) /\ 1 <= Len(k)
      BY <1>2, <1>3, <2>9
    <3>2. QED
      BY <2>8, <3>1
  <2>11. ASSUME NEW i \in 1 .. bl[b].len
         PROVE  (k \o p)[Before(bl, b) + i] = p[i]
    <3>1. /\ Before(bl, b) + i \in 1 .. Len(k) + Len(p)
          /\ ~(Before(bl, b) + i <= Len(k))
          /\ (Before(bl, b) + i) - Len(k) = i
      BY <1>2, <1>3, <2>7
    <3>2. QED
      BY <2>8, <3>1
  <2>12. /\ u # None /\ h \in Seq(Bytes) /\ h[1][1] = u
         /\ Len(h) = Before(bl, b) + bl[b].len /\ Before(bl, b) < Needs(bl, u)
         /\ \A i \in 1 .. bl[b].len : h[Before(bl, b) + i] = p[i]
         /\ s.nextfilepos = Begin(bl, u)
    BY <1>3, <2>1, <2>2, <2>5, <2>6, <2>7, <2>8, <2>10, <2>11 DEF k
  <2>13. QED
    BY <1>5, <2>12 DEF Growing, h, p, u
<1>6. QED
  BY <1>4, <1>5

(* What the packet carries while the header is collected, when it proves   *)
(* wrong, and when it is complete.                                         *)
LEMMA Collecting ==
  ASSUME NEW f, FileFacts(f), f.ts, NEW b \in Own(f.blocks), NEW s, NEW h,
         Growing(f, s, b, h),
         \/ Len(h) < MinHeader
         \/ f.blocks[h[1][1]].good /\ Len(h) < f.blocks[h[1][1]].hl
  PROVE  Carries(f.blocks, b) = << >> /\ ~Past(f.blocks, b)
<1> DEFINE bl == f.blocks
           u == UnitOf(bl, b)
<1>1. /\ u # None /\ h[1][1] = u /\ Len(h) = Before(bl, b) + bl[b].len
  BY DEF Growing
<1>2. /\ b \in 1 .. Len(bl) /\ bl[b].len \in Nat /\ Before(bl, b) \in Nat
      /\ MinHeader \in Nat /\ bl[u].hl \in Nat
      /\ Needs(bl, u) \in Nat /\ MinHeader <= Needs(bl, u)
  BY <1>1, PacketFacts
<1>3. Len(h) < Needs(bl, u)
  <2>1. CASE Len(h) < MinHeader
    BY <1>1, <1>2, <2>1
  <2>2. CASE bl[u].good /\ Len(h) < bl[u].hl
    BY <2>2 DEF Needs
  <2>3. QED
    BY <1>1, <2>1, <2>2
<1>4. ~Past(bl, b)
  BY <1>1, <1>2, <1>3 DEF Past
<1>5. Skipped(bl, b) >= bl[b].len
  <2>1. CASE bl[u].good
    <3>1. Needs(bl, u) = bl[u].hl
      BY <2>1 DEF Needs
    <3>2. Before(bl, b) < bl[u].hl /\ bl[u].hl - Before(bl, b) >= bl[b].len
      BY <1>1, <1>2, <1>3, <3>1
    <3>3. Skipped(bl, b) = bl[u].hl - Before(bl, b)
      BY <1>1, <2>1, <3>2 DEF Skipped
    <3>4. QED
      BY <3>2, <3>3
  <2>2. CASE ~bl[u].good
    <3>1. Needs(bl, u) = MinHeader
      BY <2>2 DEF Needs
    <3>2. Before(bl, b) < MinHeader
      BY <1>1, <1>2, <1>3, <3>1
    <3>3. Skipped(bl, b) = bl[b].len
      BY <1>1, <2>2, <3>2 DEF Skipped
    <3>4. QED
      BY <1>2, <3>3
  <2>3. QED
    BY <2>1, <2>2
<1>6. Carries(bl, b) = << >>
  <2>1. bl \in Seq(BlockTypes)
    BY FileLaid
  <2>2. /\ Carries(bl, b) = SubSeq(BlockPayload(bl, b), Skipped(bl, b) + 1, bl[b].len)
        /\ Skipped(bl, b) \in Nat
    BY <1>2, <2>1, CarriesIs
  <2>3. bl[b].len < Skipped(bl, b) + 1 /\ Skipped(bl, b) + 1 \in Int /\ bl[b].len \in Int
    BY <1>2, <1>5, <2>2
  <2>4. QED
    BY <2>2, <2>3, SubSeqEmpty
<1>7. QED
  BY <1>4, <1>6

LEMMA BadHeader ==
  ASSUME NEW f, FileFacts(f), f.ts, NEW b \in Own(f.blocks), NEW s, NEW h,
         Growing(f, s, b, h), Len(h) >= MinHeader, ~f.blocks[h[1][1]].good
  PROVE  Carries(f.blocks, b) = << >> /\ Past(f.blocks, b)
<1> DEFINE bl == f.blocks
           u == UnitOf(bl, b)
<1>1. /\ u # None /\ h[1][1] = u /\ Len(h) = Before(bl, b) + bl[b].len
      /\ Before(bl, b) < Needs(bl, u)
  BY DEF Growing
<1>2. /\ b \in 1 .. Len(bl) /\ bl[b].len \in Nat /\ Before(bl, b) \in Nat
      /\ MinHeader \in Nat
  BY PacketFacts
<1>3. Needs(bl, u) = MinHeader
  BY <1>1 DEF Needs
<1>4. Past(bl, b)
  BY <1>1, <1>2, <1>3 DEF Past
<1>5. Skipped(bl, b) = bl[b].len
  BY <1>1, <1>3 DEF Skipped
<1>6. Carries(bl, b) = << >>
  <2>1. bl \in Seq(BlockTypes)
    BY FileLaid
  <2>2. Carries(bl, b) = SubSeq(BlockPayload(bl, b), Skipped(bl, b) + 1, bl[b].len)
    BY <1>2, <2>1, CarriesIs
  <2>3. bl[b].len < bl[b].len + 1 /\ bl[b].len + 1 \in Int /\ bl[b].len \in Int
    BY <1>2
  <2>4. QED
    BY <1>5, <2>2, <2>3, SubSeqEmpty
<1>7. QED
  BY <1>4, <1>6

LEMMA WholeHeader ==
  ASSUME NEW f, FileFacts(f), f.ts, NEW b \in Own(f.blocks), NEW s, NEW h,
         Growing(f, s, b, h), f.blocks[h[1][1]].good, Len(h) >= f.blocks[h[1][1]].hl
  PROVE  /\ SubSeq(h, f.blocks[h[1][1]].hl + 1, Len(h)) = Carries(f.blocks, b)
         /\ Past(f.blocks, b)
         /\ Carries(f.blocks, b) # << >> => b \in Beginnings(f.blocks)
<1> DEFINE bl == f.blocks
           u == UnitOf(bl, b)
           p == BlockPayload(bl, b)
           n == bl[b].len
           before == Before(bl, b)
           hl == bl[u].hl
           k == hl - before
<1>1. /\ u # None /\ h[1][1] = u /\ Len(h) = before + n /\ before < Needs(bl, u)
      /\ h \in Seq(Bytes) /\ \A i \in 1 .. n : h[before + i] = p[i]
  BY DEF Growing
<1>2. b \in 1 .. Len(bl) /\ n \in Nat /\ before \in Nat /\ hl \in Nat
  BY <1>1, PacketFacts
<1>3. Needs(bl, u) = hl /\ before < hl
  BY <1>1 DEF Needs
<1>4. Past(bl, b)
  BY <1>1, <1>2, <1>3 DEF Past
<1>5. Skipped(bl, b) = k /\ k \in Nat
  BY <1>1, <1>2, <1>3 DEF Skipped
<1>6. bl \in Seq(BlockTypes)
  BY FileLaid
<1>7. Carries(bl, b) = SubSeq(p, k + 1, n)
  BY <1>2, <1>5, <1>6, CarriesIs
<1>8. p \in Seq(Bytes) /\ Len(p) = n
  BY <1>2, <1>6, PayloadFacts
<1>9. Carries(bl, b) # << >> => b \in Beginnings(bl)
  BY <1>1, <1>3 DEF Beginnings
<1> HIDE DEF p, n, before, hl, k
<1>10. /\ SubSeq(p, k + 1, n) \in Seq(Bytes)
       /\ Len(SubSeq(p, k + 1, n)) = IF k <= n THEN n - k ELSE 0
       /\ \A i \in 1 .. n - k : SubSeq(p, k + 1, n)[i] = p[k + i] /\ k + i \in 1 .. n
  <2>1. k \in Nat
    BY <1>5
  <2>2. p \in Seq(Bytes)
    BY <1>8
  <2>3. /\ SubSeq(p, k + 1, Len(p)) \in Seq(Bytes)
        /\ Len(SubSeq(p, k + 1, Len(p))) = IF k <= Len(p) THEN Len(p) - k ELSE 0
        /\ \A i \in 1 .. Len(p) - k :
             SubSeq(p, k + 1, Len(p))[i] = p[k + i] /\ k + i \in 1 .. Len(p)
    BY <2>1, <2>2, EndOf
  <2>4. Len(p) = n
    BY <1>8
  <2>5. QED
    BY <2>3, <2>4
<1>11. /\ SubSeq(h, hl + 1, Len(h)) \in Seq(Bytes)
       /\ Len(SubSeq(h, hl + 1, Len(h))) = IF hl <= Len(h) THEN Len(h) - hl ELSE 0
       /\ \A i \in 1 .. Len(h) - hl :
            SubSeq(h, hl + 1, Len(h))[i] = h[hl + i] /\ hl + i \in 1 .. Len(h)
  BY <1>1, <1>2, EndOf
<1>12. hl <= Len(h)
  BY <1>1 DEF hl
<1>13. Len(h) - hl = n - k /\ k <= n /\ hl = before + k
  BY <1>1, <1>2, <1>12 DEF k
<1>14. ASSUME NEW i \in 1 .. n - k
       PROVE  SubSeq(h, hl + 1, Len(h))[i] = SubSeq(p, k + 1, n)[i]
  <2>1. SubSeq(h, hl + 1, Len(h))[i] = h[hl + i]
    BY <1>11, <1>13
  <2>2. SubSeq(p, k + 1, n)[i] = p[k + i] /\ k + i \in 1 .. n
    BY <1>10
  <2>3. hl + i = before + (k + i)
    BY <1>2, <1>5, <1>13
  <2>4. h[before + (k + i)] = p[k + i]
    BY <1>1, <2>2
  <2>5. QED
    BY <2>1, <2>2, <2>3, <2>4
<1>15. SubSeq(h, hl + 1, Len(h)) = SubSeq(p, k + 1, n)
  <2>1. Len(SubSeq(h, hl + 1, Len(h))) = n - k /\ Len(SubSeq(p, k + 1, n)) = n - k
    BY <1>10, <1>11, <1>12, <1>13
  <2>2. QED
    BY <1>10, <1>11, <1>14, <2>1, SeqEqual
<1>16. SubSeq(h, bl[h[1][1]].hl + 1, Len(h)) = Carries(bl, b)
  BY <1>1, <1>7, <1>15 DEF hl
<1>17. QED
  BY <1>4, <1>9, <1>16

(* The packets of a unit in front of one of its packets are in front of   *)
(* it with all their bytes.                                                *)
LEMMA LessInFront ==
  ASSUME NEW blocks \in Seq(BlockTypes), NEW b \in Own(blocks), NEW d \in Own(blocks),
         UnitOf(blocks, b) # None, UnitOf(blocks, b) <= d, d < b
  PROVE  /\ UnitOf(blocks, d) = UnitOf(blocks, b)
         /\ Before(blocks, d) + blocks[d].len <= Before(blocks, b)
<1> DEFINE u == UnitOf(blocks, b)
           a == InFront(blocks, b)
           x == InFront(blocks, d)
           w == [i \in 1 .. d |-> a[i]]
           z == [i \in 1 .. b - 1 |-> IF i <= d THEN a[i] ELSE 0]
<1>1. /\ b \in 1 .. Len(blocks) /\ d \in 1 .. Len(blocks) /\ blocks[d].len \in Nat
      /\ b \in 0 .. Len(blocks) /\ d \in 0 .. Len(blocks) /\ Len(blocks) \in Nat
  <2>1. b \in 1 .. Len(blocks) /\ d \in 1 .. Len(blocks) /\ blocks[d].len \in Nat
        /\ Len(blocks) \in Nat
    BY LenNat
  <2>2. QED
    BY <2>1
<1>2. u \in 1 .. b /\ u \in Own(blocks) /\ blocks[u].start
  BY <1>1, UnitTypes
<1>3. UnitOf(blocks, d) = u
  <2>1. u \in StartsTo(blocks, d)
    BY <1>2 DEF StartsTo
  <2>2. u <= UnitOf(blocks, d) /\ UnitOf(blocks, d) # None
    <3>1. StartsTo(blocks, d) # {}
      BY <2>1
    <3>2. QED
      BY <1>1, <2>1, <3>1, UnitIs
  <2>3. /\ UnitOf(blocks, d) \in 1 .. d /\ UnitOf(blocks, d) \in Own(blocks)
        /\ blocks[UnitOf(blocks, d)].start
    BY <1>1, <2>2, UnitTypes
  <2>4. UnitOf(blocks, d) \in StartsTo(blocks, b)
    BY <1>1, <2>3 DEF StartsTo
  <2>5. UnitOf(blocks, d) <= u
    BY <1>1, <2>4, UnitIs
  <2>6. QED
    BY <1>1, <1>2, <2>2, <2>3, <2>5
<1>4. /\ a \in Seq(Nat) /\ a \in Seq(Int) /\ Len(a) = b - 1
      /\ Before(blocks, b) = Total[a]
  BY <1>1, InFrontFacts
<1>5. x \in Seq(Int) /\ Len(x) = d - 1 /\ Before(blocks, d) = Total[x]
  BY <1>1, InFrontFacts
<1>6. \A i \in 1 .. d - 1 : a[i] = x[i]
  BY <1>1, <1>3 DEF InFront
<1>7. a[d] = blocks[d].len
  BY <1>1, <1>3 DEF InFront
<1>8. \A i \in 1 .. b - 1 : a[i] \in Nat
  BY <1>4
<1> HIDE DEF a, x, u
<1>9. w \in Seq(Int) /\ Len(w) = d
  <2>1. w \in [1 .. d -> Int] /\ d \in Nat
    BY <1>1, <1>8
  <2> HIDE DEF w
  <2>2. QED
    BY <2>1, FcnIsSeq
<1>10. z \in Seq(Int) /\ Len(z) = b - 1
  <2>1. z \in [1 .. b - 1 -> Int] /\ b - 1 \in Nat
    BY <1>1, <1>8
  <2> HIDE DEF z
  <2>2. QED
    BY <2>1, FcnIsSeq
<1>11. Total[w] = Total[x] + blocks[d].len
  <2>1. /\ \A i \in 1 .. Len(x) : w[i] = x[i]
        /\ Len(w) = Len(x) + 1 /\ w[Len(w)] = blocks[d].len
    BY <1>1, <1>5, <1>6, <1>7, <1>9
  <2> HIDE DEF w
  <2>2. QED
    BY <1>5, <1>9, <2>1, TotalAppend
<1>12. Total[z] = Total[w]
  <2>1. /\ Len(w) <= Len(z) /\ \A i \in 1 .. Len(w) : z[i] = w[i]
        /\ \A i \in Len(w) + 1 .. Len(z) : z[i] = 0
    BY <1>1, <1>9, <1>10
  <2> HIDE DEF w, z
  <2>2. QED
    BY <1>9, <1>10, <2>1, ZerosBehind
<1>13. Total[z] <= Total[a]
  <2>1. Len(z) = Len(a) /\ \A i \in 1 .. Len(z) : z[i] <= a[i]
    BY <1>1, <1>4, <1>8, <1>10
  <2> HIDE DEF z
  <2>2. QED
    BY <1>4, <1>10, <2>1, TotalMonotonic
<1>14. QED
  BY <1>3, <1>4, <1>5, <1>11, <1>12, <1>13 DEF u

(* A unit begins in one packet only, and the packets in front of it carry  *)
(* nothing.                                                                *)
LEMMA BeginningEnds ==
  ASSUME NEW blocks \in Seq(BlockTypes), NEW b \in Beginnings(blocks)
  PROVE  /\ Before(blocks, b) \in Nat
         /\ Before(blocks, b) < blocks[UnitOf(blocks, b)].hl
         /\ blocks[UnitOf(blocks, b)].hl < Before(blocks, b) + blocks[b].len
<1> DEFINE u == UnitOf(blocks, b)
<1>1. /\ b \in Own(blocks) /\ b \in 1 .. Len(blocks) /\ u # None /\ blocks[u].good
      /\ 1 \in 1 .. Len(Carries(blocks, b))
  BY BeginningFacts
<1>2. Before(blocks, b) < blocks[u].hl
  BY DEF Beginnings
<1>3. Before(blocks, b) \in Nat /\ blocks[b].len \in Nat /\ blocks[u].hl \in Nat
  <2>1. u \in Own(blocks)
    <3>1. b \in 0 .. Len(blocks)
      BY <1>1
    <3>2. QED
      BY <1>1, <3>1, UnitTypes
  <2>2. QED
    BY <1>1, <2>1, InFrontFacts, LenNat
<1>4. Skipped(blocks, b) = blocks[u].hl - Before(blocks, b)
  BY <1>1, <1>2 DEF Skipped
<1>5. Len(Carries(blocks, b)) = IF Skipped(blocks, b) <= blocks[b].len
                                  THEN blocks[b].len - Skipped(blocks, b) ELSE 0
  BY <1>1, CarriesFacts
<1>6. Skipped(blocks, b) < blocks[b].len
  <2>1. Len(Carries(blocks, b)) > 0
    BY <1>1
  <2>2. QED
    BY <1>3, <1>4, <1>5, <2>1
<1>7. QED
  BY <1>2, <1>3, <1>4, <1>6

LEMMA OneBeginning ==
  ASSUME NEW blocks \in Seq(BlockTypes), NEW b \in Beginnings(blocks),
         NEW d \in Beginnings(blocks), d < b
  PROVE  UnitOf(blocks, d) < UnitOf(blocks, b)
<1>1. /\ b \in Own(blocks) /\ d \in Own(blocks) /\ b \in 1 .. Len(blocks)
      /\ d \in 1 .. Len(blocks) /\ UnitOf(blocks, b) # None /\ UnitOf(blocks, d) # None
  BY BeginningFacts
<1>2. b \in 0 .. Len(blocks) /\ d \in 0 .. Len(blocks)
  BY <1>1
<1>3. UnitOf(blocks, b) \in 1 .. b /\ UnitOf(blocks, d) \in 1 .. d
  BY <1>1, <1>2, UnitTypes
<1>4. ~(UnitOf(blocks, b) <= d)
  <2> SUFFICES ASSUME UnitOf(blocks, b) <= d
               PROVE  FALSE
    OBVIOUS
  <2>1. /\ UnitOf(blocks, d) = UnitOf(blocks, b)
        /\ Before(blocks, d) + blocks[d].len <= Before(blocks, b)
    BY <1>1, LessInFront
  <2>2. /\ Before(blocks, b) \in Nat /\ Before(blocks, d) \in Nat
        /\ Before(blocks, b) < blocks[UnitOf(blocks, b)].hl
        /\ blocks[UnitOf(blocks, d)].hl < Before(blocks, d) + blocks[d].len
    BY BeginningEnds
  <2>3. blocks[d].len \in Nat /\ blocks[UnitOf(blocks, b)].hl \in Nat
    <3>1. UnitOf(blocks, b) \in Own(blocks)
      BY <1>1, <1>2, UnitTypes
    <3>2. QED
      BY <1>1, <3>1, LenNat
  <2>4. QED
    BY <2>1, <2>2, <2>3
<1>5. QED
  BY <1>1, <1>3, <1>4

LEMMA NothingInFront ==
  ASSUME NEW blocks \in Seq(BlockTypes), NEW b \in Beginnings(blocks),
         NEW d \in Own(blocks), UnitOf(blocks, b) <= d, d < b
  PROVE  Carries(blocks, d) = << >>
<1>1. /\ b \in Own(blocks) /\ UnitOf(blocks, b) # None
      /\ blocks[UnitOf(blocks, b)].good
  BY BeginningFacts
<1>2. /\ UnitOf(blocks, d) = UnitOf(blocks, b)
      /\ Before(blocks, d) + blocks[d].len <= Before(blocks, b)
  BY <1>1, LessInFront
<1>3. /\ Before(blocks, b) \in Nat /\ Before(blocks, b) < blocks[UnitOf(blocks, b)].hl
  BY BeginningEnds
<1>4. d \in 1 .. Len(blocks) /\ blocks[d].len \in Nat /\ Before(blocks, d) \in Nat
  <2>1. d \in 1 .. Len(blocks) /\ blocks[d].len \in Nat
    BY LenNat
  <2>2. QED
    BY <2>1, InFrontFacts
<1>5. blocks[UnitOf(blocks, b)].hl \in Nat
  <2>1. b \in 0 .. Len(blocks)
    BY <1>1, LenNat
  <2>2. UnitOf(blocks, b) \in Own(blocks)
    BY <1>1, <2>1, UnitTypes
  <2>3. QED
    BY <2>2, LenNat
<1>6. Skipped(blocks, d) = blocks[UnitOf(blocks, b)].hl - Before(blocks, d)
  <2>1. Before(blocks, d) < blocks[UnitOf(blocks, b)].hl
    BY <1>2, <1>3, <1>4, <1>5
  <2>2. QED
    BY <1>1, <1>2, <2>1 DEF Skipped
<1>7. blocks[d].len < Skipped(blocks, d) + 1 /\ Skipped(blocks, d) + 1 \in Int
  <2> DEFINE n == blocks[d].len
             x == Before(blocks, d)
             y == Before(blocks, b)
             h == blocks[UnitOf(blocks, b)].hl
             z == Skipped(blocks, d)
  <2>1. /\ n \in Nat /\ x \in Nat /\ y \in Nat /\ h \in Nat
        /\ x + n <= y /\ y < h /\ z = h - x
    BY <1>2, <1>3, <1>4, <1>5, <1>6
  <2> HIDE DEF n, x, y, h, z
  <2>2. n < z + 1 /\ z + 1 \in Int
    BY <2>1
  <2>3. QED
    BY <2>2 DEF n, z
<1>8. Carries(blocks, d) = SubSeq(BlockPayload(blocks, d), Skipped(blocks, d) + 1,
                                  blocks[d].len)
  BY <1>4, CarriesIs
<1>9. QED
  BY <1>4, <1>7, <1>8, SubSeqEmpty

(* Where the new handle starts from which a unit is read, everything in    *)
(* front of the unit has been.                                             *)
LEMMA SeekPlace ==
  ASSUME NEW f, FileFacts(f), NEW b \in Beginnings(f.blocks)
  PROVE  LET u == UnitOf(f.blocks, b)
             c == LastOwn(f.blocks, Begin(f.blocks, u))
         IN  /\ NextOwn(f.blocks, c, u) /\ f.blocks[u].start
             /\ u \in Own(f.blocks)
             /\ FirstOf(f.blocks, b) - 1 = PartEnd(f.blocks, c)
             /\ FirstOf(f.blocks, b) - 1 \in 0 .. Len(f.stream)
<1> DEFINE bl == f.blocks
           u == UnitOf(bl, b)
           c == LastOwn(bl, Begin(bl, u))
<1>1. bl \in Seq(BlockTypes) /\ StreamLaid(bl, f.stream) /\ Len(bl) \in Nat
  BY FileLaid
<1>2. b \in Own(bl) /\ b \in 1 .. Len(bl) /\ u # None
  BY <1>1, BeginningFacts
<1>3. u \in 1 .. b /\ u \in Own(bl) /\ bl[u].start /\ u \in 1 .. Len(bl)
  <2>1. b \in 0 .. Len(bl)
    BY <1>1, <1>2
  <2>2. QED
    BY <1>1, <1>2, <2>1, UnitTypes
<1>4. NextOwn(bl, c, u)
  <2>1. Begin(bl, u) \in Nat /\ SizeOf(bl, u) \in Nat /\ SizeOf(bl, u) > 0
    BY <1>3, OwnPlace
  <2>2. /\ Begin(bl, u) + SizeOf(bl, u) \in Nat
        /\ Begin(bl, u) < Begin(bl, u) + SizeOf(bl, u)
        /\ Begin(bl, u) + SizeOf(bl, u) <= Begin(bl, u) + SizeOf(bl, u)
    BY <2>1
  <2>3. QED
    BY <1>3, <2>2, LastOwnNext
<1>5. PartEnd(bl, u - 1) = PartEnd(bl, c)
  BY <1>4, PartsBetween
<1>6. PartEnd(bl, b - 1) = PartEnd(bl, u - 1)
  <2>1. u - 1 \in 0 .. Len(bl) /\ b - 1 \in u - 1 .. Len(bl)
    BY <1>1, <1>2, <1>3
  <2>2. ASSUME NEW d \in (u - 1) + 1 .. b - 1
        PROVE  PartOf(bl, d) = << >>
    <3>1. u <= d /\ d < b
      BY <1>2, <1>3
    <3>2. CASE d \in Own(bl)
      <4>1. Carries(bl, d) = << >>
        BY <1>1, <3>1, <3>2, NothingInFront
      <4>2. QED
        BY <4>1 DEF PartOf
    <3>3. CASE d \notin Own(bl)
      BY <3>3 DEF Carries, PartOf
    <3>4. QED
      BY <3>2, <3>3
  <2>3. QED
    BY <1>1, <2>1, <2>2, SilentParts
<1>7. FirstOf(bl, b) - 1 = PartEnd(bl, b - 1) /\ PartEnd(bl, b - 1) \in 0 .. Len(f.stream)
  <2>1. b - 1 \in 0 .. Len(bl)
    BY <1>1, <1>2
  <2>2. PartEnd(bl, b - 1) \in Nat /\ PartEnd(bl, b - 1) <= Len(f.stream)
    BY <1>1, <2>1 DEF StreamLaid
  <2>3. Len(f.stream) \in Nat
    BY FileLaid
  <2>4. QED
    BY <2>2, <2>3 DEF FirstOf
<1>8. QED
  BY <1>3, <1>4, <1>5, <1>6, <1>7

(* Units lie in the stream in the order of their packets.                  *)
LEMMA UnitsInOrder ==
  ASSUME NEW f, FileFacts(f), NEW b \in Beginnings(f.blocks), NEW d \in Beginnings(f.blocks)
  PROVE  /\ d < b <=> FirstOf(f.blocks, d) < FirstOf(f.blocks, b)
         /\ d < b <=> Begin(f.blocks, UnitOf(f.blocks, d)) < Begin(f.blocks, UnitOf(f.blocks, b))
         /\ FirstOf(f.blocks, b) \in 1 .. Len(f.stream)
         /\ Begin(f.blocks, UnitOf(f.blocks, b)) \in Nat
         /\ b \in Nat
<1> DEFINE bl == f.blocks
<1>1. bl \in Seq(BlockTypes) /\ StreamLaid(bl, f.stream) /\ Len(bl) \in Nat
      /\ f.stream = Stream(bl)
  <2>1. f.stream = Stream(bl)
    BY DEF FileFacts
  <2>2. QED
    BY <2>1, FileLaid
<1>2. \A x \in Beginnings(bl) :
        /\ x \in 1 .. Len(bl) /\ x \in 0 .. Len(bl) /\ UnitOf(bl, x) # None
        /\ FirstOf(bl, x) \in 1 .. Len(f.stream) /\ FirstOf(bl, x) <= PartEnd(bl, x)
  <2> TAKE x \in Beginnings(bl)
  <2>1. /\ x \in 1 .. Len(bl) /\ UnitOf(bl, x) # None
        /\ FirstOf(bl, x) \in 1 .. Len(f.stream) /\ FirstOf(bl, x) <= PartEnd(bl, x)
    BY <1>1, BeginningFacts
  <2>2. x \in 0 .. Len(bl)
    BY <1>1, <2>1
  <2>3. QED
    BY <2>1, <2>2
<1>3. \A x \in Beginnings(bl) :
        /\ UnitOf(bl, x) \in Own(bl) /\ Begin(bl, UnitOf(bl, x)) \in Nat
        /\ UnitOf(bl, x) \in Nat
  <2> TAKE x \in Beginnings(bl)
  <2>1. UnitOf(bl, x) \in Own(bl) /\ UnitOf(bl, x) \in 1 .. Len(bl)
    BY <1>1, <1>2, UnitTypes
  <2>2. QED
    BY <1>1, <2>1, OwnPlace
<1>4. ASSUME NEW x \in Beginnings(bl), NEW y \in Beginnings(bl), x < y
      PROVE  /\ FirstOf(bl, x) < FirstOf(bl, y)
             /\ Begin(bl, UnitOf(bl, x)) < Begin(bl, UnitOf(bl, y))
  <2>1. y - 1 \in x .. Len(bl)
    BY <1>2, <1>4
  <2>2. PartEnd(bl, x) <= PartEnd(bl, y - 1) /\ PartEnd(bl, x) \in Nat /\ PartEnd(bl, y - 1) \in Nat
    <3>1. y - 1 \in 0 .. Len(bl)
      BY <1>2
    <3>2. QED
      BY <1>1, <1>2, <2>1, <3>1 DEF StreamLaid
  <2>3. FirstOf(bl, y) = PartEnd(bl, y - 1) + 1
    BY DEF FirstOf
  <2>4. FirstOf(bl, x) < FirstOf(bl, y)
    BY <1>2, <2>2, <2>3
  <2>5. UnitOf(bl, x) < UnitOf(bl, y)
    BY <1>1, <1>4, OneBeginning
  <2>6. /\ Begin(bl, UnitOf(bl, x)) + SizeOf(bl, UnitOf(bl, x)) <= Begin(bl, UnitOf(bl, y))
        /\ SizeOf(bl, UnitOf(bl, x)) \in Nat /\ SizeOf(bl, UnitOf(bl, x)) > 0
    BY <1>3, <2>5, OwnPlace
  <2>7. QED
    BY <1>3, <2>4, <2>6
<1>5. d < b \/ d = b \/ b < d
  BY <1>2
<1>6. FirstOf(bl, b) \in Nat /\ FirstOf(bl, d) \in Nat
  BY <1>2
<1>7. QED
  BY <1>2, <1>3, <1>4, <1>5, <1>6

(* What is in the buffer is what was read last of the stream.              *)
InStream(stream, d, l) ==
  /\ d \in Seq(Bytes) /\ l \in Nat /\ Len(d) <= l /\ l <= Len(stream)
  /\ \A i \in 1 .. Len(d) : d[i] = stream[(l - Len(d)) + i]

Waiting(f, b, d, l) ==
  /\ InStream(f.stream, d, l) /\ l <= PartEnd(f.blocks, b - 1)
  /\ d # << >> => l = PartEnd(f.blocks, b - 1)

Appended(f, b, d, l, e) ==
  /\ InStream(f.stream, e, PartEnd(f.blocks, b))
  /\ Len(e) = Len(d) + Len(PartOf(f.blocks, b)) /\ Len(d) < Len(e) /\ e # << >>
  /\ PlaceOf(f.stream, Last(e)) = PartEnd(f.blocks, b)
  /\ e = d \o SubSeq(f.stream, FirstOf(f.blocks, b), PartEnd(f.blocks, b))
  /\ l < FirstOf(f.blocks, b) /\ (d # << >> => FirstOf(f.blocks, b) = l + 1)
  /\ PartEnd(f.blocks, b) \in FirstOf(f.blocks, b) .. Len(f.stream)
  /\ PartEnd(f.blocks, b) - Len(e) = PartEnd(f.blocks, b - 1) - Len(d)

LEMMA Delivering ==
  ASSUME NEW f, FileFacts(f), NEW b \in 1 .. Len(f.blocks), PartOf(f.blocks, b) # << >>,
         NEW d, NEW l, Waiting(f, b, d, l),
         NEW e, e = d \o PartOf(f.blocks, b)
  PROVE  Appended(f, b, d, l, e)
<1> DEFINE bl == f.blocks
           p == PartOf(bl, b)
           x == PartEnd(bl, b - 1)
           y == PartEnd(bl, b)
<1>1. bl \in Seq(BlockTypes) /\ StreamLaid(bl, f.stream) /\ Len(bl) \in Nat
      /\ f.stream \in Seq(Bytes) /\ Len(f.stream) \in Nat
  BY FileLaid
<1>2. p \in Seq(Bytes)
  BY <1>1, PartFacts
<1>3. Len(p) \in Nat /\ Len(p) > 0
  BY <1>2
<1>4. /\ x \in Nat /\ y \in Nat /\ y <= Len(f.stream) /\ y = x + Len(p)
      /\ \A j \in 1 .. Len(p) : f.stream[x + j] = p[j]
  <2>1. b \in 0 .. Len(bl) /\ b - 1 \in 0 .. Len(bl)
    BY <1>1
  <2>2. x \in Nat /\ y \in Nat /\ y <= Len(f.stream)
    BY <1>1, <2>1 DEF StreamLaid
  <2>3. y = x + Len(p) /\ \A j \in 1 .. Len(p) : f.stream[x + j] = p[j]
    BY <1>1 DEF StreamLaid
  <2>4. QED
    BY <2>2, <2>3
<1>5. \A i, j \in 1 .. Len(f.stream) : f.stream[i] = f.stream[j] => i = j
  BY <1>1 DEF StreamLaid
<1>6. FirstOf(bl, b) = x + 1
  BY DEF FirstOf
<1>7. d \in Seq(Bytes) /\ l \in Nat /\ Len(d) \in Nat /\ Len(d) <= l
      /\ \A i \in 1 .. Len(d) : d[i] = f.stream[(l - Len(d)) + i]
  BY DEF InStream, Waiting
<1>8. l <= x /\ (Len(d) > 0 => l = x)
  <2>1. Len(d) > 0 => d # << >>
    BY <1>7
  <2>2. QED
    BY <2>1 DEF Waiting
<1> HIDE DEF p, x, y
<1>9. e = d \o p
  BY DEF p
<1>10. /\ e \in Seq(Bytes) /\ Len(e) = Len(d) + Len(p)
       /\ \A i \in 1 .. Len(d) + Len(p) : e[i] = IF i <= Len(d) THEN d[i] ELSE p[i - Len(d)]
  BY <1>2, <1>7, <1>9, ConcatProperties
<1>11. y - Len(e) = x - Len(d) /\ Len(d) < Len(e) /\ Len(e) <= y /\ Len(e) \in Nat
  BY <1>3, <1>4, <1>7, <1>8, <1>10
<1>12. ASSUME NEW i \in 1 .. Len(e)
       PROVE  e[i] = f.stream[(y - Len(e)) + i]
  <2>1. CASE i <= Len(d)
    <3>1. i \in 1 .. Len(d) /\ i \in 1 .. Len(d) + Len(p) /\ l = x
      BY <1>3, <1>7, <1>8, <1>10, <2>1
    <3>2. e[i] = d[i]
      BY <1>10, <2>1, <3>1
    <3>3. d[i] = f.stream[(x - Len(d)) + i]
      BY <1>7, <3>1
    <3>4. QED
      BY <1>11, <3>2, <3>3
  <2>2. CASE ~(i <= Len(d))
    <3>1. i - Len(d) \in 1 .. Len(p) /\ i \in 1 .. Len(d) + Len(p)
      BY <1>3, <1>7, <1>10, <2>2
    <3>2. e[i] = p[i - Len(d)]
      BY <1>10, <2>2, <3>1
    <3>3. p[i - Len(d)] = f.stream[x + (i - Len(d))]
      BY <1>4, <3>1
    <3>4. x + (i - Len(d)) = (y - Len(e)) + i
      <4>1. x \in Int /\ Len(d) \in Int /\ i \in Int
        BY <1>4, <1>7, <1>11
      <4>2. x + (i - Len(d)) = (x - Len(d)) + i
        BY <4>1
      <4>3. QED
        BY <1>11, <4>2
    <3>5. QED
      BY <3>2, <3>3, <3>4
  <2>3. QED
    BY <2>1, <2>2
<1>13. InStream(f.stream, e, y)
  BY <1>4, <1>10, <1>11, <1>12 DEF InStream
<1>14. PlaceOf(f.stream, Last(e)) = y
  <2>1. Len(e) \in 1 .. Len(e) /\ (y - Len(e)) + Len(e) = y /\ y \in 1 .. Len(f.stream)
    BY <1>3, <1>4, <1>7, <1>10
  <2>2. Last(e) = f.stream[y]
    BY <1>12, <2>1 DEF Last
  <2>3. QED
    BY <1>1, <1>5, <2>1, <2>2, PlaceIs
<1>15. SubSeq(f.stream, x + 1, y) = p
  <2> DEFINE t == SubSeq(f.stream, x + 1, y)
  <2>1. \A i \in x + 1 .. y : f.stream[i] \in Bytes
    BY <1>1, <1>4
  <2>2. x + 1 \in Int /\ y \in Int /\ x + 1 <= y /\ (y - (x + 1)) + 1 = Len(p)
    BY <1>3, <1>4
  <2>3. /\ t \in Seq(Bytes) /\ Len(t) = (y - (x + 1)) + 1
        /\ \A i \in 1 .. (y - (x + 1)) + 1 : t[i] = f.stream[(x + 1) + i - 1]
    BY <2>1, <2>2, SubSeqProperties
  <2>4. \A i \in 1 .. Len(p) : t[i] = p[i]
    <3> TAKE i \in 1 .. Len(p)
    <3>1. t[i] = f.stream[(x + 1) + i - 1]
      BY <2>2, <2>3
    <3>2. (x + 1) + i - 1 = x + i
      BY <1>4
    <3>3. QED
      BY <1>4, <3>1, <3>2
  <2> HIDE DEF t
  <2>5. Len(t) = Len(p)
    BY <2>2, <2>3
  <2>6. t = p
    BY <1>2, <2>3, <2>4, <2>5, SeqEqual
  <2>7. QED
    BY <2>6 DEF t
<1>16. e # << >> /\ (d # << >> => x + 1 = l + 1) /\ l < x + 1 /\ y \in x + 1 .. Len(f.stream)
  <2>1. d # << >> => Len(d) > 0
    BY <1>7
  <2>2. e # << >>
    BY <1>3, <1>7, <1>10
  <2>3. QED
    BY <1>1, <1>3, <1>4, <1>7, <1>8, <2>1, <2>2
<1>17. QED
  BY <1>6, <1>9, <1>10, <1>11, <1>13, <1>14, <1>15, <1>16 DEF p, x, y, Appended

LEMMA Taking ==
  ASSUME NEW stream, NEW d, NEW l, InStream(stream, d, l), NEW k \in Nat
  PROVE  InStream(stream, SubSeq(d, k + 1, Len(d)), l)
<1> DEFINE t == SubSeq(d, k + 1, Len(d))
<1>1. d \in Seq(Bytes) /\ l \in Nat /\ Len(d) \in Nat /\ Len(d) <= l /\ l <= Len(stream)
      /\ \A i \in 1 .. Len(d) : d[i] = stream[(l - Len(d)) + i]
  BY DEF InStream
<1>2. /\ t \in Seq(Bytes) /\ Len(t) = IF k <= Len(d) THEN Len(d) - k ELSE 0
      /\ \A i \in 1 .. Len(d) - k : t[i] = d[k + i] /\ k + i \in 1 .. Len(d)
  BY <1>1, EndOf
<1> HIDE DEF t
<1>3. ASSUME NEW i \in 1 .. Len(t)
      PROVE  t[i] = stream[(l - Len(t)) + i]
  <2>1. i \in 1 .. Len(d) - k /\ Len(t) = Len(d) - k
    BY <1>1, <1>2
  <2>2. t[i] = stream[(l - Len(d)) + (k + i)]
    BY <1>1, <1>2, <2>1
  <2>3. (l - Len(d)) + (k + i) = (l - Len(t)) + i
    BY <1>1, <2>1
  <2>4. QED
    BY <2>2, <2>3
<1>4. Len(t) <= l
  BY <1>1, <1>2
<1>5. InStream(stream, t, l)
  BY <1>1, <1>2, <1>3, <1>4 DEF InStream
<1>6. QED
  BY <1>5 DEF t

(* The buffer: its items lie in it one behind the other, the first one at  *)
(* its begin.                                                              *)
ItemTypes == [file : Nat, off : Nat, bp : Nat, pts : Nat \cup {NoPts}, frame : BOOLEAN]
StreamTypes == [items : Seq(ItemTypes), data : Seq(Bytes), offset : Nat,
                header : Seq(Bytes), nextfilepos : Nat, added : BOOLEAN]

Buffered(s) ==
  /\ s \in StreamTypes
  /\ s.items = << >> <=> s.data = << >>
  /\ s.items # << >> => s.items[1].bp = s.offset
  /\ \A i \in 1 .. Len(s.items) :
       /\ s.offset <= s.items[i].bp /\ s.items[i].bp < s.offset + Len(s.data)
       /\ \A j \in 1 .. Len(s.items) : j < i => s.items[j].bp < s.items[i].bp

BufferOK(s) == Buffered(s) /\ s.offset < Half

AllTimed(s) == \A i \in 1 .. Len(s.items) : s.items[i].pts \in Nat

SameCollected(s, t) ==
  t.header = s.header /\ t.nextfilepos = s.nextfilepos /\ t.added = s.added

(* Rebased moves all buffer positions by the same number.                  *)
SameItems(s, t) ==
  /\ t.data = s.data /\ SameCollected(s, t) /\ Len(t.items) = Len(s.items)
  /\ \A i \in 1 .. Len(s.items) :
       /\ t.items[i].file = s.items[i].file /\ t.items[i].off = s.items[i].off
       /\ t.items[i].pts = s.items[i].pts
       /\ t.items[i].bp - t.offset = s.items[i].bp - s.offset

LEMMA BufferedTypes ==
  ASSUME NEW s, Buffered(s)
  PROVE  /\ s.items \in Seq(ItemTypes) /\ Len(s.items) \in Nat
         /\ s.data \in Seq(Bytes) /\ Len(s.data) \in Nat
         /\ s.offset \in Nat /\ s.header \in Seq(Bytes) /\ s.nextfilepos \in Nat
         /\ s.added \in BOOLEAN
         /\ s.items = << >> <=> Len(s.items) = 0
         /\ s.data = << >> <=> Len(s.data) = 0
         /\ \A i \in 1 .. Len(s.items) :
              /\ s.items[i] \in ItemTypes
              /\ s.items[i].file \in Nat /\ s.items[i].off \in Nat
              /\ s.items[i].bp \in Nat /\ s.items[i].pts \in Nat \cup {NoPts}
<1>1. s \in StreamTypes
  BY DEF Buffered
<1>2. /\ s.items \in Seq(ItemTypes) /\ s.data \in Seq(Bytes)
      /\ s.offset \in Nat /\ s.header \in Seq(Bytes) /\ s.nextfilepos \in Nat
      /\ s.added \in BOOLEAN
  BY <1>1 DEF StreamTypes
<1>3. Len(s.items) \in Nat /\ Len(s.data) \in Nat
      /\ (s.items = << >> <=> Len(s.items) = 0)
      /\ (s.data = << >> <=> Len(s.data) = 0)
  BY <1>2
<1>4. \A i \in 1 .. Len(s.items) : s.items[i] \in ItemTypes
  BY <1>2
<1>5. \A i \in 1 .. Len(s.items) :
              /\ s.items[i] \in ItemTypes
              /\ s.items[i].file \in Nat /\ s.items[i].off \in Nat
              /\ s.items[i].bp \in Nat /\ s.items[i].pts \in Nat \cup {NoPts}
  BY <1>4 DEF ItemTypes
<1>6. QED
  BY <1>2, <1>3, <1>5

LEMMA RebasedFacts ==
  ASSUME NEW s, Buffered(s)
  PROVE  BufferOK(Rebased(s)) /\ SameItems(s, Rebased(s))
<1>1. /\ s.items \in Seq(ItemTypes) /\ Len(s.items) \in Nat
      /\ s.data \in Seq(Bytes) /\ Len(s.data) \in Nat
      /\ s.offset \in Nat /\ Half \in Nat /\ Half > 0
      /\ s \in StreamTypes
      /\ \A i \in 1 .. Len(s.items) :
              /\ s.items[i] \in ItemTypes
              /\ s.items[i].bp \in Nat
  BY BufferedTypes, StreamDataAssumption DEF Buffered
<1>2. CASE s.offset < Half
  <2>1. Rebased(s) = s
    BY <1>2 DEF Rebased
  <2>2. QED
    BY <1>2, <2>1 DEF BufferOK, SameItems, SameCollected
<1>3. CASE ~(s.offset < Half)
  <2> DEFINE l == [i \in DOMAIN s.items |-> [s.items[i] EXCEPT !.bp = s.items[i].bp - s.offset]]
             r == [s EXCEPT !.items = l, !.offset = 0]
  <2>1. Rebased(s) = r
    BY <1>3 DEF Rebased
  <2>2. DOMAIN s.items = 1 .. Len(s.items)
    BY <1>1
  <2>3. ASSUME NEW i \in 1 .. Len(s.items)
        PROVE  /\ l[i] \in ItemTypes
               /\ l[i].file = s.items[i].file /\ l[i].off = s.items[i].off
               /\ l[i].pts = s.items[i].pts
               /\ l[i].bp = s.items[i].bp - s.offset
    <3>1. l[i] = [s.items[i] EXCEPT !.bp = s.items[i].bp - s.offset]
      BY <2>2
    <3>2. s.items[i] \in ItemTypes /\ s.items[i].bp - s.offset \in Nat
      <4>1. s.offset <= s.items[i].bp
        BY DEF Buffered
      <4>2. QED
        BY <1>1, <4>1
    <3>3. QED
      BY <3>1, <3>2 DEF ItemTypes
  <2>4. l \in Seq(ItemTypes) /\ Len(l) = Len(s.items)
    <3>1. l \in [1 .. Len(s.items) -> ItemTypes]
      BY <2>2, <2>3
    <3> HIDE DEF l
    <3>2. QED
      BY <1>1, <3>1, FcnIsSeq
  <2> HIDE DEF l
  <2>5. /\ r \in StreamTypes /\ r.items = l /\ r.data = s.data /\ r.offset = 0
        /\ SameCollected(s, r)
    BY <1>1, <2>4 DEF StreamTypes, SameCollected
  <2> HIDE DEF r
  <2>6. r.items = << >> <=> r.data = << >>
    <3>1. l = << >> <=> Len(l) = 0
      BY <2>4
    <3>2. s.items = << >> <=> Len(s.items) = 0
      BY <1>1
    <3>3. s.items = << >> <=> s.data = << >>
      BY DEF Buffered
    <3>4. QED
      BY <2>4, <2>5, <3>1, <3>2, <3>3
  <2>7. r.items # << >> => r.items[1].bp = r.offset
    <3>1. SUFFICES ASSUME r.items # << >>
                   PROVE  r.items[1].bp = r.offset
      OBVIOUS
    <3>2. 1 \in 1 .. Len(s.items) /\ s.items # << >>
      BY <1>1, <2>4, <2>5, <3>1
    <3>3. s.items[1].bp = s.offset
      BY <3>2 DEF Buffered
    <3>4. l[1].bp = s.items[1].bp - s.offset
      BY <2>3, <3>2
    <3>5. QED
      BY <1>1, <2>5, <3>3, <3>4
  <2>8. ASSUME NEW i \in 1 .. Len(r.items)
        PROVE  /\ r.offset <= r.items[i].bp /\ r.items[i].bp < r.offset + Len(r.data)
               /\ \A j \in 1 .. Len(r.items) : j < i => r.items[j].bp < r.items[i].bp
    <3>1. i \in 1 .. Len(s.items)
      BY <2>4, <2>5
    <3>2. /\ s.offset <= s.items[i].bp /\ s.items[i].bp < s.offset + Len(s.data)
          /\ \A j \in 1 .. Len(s.items) : j < i => s.items[j].bp < s.items[i].bp
      BY <3>1 DEF Buffered
    <3>3. l[i].bp = s.items[i].bp - s.offset
      BY <2>3, <3>1
    <3>4. r.offset <= r.items[i].bp /\ r.items[i].bp < r.offset + Len(r.data)
      BY <1>1, <2>5, <3>1, <3>2, <3>3
    <3>5. ASSUME NEW j \in 1 .. Len(r.items), j < i
          PROVE  r.items[j].bp < r.items[i].bp
      <4>1. j \in 1 .. Len(s.items)
        BY <2>4, <2>5
      <4>2. l[j].bp = s.items[j].bp - s.offset /\ s.items[j].bp < s.items[i].bp
        BY <2>3, <3>2, <3>5, <4>1
      <4>3. QED
        BY <1>1, <2>5, <3>1, <3>3, <4>1, <4>2
    <3>6. QED
      BY <3>4, <3>5
  <2>9. BufferOK(r)
    BY <1>1, <2>5, <2>6, <2>7, <2>8 DEF BufferOK, Buffered
  <2>10. SameItems(s, r)
    <3>1. \A i \in 1 .. Len(s.items) : l[i].bp - 0 = s.items[i].bp - s.offset
      BY <1>1, <2>3
    <3>2. QED
      BY <2>3, <2>4, <2>5, <3>1 DEF SameItems
  <2>11. QED
    BY <2>1, <2>9, <2>10
<1>4. QED
  BY <1>2, <1>3

LEMMA EmptiedFacts ==
  ASSUME NEW s, Buffered(s)
  PROVE  /\ BufferOK(Emptied(s)) /\ SameCollected(s, Emptied(s))
         /\ Emptied(s).items = << >> /\ Emptied(s).data = << >> /\ AllTimed(Emptied(s))
<1>1. s \in StreamTypes /\ Half \in Nat /\ Half > 0
  BY StreamDataAssumption DEF Buffered
<1>2. << >> \in Seq(ItemTypes) /\ << >> \in Seq(Bytes) /\ 0 \in Nat
  OBVIOUS
<1>3. /\ Emptied(s) \in StreamTypes /\ SameCollected(s, Emptied(s))
      /\ Emptied(s).items = << >> /\ Emptied(s).data = << >> /\ Emptied(s).offset = 0
  BY <1>1, <1>2 DEF Emptied, StreamTypes, SameCollected
<1>4. \A i \in 1 .. Len(Emptied(s).items) : FALSE
  BY <1>3
<1>5. QED
  BY <1>1, <1>3, <1>4 DEF BufferOK, Buffered, AllTimed

(* Of the items those that begin behind what was discarded stay, and the   *)
(* one before moves up: t is s without its first n bytes.                  *)
Moved(s, t, n) ==
  t.items # << >> =>
    \E k \in Nat :
      /\ Len(t.items) = Len(s.items) - k
      /\ k + 1 \in 1 .. Len(s.items)
      /\ s.items[k + 1].bp <= s.offset + n
      /\ t.items[1].file = s.items[k + 1].file
      /\ t.items[1].off = s.items[k + 1].off + ((s.offset + n) - s.items[k + 1].bp)
      /\ t.items[1].pts = s.items[k + 1].pts
      /\ \A j \in 2 .. Len(t.items) :
           /\ t.items[j].file = s.items[k + j].file /\ t.items[j].off = s.items[k + j].off
           /\ t.items[j].pts = s.items[k + j].pts
           /\ t.items[j].bp - t.offset = s.items[k + j].bp - (s.offset + n)

LEMMA AdvancedFacts ==
  ASSUME NEW it \in ItemTypes, NEW e \in Nat, it.bp <= e
  PROVE  /\ Advanced(it, e) \in ItemTypes /\ Advanced(it, e).bp = e
         /\ Advanced(it, e).off = it.off + (e - it.bp)
         /\ Advanced(it, e).file = it.file /\ Advanced(it, e).pts = it.pts
<1>1. it.bp \in Nat /\ it.off \in Nat
  BY DEF ItemTypes
<1>2. CASE it.bp < e
  <2>1. Advanced(it, e) = [it EXCEPT !.off = it.off + (e - it.bp), !.bp = e]
    BY <1>2 DEF Advanced
  <2>2. it.off + (e - it.bp) \in Nat
    BY <1>1, <1>2
  <2>3. QED
    BY <2>1, <2>2 DEF ItemTypes
<1>3. CASE ~(it.bp < e)
  <2>1. Advanced(it, e) = it
    BY <1>3 DEF Advanced
  <2>2. it.bp = e /\ it.off = it.off + (e - it.bp)
    BY <1>1, <1>3
  <2>3. QED
    BY <2>1, <2>2
<1>4. QED
  BY <1>2, <1>3

LEMMA WholeSeq ==
  ASSUME NEW S, NEW q \in Seq(S)
  PROVE  SubSeq(q, 1, Len(q)) = q
<1>1. /\ SubSeq(q, 0 + 1, Len(q)) \in Seq(S)
      /\ Len(SubSeq(q, 0 + 1, Len(q))) = IF 0 <= Len(q) THEN Len(q) - 0 ELSE 0
      /\ \A i \in 1 .. Len(q) - 0 : SubSeq(q, 0 + 1, Len(q))[i] = q[0 + i]
  BY EndOf
<1>2. 0 + 1 = 1 /\ Len(q) \in Nat /\ Len(q) - 0 = Len(q) /\ \A i \in 1 .. Len(q) : 0 + i = i
  OBVIOUS
<1>3. Len(SubSeq(q, 1, Len(q))) = Len(q) /\ \A i \in 1 .. Len(q) : SubSeq(q, 1, Len(q))[i] = q[i]
  BY <1>1, <1>2
<1>4. QED
  BY <1>1, <1>2, <1>3, SeqEqual

(* In front of the first byte that stays: which item it belongs to.        *)
LEMMA FirstKept ==
  ASSUME NEW s, BufferOK(s), s.items # << >>, NEW e \in Nat, s.offset <= e,
         NEW first, first = Max({1} \cup {i \in DOMAIN s.items : s.items[i].bp <= e})
  PROVE  /\ first \in 1 .. Len(s.items) /\ s.items[first].bp <= e
         /\ \A i \in 1 .. Len(s.items) : first < i => e < s.items[i].bp
<1> DEFINE S == {1} \cup {i \in DOMAIN s.items : s.items[i].bp <= e}
<1>1. /\ s.items \in Seq(ItemTypes) /\ Len(s.items) \in Nat /\ Len(s.items) > 0
      /\ \A i \in 1 .. Len(s.items) : s.items[i].bp \in Nat
  <2>1. Buffered(s)
    BY DEF BufferOK
  <2>2. QED
    BY <2>1, BufferedTypes
<1>2. DOMAIN s.items = 1 .. Len(s.items) /\ 1 \in 1 .. Len(s.items)
  BY <1>1
<1>3. S \subseteq 0 .. Len(s.items) /\ S # {}
  BY <1>1, <1>2
<1>4. Max(S) \in S /\ \A x \in S : x <= Max(S)
  <2> HIDE DEF S
  <2>1. QED
    BY <1>1, <1>3, MaxFacts
<1>5. first \in S /\ \A x \in S : x <= first
  BY <1>4
<1>6. s.items[1].bp = s.offset
  BY DEF BufferOK, Buffered
<1>7. first \in 1 .. Len(s.items) /\ s.items[first].bp <= e
  BY <1>2, <1>5, <1>6
<1>8. ASSUME NEW i \in 1 .. Len(s.items), first < i
      PROVE  e < s.items[i].bp
  <2>1. i \notin S
    BY <1>1, <1>5, <1>7, <1>8
  <2>2. ~(s.items[i].bp <= e)
    BY <1>2, <2>1
  <2>3. QED
    BY <1>1, <2>2
<1>9. QED
  BY <1>7, <1>8

LEMMA DiscardFacts ==
  ASSUME NEW s, BufferOK(s), NEW n \in Nat
  PROVE  /\ BufferOK(Discard(s, n)) /\ SameCollected(s, Discard(s, n))
         /\ Discard(s, n).data = SubSeq(s.data, n + 1, Len(s.data))
         /\ AllTimed(s) => AllTimed(Discard(s, n))
         /\ Moved(s, Discard(s, n), n)
<1>1. /\ s.items \in Seq(ItemTypes) /\ Len(s.items) \in Nat
      /\ s.data \in Seq(Bytes) /\ Len(s.data) \in Nat
      /\ s.offset \in Nat /\ s.offset < Half
      /\ s \in StreamTypes /\ Buffered(s)
      /\ \A i \in 1 .. Len(s.items) :
           s.items[i] \in ItemTypes /\ s.items[i].bp \in Nat /\ s.items[i].off \in Nat
  <2>1. Buffered(s) /\ s.offset < Half
    BY DEF BufferOK
  <2>2. s \in StreamTypes
    BY <2>1 DEF Buffered
  <2>3. QED
    BY <2>1, <2>2, BufferedTypes
<1>2. CASE n = 0
  <2>1. Discard(s, n) = s
    BY <1>2 DEF Discard
  <2>2. SubSeq(s.data, n + 1, Len(s.data)) = s.data
    <3>1. n + 1 = 1
      BY <1>2
    <3>2. QED
      BY <1>1, <3>1, WholeSeq
  <2>3. Moved(s, s, n)
    <3>1. s.items # << >> => s.items[1].bp = s.offset
      BY <1>1 DEF Buffered
    <3>2. \A j \in 2 .. Len(s.items) :
            0 + j = j /\ s.items[j].bp - s.offset = s.items[j].bp - (s.offset + n)
      BY <1>1, <1>2
    <3>3. s.items # << >> =>
            /\ Len(s.items) = Len(s.items) - 0 /\ 0 + 1 = 1 /\ 1 \in 1 .. Len(s.items)
            /\ s.items[1].bp <= s.offset + n
            /\ s.items[1].off = s.items[1].off + ((s.offset + n) - s.items[1].bp)
      BY <1>1, <1>2, <3>1
    <3>4. SUFFICES ASSUME s.items # << >>
                   PROVE  /\ Len(s.items) = Len(s.items) - 0
                          /\ 0 + 1 \in 1 .. Len(s.items)
                          /\ s.items[0 + 1].bp <= s.offset + n
                          /\ s.items[1].file = s.items[0 + 1].file
                          /\ s.items[1].off =
                               s.items[0 + 1].off + ((s.offset + n) - s.items[0 + 1].bp)
                          /\ s.items[1].pts = s.items[0 + 1].pts
                          /\ \A j \in 2 .. Len(s.items) :
                               /\ s.items[j].file = s.items[0 + j].file
                               /\ s.items[j].off = s.items[0 + j].off
                               /\ s.items[j].pts = s.items[0 + j].pts
                               /\ s.items[j].bp - s.offset = s.items[0 + j].bp - (s.offset + n)
      BY DEF Moved
    <3>5. \A j \in 2 .. Len(s.items) :
            /\ s.items[j].file = s.items[0 + j].file /\ s.items[j].off = s.items[0 + j].off
            /\ s.items[j].pts = s.items[0 + j].pts
            /\ s.items[j].bp - s.offset = s.items[0 + j].bp - (s.offset + n)
      BY <3>2
    <3>6. QED
      BY <3>3, <3>4, <3>5
  <2>4. QED
    BY <2>1, <2>2, <2>3 DEF SameCollected
<1>3. CASE n > 0 /\ n >= Len(s.data)
  <2>1. Discard(s, n) = Emptied(s)
    BY <1>3 DEF Discard
  <2>2. SubSeq(s.data, n + 1, Len(s.data)) = << >>
    <3>1. n + 1 \in Int /\ Len(s.data) \in Int /\ Len(s.data) < n + 1
      BY <1>1, <1>3
    <3>2. QED
      BY <3>1, SubSeqEmpty
  <2>3. /\ BufferOK(Emptied(s)) /\ SameCollected(s, Emptied(s))
        /\ Emptied(s).items = << >> /\ Emptied(s).data = << >> /\ AllTimed(Emptied(s))
    BY <1>1, EmptiedFacts
  <2>4. Moved(s, Emptied(s), n)
    BY <2>3 DEF Moved
  <2>5. QED
    BY <2>1, <2>2, <2>3, <2>4
<1>4. CASE n > 0 /\ n < Len(s.data)
  <2> DEFINE e == s.offset + n
             first == Max({1} \cup {i \in DOMAIN s.items : s.items[i].bp <= e})
             kept == SubSeq(s.items, first, Len(s.items))
             moved == [kept EXCEPT ![1] = Advanced(kept[1], e)]
             d == SubSeq(s.data, n + 1, Len(s.data))
             q == [s EXCEPT !.items = moved, !.data = d, !.offset = e]
             k == first - 1
  <2>1. s.items # << >> /\ Len(s.items) > 0
    <3>1. s.data # << >>
      BY <1>1, <1>4
    <3>2. s.items # << >>
      BY <1>1, <3>1 DEF Buffered
    <3>3. QED
      BY <1>1, <3>2
  <2>2. e \in Nat /\ s.offset <= e
    BY <1>1
  <2>3. From(s, e) = d
    <3>1. e - s.offset + 1 = n + 1
      BY <1>1
    <3>2. QED
      BY <3>1 DEF From
  <2>4. Discard(s, n) = Rebased(q)
    <3>1. n # 0 /\ ~(n > 0 /\ n >= Len(s.data))
      BY <1>1, <1>4
    <3>2. Discard(s, n) =
            Rebased([[s EXCEPT !.data = From(s, e), !.offset = e] EXCEPT !.items = moved])
      BY <2>1, <3>1 DEF Discard
    <3>3. [[s EXCEPT !.data = From(s, e), !.offset = e] EXCEPT !.items = moved] = q
      <4> HIDE DEF e, moved, d
      <4>1. QED
        BY <1>1, <2>3 DEF StreamTypes
    <3>4. QED
      BY <3>2, <3>3
  <2>5. /\ first \in 1 .. Len(s.items) /\ s.items[first].bp <= e
        /\ \A i \in 1 .. Len(s.items) : first < i => e < s.items[i].bp
    <3> HIDE DEF e
    <3>1. QED
      BY <2>1, <2>2, FirstKept
  <2> HIDE DEF e, first
  <2>6. k \in Nat /\ k + 1 = first
    BY <1>1, <2>5
  <2> HIDE DEF k
  <2>7. /\ kept \in Seq(ItemTypes) /\ Len(kept) = Len(s.items) - k
        /\ \A j \in 1 .. Len(s.items) - k : kept[j] = s.items[k + j] /\ k + j \in 1 .. Len(s.items)
    <3>1. /\ SubSeq(s.items, k + 1, Len(s.items)) \in Seq(ItemTypes)
          /\ Len(SubSeq(s.items, k + 1, Len(s.items))) =
               IF k <= Len(s.items) THEN Len(s.items) - k ELSE 0
          /\ \A i \in 1 .. Len(s.items) - k :
               SubSeq(s.items, k + 1, Len(s.items))[i] = s.items[k + i]
               /\ k + i \in 1 .. Len(s.items)
      BY <1>1, <2>6, EndOf
    <3>2. k <= Len(s.items)
      BY <1>1, <2>5, <2>6
    <3>3. QED
      BY <2>6, <3>1, <3>2
  <2>8. 1 \in 1 .. Len(s.items) - k /\ Len(s.items) - k \in Nat
    BY <1>1, <2>5, <2>6
  <2>9. kept[1] = s.items[first] /\ s.items[first] \in ItemTypes
    BY <1>1, <2>5, <2>6, <2>7, <2>8
  <2> HIDE DEF kept
  <2>10. /\ Advanced(kept[1], e) \in ItemTypes /\ Advanced(kept[1], e).bp = e
         /\ Advanced(kept[1], e).off = kept[1].off + (e - kept[1].bp)
         /\ Advanced(kept[1], e).file = kept[1].file /\ Advanced(kept[1], e).pts = kept[1].pts
    BY <2>2, <2>5, <2>9, AdvancedFacts
  <2>11. /\ moved \in Seq(ItemTypes) /\ Len(moved) = Len(s.items) - k
         /\ moved[1] = Advanced(kept[1], e)
         /\ \A j \in 2 .. Len(s.items) - k : moved[j] = s.items[k + j]
    <3>1. DOMAIN kept = 1 .. Len(s.items) - k
      BY <2>7
    <3>2. moved[1] = Advanced(kept[1], e)
      BY <2>8, <3>1
    <3>3. ASSUME NEW j \in 2 .. Len(s.items) - k
          PROVE  moved[j] = s.items[k + j]
      <4>1. j \in 1 .. Len(s.items) - k /\ j # 1
        BY <2>8
      <4>2. QED
        BY <2>7, <3>1, <4>1
    <3>4. moved \in [1 .. Len(s.items) - k -> ItemTypes]
      <4>1. kept \in [1 .. Len(s.items) - k -> ItemTypes]
        BY <2>7
      <4> DEFINE a == Advanced(kept[1], e)
      <4>2. a \in ItemTypes
        BY <2>10
      <4> HIDE DEF a
      <4>3. [kept EXCEPT ![1] = a] \in [1 .. Len(s.items) - k -> ItemTypes]
        BY <4>1, <4>2
      <4>4. QED
        BY <4>3 DEF a
    <3> HIDE DEF moved
    <3>5. moved \in Seq(ItemTypes) /\ Len(moved) = Len(s.items) - k
      BY <2>8, <3>4, FcnIsSeq
    <3>6. QED
      BY <3>2, <3>3, <3>5
  <2> HIDE DEF moved
  <2>12. d \in Seq(Bytes) /\ Len(d) = Len(s.data) - n
    <3>1. /\ d \in Seq(Bytes)
          /\ Len(d) = IF n <= Len(s.data) THEN Len(s.data) - n ELSE 0
      BY <1>1, EndOf
    <3>2. n <= Len(s.data)
      BY <1>1, <1>4
    <3>3. QED
      BY <3>1, <3>2
  <2> HIDE DEF d
  <2>13. /\ q \in StreamTypes /\ q.items = moved /\ q.data = d /\ q.offset = e
         /\ SameCollected(s, q)
    BY <1>1, <2>2, <2>11, <2>12 DEF StreamTypes, SameCollected
  <2> HIDE DEF q
  <2>14. ASSUME NEW j \in 1 .. Len(q.items)
         PROVE  /\ k + j \in 1 .. Len(s.items)
                /\ j = 1 => q.items[j].bp = e
                /\ 1 < j => q.items[j] = s.items[k + j] /\ e < q.items[j].bp
                /\ q.items[j].pts = s.items[k + j].pts
                /\ q.items[j].file = s.items[k + j].file
                /\ q.items[j].bp \in Nat
    <3>1. j \in 1 .. Len(s.items) - k /\ k + j \in 1 .. Len(s.items)
      BY <2>7, <2>11, <2>13
    <3>2. CASE j = 1
      BY <2>2, <2>6, <2>9, <2>10, <2>11, <2>13, <3>1, <3>2
    <3>3. CASE 1 < j
      <4>1. j \in 2 .. Len(s.items) - k /\ first < k + j /\ j # 1
        BY <2>6, <2>8, <3>1, <3>3
      <4>2. q.items[j] = s.items[k + j] /\ e < s.items[k + j].bp
        BY <2>5, <2>11, <2>13, <3>1, <4>1
      <4>3. QED
        BY <1>1, <3>1, <4>1, <4>2
    <3>4. QED
      BY <2>8, <3>1, <3>2, <3>3
  <2>15. Len(q.items) = Len(s.items) - k /\ Len(q.items) > 0 /\ q.items # << >>
         /\ 1 \in 1 .. Len(q.items) /\ q.data # << >>
    <3>1. Len(q.items) = Len(s.items) - k /\ Len(q.items) > 0 /\ 1 \in 1 .. Len(q.items)
      BY <2>8, <2>11, <2>13
    <3>2. Len(q.data) > 0
      BY <1>1, <1>4, <2>12, <2>13
    <3>3. q.items # << >> /\ q.data # << >>
      BY <2>11, <2>12, <2>13, <3>1, <3>2
    <3>4. QED
      BY <3>1, <3>3
  <2>16. Buffered(q)
    <3>1. ASSUME NEW i \in 1 .. Len(q.items)
          PROVE  /\ q.offset <= q.items[i].bp /\ q.items[i].bp < q.offset + Len(q.data)
                 /\ \A j \in 1 .. Len(q.items) : j < i => q.items[j].bp < q.items[i].bp
      <4>1. q.offset <= q.items[i].bp
        BY <2>2, <2>8, <2>13, <2>14, <2>15
      <4>2. q.items[i].bp < q.offset + Len(q.data)
        <5>1. CASE i = 1
          BY <1>1, <1>4, <2>2, <2>12, <2>13, <2>14, <5>1
        <5>2. CASE 1 < i
          <6>1. s.items[k + i].bp < s.offset + Len(s.data)
            BY <1>1, <2>14 DEF Buffered
          <6>2. e + (Len(s.data) - n) = s.offset + Len(s.data)
            BY <1>1 DEF e
          <6>3. QED
            BY <2>12, <2>13, <2>14, <5>2, <6>1, <6>2
        <5>3. QED
          BY <2>8, <2>15, <5>1, <5>2
      <4>3. ASSUME NEW j \in 1 .. Len(q.items), j < i
            PROVE  q.items[j].bp < q.items[i].bp
        <5>1. 1 < i /\ q.items[i] = s.items[k + i] /\ e < q.items[i].bp
          BY <2>8, <2>14, <2>15, <4>3
        <5>2. CASE j = 1
          BY <2>14, <5>1, <5>2
        <5>3. CASE 1 < j
          <6>1. k + j < k + i /\ k + j \in 1 .. Len(s.items) /\ k + i \in 1 .. Len(s.items)
            BY <2>6, <2>8, <2>14, <2>15, <4>3
          <6>2. s.items[k + j].bp < s.items[k + i].bp
            BY <1>1, <6>1 DEF Buffered
          <6>3. QED
            BY <2>14, <5>1, <5>3, <6>2
        <5>4. QED
          BY <2>8, <2>15, <5>2, <5>3
      <4>4. QED
        BY <4>1, <4>2, <4>3
    <3>2. QED
      BY <2>13, <2>14, <2>15, <3>1 DEF Buffered
  <2> DEFINE r == Rebased(q)
  <2>17. BufferOK(r) /\ SameItems(q, r)
    BY <2>16, RebasedFacts
  <2>18. r.data = d /\ SameCollected(s, r)
    BY <2>13, <2>17 DEF SameItems, SameCollected
  <2>19. AllTimed(s) => AllTimed(r)
    <3>1. SUFFICES ASSUME AllTimed(s), NEW i \in 1 .. Len(r.items)
                   PROVE  r.items[i].pts \in Nat
      BY DEF AllTimed
    <3>2. i \in 1 .. Len(q.items) /\ r.items[i].pts = q.items[i].pts
      BY <2>17 DEF SameItems
    <3>3. QED
      BY <2>14, <3>1, <3>2 DEF AllTimed
  <2>20. Moved(s, r, n)
    <3> HIDE DEF r
    <3>1. Len(r.items) = Len(s.items) - k
      BY <2>15, <2>17 DEF SameItems
    <3>2. k + 1 \in 1 .. Len(s.items) /\ s.items[k + 1].bp <= s.offset + n
      BY <2>5, <2>6 DEF e
    <3>3. /\ r.items[1].file = s.items[k + 1].file
          /\ r.items[1].off = s.items[k + 1].off + ((s.offset + n) - s.items[k + 1].bp)
          /\ r.items[1].pts = s.items[k + 1].pts
      <4>1. /\ r.items[1].file = q.items[1].file /\ r.items[1].off = q.items[1].off
            /\ r.items[1].pts = q.items[1].pts
        BY <2>15, <2>17 DEF SameItems
      <4>2. q.items[1] = Advanced(kept[1], e) /\ kept[1] = s.items[k + 1]
        BY <2>6, <2>9, <2>11, <2>13
      <4>3. QED
        BY <2>10, <4>1, <4>2 DEF e
    <3>4. ASSUME NEW j \in 2 .. Len(r.items)
          PROVE  /\ r.items[j].file = s.items[k + j].file
                 /\ r.items[j].off = s.items[k + j].off
                 /\ r.items[j].pts = s.items[k + j].pts
                 /\ r.items[j].bp - r.offset = s.items[k + j].bp - (s.offset + n)
      <4>1. j \in 1 .. Len(q.items) /\ 1 < j
        BY <2>8, <2>15, <3>1
      <4>2. /\ r.items[j].file = q.items[j].file /\ r.items[j].off = q.items[j].off
            /\ r.items[j].pts = q.items[j].pts
            /\ r.items[j].bp - r.offset = q.items[j].bp - q.offset
        BY <2>17, <4>1 DEF SameItems
      <4>3. q.items[j] = s.items[k + j] /\ q.offset = s.offset + n
        BY <2>13, <2>14, <4>1 DEF e
      <4>4. QED
        BY <4>2, <4>3
    <3>5. QED
      BY <2>6, <3>1, <3>2, <3>3, <3>4 DEF Moved
  <2>21. QED
    BY <2>4, <2>17, <2>18, <2>19, <2>20 DEF d
<1>5. QED
  BY <1>1, <1>2, <1>3, <1>4

LEMMA EmptyIs ==
  ASSUME NEW S, NEW q \in Seq(S)
  PROVE  (q = << >> <=> Len(q) = 0) /\ Len(q) \in Nat
OBVIOUS

(* What somebody who uses a stream of sound leaves of it.                  *)
Heard(s, t) ==
  /\ BufferOK(t) /\ t.header = s.header /\ t.nextfilepos = s.nextfilepos
  /\ AllTimed(s) => AllTimed(t)
  /\ \E n \in Nat : t.data = SubSeq(s.data, n + 1, Len(s.data))

(* Of the items some are left, where they were: as far from the end.       *)
ToEnd(s, bp) == (s.offset + Len(s.data)) - bp

Stays(s, t) ==
  \A j \in 1 .. Len(t.items) : \E i \in 1 .. Len(s.items) :
    /\ t.items[j].file = s.items[i].file /\ t.items[j].pts = s.items[i].pts
    /\ ToEnd(t, t.items[j].bp) = ToEnd(s, s.items[i].bp)

LEMMA SameEnd ==
  ASSUME NEW s, NEW t, s.data = t.data, Len(s.data) \in Nat,
         s.offset \in Nat, t.offset \in Nat,
         NEW x, x \in Nat, NEW y, y \in Nat, x - s.offset = y - t.offset
  PROVE  ToEnd(s, x) = ToEnd(t, y)
<1> DEFINE o == s.offset
           p == t.offset
           c == Len(s.data)
<1>1. o \in Nat /\ p \in Nat /\ c \in Nat /\ x - o = y - p
  OBVIOUS
<1>2. ToEnd(s, x) = (o + c) - x /\ ToEnd(t, y) = (p + c) - y
  BY DEF ToEnd
<1> HIDE DEF o, p, c
<1>3. (o + c) - x = (p + c) - y
  BY <1>1
<1>4. QED
  BY <1>2, <1>3

LEMMA PopFacts ==
  ASSUME NEW s, BufferOK(s), NEW k \in 1 .. Len(s.items)
  PROVE  /\ Heard(s, Pop([s EXCEPT !.items = SubSeq(s.items, k, Len(s.items))]))
         /\ Stays(s, Pop([s EXCEPT !.items = SubSeq(s.items, k, Len(s.items))]))
<1> DEFINE kept == SubSeq(s.items, k, Len(s.items))
           q == [s EXCEPT !.items = kept]
           rest == Tail(kept)
<1>1. /\ s.items \in Seq(ItemTypes) /\ Len(s.items) \in Nat
      /\ s.data \in Seq(Bytes) /\ Len(s.data) \in Nat
      /\ s.offset \in Nat /\ s.offset < Half
      /\ s \in StreamTypes /\ Buffered(s)
      /\ \A i \in 1 .. Len(s.items) :
           s.items[i] \in ItemTypes /\ s.items[i].bp \in Nat
  <2>1. Buffered(s) /\ s.offset < Half
    BY DEF BufferOK
  <2>2. s \in StreamTypes
    BY <2>1 DEF Buffered
  <2>3. QED
    BY <2>1, <2>2, BufferedTypes
<1>2. k \in Nat /\ k - 1 \in Nat /\ (k - 1) + 1 = k /\ k <= Len(s.items)
  BY <1>1
<1>3. /\ kept \in Seq(ItemTypes) /\ Len(kept) = Len(s.items) - (k - 1)
      /\ \A i \in 1 .. Len(s.items) - (k - 1) : kept[i] = s.items[(k - 1) + i]
  <2> DEFINE h == k - 1
  <2>1. h \in Nat
    BY <1>2
  <2> HIDE DEF h
  <2>2. /\ SubSeq(s.items, h + 1, Len(s.items)) \in Seq(ItemTypes)
        /\ Len(SubSeq(s.items, h + 1, Len(s.items))) =
             IF h <= Len(s.items) THEN Len(s.items) - h ELSE 0
        /\ \A i \in 1 .. Len(s.items) - h :
             SubSeq(s.items, h + 1, Len(s.items))[i] = s.items[h + i]
    BY <1>1, <2>1, EndOf
  <2>3. h <= Len(s.items) /\ h + 1 = k
    BY <1>1, <1>2 DEF h
  <2>4. QED
    BY <2>2, <2>3 DEF h
<1>4. kept # << >> /\ Len(kept) \in Nat /\ Len(kept) > 0
  <2>1. Len(kept) > 0
    BY <1>1, <1>2, <1>3
  <2>2. kept \in Seq(ItemTypes)
    BY <1>3
  <2> HIDE DEF kept
  <2>3. QED
    BY <2>1, <2>2, EmptyIs
<1> HIDE DEF kept
<1>5. /\ rest \in Seq(ItemTypes) /\ Len(rest) = Len(s.items) - k
      /\ \A i \in 1 .. Len(s.items) - k : rest[i] = s.items[k + i] /\ k + i \in 1 .. Len(s.items)
  <2>1. /\ rest \in Seq(ItemTypes) /\ Len(rest) = Len(kept) - 1
        /\ \A i \in 1 .. Len(rest) : rest[i] = kept[i + 1]
    BY <1>3, <1>4, HeadTailProperties
  <2>2. Len(rest) = Len(s.items) - k
    BY <1>1, <1>2, <1>3, <2>1
  <2>3. ASSUME NEW i \in 1 .. Len(s.items) - k
        PROVE  rest[i] = s.items[k + i] /\ k + i \in 1 .. Len(s.items)
    <3>1. i \in 1 .. Len(rest) /\ i + 1 \in 1 .. Len(s.items) - (k - 1)
          /\ (k - 1) + (i + 1) = k + i /\ k + i \in 1 .. Len(s.items)
      BY <1>1, <1>2, <2>2
    <3>2. QED
      BY <1>3, <2>1, <3>1
  <2>4. QED
    BY <2>1, <2>2, <2>3
<1>6. /\ q \in StreamTypes /\ q.items = kept /\ q.data = s.data /\ q.offset = s.offset
      /\ q.header = s.header /\ q.nextfilepos = s.nextfilepos /\ q.added = s.added
  BY <1>1, <1>3 DEF StreamTypes
<1>7. CASE k = Len(s.items)
  <2>1. rest = << >>
    <3>1. Len(rest) = 0
      BY <1>1, <1>5, <1>7
    <3>2. rest \in Seq(ItemTypes)
      BY <1>5
    <3> HIDE DEF rest
    <3>3. QED
      BY <3>1, <3>2, EmptyIs
  <2>2. Pop(q) = Emptied(q)
    BY <1>6, <2>1 DEF Pop
  <2>3. Emptied(q) = Emptied(s)
    <3>1. Emptied(q) = [q EXCEPT !.items = << >>, !.data = << >>, !.offset = 0]
      BY DEF Emptied
    <3>2. QED
      BY <1>1, <3>1 DEF Emptied, StreamTypes
  <2>4. SubSeq(s.data, Len(s.data) + 1, Len(s.data)) = << >>
    <3>1. Len(s.data) + 1 \in Int /\ Len(s.data) \in Int /\ Len(s.data) < Len(s.data) + 1
      BY <1>1
    <3>2. QED
      BY <3>1, SubSeqEmpty
  <2>5. /\ BufferOK(Emptied(s)) /\ SameCollected(s, Emptied(s))
        /\ Emptied(s).data = << >> /\ AllTimed(Emptied(s)) /\ Emptied(s).items = << >>
    BY <1>1, EmptiedFacts
  <2>6. Heard(s, Emptied(s))
    BY <1>1, <2>4, <2>5 DEF Heard, SameCollected
  <2>7. Stays(s, Emptied(s))
    <3>1. \A j \in 1 .. Len(Emptied(s).items) : FALSE
      BY <2>5
    <3>2. QED
      BY <3>1 DEF Stays
  <2>8. QED
    BY <2>2, <2>3, <2>6, <2>7 DEF kept
<1>8. CASE k < Len(s.items)
  <2> DEFINE e == s.items[k + 1].bp
             n == e - s.offset
             d == SubSeq(s.data, n + 1, Len(s.data))
             w == [s EXCEPT !.items = rest, !.data = d, !.offset = e]
  <2>1. k + 1 \in 1 .. Len(s.items) /\ 1 \in 1 .. Len(s.items) - k
    BY <1>1, <1>2, <1>8
  <2>2. rest # << >> /\ Head(rest) = s.items[k + 1] /\ Len(rest) > 0
    <3>1. Len(rest) > 0
      BY <1>1, <1>2, <1>5, <1>8
    <3>2. rest # << >>
      <4>1. rest \in Seq(ItemTypes)
        BY <1>5
      <4> HIDE DEF rest
      <4>2. QED
        BY <3>1, <4>1, EmptyIs
    <3>3. Head(rest) = rest[1]
      BY <1>5, <3>2
    <3>4. QED
      BY <1>5, <2>1, <3>1, <3>2, <3>3
  <2>3. e \in Nat /\ s.offset <= e /\ e < s.offset + Len(s.data) /\ n \in Nat
        /\ n < Len(s.data)
    <3>1. e \in Nat /\ s.offset <= e /\ e < s.offset + Len(s.data)
      BY <1>1, <2>1 DEF Buffered
    <3>2. QED
      BY <1>1, <3>1
  <2>4. From(q, e) = d
    <3>1. e - s.offset + 1 = n + 1
      OBVIOUS
    <3>2. QED
      BY <1>6, <3>1 DEF From
  <2> HIDE DEF rest
  <2>5. Pop(q) = Rebased(w)
    <3>1. Pop(q) = Rebased([q EXCEPT !.items = rest, !.data = From(q, Head(rest).bp),
                                     !.offset = Head(rest).bp])
      BY <1>6, <2>2 DEF Pop, rest
    <3>2. [q EXCEPT !.items = rest, !.data = From(q, Head(rest).bp),
                    !.offset = Head(rest).bp] =
            [q EXCEPT !.items = rest, !.data = d, !.offset = e]
      BY <2>2, <2>4
    <3>3. [q EXCEPT !.items = rest, !.data = d, !.offset = e] = w
      <4> HIDE DEF d, e
      <4>1. QED
        BY <1>1 DEF StreamTypes
    <3>4. QED
      BY <3>1, <3>2, <3>3
  <2>6. d \in Seq(Bytes) /\ Len(d) = Len(s.data) - n
    <3> HIDE DEF n
    <3>1. /\ d \in Seq(Bytes)
          /\ Len(d) = IF n <= Len(s.data) THEN Len(s.data) - n ELSE 0
      BY <1>1, <2>3, EndOf
    <3>2. n <= Len(s.data)
      BY <1>1, <2>3
    <3>3. QED
      BY <3>1, <3>2
  <2> HIDE DEF d
  <2>7. /\ w \in StreamTypes /\ w.items = rest /\ w.data = d /\ w.offset = e
        /\ SameCollected(s, w)
    BY <1>1, <1>5, <2>3, <2>6 DEF StreamTypes, SameCollected
  <2> HIDE DEF w, e
  <2>8. \A i \in 1 .. Len(w.items) : w.items[i] = s.items[k + i] /\ k + i \in 1 .. Len(s.items)
    BY <1>5, <2>7
  <2>9. w.items # << >> /\ w.data # << >> /\ w.items[1].bp = w.offset
    <3>1. Len(d) > 0
      BY <1>1, <2>3, <2>6
    <3>2. d # << >>
      BY <2>6, <3>1
    <3>3. rest[1] = s.items[k + 1]
      BY <1>5, <2>1
    <3>4. QED
      BY <2>2, <2>7, <3>2, <3>3 DEF e
  <2>0. w.offset + Len(w.data) = s.offset + Len(s.data)
    <3>1. e + (Len(s.data) - (e - s.offset)) = s.offset + Len(s.data)
      BY <1>1, <2>3
    <3>2. QED
      BY <2>6, <2>7, <3>1
  <2>10. ASSUME NEW i \in 1 .. Len(w.items)
         PROVE  /\ w.offset <= w.items[i].bp /\ w.items[i].bp < w.offset + Len(w.data)
                /\ \A j \in 1 .. Len(w.items) : j < i => w.items[j].bp < w.items[i].bp
    <3>1. w.items[i] = s.items[k + i] /\ k + i \in 1 .. Len(s.items)
      BY <2>8
    <3>2. ASSUME NEW j \in 1 .. Len(w.items), j < i
          PROVE  w.items[j].bp < w.items[i].bp
      <4>1. k + j < k + i
        BY <1>2, <1>5, <2>7, <3>2
      <4>2. s.items[k + j].bp < s.items[k + i].bp
        BY <1>1, <2>8, <3>1, <4>1 DEF Buffered
      <4>3. QED
        BY <2>8, <3>1, <4>2
    <3>3. w.items[i].bp < w.offset + Len(w.data)
      <4>1. s.items[k + i].bp < s.offset + Len(s.data)
        BY <1>1, <3>1 DEF Buffered
      <4>2. QED
        BY <2>0, <3>1, <4>1
    <3>4. w.offset <= w.items[i].bp
      <4>1. CASE i = 1
        BY <2>3, <2>7, <2>9, <4>1
      <4>2. CASE 1 < i
        <5>1. 1 \in 1 .. Len(w.items)
          BY <1>5, <2>2, <2>7
        <5>2. w.items[1].bp < w.items[i].bp
          BY <3>2, <4>2, <5>1
        <5>3. w.items[i].bp \in Nat
          BY <1>1, <3>1
        <5>4. QED
          BY <2>3, <2>7, <2>9, <5>2, <5>3
      <4>3. QED
        BY <1>5, <2>7, <4>1, <4>2
    <3>5. QED
      BY <3>2, <3>3, <3>4
  <2>11. Buffered(w)
    BY <2>7, <2>9, <2>10 DEF Buffered
  <2>12. BufferOK(Rebased(w)) /\ SameItems(w, Rebased(w))
    BY <2>11, RebasedFacts
  <2>13. AllTimed(s) => AllTimed(Rebased(w))
    <3>1. SUFFICES ASSUME AllTimed(s), NEW i \in 1 .. Len(Rebased(w).items)
                   PROVE  Rebased(w).items[i].pts \in Nat
      BY DEF AllTimed
    <3>2. i \in 1 .. Len(w.items) /\ Rebased(w).items[i].pts = w.items[i].pts
      BY <2>12 DEF SameItems
    <3>3. QED
      BY <2>8, <3>1, <3>2 DEF AllTimed
  <2>14. Rebased(w).data = d /\ SameCollected(s, Rebased(w))
    BY <2>7, <2>12 DEF SameItems, SameCollected
  <2>15. Heard(s, Rebased(w))
    BY <2>3, <2>12, <2>13, <2>14 DEF Heard, SameCollected, d
  <2>16. Stays(s, Rebased(w))
    <3>1. SUFFICES ASSUME NEW j \in 1 .. Len(Rebased(w).items)
                   PROVE  \E i \in 1 .. Len(s.items) :
                     /\ Rebased(w).items[j].file = s.items[i].file
                     /\ Rebased(w).items[j].pts = s.items[i].pts
                     /\ ToEnd(Rebased(w), Rebased(w).items[j].bp) = ToEnd(s, s.items[i].bp)
      BY DEF Stays
    <3> DEFINE r == Rebased(w)
    <3>2. /\ j \in 1 .. Len(w.items) /\ r.items[j].file = w.items[j].file
          /\ r.items[j].pts = w.items[j].pts /\ r.data = w.data
          /\ r.items[j].bp - r.offset = w.items[j].bp - w.offset
      BY <2>12 DEF SameItems
    <3>3. w.items[j] = s.items[k + j] /\ k + j \in 1 .. Len(s.items)
      BY <2>8, <3>2
    <3>4. /\ r.items[j].bp \in Nat /\ r.offset \in Nat /\ Len(r.data) \in Nat
          /\ w.items[j].bp \in Nat /\ w.offset \in Nat
      <4>1. Buffered(r) /\ Buffered(w)
        BY <2>11, <2>12 DEF BufferOK
      <4> HIDE DEF r
      <4>2. QED
        BY <3>1, <3>2, <4>1, BufferedTypes DEF r
    <3> HIDE DEF r
    <3>5. ToEnd(r, r.items[j].bp) = ToEnd(w, w.items[j].bp)
      BY <3>2, <3>4, SameEnd
    <3>6. ToEnd(w, w.items[j].bp) = ToEnd(s, w.items[j].bp)
      BY <2>0 DEF ToEnd
    <3>7. QED
      BY <3>2, <3>3, <3>5, <3>6 DEF r
  <2>18. QED
    BY <2>5, <2>15, <2>16 DEF kept
<1>9. QED
  BY <1>1, <1>2, <1>7, <1>8

LEMMA PopFirst ==
  ASSUME NEW s, BufferOK(s), s.items # << >>
  PROVE  Heard(s, Pop(s)) /\ Stays(s, Pop(s))
<1>1. s.items \in Seq(ItemTypes) /\ Len(s.items) \in Nat /\ s \in StreamTypes
  <2>1. Buffered(s)
    BY DEF BufferOK
  <2>2. s \in StreamTypes
    BY <2>1 DEF Buffered
  <2>3. QED
    BY <2>1, <2>2, BufferedTypes
<1>2. SubSeq(s.items, 1, Len(s.items)) = s.items
  BY <1>1, WholeSeq
<1>3. [s EXCEPT !.items = SubSeq(s.items, 1, Len(s.items))] = s
  BY <1>1, <1>2 DEF StreamTypes
<1>4. 1 \in 1 .. Len(s.items)
  BY <1>1
<1>5. /\ Heard(s, Pop([s EXCEPT !.items = SubSeq(s.items, 1, Len(s.items))]))
      /\ Stays(s, Pop([s EXCEPT !.items = SubSeq(s.items, 1, Len(s.items))]))
  BY <1>4, PopFacts
<1>6. QED
  BY <1>3, <1>5

LEMMA PopManyFacts ==
  ASSUME NEW s, BufferOK(s), NEW n \in 1 .. Len(s.items) - 1
  PROVE  Heard(s, PopMany(s, n)) /\ Stays(s, PopMany(s, n))
<1>1. Len(s.items) \in Nat
  <2>1. Buffered(s)
    BY DEF BufferOK
  <2>2. QED
    BY <2>1, BufferedTypes
<1>2. n # 0 /\ ~(n > 0 /\ n >= Len(s.items)) /\ n \in 1 .. Len(s.items)
  BY <1>1
<1>3. PopMany(s, n) = Pop([s EXCEPT !.items = SubSeq(s.items, n, Len(s.items))])
  BY <1>2 DEF PopMany
<1>4. QED
  BY <1>2, <1>3, PopFacts

LEMMA DiscardHeard ==
  ASSUME NEW s, BufferOK(s), NEW n \in Nat
  PROVE  Heard(s, Discard(s, n))
BY DiscardFacts DEF Heard, SameCollected

(* The items with a time: all of a stream of sound, the first at the begin.*)
LEMMA TimedFacts ==
  ASSUME NEW s, BufferOK(s), AllTimed(s)
  PROVE  \E n \in Nat :
           /\ Timed(s.items) \in Seq(ItemTypes) /\ Len(Timed(s.items)) = n
           /\ DOMAIN Timed(s.items) = 1 .. n
           /\ \A i \in 1 .. n :
                \E k \in 1 .. Len(s.items) : Timed(s.items)[i] = s.items[k]
           /\ \A k \in 1 .. Len(s.items) : \E i \in 1 .. n : Timed(s.items)[i] = s.items[k]
           /\ \A i, j \in 1 .. n : i < j => Timed(s.items)[i].bp < Timed(s.items)[j].bp
           /\ s.items # << >> => n > 0 /\ Timed(s.items)[1] = s.items[1]
           /\ s.items = << >> => n = 0
<1> DEFINE l == s.items
           T == {i \in DOMAIN l : l[i].pts # NoPts}
<1>1. /\ l \in Seq(ItemTypes) /\ Len(l) \in Nat
      /\ (l = << >> <=> Len(l) = 0)
      /\ \A i \in 1 .. Len(l) : l[i] \in ItemTypes /\ l[i].pts \in Nat
  <2>1. Buffered(s)
    BY DEF BufferOK
  <2>2. \A i \in 1 .. Len(l) : l[i].pts \in Nat
    BY DEF AllTimed
  <2>3. QED
    BY <2>1, <2>2, BufferedTypes
<1>2. T = 1 .. Len(l)
  BY <1>1 DEF NoPts
<1>3. T \subseteq 1 .. Len(l)
  BY <1>2
<1>4. KeptBy(l, T)
  <2> HIDE DEF T
  <2>1. QED
    BY <1>1, <1>3, KeptFacts
<1>5. Timed(l) = Kept(l, T)
  BY DEF Timed
<1>6. PICK n \in Nat : \E m \in [1 .. n -> T] :
        /\ Kept(l, T) = [k \in 1 .. n |-> l[m[k]]]
        /\ \A i, j \in 1 .. n : i < j => m[i] < m[j]
        /\ \A x \in T : \E i \in 1 .. n : m[i] = x
  BY <1>4 DEF KeptBy
<1>7. PICK m \in [1 .. n -> T] :
        /\ Kept(l, T) = [k \in 1 .. n |-> l[m[k]]]
        /\ \A i, j \in 1 .. n : i < j => m[i] < m[j]
        /\ \A x \in T : \E i \in 1 .. n : m[i] = x
  BY <1>6
<1> HIDE DEF T
<1>8. \A k \in 1 .. n : m[k] \in 1 .. Len(l) /\ l[m[k]] \in ItemTypes
  BY <1>1, <1>3, <1>7
<1> DEFINE r == [k \in 1 .. n |-> l[m[k]]]
<1>9. r \in Seq(ItemTypes) /\ Len(r) = n /\ DOMAIN r = 1 .. n
  <2>1. r \in [1 .. n -> ItemTypes]
    BY <1>8
  <2> HIDE DEF r
  <2>2. QED
    BY <1>6, <2>1, FcnIsSeq
<1>10. \A i \in 1 .. n : \E k \in 1 .. Len(l) : r[i] = l[k]
  BY <1>8
<1>17. ASSUME NEW k \in 1 .. Len(l)
       PROVE  \E i \in 1 .. n : r[i] = l[k]
  <2>1. PICK i \in 1 .. n : m[i] = k
    BY <1>2, <1>7
  <2>2. r[i] = l[k]
    BY <2>1
  <2>3. QED
    BY <2>2
<1>16. \A i, j \in 1 .. n : i < j => r[i].bp < r[j].bp
  <2> TAKE i, j \in 1 .. n
  <2> HAVE i < j
  <2>1. m[i] \in 1 .. Len(l) /\ m[j] \in 1 .. Len(l) /\ m[i] < m[j]
    BY <1>7, <1>8
  <2>2. l[m[i]].bp < l[m[j]].bp
    BY <2>1 DEF BufferOK, Buffered
  <2>3. QED
    BY <2>2
<1>11. l # << >> => n > 0 /\ r[1] = l[1]
  <2> SUFFICES ASSUME l # << >>
               PROVE  n > 0 /\ r[1] = l[1]
    OBVIOUS
  <2>1. 1 \in T
    BY <1>1, <1>2
  <2>2. PICK i \in 1 .. n : m[i] = 1
    BY <1>7, <2>1
  <2>3. 1 \in 1 .. n /\ n > 0
    BY <1>6, <2>2
  <2>4. i = 1
    <3>1. ~(1 < i)
      <4> SUFFICES ASSUME 1 < i
                   PROVE  FALSE
        OBVIOUS
      <4>1. m[1] < m[i] /\ m[1] \in 1 .. Len(l)
        BY <1>7, <1>8, <2>3
      <4>2. QED
        BY <1>1, <2>2, <4>1
    <3>2. QED
      BY <1>6, <2>2, <3>1
  <2>5. QED
    BY <2>2, <2>3, <2>4
<1>12. l = << >> => n = 0
  <2> SUFFICES ASSUME l = << >>, n # 0
               PROVE  FALSE
    OBVIOUS
  <2>1. 1 \in 1 .. n
    BY <1>6
  <2>2. m[1] \in 1 .. Len(l) /\ Len(l) = 0
    BY <1>1, <1>8, <2>1
  <2>3. QED
    BY <2>2
<1>13. Timed(s.items) = r
  BY <1>5, <1>7
<1> HIDE DEF r
<1>14. /\ Timed(s.items) \in Seq(ItemTypes) /\ Len(Timed(s.items)) = n
       /\ DOMAIN Timed(s.items) = 1 .. n
       /\ \A i \in 1 .. n :
            \E k \in 1 .. Len(s.items) : Timed(s.items)[i] = s.items[k]
       /\ \A k \in 1 .. Len(s.items) : \E i \in 1 .. n : Timed(s.items)[i] = s.items[k]
       /\ \A i, j \in 1 .. n : i < j => Timed(s.items)[i].bp < Timed(s.items)[j].bp
       /\ s.items # << >> => n > 0 /\ Timed(s.items)[1] = s.items[1]
       /\ s.items = << >> => n = 0
  BY <1>9, <1>10, <1>11, <1>12, <1>13, <1>16, <1>17
<1>15. QED
  BY <1>6, <1>14

(* Where the sound of a range is to start lies in the buffer.              *)
LEMMA StopAtFacts ==
  ASSUME NEW timed, NEW n \in Nat, n > 0, Len(timed) = n, DOMAIN timed = 1 .. n, NEW t
  PROVE  StopAt(timed, t) \in 1 .. n
<1> DEFINE S == {i \in DOMAIN timed : \/ timed[i].pts >= t \/ i = Len(timed)
                                      \/ timed[i + 1].pts >= t}
<1>1. n \in S /\ S \subseteq 1 .. n /\ S \subseteq Nat /\ S # {}
  BY n \in 1 .. n
<1>2. StopAt(timed, t) = Min(S)
  BY DEF StopAt
<1> HIDE DEF S
<1>3. Min(S) \in S
  BY <1>1, MinFacts
<1>4. QED
  BY <1>1, <1>2, <1>3

LEMMA StartPlaces ==
  ASSUME NEW s, BufferOK(s), AllTimed(s), NEW t
  PROVE  /\ PtsBufferPos(s, t) \in {s.offset} \cup {s.items[k].bp : k \in 1 .. Len(s.items)}
         /\ ClosestPtsBufferPos(s, t) \in
              {s.offset} \cup {s.items[k].bp : k \in 1 .. Len(s.items)}
<1> DEFINE timed == Timed(s.items)
           i == StopAt(timed, t)
<1>1. PICK n \in Nat :
        /\ timed \in Seq(ItemTypes) /\ Len(timed) = n /\ DOMAIN timed = 1 .. n
        /\ \A h \in 1 .. n : \E k \in 1 .. Len(s.items) : timed[h] = s.items[k]
  BY TimedFacts
<1>3. \A h \in 1 .. n : timed[h].bp \in {s.items[k].bp : k \in 1 .. Len(s.items)}
  BY <1>1
<1> HIDE DEF timed
<1>4. CASE timed = << >>
  BY <1>4 DEF PtsBufferPos, ClosestPtsBufferPos, timed
<1>5. CASE timed # << >>
  <2>1. n > 0
    BY <1>1, <1>5, EmptyIs
  <2>2. i \in 1 .. n
    BY <1>1, <2>1, StopAtFacts
  <2> HIDE DEF i
  <2>3. i < n => i + 1 \in 1 .. n
    BY <2>2
  <2>4. PtsBufferPos(s, t) \in {timed[i].bp} \cup {timed[k].bp : k \in 1 .. n}
    BY <1>1, <1>5, <2>2, <2>3 DEF PtsBufferPos, timed, i
  <2>5. ClosestPtsBufferPos(s, t) \in {s.offset} \cup {timed[k].bp : k \in 1 .. n}
    BY <1>1, <1>5, <2>2, <2>3 DEF ClosestPtsBufferPos, timed, i
  <2>6. QED
    BY <1>3, <2>2, <2>4, <2>5
<1>6. QED
  BY <1>4, <1>5

LEMMA FrameItemFacts ==
  ASSUME NEW s, BufferOK(s), NEW it \in ItemTypes, it.pts \in Nat, NEW bp \in Nat,
         it.bp <= bp
  PROVE  /\ FrameItem(s, it, bp) \in ItemTypes /\ FrameItem(s, it, bp).bp = bp
         /\ FrameItem(s, it, bp).pts \in Nat
<1> DEFINE passed == {f \in Frames(s) : it.bp <= f /\ f < bp}
           x == it.pts + Cardinality(passed) * FrameTime
           o == it.off + (bp - it.bp)
           fr == (it.frame /\ it.bp = bp) \/ bp \in Frames(s)
<1>1. it.bp \in Nat /\ it.off \in Nat /\ FrameTime \in Nat
  BY StreamDataAssumption DEF ItemTypes
<1>2. Cardinality(passed) \in Nat
  <2>1. s.offset \in Nat /\ Len(s.data) \in Nat
    <3>1. Buffered(s)
      BY DEF BufferOK
    <3>2. QED
      BY <3>1, BufferedTypes
  <2>2. passed \subseteq 0 .. s.offset + Len(s.data) /\ s.offset + Len(s.data) \in Int
    BY <2>1 DEF Frames, EndPos
  <2> HIDE DEF passed
  <2>3. QED
    BY <2>2, FiniteNumbers
<1>3. x \in Nat /\ o \in Nat /\ fr \in BOOLEAN
  <2> HIDE DEF passed
  <2>1. Cardinality(passed) * FrameTime \in Nat
    BY <1>1, <1>2
  <2>2. QED
    BY <1>1, <2>1
<1>4. FrameItem(s, it, bp) = [it EXCEPT !.off = o, !.bp = bp, !.pts = x, !.frame = fr]
  BY DEF FrameItem
<1> HIDE DEF x, o, fr
<1>5. QED
  BY <1>3, <1>4 DEF ItemTypes

(* Each item stands where one stood, or where a frame is recognised, and   *)
(* is reckoned from the last one in front; one stands where one stood.     *)
Reckoned(s, it, bp, new) ==
  /\ new = FrameItem(s, it, bp) /\ it.bp <= bp
  /\ bp = it.bp \/ bp \in Frames(s)

LastBefore(s, it, bp) ==
  \A k \in 1 .. Len(s.items) : s.items[k].bp <= bp => s.items[k].bp <= it.bp

ReckonedFrom(s, t) ==
  /\ t.data = s.data /\ t.offset = s.offset
  /\ \A j \in 1 .. Len(t.items) : \E i \in 1 .. Len(s.items) :
       /\ Reckoned(s, s.items[i], t.items[j].bp, t.items[j])
       /\ LastBefore(s, s.items[i], t.items[j].bp)
  /\ \A i \in 1 .. Len(s.items) : \E j \in 1 .. Len(t.items) :
       t.items[j].bp = s.items[i].bp

LEMMA AddPtsFacts ==
  ASSUME NEW s, BufferOK(s), AllTimed(s)
  PROVE  /\ Heard(s, AudioAddPts(s)) /\ AllTimed(AudioAddPts(s))
         /\ ReckonedFrom(s, AudioAddPts(s))
<1> DEFINE timed == Timed(s.items)
           end == s.offset + Len(s.data)
           T == {timed[i].bp : i \in DOMAIN timed} \cup
                {f \in Frames(s) : \E i \in DOMAIN timed : timed[i].bp <= f}
           at == Ascending(T)
           new == [k \in DOMAIN at |-> FrameItem(s, ItemOf(timed, at[k]), at[k])]
           t == [s EXCEPT !.items = new, !.added = TRUE]
<1>1. /\ s.items \in Seq(ItemTypes) /\ Len(s.items) \in Nat
      /\ s.data \in Seq(Bytes) /\ Len(s.data) \in Nat
      /\ s.offset \in Nat /\ s.offset < Half /\ end \in Nat
      /\ s \in StreamTypes /\ Buffered(s)
      /\ \A i \in 1 .. Len(s.items) :
           s.items[i] \in ItemTypes /\ s.items[i].bp \in Nat
  <2>1. Buffered(s) /\ s.offset < Half
    BY DEF BufferOK
  <2>2. s \in StreamTypes
    BY <2>1 DEF Buffered
  <2>3. QED
    BY <2>1, <2>2, BufferedTypes
<1>2. PICK n \in Nat :
        /\ timed \in Seq(ItemTypes) /\ Len(timed) = n
        /\ DOMAIN timed = 1 .. n
        /\ \A i \in 1 .. n : \E k \in 1 .. Len(s.items) : timed[i] = s.items[k]
        /\ \A k \in 1 .. Len(s.items) : \E i \in 1 .. n : timed[i] = s.items[k]
        /\ \A i, j \in 1 .. n : i < j => timed[i].bp < timed[j].bp
        /\ s.items # << >> => n > 0 /\ timed[1] = s.items[1]
        /\ s.items = << >> => n = 0
  BY TimedFacts
<1> HIDE DEF timed
<1>3. ASSUME NEW i \in 1 .. n
      PROVE  /\ timed[i] \in ItemTypes /\ timed[i].pts \in Nat
             /\ timed[i].bp \in Nat /\ s.offset <= timed[i].bp /\ timed[i].bp < end
  <2>1. PICK k \in 1 .. Len(s.items) : timed[i] = s.items[k]
    BY <1>2
  <2>2. s.items[k].pts \in Nat
    BY DEF AllTimed
  <2>3. s.offset <= s.items[k].bp /\ s.items[k].bp < end
    BY <1>1 DEF Buffered
  <2>4. QED
    BY <1>1, <2>1, <2>2, <2>3
<1>4. \A x \in T : x \in Nat /\ s.offset <= x /\ x < end
  <2> TAKE x \in T
  <2>1. CASE x \in Frames(s)
    BY <1>1, <2>1 DEF Frames, EndPos
  <2>2. CASE x \in {timed[i].bp : i \in DOMAIN timed}
    BY <1>2, <1>3, <2>2
  <2>3. QED
    BY <2>1, <2>2
<1>5. T \subseteq 0 .. end - 1
  <2> HIDE DEF T, end
  <2>1. end \in Nat
    BY <1>1
  <2>2. \A x \in T : x \in Nat /\ x < end
    BY <1>4
  <2>3. \A x \in Nat : x < end => x \in 0 .. end - 1
    BY <2>1
  <2>4. QED
    BY <2>2, <2>3
<1>6. s.items # << >> => s.offset \in T /\ n > 0 /\ timed[1].bp = s.offset
  <2> SUFFICES ASSUME s.items # << >>
               PROVE  s.offset \in T /\ n > 0 /\ timed[1].bp = s.offset
    OBVIOUS
  <2>1. n > 0 /\ timed[1] = s.items[1] /\ s.items[1].bp = s.offset
    BY <1>1, <1>2 DEF Buffered
  <2>2. 1 \in DOMAIN timed
    BY <1>2, <2>1
  <2>3. QED
    BY <2>1, <2>2
<1>7. s.items = << >> => T = {}
  BY <1>2
<1> DEFINE c == Cardinality(T)
<1>8. /\ at \in [1 .. c -> T] /\ DOMAIN at = 1 .. c /\ c \in Nat
      /\ \A i, j \in 1 .. c : i < j => at[i] < at[j]
      /\ \A x \in T : \E i \in 1 .. c : at[i] = x
  <2> HIDE DEF T
  <2>1. InPlace(at, T)
    BY <1>1, <1>5, AscendingFacts
  <2>2. c \in Nat
    <3>1. end - 1 \in Int
      BY <1>1
    <3>2. QED
      BY <1>5, <3>1, FiniteNumbers
  <2>3. at \in [1 .. c -> T]
    BY <2>1 DEF InPlace
  <2>4. DOMAIN at = 1 .. c
    BY <2>3
  <2>5. QED
    BY <2>1, <2>2, <2>3, <2>4 DEF InPlace
<1>25. \A x \in T : x \in Frames(s) \/ \E i \in 1 .. n : x = timed[i].bp
  BY <1>2
<1>27. \A k \in 1 .. Len(s.items) : s.items[k].bp \in T
  <2> TAKE k \in 1 .. Len(s.items)
  <2>1. PICK i \in 1 .. n : timed[i] = s.items[k]
    BY <1>2
  <2>2. i \in DOMAIN timed
    BY <1>2
  <2>3. QED
    BY <2>1, <2>2
<1> HIDE DEF T, at, c, end
<1>9. \A k \in 1 .. c : at[k] \in Nat /\ s.offset <= at[k] /\ at[k] < end
  BY <1>4, <1>8
<1>10. s.items # << >> => c > 0 /\ at[1] = s.offset
  <2> SUFFICES ASSUME s.items # << >>
               PROVE  c > 0 /\ at[1] = s.offset
    OBVIOUS
  <2>1. PICK i \in 1 .. c : at[i] = s.offset
    BY <1>6, <1>8
  <2>2. 1 \in 1 .. c /\ c > 0
    BY <1>8, <2>1
  <2>3. ~(1 < i)
    <3> SUFFICES ASSUME 1 < i
                 PROVE  FALSE
      OBVIOUS
    <3>1. at[1] < at[i] /\ s.offset <= at[1] /\ at[1] \in Nat
      BY <1>8, <1>9, <2>2
    <3>2. QED
      BY <1>1, <2>1, <3>1
  <2>4. i = 1
    BY <1>8, <2>1, <2>3
  <2>5. QED
    BY <2>1, <2>2, <2>4
<1>11. s.items = << >> => c = 0
  <2> SUFFICES ASSUME s.items = << >>, c # 0
               PROVE  FALSE
    OBVIOUS
  <2>1. 1 \in 1 .. c
    BY <1>8
  <2>2. at[1] \in T
    BY <1>8, <2>1
  <2>3. QED
    BY <1>7, <2>2
<1>12. ASSUME NEW k \in 1 .. c
       PROVE  LET it == ItemOf(timed, at[k]) IN
                /\ it \in ItemTypes /\ it.pts \in Nat /\ it.bp <= at[k]
                /\ at[k] = it.bp \/ at[k] \in Frames(s)
                /\ \E i \in 1 .. Len(s.items) : it = s.items[i]
                /\ LastBefore(s, it, at[k])
  <2> DEFINE S == {i \in DOMAIN timed : timed[i].bp <= at[k]}
  <2>1. s.items # << >>
    BY <1>8, <1>11
  <2>2. n > 0 /\ timed[1].bp = s.offset /\ s.offset <= at[k]
    BY <1>6, <1>9, <2>1
  <2>3. 1 \in S /\ S \subseteq 1 .. n /\ S \subseteq 0 .. n /\ S # {}
    <3>1. DOMAIN timed = 1 .. n /\ 1 \in 1 .. n /\ 1 .. n \subseteq 0 .. n
      BY <1>2, <2>2
    <3>2. timed[1].bp <= at[k]
      BY <2>2
    <3>3. 1 \in S
      BY <3>1, <3>2
    <3>4. S \subseteq 1 .. n
      BY <3>1
    <3> HIDE DEF S
    <3>5. QED
      BY <3>1, <3>3, <3>4
  <2>4. ItemOf(timed, at[k]) = timed[Max(S)]
    BY DEF ItemOf
  <2> HIDE DEF S
  <2>5. Max(S) \in S /\ \A i \in S : i <= Max(S)
    BY <1>2, <2>3, MaxFacts
  <2>6. Max(S) \in 1 .. n /\ timed[Max(S)].bp <= at[k]
    BY <2>3, <2>5 DEF S
  <2>7. at[k] = timed[Max(S)].bp \/ at[k] \in Frames(s)
    <3>1. CASE at[k] \in Frames(s)
      BY <3>1
    <3>2. CASE \E i \in 1 .. n : at[k] = timed[i].bp
      <4>1. PICK i \in 1 .. n : at[k] = timed[i].bp
        BY <3>2
      <4>2. timed[i].bp \in Nat /\ timed[Max(S)].bp \in Nat
        BY <1>3, <2>6
      <4>3. i \in S
        BY <1>2, <4>1, <4>2 DEF S
      <4>4. i <= Max(S)
        BY <2>5, <4>3
      <4>5. CASE i = Max(S)
        BY <4>1, <4>5
      <4>6. CASE i < Max(S)
        <5>1. timed[i].bp < timed[Max(S)].bp
          BY <1>2, <2>6, <4>6
        <5>2. QED
          BY <2>6, <4>1, <4>2, <5>1
      <4>7. QED
        BY <2>6, <4>4, <4>5, <4>6
    <3>3. QED
      BY <1>8, <1>25, <3>1, <3>2
  <2>8. \E i \in 1 .. Len(s.items) : timed[Max(S)] = s.items[i]
    BY <1>2, <2>6
  <2>10. LastBefore(s, timed[Max(S)], at[k])
    <3> SUFFICES ASSUME NEW h \in 1 .. Len(s.items), s.items[h].bp <= at[k]
                 PROVE  s.items[h].bp <= timed[Max(S)].bp
      BY DEF LastBefore
    <3>1. PICK i \in 1 .. n : timed[i] = s.items[h]
      BY <1>2
    <3>2. i \in S
      BY <1>2, <3>1 DEF S
    <3>3. i <= Max(S) /\ i \in Nat /\ Max(S) \in Nat
      BY <2>5, <2>6, <3>2
    <3>4. timed[i].bp \in Nat /\ timed[Max(S)].bp \in Nat
      BY <1>3, <2>6
    <3>5. i < Max(S) => timed[i].bp < timed[Max(S)].bp
      BY <1>2, <2>6
    <3>6. QED
      BY <3>1, <3>3, <3>4, <3>5
  <2>9. QED
    BY <1>3, <2>4, <2>6, <2>7, <2>8, <2>10
<1>13. ASSUME NEW k \in 1 .. c
       PROVE  /\ new[k] \in ItemTypes /\ new[k].bp = at[k] /\ new[k].pts \in Nat
              /\ \E i \in 1 .. Len(s.items) :
                   /\ Reckoned(s, s.items[i], at[k], new[k])
                   /\ LastBefore(s, s.items[i], at[k])
  <2> DEFINE it == ItemOf(timed, at[k])
  <2>1. /\ it \in ItemTypes /\ it.pts \in Nat /\ it.bp <= at[k]
        /\ at[k] = it.bp \/ at[k] \in Frames(s)
        /\ \E i \in 1 .. Len(s.items) : it = s.items[i]
        /\ LastBefore(s, it, at[k])
    BY <1>12
  <2>2. new[k] = FrameItem(s, it, at[k])
    BY <1>8
  <2> HIDE DEF it
  <2>3. at[k] \in Nat
    BY <1>9
  <2>4. Reckoned(s, it, at[k], new[k])
    BY <2>1, <2>2 DEF Reckoned
  <2>5. new[k] \in ItemTypes /\ new[k].bp = at[k] /\ new[k].pts \in Nat
    BY <2>1, <2>2, <2>3, FrameItemFacts
  <2>6. QED
    BY <2>1, <2>4, <2>5
<1>14. new \in Seq(ItemTypes) /\ Len(new) = c
  <2>1. new \in [1 .. c -> ItemTypes]
    BY <1>8, <1>13
  <2> HIDE DEF new
  <2>2. QED
    BY <1>8, <2>1, FcnIsSeq
<1>15. AudioAddPts(s) = t
  BY DEF AudioAddPts, at, T, timed
<1> HIDE DEF new
<1>16. /\ t \in StreamTypes /\ t.items = new /\ t.data = s.data /\ t.offset = s.offset
       /\ t.header = s.header /\ t.nextfilepos = s.nextfilepos
  BY <1>1, <1>14 DEF StreamTypes
<1> HIDE DEF t
<1>17. t.items = << >> <=> t.data = << >>
  <2>1. new = << >> <=> c = 0
    BY <1>14, EmptyIs
  <2>2. s.items = << >> <=> s.data = << >>
    BY <1>1 DEF Buffered
  <2>3. c > 0 => c # 0
    OBVIOUS
  <2>4. QED
    BY <1>10, <1>11, <1>16, <2>1, <2>2, <2>3
<1>18. t.items # << >> => t.items[1].bp = t.offset
  <2> SUFFICES ASSUME t.items # << >>
               PROVE  t.items[1].bp = t.offset
    OBVIOUS
  <2>1. c # 0
    BY <1>14, <1>16, EmptyIs
  <2>2. s.items # << >> /\ 1 \in 1 .. c
    BY <1>8, <1>11, <2>1
  <2>3. QED
    BY <1>10, <1>13, <1>16, <2>2
<1>19. ASSUME NEW i \in 1 .. Len(t.items)
       PROVE  /\ t.offset <= t.items[i].bp /\ t.items[i].bp < t.offset + Len(t.data)
              /\ \A j \in 1 .. Len(t.items) : j < i => t.items[j].bp < t.items[i].bp
  <2>1. i \in 1 .. c /\ t.items[i].bp = at[i]
    BY <1>13, <1>14, <1>16
  <2>2. \A j \in 1 .. Len(t.items) : j \in 1 .. c /\ t.items[j].bp = at[j]
    BY <1>13, <1>14, <1>16
  <2>3. t.offset <= t.items[i].bp /\ t.items[i].bp < t.offset + Len(t.data)
    BY <1>9, <1>16, <2>1 DEF end
  <2>4. QED
    BY <1>8, <2>1, <2>2, <2>3
<1>20. BufferOK(t)
  BY <1>1, <1>16, <1>17, <1>18, <1>19 DEF BufferOK, Buffered
<1>21. AllTimed(t)
  BY <1>13, <1>14, <1>16 DEF AllTimed
<1>22. SubSeq(s.data, 0 + 1, Len(s.data)) = s.data
  <2>1. 0 + 1 = 1
    OBVIOUS
  <2>2. QED
    BY <1>1, <2>1, WholeSeq
<1>23. Heard(s, t)
  BY <1>16, <1>20, <1>21, <1>22 DEF Heard
<1>28. ASSUME NEW i \in 1 .. Len(s.items)
       PROVE  \E j \in 1 .. Len(t.items) : t.items[j].bp = s.items[i].bp
  <2>1. PICK j \in 1 .. c : at[j] = s.items[i].bp
    BY <1>8, <1>27
  <2>2. j \in 1 .. Len(t.items) /\ t.items[j] = new[j] /\ new[j].bp = at[j]
    BY <1>13, <1>14, <1>16
  <2>3. QED
    BY <2>1, <2>2
<1>24. ReckonedFrom(s, t)
  <2> SUFFICES ASSUME NEW j \in 1 .. Len(t.items)
               PROVE  \E i \in 1 .. Len(s.items) :
                        /\ Reckoned(s, s.items[i], t.items[j].bp, t.items[j])
                        /\ LastBefore(s, s.items[i], t.items[j].bp)
    BY <1>16, <1>28 DEF ReckonedFrom
  <2>1. j \in 1 .. c /\ t.items[j] = new[j]
    BY <1>14, <1>16
  <2>2. /\ new[j].bp = at[j]
        /\ \E i \in 1 .. Len(s.items) :
             Reckoned(s, s.items[i], at[j], new[j]) /\ LastBefore(s, s.items[i], at[j])
    BY <1>13, <2>1
  <2>3. QED
    BY <2>1, <2>2
<1>26. QED
  BY <1>15, <1>21, <1>23, <1>24

LEMMA EndOfEnd ==
  ASSUME NEW S, NEW d \in Seq(S), NEW m \in Nat, NEW n \in Nat,
         NEW a, a = SubSeq(d, m + 1, Len(d)),
         NEW b, b = SubSeq(a, n + 1, Len(a))
  PROVE  b = SubSeq(d, (m + n) + 1, Len(d))
<1> DEFINE e == SubSeq(d, (m + n) + 1, Len(d))
<1>1. /\ a \in Seq(S) /\ Len(a) = IF m <= Len(d) THEN Len(d) - m ELSE 0
      /\ \A i \in 1 .. Len(d) - m : a[i] = d[m + i]
  BY EndOf
<1>2. a \in Seq(S)
  BY <1>1
<1>3. /\ b \in Seq(S) /\ Len(b) = IF n <= Len(a) THEN Len(a) - n ELSE 0
      /\ \A i \in 1 .. Len(a) - n : b[i] = a[n + i] /\ n + i \in 1 .. Len(a)
  BY <1>2, EndOf
<1>4. m + n \in Nat /\ Len(d) \in Nat /\ Len(a) \in Nat
  BY <1>2
<1>5. /\ e \in Seq(S) /\ Len(e) = IF m + n <= Len(d) THEN Len(d) - (m + n) ELSE 0
      /\ \A i \in 1 .. Len(d) - (m + n) : e[i] = d[(m + n) + i]
  BY <1>4, EndOf
<1> HIDE DEF e
<1>6. Len(b) = Len(e)
  BY <1>1, <1>3, <1>4, <1>5
<1>7. ASSUME NEW i \in 1 .. Len(b)
      PROVE  b[i] = e[i]
  <2>1. /\ i \in 1 .. Len(a) - n /\ i \in 1 .. Len(d) - (m + n)
        /\ Len(a) = Len(d) - m
    BY <1>1, <1>3, <1>4, <1>5
  <2>2. b[i] = a[n + i] /\ n + i \in 1 .. Len(a)
    BY <1>3, <2>1
  <2>3. a[n + i] = d[m + (n + i)]
    BY <1>1, <2>1, <2>2
  <2>4. m + (n + i) = (m + n) + i
    BY <2>1
  <2>5. QED
    BY <1>5, <2>1, <2>2, <2>3, <2>4
<1>8. b = e
  BY <1>3, <1>5, <1>6, <1>7, SeqEqual
<1>9. QED
  BY <1>8 DEF e

LEMMA HeardTwice ==
  ASSUME NEW s, BufferOK(s), NEW t, NEW u, Heard(s, t), Heard(t, u)
  PROVE  Heard(s, u)
<1>1. s.data \in Seq(Bytes)
  <2>1. Buffered(s)
    BY DEF BufferOK
  <2>2. QED
    BY <2>1, BufferedTypes
<1>2. PICK m \in Nat : t.data = SubSeq(s.data, m + 1, Len(s.data))
  BY DEF Heard
<1>3. PICK n \in Nat : u.data = SubSeq(t.data, n + 1, Len(t.data))
  BY DEF Heard
<1>4. m + n \in Nat
  OBVIOUS
<1>5. u.data = SubSeq(s.data, (m + n) + 1, Len(s.data))
  BY <1>1, <1>2, <1>3, EndOfEnd
<1>6. QED
  BY <1>4, <1>5 DEF Heard

LEMMA NotNegative ==
  ASSUME NEW x \in Nat
  PROVE  Max({0, x}) = x
<1>1. {0, x} \subseteq Int /\ {0, x} # {} /\ x \in {0, x} /\ \A y \in {0, x} : y <= x
  OBVIOUS
<1>2. Max({0, x}) \in {0, x} /\ \A y \in {0, x} : y <= Max({0, x})
  BY <1>1, Largest
<1>3. QED
  BY <1>2

(* What the readers add.                                                   *)
WithHeader(s, h, n) == [s EXCEPT !.header = h, !.nextfilepos = n]
Dropped(s) == [s EXCEPT !.header = << >>]

SameBuffer(s, t) ==
  /\ BufferOK(t) /\ t.items = s.items /\ t.data = s.data /\ t.offset = s.offset
  /\ AllTimed(s) => AllTimed(t)

LEMMA CollectedFacts ==
  ASSUME NEW s, BufferOK(s), NEW h \in Seq(Bytes), NEW n \in Nat
  PROVE  /\ SameBuffer(s, WithHeader(s, h, n))
         /\ WithHeader(s, h, n).header = h /\ WithHeader(s, h, n).nextfilepos = n
<1> DEFINE t == WithHeader(s, h, n)
<1>1. s \in StreamTypes
  BY DEF BufferOK, Buffered
<1>2. /\ t \in StreamTypes /\ t.items = s.items /\ t.data = s.data /\ t.offset = s.offset
      /\ t.header = h /\ t.nextfilepos = n
  BY <1>1 DEF StreamTypes, WithHeader
<1> HIDE DEF t
<1>3. SameBuffer(s, t) /\ t.header = h /\ t.nextfilepos = n
  BY <1>2 DEF BufferOK, Buffered, AllTimed, SameBuffer
<1>4. QED
  BY <1>3 DEF t

LEMMA HeaderDropped ==
  ASSUME NEW s, BufferOK(s)
  PROVE  /\ SameBuffer(s, Dropped(s))
         /\ Dropped(s).header = << >> /\ Dropped(s).nextfilepos = s.nextfilepos
<1> DEFINE t == Dropped(s)
<1>1. s \in StreamTypes
  BY DEF BufferOK, Buffered
<1>2. << >> \in Seq(Bytes)
  OBVIOUS
<1>3. /\ t \in StreamTypes /\ t.items = s.items /\ t.data = s.data /\ t.offset = s.offset
      /\ t.header = << >> /\ t.nextfilepos = s.nextfilepos
  BY <1>1, <1>2 DEF StreamTypes, Dropped
<1> HIDE DEF t
<1>4. SameBuffer(s, t) /\ t.header = << >> /\ t.nextfilepos = s.nextfilepos
  BY <1>3 DEF BufferOK, Buffered, AllTimed, SameBuffer
<1>5. QED
  BY <1>4 DEF t

LEMMA AppendBytesFacts ==
  ASSUME NEW s, BufferOK(s), s.items # << >>, NEW bytes \in Seq(Bytes),
         NEW t, t = AppendBytes(s, bytes)
  PROVE  /\ BufferOK(t) /\ t.items = s.items /\ t.data = s.data \o bytes
         /\ t.offset = s.offset /\ SameCollected(s, t) /\ (AllTimed(s) => AllTimed(t))
<1>1. s \in StreamTypes /\ Buffered(s) /\ s.offset < Half
  BY DEF BufferOK, Buffered
<1>2. s.data \in Seq(Bytes) /\ Len(s.data) \in Nat /\ s.offset \in Nat
      /\ \A i \in 1 .. Len(s.items) : s.items[i].bp \in Nat
      /\ s.data # << >> /\ Len(bytes) \in Nat /\ Len(s.data) # 0
  <2>1. s.data # << >>
    BY <1>1 DEF Buffered
  <2>2. QED
    BY <1>1, <2>1, BufferedTypes
<1> DEFINE d == s.data \o bytes
<1>3. d \in Seq(Bytes) /\ Len(d) = Len(s.data) + Len(bytes)
  BY <1>2, ConcatProperties
<1>4. t = [s EXCEPT !.data = d]
  BY DEF AppendBytes
<1> HIDE DEF d
<1>5. /\ t \in StreamTypes /\ t.items = s.items /\ t.data = d /\ t.offset = s.offset
      /\ SameCollected(s, t)
  BY <1>1, <1>3, <1>4 DEF StreamTypes, SameCollected
<1>6. t.data # << >>
  <2>1. Len(d) # 0
    BY <1>2, <1>3
  <2>2. QED
    BY <1>3, <1>5, <2>1, EmptyIs
<1>7. ASSUME NEW i \in 1 .. Len(t.items)
      PROVE  /\ t.offset <= t.items[i].bp /\ t.items[i].bp < t.offset + Len(t.data)
             /\ \A j \in 1 .. Len(t.items) : j < i => t.items[j].bp < t.items[i].bp
  <2>1. /\ s.offset <= s.items[i].bp /\ s.items[i].bp < s.offset + Len(s.data)
        /\ \A j \in 1 .. Len(s.items) : j < i => s.items[j].bp < s.items[i].bp
    BY <1>1, <1>5 DEF Buffered
  <2>2. s.offset + Len(s.data) <= s.offset + Len(d) /\ s.items[i].bp \in Nat
    BY <1>2, <1>3, <1>5
  <2>3. s.items[i].bp < s.offset + Len(d)
    BY <1>2, <1>3, <2>1, <2>2
  <2>4. QED
    BY <1>5, <2>1, <2>3
<1>8. t.items # << >> => t.items[1].bp = t.offset
  BY <1>1, <1>5 DEF Buffered
<1>9. BufferOK(t)
  BY <1>1, <1>5, <1>6, <1>7, <1>8 DEF BufferOK, Buffered
<1>10. QED
  BY <1>5, <1>9 DEF AllTimed, d

NewItem(s, t, n) ==
  /\ Len(t.items) = Len(s.items) + 1
  /\ \A i \in 1 .. Len(s.items) : t.items[i] = s.items[i]
  /\ t.items[Len(s.items) + 1].file = n /\ t.items[Len(s.items) + 1].off = 0
  /\ t.items[Len(s.items) + 1].bp = s.offset + Len(s.data)

Added(s, t, n, pts, bytes) ==
  /\ BufferOK(t) /\ t.data = s.data \o bytes /\ t.offset = s.offset
  /\ SameCollected(s, t) /\ (AllTimed(s) /\ pts \in Nat => AllTimed(t))
  /\ t.items # << >> /\ NewItem(s, t, n) /\ t.items[Len(s.items) + 1].pts = pts

LEMMA AppendItemFacts ==
  ASSUME NEW s, BufferOK(s), NEW bytes \in Seq(Bytes), bytes # << >>,
         NEW n \in Nat, NEW pts \in Nat \cup {NoPts}
  PROVE  Added(s, AppendItem(s, n, pts, bytes), n, pts, bytes)
<1>t. PICK t : t = AppendItem(s, n, pts, bytes)
  OBVIOUS
<1> DEFINE it == [file |-> n, off |-> 0, bp |-> s.offset + Len(s.data), pts |-> pts,
                  frame |-> FALSE]
           l == Append(s.items, it)
           d == s.data \o bytes
<1>1. s \in StreamTypes /\ Buffered(s) /\ s.offset < Half
  BY DEF BufferOK, Buffered
<1>2. s.data \in Seq(Bytes) /\ Len(s.data) \in Nat /\ s.offset \in Nat
      /\ s.items \in Seq(ItemTypes) /\ Len(s.items) \in Nat
      /\ \A i \in 1 .. Len(s.items) : s.items[i].bp \in Nat
      /\ Len(bytes) \in Nat /\ Len(bytes) # 0
      /\ (s.data = << >> <=> Len(s.data) = 0)
      /\ (s.items = << >> <=> Len(s.items) = 0)
  BY <1>1, BufferedTypes, EmptyIs
<1>3. d \in Seq(Bytes) /\ Len(d) = Len(s.data) + Len(bytes)
  BY <1>2, ConcatProperties
<1>4. /\ it \in ItemTypes /\ it.file = n /\ it.off = 0 /\ it.pts = pts
      /\ it.bp = s.offset + Len(s.data)
  BY <1>2 DEF ItemTypes
<1>5. t = [s EXCEPT !.items = l, !.data = d]
  <2>1. t = [[s EXCEPT !.items = l] EXCEPT !.data = [s EXCEPT !.items = l].data \o bytes]
    BY <1>t DEF AppendItem, AppendBytes, EndPos
  <2> HIDE DEF l, it
  <2>2. [s EXCEPT !.items = l].data = s.data
    BY <1>1 DEF StreamTypes
  <2>3. QED
    BY <1>1, <2>1, <2>2 DEF StreamTypes
<1> HIDE DEF it, d
<1>6. /\ l \in Seq(ItemTypes) /\ l # << >> /\ Len(l) = Len(s.items) + 1
      /\ \A i \in 1 .. Len(s.items) : l[i] = s.items[i]
      /\ l[Len(s.items) + 1] = it
  BY <1>2, <1>4, AppendProperties
<1> HIDE DEF l
<1>7. /\ t \in StreamTypes /\ t.items = l /\ t.data = d /\ t.offset = s.offset
      /\ SameCollected(s, t)
  BY <1>1, <1>3, <1>5, <1>6 DEF StreamTypes, SameCollected
<1>8. t.data # << >>
  <2>1. Len(d) # 0
    BY <1>2, <1>3
  <2>2. QED
    BY <1>3, <1>7, <2>1, EmptyIs
<1>9. t.items[1].bp = t.offset
  <2>1. CASE s.items = << >>
    <3>1. s.data = << >>
      BY <1>1, <2>1 DEF Buffered
    <3>2. Len(s.items) + 1 = 1 /\ s.offset + Len(s.data) = s.offset
      BY <1>2, <2>1, <3>1
    <3>3. QED
      BY <1>4, <1>6, <1>7, <3>2
  <2>2. CASE s.items # << >>
    <3>1. 1 \in 1 .. Len(s.items) /\ s.items[1].bp = s.offset
      BY <1>1, <1>2, <2>2 DEF Buffered
    <3>2. QED
      BY <1>6, <1>7, <3>1
  <2>3. QED
    BY <2>1, <2>2
<1>10. \A i \in 1 .. Len(s.items) :
         /\ s.offset <= s.items[i].bp /\ s.items[i].bp < s.offset + Len(s.data)
         /\ \A j \in 1 .. Len(s.items) : j < i => s.items[j].bp < s.items[i].bp
  BY <1>1 DEF Buffered
<1>11. ASSUME NEW i \in 1 .. Len(t.items)
       PROVE  /\ t.offset <= t.items[i].bp /\ t.items[i].bp < t.offset + Len(t.data)
              /\ \A j \in 1 .. Len(t.items) : j < i => t.items[j].bp < t.items[i].bp
  <2>1. t.offset + Len(t.data) > s.offset + Len(s.data) /\ t.offset = s.offset
    BY <1>2, <1>3, <1>7
  <2>2. CASE i = Len(s.items) + 1
    <3>1. t.items[i].bp = s.offset + Len(s.data)
      BY <1>4, <1>6, <1>7, <2>2
    <3>2. ASSUME NEW j \in 1 .. Len(t.items), j < i
          PROVE  t.items[j].bp < t.items[i].bp
      <4>1. j \in 1 .. Len(s.items)
        BY <1>2, <2>2, <3>2
      <4>2. t.items[j] = s.items[j] /\ s.items[j].bp < s.offset + Len(s.data)
        BY <1>6, <1>7, <1>10, <4>1
      <4>3. QED
        BY <3>1, <4>2
    <3>3. t.offset <= t.items[i].bp /\ t.items[i].bp < t.offset + Len(t.data)
      BY <1>2, <1>3, <1>7, <2>1, <3>1
    <3>4. QED
      BY <3>2, <3>3
  <2>3. CASE i \in 1 .. Len(s.items)
    <3>1. t.items[i] = s.items[i]
      BY <1>6, <1>7, <2>3
    <3>2. ASSUME NEW j \in 1 .. Len(t.items), j < i
          PROVE  t.items[j].bp < t.items[i].bp
      <4>1. j \in 1 .. Len(s.items)
        BY <1>2, <2>3, <3>2
      <4>2. QED
        BY <1>6, <1>7, <1>10, <2>3, <3>1, <3>2, <4>1
    <3>3. /\ s.offset <= s.items[i].bp /\ s.items[i].bp < s.offset + Len(s.data)
          /\ s.items[i].bp \in Nat
      BY <1>2, <1>10, <2>3
    <3>4. s.items[i].bp < t.offset + Len(t.data)
      <4>1. s.offset + Len(s.data) \in Nat /\ t.offset + Len(t.data) \in Nat
        BY <1>2, <1>3, <1>7
      <4>2. QED
        BY <2>1, <3>3, <4>1
    <3>5. QED
      BY <2>1, <3>1, <3>2, <3>3, <3>4
  <2>4. i \in 1 .. Len(s.items) + 1
    BY <1>6, <1>7
  <2>5. QED
    BY <1>2, <2>2, <2>3, <2>4
<1>12. BufferOK(t)
  BY <1>1, <1>6, <1>7, <1>8, <1>9, <1>11 DEF BufferOK, Buffered
<1>13. ASSUME AllTimed(s), pts \in Nat
       PROVE  AllTimed(t)
  <2>1. SUFFICES ASSUME NEW i \in 1 .. Len(t.items)
                 PROVE  t.items[i].pts \in Nat
    BY DEF AllTimed
  <2>2. i \in 1 .. Len(s.items) \/ i = Len(s.items) + 1
    BY <1>2, <1>6, <1>7
  <2>3. QED
    BY <1>4, <1>6, <1>7, <1>13, <2>2 DEF AllTimed
<1>14. NewItem(s, t, n)
  BY <1>4, <1>6, <1>7 DEF NewItem
<1>15. t.items # << >>
  BY <1>6, <1>7
<1>16. Added(s, t, n, pts, bytes)
  BY <1>4, <1>6, <1>7, <1>12, <1>13, <1>14, <1>15 DEF Added, d
<1>17. QED
  BY <1>16, <1>t

(* The items say of the bytes in the buffer where they come from: each     *)
(* stands at a byte of the unit whose packet it names, and there is one    *)
(* for every unit that begins in the buffer.                               *)
PlaceAt(s, l, bp) == ((l - Len(s.data)) + (bp - s.offset)) + 1

Tells(f, it, x, b) ==
  /\ it.file = Begin(f.blocks, UnitOf(f.blocks, b))
  /\ x = FirstOf(f.blocks, b) + it.off
  /\ \A d \in Beginnings(f.blocks) : FirstOf(f.blocks, d) <= x => d <= b

ItemsTell(f, s, l) ==
  /\ \A i \in 1 .. Len(s.items) : \E b \in Beginnings(f.blocks) :
       Tells(f, s.items[i], PlaceAt(s, l, s.items[i].bp), b)
  /\ \A b \in Beginnings(f.blocks) :
       l - Len(s.data) < FirstOf(f.blocks, b) /\ FirstOf(f.blocks, b) <= l =>
         \E i \in 1 .. Len(s.items) :
           /\ s.items[i].file = Begin(f.blocks, UnitOf(f.blocks, b))
           /\ PlaceAt(s, l, s.items[i].bp) = FirstOf(f.blocks, b)

(* Places are as far apart as the buffer positions.                        *)
LEMMA Compare ==
  ASSUME NEW x \in Int, NEW z \in Int, NEW p \in Int, NEW e \in Int,
         NEW v, v = x + (z - p), NEW y, y = x + (e - p)
  PROVE  /\ x < v <=> p < z
         /\ v <= y <=> z <= e
         /\ y <= v <=> e <= z
         /\ z = e => v = y
         /\ v \in Int /\ y \in Int
OBVIOUS

LEMMA PlacesApart ==
  ASSUME NEW a \in Int, NEW o \in Int, NEW p \in Int, NEW z \in Int
  PROVE  (a + (z - o)) + 1 = ((a + (p - o)) + 1) + (z - p)
OBVIOUS

LEMMA PlaceIsIn ==
  ASSUME NEW l \in Nat, NEW c \in Nat, NEW o \in Nat, NEW z \in Nat, c <= l,
         o <= z, z < o + c, NEW x, x = ((l - c) + (z - o)) + 1
  PROVE  x \in Nat /\ l - c < x /\ x <= l
OBVIOUS

(* Nothing in the buffer, nothing to tell.                                 *)
LEMMA NothingTold ==
  ASSUME NEW f, FileFacts(f), NEW s, NEW l \in Nat, s.items = << >>, s.data = << >>
  PROVE  ItemsTell(f, s, l)
<1>1. Len(s.items) = 0 /\ Len(s.data) = 0
  OBVIOUS
<1>2. \A b \in Beginnings(f.blocks) : FirstOf(f.blocks, b) \in Int
  BY UnitsInOrder
<1>3. \A b \in Beginnings(f.blocks) :
        ~(l - Len(s.data) < FirstOf(f.blocks, b) /\ FirstOf(f.blocks, b) <= l)
  BY <1>1, <1>2
<1>4. \A i \in 1 .. Len(s.items) : FALSE
  BY <1>1
<1>5. QED
  BY <1>3, <1>4 DEF ItemsTell

LEMMA DiscardTells ==
  ASSUME NEW f, FileFacts(f), NEW s, BufferOK(s), NEW l \in Nat, Len(s.data) <= l,
         ItemsTell(f, s, l), NEW n \in Nat, NEW t, BufferOK(t), Moved(s, t, n),
         t.data = SubSeq(s.data, n + 1, Len(s.data))
  PROVE  ItemsTell(f, t, l)
<1> DEFINE bl == f.blocks
<1>1. Buffered(s) /\ Buffered(t)
  BY DEF BufferOK
<1>2. /\ s.data \in Seq(Bytes) /\ Len(s.data) \in Nat /\ s.offset \in Nat
      /\ Len(s.items) \in Nat
      /\ \A i \in 1 .. Len(s.items) : s.items[i].bp \in Nat /\ s.items[i].off \in Nat
      /\ Len(t.data) \in Nat /\ t.offset \in Nat /\ Len(t.items) \in Nat
      /\ \A i \in 1 .. Len(t.items) : t.items[i].bp \in Nat /\ t.items[i].off \in Nat
      /\ (t.items = << >> <=> Len(t.items) = 0)
      /\ (t.data = << >> <=> Len(t.data) = 0)
  BY <1>1, BufferedTypes
<1>3. \A b \in Beginnings(bl) : FirstOf(bl, b) \in Nat /\ b \in Nat
  <2> TAKE b \in Beginnings(bl)
  <2>1. FirstOf(bl, b) \in 1 .. Len(f.stream) /\ b \in Nat
    BY UnitsInOrder
  <2>2. QED
    BY <2>1
<1>4. CASE t.items = << >>
  <2>1. t.data = << >>
    BY <1>1, <1>4 DEF Buffered
  <2>2. QED
    BY <1>4, <2>1, NothingTold
<1>5. CASE t.items # << >>
  <2>1. PICK k \in Nat :
          /\ Len(t.items) = Len(s.items) - k
          /\ k + 1 \in 1 .. Len(s.items)
          /\ s.items[k + 1].bp <= s.offset + n
          /\ t.items[1].file = s.items[k + 1].file
          /\ t.items[1].off = s.items[k + 1].off + ((s.offset + n) - s.items[k + 1].bp)
          /\ t.items[1].pts = s.items[k + 1].pts
          /\ \A j \in 2 .. Len(t.items) :
               /\ t.items[j].file = s.items[k + j].file /\ t.items[j].off = s.items[k + j].off
               /\ t.items[j].pts = s.items[k + j].pts
               /\ t.items[j].bp - t.offset = s.items[k + j].bp - (s.offset + n)
    BY <1>5 DEF Moved
  <2>2. Len(t.data) = Len(s.data) - n /\ n < Len(s.data)
    <3>1. Len(t.data) = IF n <= Len(s.data) THEN Len(s.data) - n ELSE 0
      BY <1>2, EndOf
    <3>2. Len(t.data) # 0
      BY <1>1, <1>2, <1>5 DEF Buffered
    <3>3. QED
      BY <1>2, <3>1, <3>2
  <2>3. t.items[1].bp = t.offset /\ 1 \in 1 .. Len(t.items)
    BY <1>1, <1>2, <1>5 DEF Buffered
  <2> DEFINE p == s.items[k + 1].bp
             e == s.offset + n
             x == PlaceAt(s, l, p)
             y == PlaceAt(t, l, t.items[1].bp)
  <2>4. /\ p \in Nat /\ s.offset <= p /\ e \in Nat /\ p <= e
        /\ p < s.offset + Len(s.data) /\ s.items[k + 1].off \in Nat
    <3>1. s.offset <= p /\ p < s.offset + Len(s.data)
      BY <1>1, <2>1 DEF Buffered
    <3>2. p \in Nat /\ s.items[k + 1].off \in Nat
      BY <1>2, <2>1
    <3>3. p <= e
      BY <2>1, Zenon
    <3>4. e \in Nat
      BY <1>2
    <3>5. QED
      BY <3>1, <3>2, <3>3, <3>4
  <2> HIDE DEF p
  <2>5. /\ y = x + (e - p) /\ x \in Nat /\ y \in Int /\ y <= l
        /\ l - Len(s.data) < x /\ y = (l - Len(t.data)) + 1
    <3>1. x = ((l - Len(s.data)) + (p - s.offset)) + 1
      BY DEF PlaceAt
    <3>2. x \in Nat /\ l - Len(s.data) < x /\ x <= l
      BY <1>2, <2>4, <3>1, PlaceIsIn
    <3>3. y = (l - Len(t.data)) + 1
      BY <1>2, <2>3 DEF PlaceAt
    <3>4. y = ((l - (Len(s.data) - n)) + (e - (s.offset + n))) + 1
      BY <1>2, <2>2, <3>3
    <3>5. y = ((l - Len(s.data)) + (e - s.offset)) + 1
      <4> DEFINE c == Len(s.data)
                 o == s.offset
      <4>1. c \in Int /\ o \in Int
        BY <1>2
      <4> HIDE DEF x, y, c, o
      <4>2. ((l - (c - n)) + ((o + n) - (o + n))) + 1 = ((l - c) + ((o + n) - o)) + 1
        BY <4>1
      <4>3. QED
        BY <3>4, <4>2 DEF c, o
    <3>6. y = x + (e - p)
      <4> DEFINE a == l - Len(s.data)
                 o == s.offset
      <4>1. a \in Int /\ o \in Int /\ e \in Int /\ p \in Int
        BY <1>2, <2>4
      <4> HIDE DEF x, y, e, a, o
      <4>2. (a + (e - o)) + 1 = ((a + (p - o)) + 1) + (e - p)
        BY <4>1
      <4>3. QED
        BY <3>1, <3>5, <4>2 DEF a, o
    <3>7. y <= l /\ y \in Int
      <4> HIDE DEF x, y
      <4>1. n < Len(s.data) /\ Len(t.data) = Len(s.data) - n
        BY <2>2
      <4>2. QED
        BY <1>2, <3>3, <4>1
    <3>8. QED
      BY <3>2, <3>3, <3>6, <3>7
  <2>6. ASSUME NEW j \in 2 .. Len(t.items)
        PROVE  /\ k + j \in 1 .. Len(s.items)
               /\ PlaceAt(t, l, t.items[j].bp) = PlaceAt(s, l, s.items[k + j].bp)
               /\ t.items[j].bp > t.offset /\ t.items[j].bp \in Nat
    <3>1. k + j \in 1 .. Len(s.items) /\ j \in 1 .. Len(t.items) /\ 1 < j
      BY <1>2, <2>1
    <3>2. t.items[j].bp > t.offset /\ t.items[j].bp \in Nat
      <4>1. t.items[1].bp < t.items[j].bp
        BY <1>1, <2>3, <3>1 DEF Buffered
      <4>2. QED
        BY <1>2, <2>3, <3>1, <4>1
    <3> DEFINE z == s.items[k + j].bp
    <3>3. t.items[j].bp - t.offset = z - (s.offset + n)
      BY <2>1
    <3>4. z \in Nat
      BY <1>2, <3>1
    <3> HIDE DEF z
    <3>5. ((l - (Len(s.data) - n)) + (z - (s.offset + n))) + 1 =
            ((l - Len(s.data)) + (z - s.offset)) + 1
      <4> DEFINE c == Len(s.data)
                 o == s.offset
      <4>1. c \in Int /\ o \in Int /\ z \in Int
        BY <1>2, <3>4
      <4> HIDE DEF c, o
      <4>2. ((l - (c - n)) + (z - (o + n))) + 1 = ((l - c) + (z - o)) + 1
        BY <4>1
      <4>3. QED
        BY <4>2 DEF c, o
    <3>6. PlaceAt(t, l, t.items[j].bp) = PlaceAt(s, l, z)
      BY <2>2, <3>3, <3>5 DEF PlaceAt
    <3>7. QED
      BY <3>1, <3>2, <3>6 DEF z
  <2> HIDE DEF x, y, e
  <2>7. ASSUME NEW i \in 1 .. Len(s.items), NEW v, v = PlaceAt(s, l, s.items[i].bp)
        PROVE  /\ i <= k + 1 => s.items[i].bp <= p
               /\ i < k + 1 => s.items[i].bp < p
               /\ i > k + 1 => i - k \in 2 .. Len(t.items) /\ k + (i - k) = i
               /\ i > k + 1 => s.items[i].bp > e
               /\ x < v <=> p < s.items[i].bp
               /\ v <= y <=> s.items[i].bp <= e
               /\ y <= v <=> e <= s.items[i].bp
               /\ s.items[i].bp = e => v = y
               /\ s.items[i].bp \in Nat
    <3> DEFINE z == s.items[i].bp
    <3>1. i < k + 1 => z < p
      BY <1>1, <2>1 DEF Buffered, p
    <3>2. z \in Nat
      BY <1>2
    <3>3. i = k + 1 => z = p
      BY DEF p
    <3>4. i > k + 1 => i - k \in 2 .. Len(t.items) /\ k + (i - k) = i
      <4> DEFINE m == Len(s.items)
                 c == Len(t.items)
      <4>1. m \in Nat /\ c \in Nat /\ c = m - k /\ i \in 1 .. m
        BY <1>2, <2>1
      <4> HIDE DEF m, c
      <4>2. i > k + 1 => i - k \in 2 .. c /\ k + (i - k) = i
        BY <4>1
      <4>3. QED
        BY <4>2 DEF c
    <3>5. i > k + 1 => z > e
      <4> SUFFICES ASSUME i > k + 1
                   PROVE  z > e
        OBVIOUS
      <4> DEFINE j == i - k
      <4>1. j \in 2 .. Len(t.items) /\ k + j = i
        BY <3>4
      <4> HIDE DEF j
      <4>2. /\ t.items[j].bp > t.offset /\ t.items[j].bp \in Nat
            /\ t.items[j].bp - t.offset = s.items[k + j].bp - (s.offset + n)
        BY <2>1, <2>6, <4>1
      <4>3. t.items[j].bp - t.offset = z - e
        BY <4>1, <4>2 DEF e
      <4> HIDE DEF z
      <4>4. t.items[j].bp - t.offset > 0
        BY <1>2, <4>2
      <4>5. QED
        BY <2>4, <3>2, <4>3, <4>4
    <3>6. v = x + (z - p)
      <4> HIDE DEF z
      <4>1. l - Len(s.data) \in Int /\ s.offset \in Int /\ z \in Int /\ p \in Int
        BY <1>2, <2>4, <3>2
      <4>2. ((l - Len(s.data)) + (z - s.offset)) + 1 =
              (((l - Len(s.data)) + (p - s.offset)) + 1) + (z - p)
        BY <4>1, PlacesApart
      <4>3. QED
        BY <2>7, <4>2 DEF PlaceAt, x, z
    <3> HIDE DEF z
    <3>7. i <= k + 1 => z <= p
      <4>1. i <= k + 1 => i < k + 1 \/ i = k + 1
        BY <2>1
      <4>2. QED
        BY <2>4, <3>1, <3>2, <3>3, <4>1
    <3>8. /\ x < v <=> p < z
          /\ v <= y <=> z <= e
          /\ y <= v <=> e <= z
          /\ z = e => v = y
      <4>1. x \in Int /\ z \in Int /\ p \in Int /\ e \in Int
        BY <2>4, <2>5, <3>2
      <4>2. QED
        BY <2>5, <3>6, <4>1, Compare
    <3>9. QED
      BY <3>1, <3>2, <3>4, <3>5, <3>7, <3>8 DEF z
  <2>8. ASSUME NEW d \in Beginnings(bl), x < FirstOf(bl, d), FirstOf(bl, d) <= y
        PROVE  FALSE
    <3>1. l - Len(s.data) < FirstOf(bl, d) /\ FirstOf(bl, d) <= l
      <4>1. l - Len(s.data) \in Int /\ FirstOf(bl, d) \in Int /\ x \in Int /\ y \in Int
        BY <1>2, <1>3, <2>5
      <4>2. QED
        BY <2>5, <2>8, <4>1
    <3>2. PICK i \in 1 .. Len(s.items) : FirstOf(bl, d) = PlaceAt(s, l, s.items[i].bp)
      BY <3>1 DEF ItemsTell
    <3>3. p < s.items[i].bp /\ s.items[i].bp <= e /\ s.items[i].bp \in Nat
      BY <2>7, <2>8, <3>2
    <3>4. ~(i <= k + 1)
      BY <2>4, <2>7, <3>2, <3>3
    <3>5. i > k + 1
      BY <2>1, <3>4
    <3>6. s.items[i].bp > e
      BY <2>7, <3>2, <3>5
    <3>7. QED
      BY <2>4, <3>3, <3>6
  <2>9. ASSUME NEW j \in 1 .. Len(t.items)
        PROVE  \E b \in Beginnings(bl) :
                 Tells(f, t.items[j], PlaceAt(t, l, t.items[j].bp), b)
    <3>1. CASE j = 1
      <4>1. PICK b \in Beginnings(bl) : Tells(f, s.items[k + 1], x, b)
        BY <2>1 DEF ItemsTell, x, p
      <4>2. /\ s.items[k + 1].file = Begin(bl, UnitOf(bl, b))
            /\ x = FirstOf(bl, b) + s.items[k + 1].off
            /\ \A d \in Beginnings(bl) : FirstOf(bl, d) <= x => d <= b
        BY <4>1 DEF Tells
      <4>3. t.items[1].file = Begin(bl, UnitOf(bl, b))
        BY <2>1, <4>2
      <4>4. y = FirstOf(bl, b) + t.items[1].off
        <5> DEFINE o == s.items[k + 1].off
                   w == FirstOf(bl, b)
        <5>1. t.items[1].off = o + (e - p)
          BY <2>1 DEF e, p
        <5>2. w \in Nat /\ o \in Nat /\ x = w + o
          BY <1>3, <2>4, <4>2
        <5> HIDE DEF o, w
        <5>3. (w + o) + (e - p) = w + (o + (e - p))
          BY <2>4, <5>2
        <5>4. QED
          BY <2>5, <5>1, <5>2, <5>3 DEF w
      <4>5. ASSUME NEW d \in Beginnings(bl), FirstOf(bl, d) <= y
            PROVE  d <= b
        <5>1. ~(x < FirstOf(bl, d))
          BY <2>8, <4>5
        <5>2. FirstOf(bl, d) <= x
          BY <1>3, <2>5, <5>1
        <5>3. QED
          BY <4>2, <5>2
      <4>6. Tells(f, t.items[1], y, b)
        BY <4>3, <4>4, <4>5 DEF Tells
      <4>7. QED
        BY <3>1, <4>6 DEF y
    <3>2. CASE j # 1
      <4>1. j \in 2 .. Len(t.items)
        BY <1>2, <3>2
      <4>2. /\ k + j \in 1 .. Len(s.items)
            /\ PlaceAt(t, l, t.items[j].bp) = PlaceAt(s, l, s.items[k + j].bp)
            /\ t.items[j].file = s.items[k + j].file /\ t.items[j].off = s.items[k + j].off
        BY <2>1, <2>6, <4>1
      <4>3. PICK b \in Beginnings(bl) :
              Tells(f, s.items[k + j], PlaceAt(s, l, s.items[k + j].bp), b)
        BY <4>2 DEF ItemsTell
      <4>4. Tells(f, t.items[j], PlaceAt(t, l, t.items[j].bp), b)
        BY <4>2, <4>3 DEF Tells
      <4>5. QED
        BY <4>4
    <3>3. QED
      BY <3>1, <3>2
  <2>10. ASSUME NEW b \in Beginnings(bl),
                l - Len(t.data) < FirstOf(bl, b), FirstOf(bl, b) <= l
         PROVE  \E i \in 1 .. Len(t.items) :
                  /\ t.items[i].file = Begin(bl, UnitOf(bl, b))
                  /\ PlaceAt(t, l, t.items[i].bp) = FirstOf(bl, b)
    <3>1. FirstOf(bl, b) \in Nat /\ y <= FirstOf(bl, b)
      BY <1>2, <1>3, <2>5, <2>10
    <3>2. l - Len(s.data) < FirstOf(bl, b)
      BY <1>2, <2>2, <2>10, <3>1
    <3>3. PICK i \in 1 .. Len(s.items) :
            /\ s.items[i].file = Begin(bl, UnitOf(bl, b))
            /\ FirstOf(bl, b) = PlaceAt(s, l, s.items[i].bp)
      BY <2>10, <3>2 DEF ItemsTell
    <3>4. e <= s.items[i].bp /\ s.items[i].bp \in Nat
      BY <2>7, <3>1, <3>3
    <3>6. CASE i > k + 1
      <4>1. i - k \in 2 .. Len(t.items) /\ k + (i - k) = i
        BY <2>7, <3>6
      <4>2. /\ PlaceAt(t, l, t.items[i - k].bp) = PlaceAt(s, l, s.items[i].bp)
            /\ t.items[i - k].file = s.items[i].file
        <5>1. /\ PlaceAt(t, l, t.items[i - k].bp) = PlaceAt(s, l, s.items[k + (i - k)].bp)
              /\ t.items[i - k].file = s.items[k + (i - k)].file
          BY <2>1, <2>6, <4>1
        <5>2. QED
          BY <4>1, <5>1
      <4>3. i - k \in 1 .. Len(t.items)
        BY <1>2, <4>1
      <4>4. QED
        BY <3>3, <4>2, <4>3
    <3>7. CASE i = k + 1
      <4>1. s.items[i].bp <= p
        BY <2>4, <3>7 DEF p
      <4>2. s.items[i].bp = e
        BY <2>4, <3>4, <4>1
      <4>3. PlaceAt(t, l, t.items[1].bp) = FirstOf(bl, b)
        BY <2>7, <3>3, <4>2 DEF y
      <4>4. t.items[1].file = Begin(bl, UnitOf(bl, b))
        BY <2>1, <3>3, <3>7
      <4>5. QED
        BY <2>3, <4>3, <4>4
    <3>8. CASE i < k + 1
      <4>1. s.items[i].bp < p
        BY <2>7, <3>3, <3>8
      <4>2. FALSE
        BY <2>4, <3>4, <4>1
      <4>3. QED
        BY <4>2
    <3>9. QED
      BY <1>2, <2>1, <3>6, <3>7, <3>8
  <2>11. QED
    BY <2>9, <2>10 DEF ItemsTell
<1>6. QED
  BY <1>4, <1>5

(* A packet in which a unit begins carries less than it is long.           *)
LEMMA NotWhole ==
  ASSUME NEW blocks \in Seq(BlockTypes), NEW b \in 1 .. Len(blocks),
         Carries(blocks, b) = BlockPayload(blocks, b)
  PROVE  b \notin Beginnings(blocks)
<1> SUFFICES ASSUME b \in Beginnings(blocks)
             PROVE  FALSE
  OBVIOUS
<1> DEFINE u == UnitOf(blocks, b)
<1>1. /\ Before(blocks, b) \in Nat /\ Before(blocks, b) < blocks[u].hl
      /\ blocks[u].hl < Before(blocks, b) + blocks[b].len
  BY BeginningEnds
<1>2. b \in Own(blocks) /\ u # None /\ blocks[u].good /\ 1 \in 1 .. Len(Carries(blocks, b))
  BY BeginningFacts
<1>3. Skipped(blocks, b) = blocks[u].hl - Before(blocks, b)
  BY <1>1, <1>2 DEF Skipped
<1>4. Len(Carries(blocks, b)) = IF Skipped(blocks, b) <= blocks[b].len
                                  THEN blocks[b].len - Skipped(blocks, b) ELSE 0
  BY CarriesFacts
<1>5. Len(BlockPayload(blocks, b)) = blocks[b].len /\ blocks[b].len \in Nat
  BY PayloadFacts
<1>6. blocks[u].hl \in Nat
  <2>1. u \in Own(blocks)
    <3>1. b \in 0 .. Len(blocks)
      BY <1>2, LenNat
    <3>2. QED
      BY <1>2, <3>1, UnitTypes
  <2>2. QED
    BY <2>1, LenNat
<1>7. Skipped(blocks, b) > 0 /\ Skipped(blocks, b) \in Nat
  BY <1>1, <1>3, <1>6
<1>8. Len(Carries(blocks, b)) # 0
  BY <1>2
<1>9. QED
  BY <1>4, <1>5, <1>7, <1>8

(* What begins up to the end of a packet begins in it, or in front of it.  *)
LEMMA BegunUpTo ==
  ASSUME NEW f, FileFacts(f), NEW b \in 1 .. Len(f.blocks), NEW d \in Beginnings(f.blocks),
         FirstOf(f.blocks, d) <= PartEnd(f.blocks, b)
  PROVE  d = b \/ FirstOf(f.blocks, d) <= PartEnd(f.blocks, b - 1)
<1> DEFINE bl == f.blocks
<1>1. bl \in Seq(BlockTypes) /\ StreamLaid(bl, f.stream) /\ Len(bl) \in Nat
  BY FileLaid
<1>2. d \in 1 .. Len(bl) /\ FirstOf(bl, d) <= PartEnd(bl, d)
  BY <1>1, BeginningFacts
<1>3. d - 1 \in 0 .. Len(bl) /\ b - 1 \in 0 .. Len(bl) /\ b \in 0 .. Len(bl)
      /\ d \in 0 .. Len(bl)
  BY <1>1, <1>2
<1>4. /\ PartEnd(bl, d - 1) \in Nat /\ PartEnd(bl, b - 1) \in Nat /\ PartEnd(bl, b) \in Nat
      /\ PartEnd(bl, d) \in Nat
  BY <1>1, <1>3 DEF StreamLaid
<1>5. FirstOf(bl, d) = PartEnd(bl, d - 1) + 1
  BY DEF FirstOf
<1>6. CASE b < d
  <2>1. d - 1 \in b .. Len(bl)
    BY <1>1, <1>2, <1>6
  <2>2. PartEnd(bl, b) <= PartEnd(bl, d - 1)
    BY <1>1, <1>3, <2>1 DEF StreamLaid
  <2>3. QED
    BY <1>4, <1>5, <2>2
<1>7. CASE d < b
  <2>1. b - 1 \in d .. Len(bl)
    BY <1>1, <1>2, <1>7
  <2>2. PartEnd(bl, d) <= PartEnd(bl, b - 1)
    BY <1>1, <1>3, <2>1 DEF StreamLaid
  <2>3. QED
    BY <1>2, <1>4, <1>5, <2>2
<1>8. QED
  BY <1>1, <1>2, <1>6, <1>7

(* The items still tell where their bytes come from when more is read:    *)
(* with an item of its own, or behind the last one.                        *)
LEMMA AppendTells ==
  ASSUME NEW f, FileFacts(f), NEW s, BufferOK(s), NEW l \in Nat, ItemsTell(f, s, l),
         NEW b \in Beginnings(f.blocks), NEW t, BufferOK(t), t.offset = s.offset,
         NewItem(s, t, Begin(f.blocks, UnitOf(f.blocks, b))),
         s.data # << >> => l = PartEnd(f.blocks, b - 1),
         PartEnd(f.blocks, b) - Len(t.data) = PartEnd(f.blocks, b - 1) - Len(s.data)
  PROVE  ItemsTell(f, t, PartEnd(f.blocks, b))
<1> DEFINE bl == f.blocks
           x == PartEnd(bl, b - 1)
           m == PartEnd(bl, b)
           n == Len(s.items) + 1
<1>n. /\ Len(t.items) = n /\ \A i \in 1 .. Len(s.items) : t.items[i] = s.items[i]
      /\ t.items[n].file = Begin(bl, UnitOf(bl, b))
      /\ t.items[n].off = 0 /\ t.items[n].bp = s.offset + Len(s.data)
  BY DEF NewItem
<1>1. Buffered(s) /\ Buffered(t)
  BY DEF BufferOK
<1>2. /\ Len(s.data) \in Nat /\ s.offset \in Nat /\ Len(s.items) \in Nat
      /\ Len(t.data) \in Nat /\ t.offset \in Nat
      /\ (s.data = << >> <=> Len(s.data) = 0)
  BY <1>1, BufferedTypes
<1>3. bl \in Seq(BlockTypes) /\ StreamLaid(bl, f.stream) /\ Len(bl) \in Nat
  BY FileLaid
<1>4. b \in 1 .. Len(bl)
  BY <1>3, BeginningFacts
<1>5. x \in Nat /\ m \in Nat
  <2>1. b - 1 \in 0 .. Len(bl) /\ b \in 0 .. Len(bl)
    BY <1>3, <1>4
  <2>2. QED
    BY <1>3, <2>1 DEF StreamLaid
<1>6. FirstOf(bl, b) = x + 1
  BY DEF FirstOf
<1> HIDE DEF x, m
<1>7. m - Len(t.data) = x - Len(s.data) /\ (s.data # << >> => l = x)
  BY DEF x, m
<1>8. \A i \in 1 .. Len(s.items) :
        PlaceAt(t, m, t.items[i].bp) = PlaceAt(s, l, s.items[i].bp)
  <2>1. ASSUME NEW i \in 1 .. Len(s.items)
        PROVE  PlaceAt(t, m, t.items[i].bp) = PlaceAt(s, l, s.items[i].bp)
    <3>1. s.data # << >>
      <4>1. s.items = << >> <=> Len(s.items) = 0
        BY <1>1, BufferedTypes
      <4>2. QED
        BY <1>1, <1>2, <4>1 DEF Buffered
    <3>2. m - Len(t.data) = l - Len(s.data)
      BY <1>7, <3>1
    <3>3. QED
      BY <1>n, <3>2 DEF PlaceAt
  <2>2. QED
    BY <2>1
<1>9. PlaceAt(t, m, t.items[n].bp) = FirstOf(bl, b)
  <2>1. t.items[n].bp - t.offset = Len(s.data)
    BY <1>2, <1>n
  <2>2. (x - Len(s.data)) + Len(s.data) = x
    BY <1>2, <1>5
  <2>3. QED
    BY <1>6, <1>7, <2>1, <2>2 DEF PlaceAt
<1>10. ASSUME NEW i \in 1 .. Len(t.items)
       PROVE  \E d \in Beginnings(bl) : Tells(f, t.items[i], PlaceAt(t, m, t.items[i].bp), d)
  <2>1. CASE i \in 1 .. Len(s.items)
    <3>1. \E d \in Beginnings(bl) : Tells(f, s.items[i], PlaceAt(s, l, s.items[i].bp), d)
      BY <2>1 DEF ItemsTell
    <3>2. t.items[i] = s.items[i]
      BY <1>n, <2>1
    <3>3. QED
      BY <1>8, <2>1, <3>1, <3>2
  <2>2. CASE i = n
    <3>1. FirstOf(bl, b) = FirstOf(bl, b) + t.items[n].off
      BY <1>5, <1>6, <1>n
    <3>2. ASSUME NEW d \in Beginnings(bl), FirstOf(bl, d) <= FirstOf(bl, b)
          PROVE  d <= b
      <4>1. /\ b < d <=> FirstOf(bl, b) < FirstOf(bl, d)
            /\ FirstOf(bl, d) \in 1 .. Len(f.stream) /\ d \in Nat
        BY UnitsInOrder
      <4>2. FirstOf(bl, b) \in 1 .. Len(f.stream) /\ b \in Nat
        BY UnitsInOrder
      <4>3. QED
        BY <3>2, <4>1, <4>2
    <3>3. Tells(f, t.items[n], FirstOf(bl, b), b)
      BY <1>n, <3>1, <3>2 DEF Tells
    <3>4. QED
      BY <1>9, <2>2, <3>3
  <2>3. QED
    BY <1>2, <1>n, <2>1, <2>2
<1>11. ASSUME NEW d \in Beginnings(bl), m - Len(t.data) < FirstOf(bl, d), FirstOf(bl, d) <= m
       PROVE  \E i \in 1 .. Len(t.items) :
                /\ t.items[i].file = Begin(bl, UnitOf(bl, d))
                /\ PlaceAt(t, m, t.items[i].bp) = FirstOf(bl, d)
  <2>1. d = b \/ FirstOf(bl, d) <= x
    BY <1>4, <1>11, BegunUpTo DEF x, m
  <2>2. CASE d = b
    <3>1. n \in 1 .. Len(t.items)
      BY <1>2, <1>n
    <3>2. t.items[n].file = Begin(bl, UnitOf(bl, d))
      BY <1>n, <2>2
    <3>3. QED
      BY <1>9, <2>2, <3>1, <3>2
  <2>3. CASE FirstOf(bl, d) <= x
    <3>1. FirstOf(bl, d) \in 1 .. Len(f.stream)
      BY UnitsInOrder
    <3>2. Len(s.data) # 0
      BY <1>2, <1>5, <1>7, <1>11, <2>3, <3>1
    <3>3. l = x
      BY <1>2, <1>7, <3>2
    <3>4. PICK i \in 1 .. Len(s.items) :
            /\ s.items[i].file = Begin(bl, UnitOf(bl, d))
            /\ PlaceAt(s, l, s.items[i].bp) = FirstOf(bl, d)
      BY <1>7, <1>11, <2>3, <3>3 DEF ItemsTell
    <3>5. i \in 1 .. Len(t.items)
      BY <1>2, <1>n
    <3>6. t.items[i].file = Begin(bl, UnitOf(bl, d))
          /\ PlaceAt(t, m, t.items[i].bp) = FirstOf(bl, d)
      BY <1>8, <1>n, <3>4
    <3>7. QED
      BY <3>5, <3>6
  <2>4. QED
    BY <2>1, <2>2, <2>3
<1>12. ItemsTell(f, t, m)
  BY <1>10, <1>11 DEF ItemsTell
<1>13. QED
  BY <1>12 DEF m

LEMMA BytesTell ==
  ASSUME NEW f, FileFacts(f), NEW s, BufferOK(s), NEW l \in Nat, ItemsTell(f, s, l),
         s.data # << >>,
         NEW b \in 1 .. Len(f.blocks), b \notin Beginnings(f.blocks),
         NEW t, Len(t.data) \in Nat, t.offset = s.offset,
         t.items = s.items, l = PartEnd(f.blocks, b - 1),
         PartEnd(f.blocks, b) - Len(t.data) = PartEnd(f.blocks, b - 1) - Len(s.data)
  PROVE  ItemsTell(f, t, PartEnd(f.blocks, b))
<1> DEFINE bl == f.blocks
           m == PartEnd(bl, b)
<1>1. m \in Nat
  <2>1. StreamLaid(bl, f.stream) /\ Len(bl) \in Nat
    BY FileLaid
  <2>2. b \in 0 .. Len(bl)
    BY <2>1
  <2>3. QED
    BY <2>1, <2>2 DEF StreamLaid
<1>2. m - Len(t.data) = l - Len(s.data)
  OBVIOUS
<1>3. ASSUME NEW d \in Beginnings(bl), FirstOf(bl, d) <= m
      PROVE  FirstOf(bl, d) <= l
  <2>1. d = b \/ FirstOf(bl, d) <= PartEnd(bl, b - 1)
    BY <1>3, BegunUpTo
  <2>2. QED
    BY <2>1
<1> HIDE DEF m
<1>4. \A i \in 1 .. Len(s.items) : PlaceAt(t, m, s.items[i].bp) = PlaceAt(s, l, s.items[i].bp)
  BY <1>2 DEF PlaceAt
<1>5. ItemsTell(f, t, m)
  BY <1>2, <1>3, <1>4 DEF ItemsTell
<1>6. QED
  BY <1>5 DEF m

LEMMA FirstPlace ==
  ASSUME NEW l \in Nat, NEW c \in Nat, NEW o \in Nat, NEW n \in Nat, 0 < c, c <= l, l <= n
  PROVE  /\ ((l - c) + (o - o)) + 1 = (l - c) + 1
         /\ (l - c) + 1 \in 1 .. n
OBVIOUS

LEMMA PlacesOrdered ==
  ASSUME NEW a \in Int, NEW o \in Int, NEW y \in Int, NEW z \in Int, y < z
  PROVE  (a + (y - o)) + 1 < (a + (z - o)) + 1
OBVIOUS

(* A position that was noted, and the place of its byte in the stream.     *)
Noted(f, w) ==
  w # << >> =>
    /\ ~f.audio /\ w.pos.off \in Nat
    /\ \E b \in Beginnings(f.blocks) : \E x \in 1 .. Len(f.stream) :
         Tells(f, w.pos, x, b) /\ w.byte = f.stream[x]

LEMMA NoteFacts ==
  ASSUME NEW f, FileFacts(f), ~f.audio, NEW s, BufferOK(s), NEW l \in Nat,
         InStream(f.stream, s.data, l), ItemsTell(f, s, l), s.items # << >>
  PROVE  Noted(f, [pos |-> Position(s.items[1]), byte |-> s.data[1]])
<1>1. Buffered(s)
  BY DEF BufferOK
<1>2. Len(s.items) \in Nat /\ (s.items = << >> <=> Len(s.items) = 0)
      /\ Len(s.data) \in Nat /\ (s.data = << >> <=> Len(s.data) = 0)
      /\ s.offset \in Nat
  BY <1>1, BufferedTypes
<1>3. 1 \in 1 .. Len(s.items)
  BY <1>2
<1>4. 1 \in 1 .. Len(s.data) /\ s.items[1].bp = s.offset
  BY <1>1, <1>2 DEF Buffered
<1>5. s.items[1].off \in Nat
  BY <1>1, <1>3, BufferedTypes
<1>6. Len(s.data) <= l /\ l <= Len(f.stream)
      /\ s.data[1] = f.stream[(l - Len(s.data)) + 1]
  BY <1>4 DEF InStream
<1> DEFINE x == (l - Len(s.data)) + 1
<1>7. PlaceAt(s, l, s.items[1].bp) = x
  <2>1. Len(f.stream) \in Nat
    BY FileLaid
  <2>2. 0 < Len(s.data)
    BY <1>2, <1>4
  <2>3. ((l - Len(s.data)) + (s.offset - s.offset)) + 1 = (l - Len(s.data)) + 1
    BY <1>2, <1>6, <2>1, <2>2, FirstPlace
  <2>4. PlaceAt(s, l, s.offset) = ((l - Len(s.data)) + (s.offset - s.offset)) + 1
    BY DEF PlaceAt
  <2>5. QED
    BY <1>4, <2>3, <2>4, Zenon
<1>8. x \in 1 .. Len(f.stream)
  <2>1. Len(f.stream) \in Nat
    BY FileLaid
  <2>2. 0 < Len(s.data)
    BY <1>2, <1>4
  <2>3. QED
    BY <1>2, <1>6, <2>1, <2>2, FirstPlace
<1>9. PICK b \in Beginnings(f.blocks) : Tells(f, s.items[1], x, b)
  BY <1>3, <1>7 DEF ItemsTell
<1> DEFINE w == [pos |-> Position(s.items[1]), byte |-> s.data[1]]
<1>10. /\ w.pos.file = s.items[1].file /\ w.pos.off = s.items[1].off
       /\ w.byte = s.data[1]
  BY DEF Position
<1> HIDE DEF w
<1>11. Tells(f, w.pos, x, b)
  BY <1>9, <1>10 DEF Tells
<1>12. w.byte = f.stream[x]
  BY <1>6, <1>10
<1> HIDE DEF x
<1>13. Noted(f, w)
  BY <1>5, <1>8, <1>10, <1>11, <1>12 DEF Noted
<1>14. QED
  BY <1>13 DEF w

(* Looking for a noted position ends at the byte that stood there.  If no  *)
(* item names the packet itself the unit of the position is not in the     *)
(* buffer, although a unit in front of it and one behind it are.           *)
LEMMA NotedFound ==
  ASSUME NEW f, FileFacts(f), NEW s, BufferOK(s), NEW l \in Nat,
         InStream(f.stream, s.data, l), ItemsTell(f, s, l), s.items # << >>,
         NEW w, Noted(f, w), w # << >>, s.items[1].file <= w.pos.file,
         NEW bp, bp = FilePosBufferPos(s, w.pos),
         s.offset <= bp, bp < EndPos(s)
  PROVE  bp \in Nat /\ s.data[(bp - s.offset) + 1] = w.byte
<1> DEFINE bl == f.blocks
           p == w.pos
           found == {i \in DOMAIN s.items : s.items[i].file >= p.file}
           m == Min(found)
           o == s.offset
           c == Len(s.data)
           a == l - c
<1>1. Buffered(s)
  BY DEF BufferOK
<1>2. /\ Len(s.items) \in Nat /\ (s.items = << >> <=> Len(s.items) = 0)
      /\ c \in Nat /\ o \in Nat /\ s.items \in Seq(ItemTypes)
  BY <1>1, BufferedTypes
<1>3. \A i \in 1 .. Len(s.items) :
        s.items[i].file \in Nat /\ s.items[i].off \in Nat /\ s.items[i].bp \in Nat
  BY <1>1, BufferedTypes
<1>4. c <= l /\ l <= Len(f.stream) /\ a \in Nat
      /\ \A i \in 1 .. c : s.data[i] = f.stream[a + i]
  <2>1. c <= l /\ l <= Len(f.stream)
    BY DEF InStream
  <2>2. a \in Nat
    <3> HIDE DEF c
    <3>1. QED
      BY <1>2, <2>1
  <2>3. \A i \in 1 .. c : s.data[i] = f.stream[a + i]
    BY DEF InStream
  <2>4. QED
    BY <2>1, <2>2, <2>3
<1>5. PICK b0 \in Beginnings(bl) : \E x \in 1 .. Len(f.stream) :
        Tells(f, p, x, b0) /\ w.byte = f.stream[x]
  BY DEF Noted
<1>6. PICK x0 \in 1 .. Len(f.stream) : Tells(f, p, x0, b0) /\ w.byte = f.stream[x0]
  BY <1>5
<1>7. p.off \in Nat /\ p.file = Begin(bl, UnitOf(bl, b0))
      /\ x0 = FirstOf(bl, b0) + p.off
  BY <1>6 DEF Noted, Tells
<1>8. p.file \in Nat /\ FirstOf(bl, b0) \in 1 .. Len(f.stream) /\ b0 \in Nat
      /\ Len(f.stream) \in Nat
  BY <1>7, UnitsInOrder, FileLaid
<1>9. DOMAIN s.items = 1 .. Len(s.items)
  BY <1>2
<1>10. found # {}
  <2>1. SUFFICES ASSUME found = {}
                 PROVE  FALSE
    OBVIOUS
  <2>2. FilePosBufferPos(s, p) = EndPos(s)
    BY <2>1, Zenon DEF FilePosBufferPos
  <2>3. EndPos(s) \in Nat
    BY <1>2 DEF EndPos
  <2>4. bp = EndPos(s)
    BY <2>2, Zenon
  <2>5. EndPos(s) < EndPos(s)
    BY <2>4, Zenon
  <2>6. QED
    BY <2>3, <2>5
<1>11. m \in found /\ \A i \in found : m <= i
  <2>1. found \subseteq Nat
    BY <1>9
  <2> HIDE DEF found
  <2>2. QED
    BY <1>10, <2>1, MinFacts
<1>12. bp = IF s.items[m].file = p.file
              THEN s.items[m].bp + (p.off - s.items[m].off)
            ELSE s.items[m].bp
  BY <1>10 DEF FilePosBufferPos
<1>13. m \in 1 .. Len(s.items) /\ s.items[m].file >= p.file
  BY <1>9, <1>11
<1>14. \A i \in 1 .. Len(s.items) : s.items[i].file >= p.file => m <= i
  BY <1>9, <1>11
<1> HIDE DEF found, m
<1> DEFINE X(i) == PlaceAt(s, l, s.items[i].bp)
<1>15. \A i \in 1 .. Len(s.items) : X(i) = (a + (s.items[i].bp - o)) + 1
  BY DEF PlaceAt
<1>16. \A i \in 1 .. Len(s.items) : o <= s.items[i].bp /\ s.items[i].bp < o + c
  BY <1>1 DEF Buffered
<1>17. \A i \in 1 .. Len(s.items) : X(i) \in Nat /\ a < X(i) /\ X(i) <= l
  <2> TAKE i \in 1 .. Len(s.items)
  <2>1. /\ s.items[i].bp \in Nat /\ o <= s.items[i].bp /\ s.items[i].bp < o + c
        /\ X(i) = (a + (s.items[i].bp - o)) + 1
    BY <1>3, <1>15, <1>16
  <2> HIDE DEF X, o, c
  <2>2. QED
    BY <1>2, <1>4, <2>1
<1>18. \A i \in 1 .. Len(s.items) : \E b \in Beginnings(bl) : Tells(f, s.items[i], X(i), b)
  BY DEF ItemsTell
<1>19. \A b \in Beginnings(bl) : a < FirstOf(bl, b) /\ FirstOf(bl, b) <= l =>
         \E i \in 1 .. Len(s.items) :
           s.items[i].file = Begin(bl, UnitOf(bl, b)) /\ X(i) = FirstOf(bl, b)
  BY DEF ItemsTell
<1> HIDE DEF X
<1>20. PICK bm \in Beginnings(bl) : Tells(f, s.items[m], X(m), bm)
  BY <1>13, <1>18
<1>21. /\ s.items[m].file = Begin(bl, UnitOf(bl, bm))
       /\ X(m) = FirstOf(bl, bm) + s.items[m].off
  BY <1>20 DEF Tells
<1>22. s.items[m].file = p.file
  <2> SUFFICES ASSUME s.items[m].file # p.file
               PROVE  FALSE
    OBVIOUS
  <2>1. p.file < s.items[m].file
    BY <1>3, <1>8, <1>13
  <2>2. m # 1
    <3>1. s.items[1].file <= p.file /\ s.items[1].file \in Nat
      BY <1>2, <1>3
    <3>2. QED
      BY <1>8, <2>1, <3>1
  <2>3. m - 1 \in 1 .. Len(s.items) /\ m \in Nat /\ m - 1 < m
    BY <1>2, <1>13, <2>2
  <2>4. s.items[m - 1].file < p.file
    <3>1. ~(m <= m - 1)
      BY <2>3
    <3>2. ~(s.items[m - 1].file >= p.file)
      BY <1>14, <2>3, <3>1
    <3>3. s.items[m - 1].file \in Nat
      BY <1>3, <2>3
    <3>4. QED
      BY <1>8, <3>2, <3>3
  <2>5. PICK b1 \in Beginnings(bl) : Tells(f, s.items[m - 1], X(m - 1), b1)
    BY <1>18, <2>3
  <2>6. b1 < b0
    <3>1. Begin(bl, UnitOf(bl, b1)) < Begin(bl, UnitOf(bl, b0))
      BY <1>7, <2>4, <2>5 DEF Tells
    <3>2. QED
      BY <3>1, UnitsInOrder
  <2>7. b0 < bm
    <3>1. Begin(bl, UnitOf(bl, b0)) < Begin(bl, UnitOf(bl, bm))
      BY <1>7, <1>21, <2>1
    <3>2. QED
      BY <3>1, UnitsInOrder
  <2>8. FirstOf(bl, b0) < FirstOf(bl, bm) /\ FirstOf(bl, bm) \in Nat
    <3>1. FirstOf(bl, bm) \in 1 .. Len(f.stream)
      BY UnitsInOrder
    <3>2. FirstOf(bl, b0) < FirstOf(bl, bm)
      BY <2>7, UnitsInOrder
    <3>3. QED
      BY <3>1, <3>2
  <2>9. ~(FirstOf(bl, b0) <= X(m - 1))
    <3>1. b1 \in Nat
      BY UnitsInOrder
    <3>2. ~(b0 <= b1)
      BY <1>8, <2>6, <3>1
    <3>3. QED
      BY <2>5, <3>2 DEF Tells
  <2>10. X(m - 1) \in Nat /\ a < X(m - 1) /\ X(m) \in Nat /\ X(m) <= l
    BY <1>13, <1>17, <2>3
  <2>11. s.items[m].off \in Nat
    BY <1>3, <1>13
  <2>12. FirstOf(bl, b0) < X(m)
    BY <1>8, <1>21, <2>8, <2>11
  <2>13. a < FirstOf(bl, b0) /\ FirstOf(bl, b0) <= l
    <3> HIDE DEF a
    <3>1. QED
      BY <1>4, <1>8, <2>9, <2>10, <2>12
  <2>14. PICK j \in 1 .. Len(s.items) : s.items[j].file = p.file /\ X(j) = FirstOf(bl, b0)
    BY <1>7, <1>19, <2>13
  <2>15. m <= j /\ m # j
    <3>1. m <= j
      BY <1>8, <1>14, <2>14
    <3>2. QED
      BY <2>14, <3>1
  <2>16. m < j
    BY <2>3, <2>15
  <2>17. s.items[m].bp < s.items[j].bp
    BY <1>1, <1>13, <2>14, <2>16 DEF Buffered
  <2>18. X(m) < X(j)
    <3>1. /\ X(m) = (a + (s.items[m].bp - o)) + 1
          /\ X(j) = (a + (s.items[j].bp - o)) + 1
      BY <1>13, <1>15
    <3>2. s.items[m].bp \in Nat /\ s.items[j].bp \in Nat
      BY <1>3, <1>13
    <3>3. a \in Int /\ o \in Int /\ s.items[m].bp \in Int /\ s.items[j].bp \in Int
      BY <1>2, <1>4, <3>2
    <3> HIDE DEF a, o, c
    <3>4. (a + (s.items[m].bp - o)) + 1 < (a + (s.items[j].bp - o)) + 1
      BY <2>17, <3>3, PlacesOrdered
    <3>5. QED
      BY <3>1, <3>4
  <2>19. QED
    BY <1>8, <2>10, <2>12, <2>14, <2>18
<1>23. bm = b0
  <2>1. bm \in Nat
    BY UnitsInOrder
  <2>2. ~(bm < b0) /\ ~(b0 < bm)
    <3>1. Begin(bl, UnitOf(bl, bm)) = Begin(bl, UnitOf(bl, b0))
      BY <1>7, <1>21, <1>22
    <3>2. Begin(bl, UnitOf(bl, b0)) \in Nat
      BY <1>7, <1>8
    <3>3. bm < b0 <=> Begin(bl, UnitOf(bl, bm)) < Begin(bl, UnitOf(bl, b0))
      BY UnitsInOrder
    <3>4. b0 < bm <=> Begin(bl, UnitOf(bl, b0)) < Begin(bl, UnitOf(bl, bm))
      BY UnitsInOrder
    <3>5. QED
      BY <3>1, <3>2, <3>3, <3>4
  <2>3. QED
    BY <1>8, <2>1, <2>2
<1>24. (a + (bp - o)) + 1 = x0 /\ bp \in Int
  <2>1. bp = s.items[m].bp + (p.off - s.items[m].off)
    BY <1>12, <1>22
  <2>2. (a + (s.items[m].bp - o)) + 1 = FirstOf(bl, b0) + s.items[m].off
    BY <1>13, <1>15, <1>21, <1>23
  <2>3. s.items[m].bp \in Nat /\ s.items[m].off \in Nat
    BY <1>3, <1>13
  <2>4. /\ a \in Int /\ o \in Int /\ s.items[m].bp \in Int /\ s.items[m].off \in Int
        /\ p.off \in Int /\ FirstOf(bl, b0) \in Int
    <3>1. a \in Int /\ o \in Int
      BY <1>2, <1>4
    <3>2. p.off \in Int
      BY <1>7
    <3>3. FirstOf(bl, b0) \in Int
      BY <1>8
    <3>4. QED
      BY <2>3, <3>1, <3>2, <3>3
  <2> HIDE DEF a, o, c, p
  <2>5. (a + (bp - o)) + 1 = FirstOf(bl, b0) + p.off /\ bp \in Int
    <3>1. PICK y \in Int : y = s.items[m].bp
      BY <2>4
    <3>2. PICK q \in Int : q = s.items[m].off
      BY <2>4
    <3>3. PICK r \in Int : r = p.off
      BY <2>4
    <3>4. PICK g \in Int : g = FirstOf(bl, b0)
      BY <2>4
    <3>5. bp = y + (r - q) /\ (a + (y - o)) + 1 = g + q
      BY <2>1, <2>2, <3>1, <3>2, <3>3, <3>4
    <3>6. bp \in Int
      BY <3>5
    <3>7. (a + (bp - o)) + 1 = g + r
      <4>1. a \in Int /\ o \in Int
        BY <2>4
      <4>2. (a + (bp - o)) + 1 = ((a + (y - o)) + 1) + (r - q)
        <5>1. bp - o = (y - o) + (r - q)
          BY <4>1, <3>5
        <5>2. QED
          BY <4>1, <5>1
      <4>3. (g + q) + (r - q) = g + r
        OBVIOUS
      <4>4. QED
        BY <3>5, <4>2, <4>3
    <3>8. QED
      BY <3>3, <3>4, <3>6, <3>7
  <2>6. QED
    BY <1>7, <2>5
<1>25. o <= bp /\ bp < o + c
  BY DEF EndPos
<1>26. (bp - o) + 1 \in 1 .. c /\ bp \in Nat
  <2> HIDE DEF o, c, a
  <2>1. QED
    BY <1>2, <1>24, <1>25
<1>27. a + ((bp - o) + 1) = x0
  <2> HIDE DEF o, c, a
  <2>1. QED
    BY <1>2, <1>4, <1>24
<1>28. s.data[(bp - o) + 1] = f.stream[x0]
  BY <1>4, <1>26, <1>27
<1>29. QED
  BY <1>6, <1>26, <1>28

-----------------------------------------------------------------------------
(* Frames of sound.  Their begins are marks on bytes; the bytes stand in   *)
(* the stream in the order of packets and of places in them.               *)
LEMMA MarksFacts ==
  ASSUME NEW f, FileFacts(f), f.audio
  PROVE  /\ IsFiniteSet(Marks(f.blocks))
         /\ \A m \in Marks(f.blocks) :
              /\ m[1] \in 1 .. Len(f.blocks) /\ m[2] \in f.blocks[m[1]].marks
              /\ m[2] \in 1 .. f.blocks[m[1]].len /\ m = <<m[1], m[2]>>
         /\ \A b \in 1 .. Len(f.blocks) : \A u \in f.blocks[b].marks :
              <<b, u>> \in Marks(f.blocks)
<1> DEFINE bl == f.blocks
           n == Len(bl)
           row == [b \in 1 .. n |-> {b} \X bl[b].marks]
           T == {row[b] : b \in 1 .. n}
<1>1. bl \in Seq(BlockTypes) /\ n \in Nat /\ DOMAIN bl = 1 .. n
  <2>1. bl \in Seq(BlockTypes)
    BY DEF FileFacts
  <2>2. QED
    BY <2>1
<1>2. \A b \in 1 .. n : bl[b].marks \subseteq 1 .. bl[b].len /\ bl[b].len \in Nat
  <2>1. SoundOK(bl, f.stream)
    BY DEF FileFacts
  <2>2. \A b \in 1 .. n : bl[b] \in BlockTypes
    BY <1>1
  <2>3. QED
    BY <1>1, <2>1, <2>2 DEF SoundOK, BlockTypes
<1>3. Marks(bl) = UNION T
  BY <1>1 DEF Marks
<1>4. \A b \in 1 .. n : IsFiniteSet(row[b])
  <2> TAKE b \in 1 .. n
  <2>1. IsFiniteSet(1 .. bl[b].len)
    <3>1. bl[b].len \in Int /\ 1 \in Int
      BY <1>2
    <3> HIDE DEF bl
    <3>2. QED
      BY <3>1, FS_Interval
  <2>2. IsFiniteSet(bl[b].marks)
    BY <1>2, <2>1, FS_Subset
  <2>3. IsFiniteSet({b})
    BY FS_Singleton
  <2>4. IsFiniteSet({b} \X bl[b].marks)
    BY <2>2, <2>3, FS_Product
  <2>5. QED
    BY <2>4
<1>5. IsFiniteSet(T)
  <2>1. row \in Surjection(1 .. n, T)
    BY DEF Surjection
  <2>2. IsFiniteSet(1 .. n)
    BY <1>1, FS_Interval
  <2> HIDE DEF row, T
  <2>3. QED
    BY <2>1, <2>2, FS_Surjection
<1>6. IsFiniteSet(Marks(bl))
  <2>1. \A t \in T : IsFiniteSet(t)
    BY <1>4
  <2> HIDE DEF T
  <2>2. QED
    BY <1>3, <1>5, <2>1, FS_UNION
<1>7. ASSUME NEW m \in Marks(bl)
      PROVE  \E b \in 1 .. n : \E u \in bl[b].marks : m = <<b, u>>
  <2>1. PICK t \in T : m \in t
    BY <1>3
  <2>2. PICK b \in 1 .. n : t = {b} \X bl[b].marks
    OBVIOUS
  <2>3. QED
    BY <2>1, <2>2
<1>8. ASSUME NEW b \in 1 .. n, NEW u \in bl[b].marks
      PROVE  <<b, u>> \in Marks(bl)
  <2>1. <<b, u>> \in row[b] /\ row[b] \in T
    OBVIOUS
  <2> HIDE DEF T, row
  <2>2. QED
    BY <1>3, <2>1
<1>9. ASSUME NEW m \in Marks(bl)
      PROVE  /\ m[1] \in 1 .. n /\ m[2] \in bl[m[1]].marks
             /\ m[2] \in 1 .. bl[m[1]].len /\ m = <<m[1], m[2]>>
  <2>1. PICK b \in 1 .. n : \E u \in bl[b].marks : m = <<b, u>>
    BY <1>7
  <2>2. PICK u \in bl[b].marks : m = <<b, u>>
    BY <2>1
  <2>3. u \in 1 .. bl[b].len
    BY <1>2
  <2>4. m[1] = b /\ m[2] = u
    BY <2>2
  <2>5. QED
    BY <2>2, <2>3, <2>4
<1>10. QED
  BY <1>6, <1>8, <1>9

LEMMA PartOfPlace ==
  ASSUME NEW f, FileFacts(f), NEW x \in 1 .. Len(f.stream)
  PROVE  \E b \in 1 .. Len(f.blocks) : \E j \in 1 .. Len(PartOf(f.blocks, b)) :
           x = PartEnd(f.blocks, b - 1) + j
<1> DEFINE bl == f.blocks
           n == Len(bl)
           E(b) == PartEnd(bl, b)
           T == {b \in 0 .. n : x <= E(b)}
<1>1. /\ n \in Nat /\ E(0) = 0 /\ E(n) = Len(f.stream)
      /\ Len(f.stream) \in Nat
      /\ \A b \in 0 .. n : E(b) \in Nat
      /\ \A b \in 1 .. n : E(b) = E(b - 1) + Len(PartOf(bl, b))
  BY FileLaid DEF StreamLaid
<1>2. T \subseteq Nat /\ T # {}
  <2>1. n \in T
    BY <1>1
  <2>2. QED
    BY <2>1
<1>3. PICK b \in T : \A y \in T : b <= y
  BY <1>2, LeastNat
<1>4. b \in 0 .. n /\ x <= E(b) /\ b \in Nat
  BY <1>1, <1>3
<1>5. b # 0
  BY <1>1, <1>4
<1>6. b \in 1 .. n /\ b - 1 \in 0 .. n /\ b - 1 < b
  BY <1>1, <1>4, <1>5
<1>7. ~(x <= E(b - 1))
  <2>1. b - 1 \notin T
    BY <1>3, <1>4, <1>6
  <2>2. QED
    BY <1>6, <2>1
<1>8. PartOf(bl, b) \in Seq(Bytes)
  <2>1. bl \in Seq(BlockTypes)
    BY DEF FileFacts
  <2>2. QED
    BY <1>6, <2>1, PartFacts
<1> HIDE DEF E, T
<1> DEFINE j == x - E(b - 1)
           c == Len(PartOf(bl, b))
<1>9. E(b) = E(b - 1) + c /\ E(b - 1) \in Nat /\ c \in Nat
  BY <1>1, <1>6, <1>8
<1> HIDE DEF c
<1>10. j \in 1 .. c /\ x = E(b - 1) + j
  BY <1>4, <1>7, <1>9
<1> HIDE DEF j
<1>11. QED
  BY <1>6, <1>10 DEF E, c

(* A byte of the stream: in which packet it lies, at which place.          *)
ByteIs(f, x, b, u, j) ==
  /\ b \in 1 .. Len(f.blocks) /\ u \in 1 .. f.blocks[b].len
  /\ f.stream[x] = <<b, u, u \in f.blocks[b].marks>>
  /\ j \in 1 .. Len(PartOf(f.blocks, b)) /\ x = PartEnd(f.blocks, b - 1) + j
  /\ u = Skipped(f.blocks, b) + j /\ Skipped(f.blocks, b) \in Nat
  /\ \E e \in Beginnings(f.blocks) : e <= b

LEMMA ByteFacts ==
  ASSUME NEW f, FileFacts(f), NEW x \in 1 .. Len(f.stream)
  PROVE  \E b, u, j : ByteIs(f, x, b, u, j)
<1> DEFINE bl == f.blocks
<1>1. PICK b \in 1 .. Len(bl) : \E j \in 1 .. Len(PartOf(bl, b)) :
        x = PartEnd(bl, b - 1) + j
  BY PartOfPlace
<1>2. PICK j \in 1 .. Len(PartOf(bl, b)) : x = PartEnd(bl, b - 1) + j
  BY <1>1
<1>3. bl \in Seq(BlockTypes)
  BY DEF FileFacts
<1>4. (\E e \in Beginnings(bl) : e <= b) /\ PartOf(bl, b) = Carries(bl, b)
  BY <1>2 DEF PartOf
<1>5. f.stream[x] = PartOf(bl, b)[j]
  <2>1. StreamLaid(bl, f.stream)
    BY FileLaid
  <2>2. f.stream[PartEnd(bl, b - 1) + j] = PartOf(bl, b)[j]
    BY <2>1, Zenon DEF StreamLaid
  <2>3. QED
    BY <1>2, <2>2
<1> DEFINE u == Skipped(bl, b) + j
<1>6. /\ Carries(bl, b)[j] = BlockPayload(bl, b)[u] /\ u \in 1 .. bl[b].len
  BY <1>3, <1>4, CarriesFacts
<1>7. BlockPayload(bl, b)[u] = <<b, u, u \in bl[b].marks>>
  BY <1>3, <1>6, PayloadFacts
<1>8. Skipped(bl, b) \in Nat
  BY <1>3, CarriesIs
<1> HIDE DEF u
<1>9. u = Skipped(bl, b) + j
  BY DEF u
<1>10. ByteIs(f, x, b, u, j)
  BY <1>2, <1>4, <1>5, <1>6, <1>7, <1>8, <1>9 DEF ByteIs
<1>11. QED
  BY <1>10

LEMMA ByteTypes ==
  ASSUME NEW f, FileFacts(f), NEW x \in 1 .. Len(f.stream)
  PROVE  /\ f.stream[x][1] \in 1 .. Len(f.blocks)
         /\ f.stream[x][2] \in 1 .. f.blocks[f.stream[x][1]].len
         /\ f.blocks[f.stream[x][1]].len \in Nat
         /\ f.stream[x][3] <=> f.stream[x][2] \in f.blocks[f.stream[x][1]].marks
         /\ f.stream[x] = <<f.stream[x][1], f.stream[x][2], f.stream[x][3]>>
         /\ \E e \in Beginnings(f.blocks) : e <= f.stream[x][1]
         /\ f.stream[x][1] \in Nat /\ f.stream[x][2] \in Nat
<1>1. PICK b, u, j : ByteIs(f, x, b, u, j)
  BY ByteFacts
<1>2. /\ f.stream[x][1] = b /\ f.stream[x][2] = u
      /\ f.stream[x][3] = (u \in f.blocks[b].marks)
  BY <1>1 DEF ByteIs
<1>3. b \in 1 .. Len(f.blocks) /\ u \in 1 .. f.blocks[b].len
  BY <1>1 DEF ByteIs
<1>4. f.blocks[b].len \in Nat /\ Len(f.blocks) \in Nat
  <2>1. f.blocks \in Seq(BlockTypes)
    BY DEF FileFacts
  <2>2. f.blocks[b] \in BlockTypes
    BY <1>3, <2>1
  <2>3. QED
    BY <2>1, <2>2 DEF BlockTypes
<1>5. f.stream[x] = <<f.stream[x][1], f.stream[x][2], f.stream[x][3]>>
  <2>1. f.stream[x] = <<b, u, u \in f.blocks[b].marks>>
    BY <1>1 DEF ByteIs
  <2>2. QED
    BY <1>2, <2>1, Zenon
<1>6. \E e \in Beginnings(f.blocks) : e <= b
  BY <1>1 DEF ByteIs
<1>7. b \in Nat /\ u \in Nat
  BY <1>3, <1>4
<1>8. f.stream[x][3] <=> u \in f.blocks[b].marks
  BY <1>2
<1>9. QED
  BY <1>2, <1>3, <1>4, <1>5, <1>6, <1>7, <1>8, Zenon

LEMMA BytesInOrder ==
  ASSUME NEW f, FileFacts(f), NEW x \in 1 .. Len(f.stream), NEW y \in 1 .. Len(f.stream),
         x < y
  PROVE  Precedes(f.stream[x], f.stream[y])
<1> DEFINE bl == f.blocks
           E(b) == PartEnd(bl, b)
<1>1. PICK b, u, j : ByteIs(f, x, b, u, j)
  BY ByteFacts
<1>2. PICK c, v, k : ByteIs(f, y, c, v, k)
  BY ByteFacts
<1>3. /\ f.stream[x][1] = b /\ f.stream[x][2] = u
      /\ f.stream[y][1] = c /\ f.stream[y][2] = v
  BY <1>1, <1>2 DEF ByteIs
<1>4. /\ Len(bl) \in Nat
      /\ \A d \in 0 .. Len(bl) : /\ E(d) \in Nat
                                 /\ \A e \in d .. Len(bl) : E(d) <= E(e)
      /\ \A d \in 1 .. Len(bl) : E(d) = E(d - 1) + Len(PartOf(bl, d))
  BY FileLaid DEF StreamLaid
<1>5. /\ b \in 1 .. Len(bl) /\ c \in 1 .. Len(bl)
      /\ x = E(b - 1) + j /\ y = E(c - 1) + k
      /\ j \in 1 .. Len(PartOf(bl, b)) /\ k \in 1 .. Len(PartOf(bl, c))
      /\ u = Skipped(bl, b) + j /\ v = Skipped(bl, c) + k
      /\ Skipped(bl, b) \in Nat /\ Skipped(bl, c) \in Nat
  BY <1>1, <1>2 DEF ByteIs
<1>6. /\ b - 1 \in 0 .. Len(bl) /\ c - 1 \in 0 .. Len(bl)
      /\ E(b - 1) \in Nat /\ E(c - 1) \in Nat
  <2>1. b - 1 \in 0 .. Len(bl) /\ c - 1 \in 0 .. Len(bl)
    <3> DEFINE n == Len(bl)
    <3>1. n \in Nat /\ b \in 1 .. n /\ c \in 1 .. n
      BY <1>4, <1>5, Zenon
    <3> HIDE DEF n
    <3>2. b - 1 \in 0 .. n /\ c - 1 \in 0 .. n
      BY <3>1
    <3>3. QED
      BY <3>2 DEF n
  <2> HIDE DEF E
  <2>2. QED
    BY <1>4, <2>1
<1>7. Len(PartOf(bl, b)) \in Nat /\ Len(PartOf(bl, c)) \in Nat
  <2>1. bl \in Seq(BlockTypes)
    BY DEF FileFacts
  <2>2. PartOf(bl, b) \in Seq(Bytes) /\ PartOf(bl, c) \in Seq(Bytes)
    BY <1>5, <2>1, PartFacts
  <2>3. QED
    BY <2>2
<1>8. b <= c
  <2> SUFFICES ASSUME c < b
               PROVE  FALSE
    BY <1>5
  <2>1. c \in 0 .. Len(bl) /\ b - 1 \in c .. Len(bl)
    <3> DEFINE n == Len(bl)
    <3>1. n \in Nat /\ b \in 1 .. n /\ c \in 1 .. n
      BY <1>4, <1>5, Zenon
    <3> HIDE DEF n
    <3>2. c \in 0 .. n /\ b - 1 \in c .. n
      BY <3>1
    <3>3. QED
      BY <3>2 DEF n
  <2>2. E(c) <= E(b - 1) /\ E(c) = E(c - 1) + Len(PartOf(bl, c))
    BY <1>4, <1>5, <2>1
  <2> DEFINE p == E(b - 1)
             q == E(c - 1)
             m == Len(PartOf(bl, c))
  <2>3. q + m <= p /\ x = p + j /\ y = q + k
    BY <1>5, <2>2
  <2>4. p \in Nat /\ q \in Nat /\ m \in Nat /\ k \in 1 .. m /\ j \in Nat /\ j > 0
    BY <1>5, <1>6, <1>7
  <2> HIDE DEF p, q, m
  <2>5. QED
    BY <2>3, <2>4
<1> HIDE DEF E
<1>9. CASE b < c
  BY <1>3, <1>9 DEF Precedes
<1>10. CASE b = c
  <2>1. j < k
    BY <1>5, <1>6, <1>7, <1>10
  <2>2. u < v
    BY <1>5, <1>7, <1>10, <2>1
  <2>3. QED
    BY <1>3, <1>10, <2>2 DEF Precedes
<1>11. QED
  BY <1>5, <1>8, <1>9, <1>10

(* Nothing is missing in between: each begin of a frame has its byte.      *)
LEMMA MarkFound ==
  ASSUME NEW f, FileFacts(f), f.audio, NEW x \in 1 .. Len(f.stream),
         NEW y \in 1 .. Len(f.stream),
         Whole(f.blocks, f.stream[x][1], f.stream[y][1]),
         NEW m \in Marks(f.blocks), ~Precedes(m, f.stream[x]), Precedes(m, f.stream[y])
  PROVE  \E z \in x .. y - 1 : f.stream[z] = <<m[1], m[2], TRUE>>
<1> DEFINE bl == f.blocks
           b == m[1]
           u == m[2]
<1>1. /\ b \in 1 .. Len(bl) /\ u \in bl[b].marks /\ u \in 1 .. bl[b].len
  BY MarksFacts
<1>2. bl \in Seq(BlockTypes) /\ SoundOK(bl, f.stream) /\ StreamLaid(bl, f.stream)
  BY FileLaid DEF FileFacts
<1>3. bl[b].len \in Nat /\ Len(bl) \in Nat /\ b \in Nat /\ u \in Nat
  <2>1. bl[b] \in BlockTypes
    BY <1>1, <1>2
  <2>2. bl[b].len \in Nat
    BY <2>1 DEF BlockTypes
  <2>3. QED
    BY <1>1, <1>2, <2>2
<1>4. /\ f.stream[x][1] \in Nat /\ f.stream[x][2] \in Nat
      /\ f.stream[y][1] \in Nat /\ f.stream[y][2] \in Nat
      /\ \E e \in Beginnings(bl) : e <= f.stream[x][1]
  BY ByteTypes
<1>5. f.stream[x][1] <= b /\ b <= f.stream[y][1]
  BY <1>3, <1>4 DEF Precedes
<1>6. b \in Own(bl) /\ bl[UnitOf(bl, b)].good
  <2>1. b \in f.stream[x][1] .. f.stream[y][1]
    BY <1>3, <1>4, <1>5
  <2>2. bl[b].len # 0
    BY <1>1, <1>3
  <2>3. QED
    BY <2>1, <2>2, Zenon DEF Whole
<1>7. PICK e \in Beginnings(bl) : e <= f.stream[x][1]
  BY <1>4
<1>8. e \in Own(bl) /\ UnitOf(bl, e) # None /\ e \in 1 .. Len(bl)
  BY <1>2, BeginningFacts
<1>9. e <= b
  BY <1>3, <1>4, <1>5, <1>7, <1>8
<1>10. UnitOf(bl, b) # None
  <2>1. b \in 0 .. Len(bl) /\ e \in 0 .. Len(bl)
    BY <1>1, <1>3, <1>8
  <2>2. UnitOf(bl, e) \in StartsTo(bl, e) /\ UnitOf(bl, e) \in Nat
    <3>1. UnitOf(bl, e) \in StartsTo(bl, e)
      BY <1>2, <1>8, <2>1, UnitIs
    <3>2. UnitOf(bl, e) \in 1 .. e
      BY <1>2, <1>8, <2>1, UnitTypes
    <3>3. QED
      BY <3>1, <3>2
  <2>3. UnitOf(bl, e) \in StartsTo(bl, b)
    <3>1. UnitOf(bl, e) <= e
      BY <2>2 DEF StartsTo
    <3>2. UnitOf(bl, e) <= b
      BY <1>3, <1>8, <1>9, <2>2, <3>1
    <3>3. QED
      BY <2>2, <3>2 DEF StartsTo
  <2>4. QED
    BY <1>2, <2>1, <2>3, UnitIs
<1>11. PartOf(bl, b) = Carries(bl, b)
  <2>1. \E d \in Beginnings(bl) : d <= b
    BY <1>9
  <2>2. QED
    BY <2>1 DEF PartOf
<1> DEFINE s == Skipped(bl, b)
           j == u - s
<1>12. s \in Nat /\ s < u
  <2>1. s \in Nat
    BY <1>1, <1>2, CarriesIs
  <2>2. bl[UnitOf(bl, b)].hl < Before(bl, b) + u
    BY <1>1, <1>2, <1>6, <1>10, Zenon DEF SoundOK
  <2>3. Before(bl, b) \in Nat /\ bl[UnitOf(bl, b)].hl \in Nat
    BY <1>6, <1>10, PacketFacts
  <2>4. s = IF Before(bl, b) < bl[UnitOf(bl, b)].hl
              THEN bl[UnitOf(bl, b)].hl - Before(bl, b) ELSE 0
    BY <1>6, <1>10 DEF Skipped
  <2>5. 0 < u
    BY <1>1, <1>3
  <2> DEFINE v == u
             p == Before(bl, b)
             h == bl[UnitOf(bl, b)].hl
             r == s
  <2>6. /\ v \in Nat /\ 0 < v /\ p \in Nat /\ h \in Nat /\ h < p + v
        /\ r = IF p < h THEN h - p ELSE 0
    BY <1>3, <2>2, <2>3, <2>4, <2>5
  <2> HIDE DEF v, p, h, r
  <2>7. r < v
    BY <2>6
  <2>8. QED
    BY <2>1, <2>7 DEF r, v
<1> HIDE DEF s
<1>13. j \in 1 .. Len(Carries(bl, b)) /\ s + j = u
  <2>1. Len(Carries(bl, b)) = IF s <= bl[b].len THEN bl[b].len - s ELSE 0
    BY <1>1, <1>2, CarriesFacts DEF s
  <2>2. s <= bl[b].len
    BY <1>1, <1>3, <1>12
  <2>3. u - s \in 1 .. bl[b].len - s /\ s + (u - s) = u
    <3> DEFINE v == u
               l == bl[b].len
    <3>1. v \in 1 .. l /\ l \in Nat /\ s \in Nat /\ s < v
      BY <1>1, <1>3, <1>12
    <3> HIDE DEF v, l
    <3>2. v - s \in 1 .. l - s /\ s + (v - s) = v
      BY <3>1
    <3>3. QED
      BY <3>2 DEF v, l
  <2>4. QED
    BY <2>1, <2>2, <2>3
<1> HIDE DEF j
<1>14. Carries(bl, b)[j] = <<b, u, u \in bl[b].marks>>
  <2>1. Carries(bl, b)[j] = BlockPayload(bl, b)[s + j]
    BY <1>1, <1>2, <1>13, CarriesFacts DEF s
  <2>2. BlockPayload(bl, b)[u] = <<b, u, u \in bl[b].marks>>
    BY <1>1, <1>2, PayloadFacts
  <2>3. QED
    BY <1>13, <2>1, <2>2
<1> DEFINE z == PartEnd(bl, b - 1) + j
<1>15. f.stream[z] = <<b, u, TRUE>>
  <2>1. f.stream[z] = PartOf(bl, b)[j]
    BY <1>1, <1>2, <1>11, <1>13, Zenon DEF StreamLaid
  <2>2. QED
    BY <1>1, <1>11, <1>14, <2>1
<1>16. z \in 1 .. Len(f.stream)
  <2> DEFINE p == PartEnd(bl, b - 1)
             c == Len(PartOf(bl, b))
             l == Len(f.stream)
  <2>1. b - 1 \in 0 .. Len(bl) /\ b \in 0 .. Len(bl)
    BY <1>1, <1>3
  <2>2. p \in Nat /\ PartEnd(bl, b) = p + c /\ PartEnd(bl, b) <= l /\ l \in Nat
    BY <1>1, <1>2, <2>1, Zenon DEF StreamLaid
  <2>3. j \in 1 .. c /\ c \in Nat
    <3>1. PartOf(bl, b) \in Seq(Bytes)
      BY <1>1, <1>2, PartFacts
    <3>2. c \in Nat
      BY <3>1
    <3>3. QED
      BY <1>11, <1>13, <3>2
  <2>4. z = p + j
    OBVIOUS
  <2> HIDE DEF p, c, l, z
  <2>5. z \in 1 .. l
    BY <2>2, <2>3, <2>4
  <2>6. QED
    BY <2>5 DEF l
<1> HIDE DEF z
<1>17. f.stream[z][1] = b /\ f.stream[z][2] = u
  BY <1>15
<1>18. x <= z
  <2> SUFFICES ASSUME z < x
               PROVE  FALSE
    BY <1>16
  <2>1. Precedes(f.stream[z], f.stream[x])
    BY <1>16, BytesInOrder
  <2>2. QED
    BY <1>17, <2>1 DEF Precedes
<1>19. z < y
  <2> SUFFICES ASSUME y <= z
               PROVE  FALSE
    BY <1>16
  <2>1. CASE y = z
    BY <1>3, <1>17, <2>1 DEF Precedes
  <2>2. CASE y < z
    <3>1. Precedes(f.stream[y], f.stream[z])
      BY <1>16, <2>2, BytesInOrder
    <3>2. QED
      BY <1>3, <1>4, <1>17, <3>1 DEF Precedes
  <2>3. QED
    BY <1>16, <2>1, <2>2
<1>20. z \in x .. y - 1
  BY <1>16, <1>18, <1>19
<1>21. QED
  BY <1>15, <1>20

(* The number of a frame counts up with what lies in between.              *)
Between(blocks, a, c) ==
  {m \in Marks(blocks) : ~Precedes(m, a) /\ Precedes(m, c)}

LEMMA FrameNrFacts ==
  ASSUME NEW f, FileFacts(f), f.audio,
         NEW a, a[1] \in Nat, a[2] \in Nat, NEW c, c[1] \in Nat, c[2] \in Nat,
         ~Precedes(c, a)
  PROVE  /\ FrameNr(f.blocks, a) \in Nat /\ FrameNr(f.blocks, c) \in Nat
         /\ IsFiniteSet(Between(f.blocks, a, c))
         /\ Cardinality(Between(f.blocks, a, c)) \in Nat
         /\ FrameNr(f.blocks, c) =
              FrameNr(f.blocks, a) + Cardinality(Between(f.blocks, a, c))
<1> DEFINE M == Marks(f.blocks)
           A == {m \in M : Precedes(m, a)}
           B == Between(f.blocks, a, c)
           C == {m \in M : Precedes(m, c)}
<1>1. IsFiniteSet(M) /\ \A m \in M : m[1] \in Nat /\ m[2] \in Nat
  <2>1. /\ IsFiniteSet(M)
        /\ \A m \in M : /\ m[1] \in 1 .. Len(f.blocks)
                         /\ m[2] \in 1 .. f.blocks[m[1]].len
    BY MarksFacts
  <2>2. \A m \in M : f.blocks[m[1]].len \in Int /\ Len(f.blocks) \in Int
    <3>1. f.blocks \in Seq(BlockTypes)
      BY DEF FileFacts
    <3>2. \A b \in 1 .. Len(f.blocks) : f.blocks[b] \in BlockTypes
      BY <3>1
    <3>3. \A b \in 1 .. Len(f.blocks) : f.blocks[b].len \in Int
      BY <3>2 DEF BlockTypes
    <3>4. QED
      BY <2>1, <3>1, <3>3
  <2>3. QED
    BY <2>1, <2>2
<1>2. A \subseteq M /\ B \subseteq M /\ C \subseteq M
  BY DEF Between
<1>3. IsFiniteSet(A) /\ IsFiniteSet(B) /\ IsFiniteSet(C)
  <2> HIDE DEF A, B, C, M
  <2>1. QED
    BY <1>1, <1>2, FS_Subset
<1>4. \A m \in M : Precedes(m, a) => Precedes(m, c)
  BY <1>1 DEF Precedes
<1>5. C = A \cup B /\ A \cap B = {}
  <2>1. \A m \in M : m \in B <=> ~Precedes(m, a) /\ Precedes(m, c)
    BY DEF Between
  <2>2. QED
    BY <1>2, <1>4, <2>1
<1>6. /\ Cardinality(A) \in Nat /\ Cardinality(B) \in Nat /\ Cardinality(C) \in Nat
  BY <1>3, FS_CardinalityType
<1>7. Cardinality(A \cap B) = 0
  BY <1>5, FS_EmptySet
<1>8. FrameNr(f.blocks, a) = Cardinality(A) /\ FrameNr(f.blocks, c) = Cardinality(C)
  BY DEF FrameNr
<1> HIDE DEF A, B, C
<1>9. Cardinality(A \cup B) = Cardinality(A) + Cardinality(B) - Cardinality(A \cap B)
  BY <1>3, FS_Union
<1>10. Cardinality(C) = Cardinality(A) + Cardinality(B)
  BY <1>5, <1>6, <1>7, <1>9
<1>11. QED
  BY <1>3, <1>6, <1>8, <1>10 DEF B

-----------------------------------------------------------------------------
LEMMA NotBefore ==
  ASSUME NEW f, FileFacts(f), NEW x \in 1 .. Len(f.stream), NEW y \in 1 .. Len(f.stream),
         x <= y
  PROVE  /\ ~Precedes(f.stream[y], f.stream[x])
         /\ f.stream[x][1] <= f.stream[y][1]
         /\ f.stream[x][1] \in Nat /\ f.stream[x][2] \in Nat
         /\ f.stream[y][1] \in Nat /\ f.stream[y][2] \in Nat
<1>1. /\ f.stream[x][1] \in Nat /\ f.stream[x][2] \in Nat
      /\ f.stream[y][1] \in Nat /\ f.stream[y][2] \in Nat
  BY ByteTypes
<1>2. CASE x = y
  BY <1>1, <1>2 DEF Precedes
<1>3. CASE x < y
  <2>1. Precedes(f.stream[x], f.stream[y])
    BY <1>3, BytesInOrder
  <2>2. QED
    BY <1>1, <2>1 DEF Precedes
<1>4. QED
  BY <1>1, <1>2, <1>3

(* Marks, d behind the numbers in P.                                       *)
OnMarks(f, P, d, x, y) ==
  /\ x \in 1 .. Len(f.stream) /\ y \in 1 .. Len(f.stream) /\ x <= y
  /\ d \in Int /\ P \subseteq Int
  /\ \A p \in P : p + d \in x .. y - 1 /\ f.stream[p + d][3]

AllMarks(f, P, d, x, y) ==
  \A m \in Between(f.blocks, f.stream[x], f.stream[y]) :
    \E p \in P : f.stream[p + d] = <<m[1], m[2], TRUE>>

Counted(f, n, x, y) ==
  /\ n \in Nat /\ FrameNr(f.blocks, f.stream[x]) \in Nat
  /\ FrameNr(f.blocks, f.stream[y]) \in Nat
  /\ FrameNr(f.blocks, f.stream[x]) + n <= FrameNr(f.blocks, f.stream[y])

LEMMA PassedMarks ==
  ASSUME NEW f, FileFacts(f), f.audio, NEW x, NEW y, NEW d, NEW P, OnMarks(f, P, d, x, y)
  PROVE  /\ Counted(f, Cardinality(P), x, y)
         /\ AllMarks(f, P, d, x, y) =>
              FrameNr(f.blocks, f.stream[y]) = FrameNr(f.blocks, f.stream[x]) + Cardinality(P)
<1>0. /\ x \in 1 .. Len(f.stream) /\ y \in 1 .. Len(f.stream) /\ x <= y
      /\ d \in Int /\ P \subseteq Int
      /\ \A p \in P : p + d \in x .. y - 1 /\ f.stream[p + d][3]
  BY DEF OnMarks
<1> DEFINE B == Between(f.blocks, f.stream[x], f.stream[y])
           nx == FrameNr(f.blocks, f.stream[x])
           ny == FrameNr(f.blocks, f.stream[y])
           g == [p \in P |-> <<f.stream[p + d][1], f.stream[p + d][2]>>]
<1>1. /\ nx \in Nat /\ ny \in Nat /\ IsFiniteSet(B) /\ Cardinality(B) \in Nat
      /\ ny = nx + Cardinality(B)
  <2>1. /\ ~Precedes(f.stream[y], f.stream[x])
        /\ f.stream[x][1] \in Nat /\ f.stream[x][2] \in Nat
        /\ f.stream[y][1] \in Nat /\ f.stream[y][2] \in Nat
    BY <1>0, NotBefore
  <2>2. QED
    BY <2>1, FrameNrFacts
<1>2. ASSUME NEW p \in P
      PROVE  g[p] \in B
  <2> DEFINE z == p + d
  <2>1. z \in x .. y - 1 /\ f.stream[z][3]
    BY <1>0
  <2> HIDE DEF z
  <2>2. Len(f.stream) \in Nat
    BY FileLaid
  <2>3. z \in 1 .. Len(f.stream) /\ x <= z /\ z < y
    BY <1>0, <2>1, <2>2
  <2>4. /\ f.stream[z][1] \in 1 .. Len(f.blocks)
        /\ f.stream[z][2] \in f.blocks[f.stream[z][1]].marks
    BY <2>1, <2>3, ByteTypes
  <2> DEFINE m == <<f.stream[z][1], f.stream[z][2]>>
  <2>5. m \in Marks(f.blocks)
    BY <2>4, MarksFacts
  <2>6. m[1] = f.stream[z][1] /\ m[2] = f.stream[z][2]
    OBVIOUS
  <2>7. ~Precedes(f.stream[z], f.stream[x]) /\ Precedes(f.stream[z], f.stream[y])
    <3>1. ~Precedes(f.stream[z], f.stream[x])
      BY <1>0, <2>3, NotBefore
    <3>2. Precedes(f.stream[z], f.stream[y])
      BY <1>0, <2>3, BytesInOrder
    <3>3. QED
      BY <3>1, <3>2
  <2>8. ~Precedes(m, f.stream[x]) /\ Precedes(m, f.stream[y])
    BY <2>6, <2>7 DEF Precedes
  <2>9. m \in B
    <3> HIDE DEF m
    <3>1. QED
      BY <2>5, <2>8 DEF Between
  <2>10. g[p] = m
    BY DEF z
  <2>11. QED
    BY <2>9, <2>10
<1>3. ASSUME NEW p \in P, NEW q \in P, g[p] = g[q]
      PROVE  p = q
  <2> DEFINE z == p + d
             w == q + d
  <2>1. z \in x .. y - 1 /\ w \in x .. y - 1
    BY <1>0
  <2>2. f.stream[z][1] = f.stream[w][1] /\ f.stream[z][2] = f.stream[w][2]
    BY <1>3
  <2>3. p \in Int /\ q \in Int /\ (z = w => p = q)
    BY <1>0
  <2> HIDE DEF z, w
  <2>4. Len(f.stream) \in Nat
    BY FileLaid
  <2>5. z \in 1 .. Len(f.stream) /\ w \in 1 .. Len(f.stream)
    BY <1>0, <2>1, <2>4
  <2>6. f.stream[z][2] \in Nat
    BY <2>5, ByteTypes
  <2>7. ~(z < w)
    <3> SUFFICES ASSUME z < w
                 PROVE  FALSE
      OBVIOUS
    <3>1. Precedes(f.stream[z], f.stream[w])
      BY <2>5, BytesInOrder
    <3>2. f.stream[z][1] \in Nat
      BY <2>5, ByteTypes
    <3>3. QED
      BY <2>2, <2>6, <3>1, <3>2 DEF Precedes
  <2>8. ~(w < z)
    <3> SUFFICES ASSUME w < z
                 PROVE  FALSE
      OBVIOUS
    <3>1. Precedes(f.stream[w], f.stream[z])
      BY <2>5, BytesInOrder
    <3>2. f.stream[z][1] \in Nat
      BY <2>5, ByteTypes
    <3>3. QED
      BY <2>2, <2>6, <3>1, <3>2 DEF Precedes
  <2>9. QED
    BY <2>3, <2>5, <2>7, <2>8
<1>4. g \in Injection(P, B)
  <2>1. g \in [P -> B]
    BY <1>2
  <2>2. IsInjective(g)
    BY <1>3 DEF IsInjective
  <2> HIDE DEF g, B
  <2>3. QED
    BY <2>1, <2>2 DEF Injection
<1>5. /\ IsFiniteSet(P) /\ Cardinality(P) <= Cardinality(B)
      /\ Cardinality(P) = Cardinality(B) <=> g \in Surjection(P, B)
  <2> HIDE DEF g, B
  <2>1. QED
    BY <1>1, <1>4, FS_Injection
<1>6. Cardinality(P) \in Nat
  BY <1>5, FS_CardinalityType
<1>7. ASSUME AllMarks(f, P, d, x, y)
      PROVE  g \in Surjection(P, B)
  <2>1. ASSUME NEW m \in B
        PROVE  \E p \in P : g[p] = m
    <3>1. PICK p \in P : f.stream[p + d] = <<m[1], m[2], TRUE>>
      BY <1>7 DEF AllMarks
    <3>2. m \in Marks(f.blocks)
      BY DEF Between
    <3>3. m = <<m[1], m[2]>>
      BY <3>2, MarksFacts
    <3>4. g[p] = <<m[1], m[2]>>
      BY <3>1
    <3>5. QED
      BY <3>3, <3>4
  <2>2. g \in [P -> B]
    BY <1>2
  <2> HIDE DEF g, B
  <2>3. QED
    BY <2>1, <2>2 DEF Surjection
<1> HIDE DEF g, nx, ny
<1>8. nx + Cardinality(P) <= ny
  <2> DEFINE a == Cardinality(P)
             b == Cardinality(B)
  <2>1. a \in Nat /\ b \in Nat /\ a <= b /\ ny = nx + b
    BY <1>1, <1>5, <1>6
  <2> HIDE DEF a, b
  <2>2. QED
    BY <1>1, <2>1 DEF a
<1>9. AllMarks(f, P, d, x, y) => ny = nx + Cardinality(P)
  BY <1>1, <1>5, <1>7
<1>10. QED
  BY <1>1, <1>6, <1>8, <1>9 DEF nx, ny, Counted

(* The place of what the buffer holds.                                     *)
Shift(s, l) == ((l - Len(s.data)) - s.offset) + 1

LEMMA BufferPlaces ==
  ASSUME NEW f, FileFacts(f), NEW s, Buffered(s), NEW l, InStream(f.stream, s.data, l),
         NEW bp \in Nat, s.offset <= bp, bp < EndPos(s)
  PROVE  /\ PlaceAt(s, l, bp) \in 1 .. Len(f.stream) /\ PlaceAt(s, l, bp) <= l
         /\ l - Len(s.data) < PlaceAt(s, l, bp)
         /\ PlaceAt(s, l, bp) = bp + Shift(s, l) /\ Shift(s, l) \in Int
         /\ ByteAt(s, bp) = f.stream[PlaceAt(s, l, bp)]
<1> DEFINE o == s.offset
           c == Len(s.data)
           n == Len(f.stream)
           x == PlaceAt(s, l, bp)
<1>1. o \in Nat /\ c \in Nat /\ n \in Nat /\ l \in Nat /\ c <= l /\ l <= n
  BY BufferedTypes, FileLaid DEF InStream
<1>2. o <= bp /\ bp < o + c
  BY DEF EndPos
<1>3. x = ((l - c) + (bp - o)) + 1
  BY DEF PlaceAt
<1>4. Shift(s, l) = ((l - c) - o) + 1
  BY DEF Shift
<1>5. \A i \in 1 .. c : s.data[i] = f.stream[(l - c) + i]
  BY DEF InStream
<1> DEFINE i == (bp - o) + 1
<1>6. ByteAt(s, bp) = s.data[i]
  <2>1. bp - s.offset + 1 = i
    BY <1>1
  <2>2. QED
    BY <2>1 DEF ByteAt
<1> HIDE DEF o, c, n, x
<1>7. i \in 1 .. c /\ (l - c) + i = x
  BY <1>1, <1>2, <1>3
<1>8. /\ x \in 1 .. n /\ x <= l /\ l - c < x
      /\ x = bp + (((l - c) - o) + 1) /\ ((l - c) - o) + 1 \in Int
  BY <1>1, <1>2, <1>3
<1> HIDE DEF i
<1>9. ByteAt(s, bp) = f.stream[x]
  BY <1>5, <1>6, <1>7
<1>10. QED
  BY <1>4, <1>8, <1>9 DEF x, n, c

-----------------------------------------------------------------------------
(* A place in the stream of which the buffer has the byte.                 *)
LEMMA PlaceInBuffer ==
  ASSUME NEW f, FileFacts(f), NEW s, Buffered(s), NEW l, InStream(f.stream, s.data, l),
         NEW z \in Int, s.offset <= z - Shift(s, l), z - Shift(s, l) < EndPos(s)
  PROVE  /\ z - Shift(s, l) \in Nat /\ PlaceAt(s, l, z - Shift(s, l)) = z
         /\ ByteAt(s, z - Shift(s, l)) = f.stream[z]
<1> DEFINE d == Shift(s, l)
           q == z - d
<1>1. s.offset \in Nat /\ l \in Nat /\ Len(s.data) \in Nat
  BY BufferedTypes DEF InStream
<1>2. d \in Int
  BY <1>1 DEF Shift
<1> HIDE DEF d
<1>3. q \in Int /\ q + d = z /\ s.offset <= q /\ q < EndPos(s)
  BY <1>2 DEF d
<1> HIDE DEF q
<1>4. q \in Nat
  BY <1>1, <1>3
<1>5. PlaceAt(s, l, q) = q + d /\ ByteAt(s, q) = f.stream[PlaceAt(s, l, q)]
  BY <1>3, <1>4, BufferPlaces DEF d
<1>6. QED
  BY <1>3, <1>4, <1>5 DEF q, d

(* Those that are recognised in front of a place, and from another on.     *)
PassedBy(s, b, p) == {q \in Frames(s) : b <= q /\ q < p}

LEMMA FramesAre ==
  ASSUME NEW f, FileFacts(f), NEW s, Buffered(s), NEW l, InStream(f.stream, s.data, l),
         NEW q \in Frames(s)
  PROVE  /\ q \in Nat /\ s.offset <= q /\ q + FrameLen < EndPos(s) /\ q < EndPos(s)
         /\ f.stream[PlaceAt(s, l, q)][3]
<1>1. s.offset \in Nat /\ Len(s.data) \in Nat /\ EndPos(s) \in Nat
  BY BufferedTypes DEF EndPos
<1>2. FrameLen \in Nat
  BY StreamDataAssumption
<1>3. q \in s.offset .. EndPos(s) - 1 /\ Begins(s, q) /\ Begins(s, q + FrameLen)
  BY DEF Frames
<1>4. q + FrameLen \in s.offset .. EndPos(s) - 1
  BY <1>3 DEF Begins
<1>5. q \in Nat /\ s.offset <= q /\ q + FrameLen < EndPos(s) /\ q < EndPos(s)
  BY <1>1, <1>2, <1>3, <1>4
<1>6. ByteAt(s, q) = f.stream[PlaceAt(s, l, q)]
  BY <1>5, BufferPlaces
<1>7. ByteAt(s, q)[3]
  BY <1>3 DEF Begins
<1>8. QED
  BY <1>5, <1>6, <1>7

(* Each begin of a frame is recognised by the next one.                    *)
LEMMA MarkIsFrame ==
  ASSUME NEW f, FileFacts(f), f.audio, NEW s, Buffered(s), NEW l,
         InStream(f.stream, s.data, l),
         NEW x \in 1 .. Len(f.stream), NEW z \in x .. Len(f.stream), f.stream[z][3],
         NEW p \in Frames(s), NEW y, y = PlaceAt(s, l, p), z < y,
         s.offset <= z - Shift(s, l), Whole(f.blocks, f.stream[x][1], f.stream[y][1])
  PROVE  z - Shift(s, l) \in Frames(s)
<1> DEFINE d == Shift(s, l)
           T == {k \in z + 1 .. y : f.stream[k][3]}
           k == Min(T)
           q == z - d
<1>1. /\ p \in Nat /\ s.offset <= p /\ p < EndPos(s) /\ f.stream[y][3]
  BY FramesAre
<1>2. /\ y \in 1 .. Len(f.stream) /\ y = p + d /\ d \in Int
  BY <1>1, BufferPlaces
<1>3. Len(f.stream) \in Nat /\ s.offset \in Nat /\ EndPos(s) \in Nat
  BY FileLaid, BufferedTypes DEF EndPos
<1>4. z \in Nat /\ x <= z /\ z \in 1 .. Len(f.stream)
  BY <1>3
<1>5. y \in T /\ T \subseteq Nat /\ T # {}
  <2>1. y \in T
    BY <1>1, <1>2, <1>4
  <2>2. QED
    BY <1>4, <2>1
<1>6. k \in T /\ \A j \in T : k <= j
  <2> HIDE DEF T
  <2>1. QED
    BY <1>5, MinFacts
<1>7. k \in z + 1 .. y /\ f.stream[k][3]
  BY <1>6
<1>8. \A j \in z + 1 .. k - 1 : ~f.stream[j][3]
  <2> SUFFICES ASSUME NEW j \in z + 1 .. k - 1, f.stream[j][3]
               PROVE  FALSE
    OBVIOUS
  <2>0. k \in Int /\ y \in Int
    BY <1>2, <1>7
  <2> HIDE DEF k
  <2>1. j \in z + 1 .. y /\ ~(k <= j)
    BY <1>2, <1>4, <1>7, <2>0
  <2>2. QED
    BY <1>6, <2>1
<1> HIDE DEF T, k
<1>9. k \in 1 .. Len(f.stream) /\ z < k /\ k <= y
  BY <1>2, <1>4, <1>7
<1>10. Whole(f.blocks, f.stream[z][1], f.stream[k][1])
  <2>1. /\ f.stream[x][1] <= f.stream[z][1] /\ f.stream[k][1] <= f.stream[y][1]
        /\ f.stream[x][1] \in Nat /\ f.stream[z][1] \in Nat
        /\ f.stream[k][1] \in Nat /\ f.stream[y][1] \in Nat
    BY <1>2, <1>4, <1>9, NotBefore
  <2> DEFINE p1 == f.stream[x][1]
             p2 == f.stream[z][1]
             p3 == f.stream[k][1]
             p4 == f.stream[y][1]
  <2>4. p1 \in Nat /\ p2 \in Nat /\ p3 \in Nat /\ p4 \in Nat /\ p1 <= p2 /\ p3 <= p4
    BY <2>1
  <2> HIDE DEF p1, p2, p3, p4
  <2>5. \A b \in p2 .. p3 : b \in p1 .. p4
    BY <2>4
  <2>2. \A b \in f.stream[z][1] .. f.stream[k][1] : b \in f.stream[x][1] .. f.stream[y][1]
    BY <2>5 DEF p1, p2, p3, p4
  <2>3. QED
    BY <2>2 DEF Whole
<1>11. k = z + FrameLen
  <2>1. NextMark(f.stream, z, k)
    BY <1>7, <1>8, <1>9 DEF NextMark
  <2>2. SoundOK(f.blocks, f.stream)
    BY DEF FileFacts
  <2>3. DOMAIN f.stream = 1 .. Len(f.stream)
    <3>1. f.stream \in Seq(Bytes)
      BY FileLaid
    <3>2. QED
      BY <3>1
  <2>4. QED
    BY <1>4, <1>9, <1>10, <2>1, <2>2, <2>3, Zenon DEF SoundOK
<1>12. FrameLen \in Nat
  BY StreamDataAssumption
<1> HIDE DEF d
<1>13. q \in Int /\ s.offset <= q /\ q < EndPos(s) /\ q + FrameLen = k - d
       /\ q + FrameLen < EndPos(s) /\ s.offset <= q + FrameLen
  <2>1. s.offset <= z - d
    BY DEF d
  <2>2. QED
    BY <1>1, <1>2, <1>3, <1>4, <1>9, <1>11, <1>12, <2>1
<1>14. ByteAt(s, q) = f.stream[z]
  BY <1>4, <1>13, PlaceInBuffer DEF d
<1>15. ByteAt(s, q + FrameLen) = f.stream[k]
  <2>1. k \in Int /\ s.offset <= k - d /\ k - d < EndPos(s)
    BY <1>9, <1>13
  <2>2. ByteAt(s, k - d) = f.stream[k]
    BY <2>1, PlaceInBuffer DEF d
  <2>3. QED
    BY <1>13, <2>2
<1>16. Begins(s, q) /\ Begins(s, q + FrameLen)
  <2>1. q \in s.offset .. EndPos(s) - 1 /\ q + FrameLen \in s.offset .. EndPos(s) - 1
    BY <1>3, <1>12, <1>13
  <2>2. QED
    BY <1>7, <1>14, <1>15, <2>1 DEF Begins
<1>17. q \in Frames(s)
  BY <1>16 DEF Frames, Begins
<1>18. QED
  BY <1>17 DEF d

LEMMA PassedCount ==
  ASSUME NEW f, FileFacts(f), f.audio, NEW s, Buffered(s), NEW l,
         InStream(f.stream, s.data, l), NEW b \in Nat, NEW p \in Nat,
         s.offset <= b, b <= p, p < EndPos(s),
         NEW x, x = PlaceAt(s, l, b), NEW y, y = PlaceAt(s, l, p)
  PROVE  /\ x \in 1 .. Len(f.stream) /\ y \in 1 .. Len(f.stream) /\ x <= y
         /\ Counted(f, Cardinality(PassedBy(s, b, p)), x, y)
         /\ /\ p = b \/ p \in Frames(s)
            /\ Whole(f.blocks, f.stream[x][1], f.stream[y][1])
            => FrameNr(f.blocks, f.stream[y]) =
                 FrameNr(f.blocks, f.stream[x]) + Cardinality(PassedBy(s, b, p))
<1> DEFINE P == PassedBy(s, b, p)
           d == Shift(s, l)
<1>1. s.offset \in Nat /\ EndPos(s) \in Nat
  BY BufferedTypes DEF EndPos
<1>2. s.offset <= p /\ b < EndPos(s)
  BY <1>1
<1>3. /\ x \in 1 .. Len(f.stream) /\ y \in 1 .. Len(f.stream)
      /\ x = b + d /\ y = p + d /\ d \in Int
  BY <1>2, BufferPlaces
<1>4. Len(f.stream) \in Nat
  BY FileLaid
<1>5. x <= y
  BY <1>3, <1>4
<1> HIDE DEF d
<1>6. ASSUME NEW q \in P
      PROVE  q \in Int /\ q + d \in x .. y - 1 /\ f.stream[q + d][3]
  <2>1. q \in Frames(s) /\ b <= q /\ q < p
    BY DEF PassedBy
  <2>2. q \in Nat /\ s.offset <= q /\ q < EndPos(s) /\ f.stream[PlaceAt(s, l, q)][3]
    BY <2>1, FramesAre
  <2>3. PlaceAt(s, l, q) = q + d
    BY <2>2, BufferPlaces DEF d
  <2>4. q + d \in x .. y - 1
    BY <1>3, <2>1, <2>2
  <2>5. QED
    BY <2>2, <2>3, <2>4
<1>7. P \subseteq Int /\ \A q \in P : q + d \in x .. y - 1 /\ f.stream[q + d][3]
  BY <1>6
<1> HIDE DEF P
<1>8. /\ Counted(f, Cardinality(P), x, y)
      /\ AllMarks(f, P, d, x, y) =>
           FrameNr(f.blocks, f.stream[y]) = FrameNr(f.blocks, f.stream[x]) + Cardinality(P)
  <2>1. OnMarks(f, P, d, x, y)
    BY <1>3, <1>5, <1>7 DEF OnMarks
  <2>2. QED
    BY <2>1, PassedMarks
<1>9. ASSUME p = b \/ p \in Frames(s), Whole(f.blocks, f.stream[x][1], f.stream[y][1]),
             NEW m \in Between(f.blocks, f.stream[x], f.stream[y])
      PROVE  \E q \in P : f.stream[q + d] = <<m[1], m[2], TRUE>>
  <2>1. m \in Marks(f.blocks) /\ ~Precedes(m, f.stream[x]) /\ Precedes(m, f.stream[y])
    BY DEF Between
  <2>2. PICK z \in x .. y - 1 : f.stream[z] = <<m[1], m[2], TRUE>>
    BY <1>3, <1>9, <2>1, MarkFound
  <2>3. z \in Int /\ x <= z /\ z < y /\ z \in x .. Len(f.stream) /\ f.stream[z][3]
    BY <1>3, <1>4, <2>2
  <2>4. p # b
    BY <1>3, <2>3
  <2>5. p \in Frames(s)
    BY <1>9, <2>4
  <2> DEFINE q == z - d
  <2>6. q + d = z /\ b <= q /\ q < p /\ s.offset <= q
    BY <1>1, <1>3, <2>3
  <2>7. q \in Frames(s)
    BY <1>3, <1>9, <2>3, <2>5, <2>6, MarkIsFrame DEF d
  <2> HIDE DEF q
  <2>8. q \in P
    BY <2>6, <2>7 DEF P, PassedBy
  <2>9. QED
    BY <2>2, <2>6, <2>8
<1>10. (p = b \/ p \in Frames(s)) /\ Whole(f.blocks, f.stream[x][1], f.stream[y][1])
         => AllMarks(f, P, d, x, y)
  BY <1>9 DEF AllMarks
<1>11. QED
  BY <1>3, <1>5, <1>8, <1>10 DEF P

-----------------------------------------------------------------------------
(* Items are as far apart in time as the frames that can be recognised     *)
(* between them need at least.                                             *)
Framed(f) ==
  {z \in 1 .. Len(f.stream) : /\ f.stream[z][3] /\ z + FrameLen <= Len(f.stream)
                              /\ f.stream[z + FrameLen][3]}

Spanned(f, x, y) == {z \in Framed(f) : x <= z /\ z < y}
FrameCount(f, x, y) == Cardinality(Spanned(f, x, y))

Apart(f, it, x, nx, y) ==
  x <= y => it.pts + FrameCount(f, x, y) * FrameTime <= nx.pts

Spaced(f, s, l) ==
  \A i, j \in 1 .. Len(s.items) :
    Apart(f, s.items[i], PlaceAt(s, l, s.items[i].bp),
          s.items[j], PlaceAt(s, l, s.items[j].bp))

LEMMA StepsFacts ==
  ASSUME NEW f, FileFacts(f), NEW x \in Int, NEW y \in Int, NEW z \in Int,
         x <= y, y <= z
  PROVE  /\ IsFiniteSet(Spanned(f, x, y))
         /\ FrameCount(f, x, y) \in Nat /\ FrameCount(f, y, z) \in Nat
         /\ FrameCount(f, x, z) = FrameCount(f, x, y) + FrameCount(f, y, z)
<1> DEFINE A == Spanned(f, x, y)
           B == Spanned(f, y, z)
           C == Spanned(f, x, z)
<1>1. Len(f.stream) \in Int
  BY FileLaid
<1>2. Framed(f) \subseteq 0 .. Len(f.stream)
  BY <1>1 DEF Framed
<1>3. A \subseteq Framed(f) /\ B \subseteq Framed(f)
  BY DEF Spanned
<1>4. A \subseteq 0 .. Len(f.stream) /\ B \subseteq 0 .. Len(f.stream)
  BY <1>2, <1>3
<1>5. C = A \cup B /\ A \cap B = {}
  <2>1. \A w \in Framed(f) : w \in Int
    BY <1>2
  <2>2. QED
    BY <2>1 DEF Spanned
<1> HIDE DEF A, B, C
<1>6. /\ IsFiniteSet(A) /\ Cardinality(A) \in Nat
      /\ IsFiniteSet(B) /\ Cardinality(B) \in Nat
  BY <1>1, <1>4, FiniteNumbers
<1>7. Cardinality(A \cap B) = 0
  BY <1>5, FS_EmptySet
<1>8. Cardinality(A \cup B) = Cardinality(A) + Cardinality(B) - Cardinality(A \cap B)
  BY <1>6, FS_Union
<1>9. Cardinality(C) = Cardinality(A) + Cardinality(B)
  BY <1>5, <1>6, <1>7, <1>8
<1>10. QED
  BY <1>6, <1>9 DEF FrameCount, A, B, C

(* From an item to a frame behind it, the buffer has all that are counted. *)
LEMMA PassedSteps ==
  ASSUME NEW f, FileFacts(f), NEW s, Buffered(s), NEW l,
         InStream(f.stream, s.data, l), NEW b \in Nat, NEW p \in Nat,
         s.offset <= b, b <= p, p < EndPos(s), p = b \/ p \in Frames(s),
         NEW x, x = PlaceAt(s, l, b), NEW y, y = PlaceAt(s, l, p)
  PROVE  Cardinality(PassedBy(s, b, p)) = FrameCount(f, x, y)
<1> DEFINE P == PassedBy(s, b, p)
           Q == Spanned(f, x, y)
           d == Shift(s, l)
           g == [q \in P |-> q + d]
<1>1. s.offset \in Nat /\ EndPos(s) \in Nat /\ FrameLen \in Nat /\ Len(f.stream) \in Nat
  BY BufferedTypes, FileLaid, StreamDataAssumption DEF EndPos
<1>2. s.offset <= p /\ b < EndPos(s)
  BY <1>1
<1>3. /\ x \in 1 .. Len(f.stream) /\ y \in 1 .. Len(f.stream)
      /\ x = b + d /\ y = p + d /\ d \in Int
  BY <1>2, BufferPlaces
<1>4. x \in Int /\ y \in Int /\ x <= y /\ y <= y
  BY <1>1, <1>3
<1>5. IsFiniteSet(Q)
  BY <1>4, StepsFacts
<1>6. ASSUME NEW q \in P
      PROVE  q \in Int /\ q + d \in Q
  <2>1. q \in Frames(s) /\ b <= q /\ q < p
    BY DEF PassedBy
  <2>2. /\ q \in Nat /\ s.offset <= q /\ q + FrameLen < EndPos(s) /\ q < EndPos(s)
        /\ f.stream[PlaceAt(s, l, q)][3]
    BY <2>1, FramesAre
  <2>3. PlaceAt(s, l, q) = q + d /\ q + d \in 1 .. Len(f.stream)
    BY <2>2, BufferPlaces
  <2> DEFINE e == q + FrameLen
  <2>4. e \in Nat /\ s.offset <= e /\ e < EndPos(s)
    BY <1>1, <2>2
  <2>5. /\ PlaceAt(s, l, e) = e + d /\ e + d \in 1 .. Len(f.stream)
        /\ ByteAt(s, e) = f.stream[e + d]
    <3> HIDE DEF e, d
    <3>1. /\ PlaceAt(s, l, e) = e + Shift(s, l) /\ PlaceAt(s, l, e) \in 1 .. Len(f.stream)
          /\ ByteAt(s, e) = f.stream[PlaceAt(s, l, e)]
      BY <2>4, BufferPlaces
    <3>2. QED
      BY <3>1 DEF d
  <2>6. ByteAt(s, e)[3]
    BY <2>1 DEF Frames, Begins
  <2> HIDE DEF d
  <2>7. (q + d) + FrameLen = e + d
    BY <1>1, <1>3, <2>2
  <2>8. (q + d) + FrameLen <= Len(f.stream) /\ f.stream[(q + d) + FrameLen][3]
    <3>1. e + d <= Len(f.stream)
      BY <1>1, <2>5
    <3>2. QED
      BY <2>5, <2>6, <2>7, <3>1
  <2>9. q + d \in Framed(f)
    BY <2>2, <2>3, <2>8 DEF Framed
  <2>10. x <= q + d /\ q + d < y
    BY <1>3, <2>1, <2>2
  <2>11. QED
    BY <2>2, <2>9, <2>10 DEF Spanned
<1>7. ASSUME NEW z \in Q
      PROVE  \E q \in P : q + d = z
  <2>1. /\ z \in 1 .. Len(f.stream) /\ x <= z /\ z < y
        /\ f.stream[z][3] /\ z + FrameLen <= Len(f.stream) /\ f.stream[z + FrameLen][3]
    BY DEF Spanned, Framed
  <2>2. p \in Frames(s)
    BY <1>1, <1>3, <2>1
  <2>3. p + FrameLen < EndPos(s)
    BY <2>2, FramesAre
  <2> DEFINE q == z - d
             e == (z + FrameLen) - d
  <2>4. /\ z \in Int /\ z + FrameLen \in Int
        /\ b <= q /\ q < p /\ s.offset <= q /\ q < EndPos(s) /\ q + d = z
        /\ e = q + FrameLen /\ s.offset <= e /\ e < EndPos(s) /\ q \in Int
    <3> HIDE DEF d
    <3>1. QED
      BY <1>1, <1>3, <2>1, <2>3
  <2>5. ByteAt(s, q) = f.stream[z] /\ q \in Nat
    BY <2>4, PlaceInBuffer
  <2>6. ByteAt(s, e) = f.stream[z + FrameLen] /\ e \in Nat
    <3> DEFINE w == z + FrameLen
    <3>1. w \in Int /\ s.offset <= w - Shift(s, l) /\ w - Shift(s, l) < EndPos(s)
      BY <2>4
    <3> HIDE DEF w
    <3>2. ByteAt(s, w - Shift(s, l)) = f.stream[w] /\ w - Shift(s, l) \in Nat
      BY <3>1, PlaceInBuffer
    <3>3. QED
      BY <3>2 DEF w
  <2> HIDE DEF q, e, d
  <2>7. q \in s.offset .. EndPos(s) - 1 /\ e \in s.offset .. EndPos(s) - 1
    BY <1>1, <2>4, <2>5, <2>6
  <2>8. Begins(s, q) /\ Begins(s, q + FrameLen)
    BY <2>1, <2>4, <2>5, <2>6, <2>7 DEF Begins
  <2>9. q \in P
    BY <2>4, <2>7, <2>8 DEF PassedBy, Frames
  <2>10. QED
    BY <2>4, <2>9
<1> HIDE DEF P, Q, d
<1>8. g \in Injection(P, Q) /\ g \in Surjection(P, Q)
  <2>1. g \in [P -> Q]
    BY <1>6
  <2>2. \A q, r \in P : g[q] = g[r] => q = r
    <3> TAKE q, r \in P
    <3>1. g[q] = q + d /\ g[r] = r + d /\ q \in Int /\ r \in Int
      BY <1>6
    <3> HIDE DEF g
    <3>2. QED
      BY <1>3, <3>1
  <2>3. \A z \in Q : \E q \in P : g[q] = z
    <3> TAKE z \in Q
    <3>1. PICK q \in P : q + d = z
      BY <1>7
    <3>2. QED
      BY <3>1
  <2> HIDE DEF g
  <2>4. IsInjective(g)
    BY <2>1, <2>2 DEF IsInjective
  <2>5. QED
    BY <2>1, <2>3, <2>4 DEF Injection, Surjection
<1> HIDE DEF g
<1>9. Cardinality(P) = Cardinality(Q)
  BY <1>5, <1>8, FS_Injection
<1>10. QED
  BY <1>9 DEF FrameCount, P, Q

LEMMA TimesOver ==
  ASSUME NEW k \in Nat, NEW n \in Nat, NEW m \in Nat
  PROVE  /\ n * k \in Nat /\ m * k \in Nat
         /\ (n + m) * k = n * k + m * k
OBVIOUS

(* Where an item stands that audio_addpts() makes, and what its time is.   *)
MadeOf(f, s, l, it, new) ==
  LET x == PlaceAt(s, l, it.bp)
      p == PlaceAt(s, l, new.bp)
  IN  /\ it.bp \in Nat /\ s.offset <= it.bp /\ it.bp <= new.bp /\ new.bp < EndPos(s)
      /\ x \in Int /\ p \in Int /\ x = it.bp + Shift(s, l) /\ p = new.bp + Shift(s, l)
      /\ it.pts \in Nat /\ new.bp \in Nat
      /\ new.pts = it.pts + FrameCount(f, x, p) * FrameTime
      /\ LastBefore(s, it, new.bp)

LEMMA MadeOfFacts ==
  ASSUME NEW f, FileFacts(f), NEW s, BufferOK(s), AllTimed(s), NEW l,
         InStream(f.stream, s.data, l), NEW j \in 1 .. Len(AudioAddPts(s).items)
  PROVE  \E i \in 1 .. Len(s.items) : MadeOf(f, s, l, s.items[i], AudioAddPts(s).items[j])
<1> DEFINE t == AudioAddPts(s)
           new == t.items[j]
<1>1. Heard(s, t) /\ ReckonedFrom(s, t)
  BY AddPtsFacts
<1> HIDE DEF t
<1>2. BufferOK(t) /\ Buffered(t) /\ Buffered(s) /\ t.data = s.data /\ t.offset = s.offset
  BY <1>1 DEF Heard, ReckonedFrom, BufferOK
<1>3. j \in 1 .. Len(t.items)
  BY DEF t
<1>4. PICK i \in 1 .. Len(s.items) :
        Reckoned(s, s.items[i], new.bp, new) /\ LastBefore(s, s.items[i], new.bp)
  BY <1>1, <1>3 DEF ReckonedFrom
<1> DEFINE it == s.items[i]
<1>5. it \in ItemTypes /\ it.bp \in Nat /\ s.offset <= it.bp /\ it.pts \in Nat
      /\ it.bp < EndPos(s)
  BY <1>2, BufferedTypes DEF Buffered, AllTimed, EndPos
<1>6. new.bp \in Nat /\ s.offset <= new.bp /\ new.bp < EndPos(s)
  <2>1. t.offset <= t.items[j].bp /\ t.items[j].bp < t.offset + Len(t.data)
        /\ t.items[j].bp \in Nat
    BY <1>2, <1>3, BufferedTypes DEF Buffered
  <2>2. QED
    BY <1>2, <2>1 DEF EndPos
<1> HIDE DEF it, new
<1>7. Reckoned(s, it, new.bp, new) /\ LastBefore(s, it, new.bp)
  BY <1>4 DEF it
<1>8. it.bp <= new.bp /\ (new.bp = it.bp \/ new.bp \in Frames(s))
      /\ new = FrameItem(s, it, new.bp)
  BY <1>7 DEF Reckoned
<1> DEFINE x == PlaceAt(s, l, it.bp)
           p == PlaceAt(s, l, new.bp)
           n == Cardinality(PassedBy(s, it.bp, new.bp))
<1>9. /\ x \in 1 .. Len(f.stream) /\ x = it.bp + Shift(s, l)
      /\ p \in 1 .. Len(f.stream) /\ p = new.bp + Shift(s, l)
  BY <1>2, <1>5, <1>6, BufferPlaces
<1>10. x \in Int /\ p \in Int
  BY <1>9
<1>11. n = FrameCount(f, x, p)
  BY <1>2, <1>5, <1>6, <1>8, PassedSteps
<1>12. new.pts = it.pts + n * FrameTime
  <2>1. FrameItem(s, it, new.bp).pts = it.pts + n * FrameTime
    <3> DEFINE e == new.bp
    <3> HIDE DEF e
    <3>1. FrameItem(s, it, e).pts = it.pts + Cardinality(PassedBy(s, it.bp, e)) * FrameTime
      BY <1>5 DEF FrameItem, PassedBy, ItemTypes
    <3>2. QED
      BY <3>1 DEF e
  <2> HIDE DEF n
  <2>2. QED
    BY <1>8, <2>1
<1>13. MadeOf(f, s, l, it, new)
  BY <1>5, <1>6, <1>7, <1>8, <1>9, <1>10, <1>11, <1>12 DEF MadeOf
<1>14. QED
  BY <1>13 DEF it, new, t

LEMMA ApartKept ==
  ASSUME NEW f, FileFacts(f), NEW s, NEW l, NEW a, NEW c, NEW one, NEW two,
         Shift(s, l) \in Int,
         Apart(f, a, PlaceAt(s, l, a.bp), c, PlaceAt(s, l, c.bp)),
         MadeOf(f, s, l, a, one), MadeOf(f, s, l, c, two),
         LastBefore(s, a, one.bp) => (c.bp <= one.bp => c.bp <= a.bp),
         LastBefore(s, c, two.bp) => (a.bp <= two.bp => a.bp <= c.bp)
  PROVE  Apart(f, one, PlaceAt(s, l, one.bp), two, PlaceAt(s, l, two.bp))
<1> DEFINE x == PlaceAt(s, l, a.bp)
           y == PlaceAt(s, l, c.bp)
           p == PlaceAt(s, l, one.bp)
           q == PlaceAt(s, l, two.bp)
           d == Shift(s, l)
<1>1. /\ a.bp \in Nat /\ a.bp <= one.bp /\ x = a.bp + d /\ p = one.bp + d
      /\ x \in Int /\ p \in Int /\ a.pts \in Nat /\ one.bp \in Nat
      /\ one.pts = a.pts + FrameCount(f, x, p) * FrameTime /\ LastBefore(s, a, one.bp)
  BY DEF MadeOf
<1>2. /\ c.bp \in Nat /\ c.bp <= two.bp /\ y = c.bp + d /\ q = two.bp + d
      /\ y \in Int /\ q \in Int /\ c.pts \in Nat /\ two.bp \in Nat
      /\ two.pts = c.pts + FrameCount(f, y, q) * FrameTime /\ LastBefore(s, c, two.bp)
  BY DEF MadeOf
<1>3. d \in Int /\ FrameTime \in Nat
  BY StreamDataAssumption
<1> HIDE DEF d, x, y, p, q
<1> SUFFICES ASSUME p <= q
             PROVE  one.pts + FrameCount(f, p, q) * FrameTime <= two.pts
  BY DEF Apart, p, q
<1>4. one.bp <= two.bp /\ a.bp <= two.bp /\ a.bp <= c.bp
  <2>1. one.bp <= two.bp
    BY <1>1, <1>2, <1>3
  <2>2. a.bp <= two.bp
    BY <1>1, <1>2, <2>1
  <2>3. QED
    BY <1>2, <2>1, <2>2
<1>5. x <= y /\ x <= p /\ y <= q
  BY <1>1, <1>2, <1>3, <1>4
<1>10. x \in Int /\ p \in Int /\ y \in Int /\ q \in Int
  BY <1>1, <1>2
<1>6. a.pts + FrameCount(f, x, y) * FrameTime <= c.pts
  BY <1>5 DEF Apart, x, y
<1>7. CASE c.bp <= one.bp
  <2>1. c.bp = a.bp
    BY <1>1, <1>2, <1>4, <1>7
  <2>2. x = y
    BY <1>1, <1>2, <2>1
  <2>3. /\ FrameCount(f, x, p) \in Nat /\ FrameCount(f, p, q) \in Nat
        /\ FrameCount(f, x, q) = FrameCount(f, x, p) + FrameCount(f, p, q)
    BY <1>5, <1>10, StepsFacts
  <2>4. FrameCount(f, x, y) \in Nat
    <3>1. y <= y
      BY <1>2
    <3>2. QED
      BY <1>5, <1>10, <3>1, StepsFacts
  <2>5. /\ FrameCount(f, x, p) * FrameTime \in Nat /\ FrameCount(f, p, q) * FrameTime \in Nat
        /\ FrameCount(f, x, q) * FrameTime =
             FrameCount(f, x, p) * FrameTime + FrameCount(f, p, q) * FrameTime
        /\ FrameCount(f, x, y) * FrameTime \in Nat
    BY <1>3, <2>3, <2>4, TimesOver
  <2> DEFINE u == FrameCount(f, x, p) * FrameTime
             v == FrameCount(f, p, q) * FrameTime
             w == FrameCount(f, x, y) * FrameTime
  <2>6. /\ u \in Nat /\ v \in Nat /\ w \in Nat /\ a.pts + w <= c.pts
        /\ one.pts = a.pts + u /\ two.pts = c.pts + (u + v)
    BY <1>1, <1>2, <1>6, <2>2, <2>5
  <2> HIDE DEF u, v, w
  <2>7. one.pts + v <= two.pts
    BY <1>1, <1>2, <2>6
  <2>8. QED
    BY <2>7 DEF v
<1>8. CASE one.bp < c.bp
  <2>1. p <= y
    BY <1>1, <1>2, <1>3, <1>8
  <2>2. /\ FrameCount(f, x, p) \in Nat /\ FrameCount(f, p, y) \in Nat
        /\ FrameCount(f, x, y) = FrameCount(f, x, p) + FrameCount(f, p, y)
    BY <1>5, <1>10, <2>1, StepsFacts
  <2>3. /\ FrameCount(f, y, q) \in Nat
        /\ FrameCount(f, p, q) = FrameCount(f, p, y) + FrameCount(f, y, q)
    BY <1>5, <1>10, <2>1, StepsFacts
  <2>4. /\ FrameCount(f, x, p) * FrameTime \in Nat /\ FrameCount(f, p, y) * FrameTime \in Nat
        /\ FrameCount(f, y, q) * FrameTime \in Nat
        /\ FrameCount(f, x, y) * FrameTime =
             FrameCount(f, x, p) * FrameTime + FrameCount(f, p, y) * FrameTime
        /\ FrameCount(f, p, q) * FrameTime =
             FrameCount(f, p, y) * FrameTime + FrameCount(f, y, q) * FrameTime
    BY <1>3, <2>2, <2>3, TimesOver
  <2> DEFINE u == FrameCount(f, x, p) * FrameTime
             v == FrameCount(f, p, y) * FrameTime
             w == FrameCount(f, y, q) * FrameTime
             r == FrameCount(f, p, q) * FrameTime
  <2>5. /\ u \in Nat /\ v \in Nat /\ w \in Nat /\ a.pts + (u + v) <= c.pts /\ r = v + w
        /\ one.pts = a.pts + u /\ two.pts = c.pts + w
    BY <1>1, <1>2, <1>6, <2>4
  <2> HIDE DEF u, v, w, r
  <2>6. one.pts + r <= two.pts
    BY <1>1, <1>2, <2>5
  <2>7. QED
    BY <2>6 DEF r
<1>9. QED
  BY <1>1, <1>2, <1>7, <1>8

LEMMA AddPtsSpaced ==
  ASSUME NEW f, FileFacts(f), NEW s, BufferOK(s), AllTimed(s), NEW l,
         InStream(f.stream, s.data, l), Spaced(f, s, l)
  PROVE  Spaced(f, AudioAddPts(s), l)
<1> DEFINE t == AudioAddPts(s)
<1>1. t.data = s.data /\ t.offset = s.offset
  BY AddPtsFacts DEF ReckonedFrom
<1>2. \A bp : PlaceAt(t, l, bp) = PlaceAt(s, l, bp)
  BY <1>1 DEF PlaceAt
<1>3. Shift(s, l) \in Int
  <2>1. Buffered(s)
    BY DEF BufferOK
  <2>2. s.offset \in Nat /\ Len(s.data) \in Nat /\ l \in Nat
    BY <2>1, BufferedTypes DEF InStream
  <2>3. QED
    BY <2>2 DEF Shift
<1>4. ASSUME NEW i \in 1 .. Len(t.items), NEW j \in 1 .. Len(t.items)
      PROVE  Apart(f, t.items[i], PlaceAt(s, l, t.items[i].bp),
                   t.items[j], PlaceAt(s, l, t.items[j].bp))
  <2>1. PICK h \in 1 .. Len(s.items) : MadeOf(f, s, l, s.items[h], t.items[i])
    BY MadeOfFacts
  <2>2. PICK k \in 1 .. Len(s.items) : MadeOf(f, s, l, s.items[k], t.items[j])
    BY MadeOfFacts
  <2> HIDE DEF t
  <2>3. Apart(f, s.items[h], PlaceAt(s, l, s.items[h].bp),
              s.items[k], PlaceAt(s, l, s.items[k].bp))
    BY DEF Spaced
  <2>4. LastBefore(s, s.items[h], t.items[i].bp) =>
          (s.items[k].bp <= t.items[i].bp => s.items[k].bp <= s.items[h].bp)
    BY DEF LastBefore
  <2>5. LastBefore(s, s.items[k], t.items[j].bp) =>
          (s.items[h].bp <= t.items[j].bp => s.items[h].bp <= s.items[k].bp)
    BY DEF LastBefore
  <2>6. QED
    BY <1>3, <2>1, <2>2, <2>3, <2>4, <2>5, ApartKept
<1> HIDE DEF t
<1>5. Spaced(f, t, l)
  BY <1>2, <1>4 DEF Spaced
<1>6. QED
  BY <1>5 DEF t

(* What is in the stream in front of a unit lies in packets in front of it.*)
LEMMA InFrontOfUnit ==
  ASSUME NEW f, FileFacts(f), NEW b \in Beginnings(f.blocks),
         NEW z \in 1 .. Len(f.stream), z < FirstOf(f.blocks, b)
  PROVE  f.stream[z][1] < UnitOf(f.blocks, b)
<1> DEFINE bl == f.blocks
           u == UnitOf(bl, b)
           c == LastOwn(bl, Begin(bl, u))
<1>1. /\ NextOwn(bl, c, u) /\ u \in Own(bl)
      /\ FirstOf(bl, b) - 1 = PartEnd(bl, c)
  BY SeekPlace
<1>2. PICK e, v, j : ByteIs(f, z, e, v, j)
  BY ByteFacts
<1>3. /\ e \in 1 .. Len(bl) /\ j \in 1 .. Len(PartOf(bl, e))
      /\ z = PartEnd(bl, e - 1) + j
  BY <1>2 DEF ByteIs
<1>4. f.stream[z][1] = e
  BY <1>2 DEF ByteIs
<1>5. StreamLaid(bl, f.stream) /\ bl \in Seq(BlockTypes) /\ Len(bl) \in Nat
  BY FileLaid
<1>12. u = UnitOf(bl, b)
  OBVIOUS
<1> HIDE DEF u, c
<1>6. u \in 1 .. Len(bl) /\ c \in 0 .. u - 1
  <2>1. c \in {0} \cup Own(bl) /\ c < u
    BY <1>1 DEF NextOwn
  <2>2. \A d \in Own(bl) : d \in 1 .. Len(bl)
    BY <1>5, LenNat
  <2>3. u \in 1 .. Len(bl) /\ (c = 0 \/ c \in 1 .. Len(bl))
    BY <1>1, <2>1, <2>2
  <2>4. QED
    BY <1>5, <2>1, <2>3
<1> SUFFICES ASSUME ~(e < u)
             PROVE  FALSE
  BY <1>4, <1>12
<1>7. c \in 0 .. Len(bl) /\ e - 1 \in 0 .. Len(bl) /\ e - 1 \in c .. Len(bl)
  BY <1>3, <1>5, <1>6
<1>8. /\ PartEnd(bl, c) <= PartEnd(bl, e - 1) /\ PartEnd(bl, c) \in Nat
      /\ PartEnd(bl, e - 1) \in Nat /\ PartEnd(bl, b - 1) \in Int
  <2>1. b \in 1 .. Len(bl)
    BY <1>5, BeginningFacts
  <2>2. b - 1 \in 0 .. Len(bl)
    BY <1>5, <2>1
  <2>3. QED
    BY <1>5, <1>7, <2>2 DEF StreamLaid
<1>9. FirstOf(bl, b) = PartEnd(bl, b - 1) + 1
  BY DEF FirstOf
<1>10. j \in Nat /\ 1 <= j
  <2>1. PartOf(bl, e) \in Seq(Bytes)
    BY <1>3, <1>5, PartFacts
  <2>2. Len(PartOf(bl, e)) \in Nat
    BY <2>1
  <2>3. QED
    BY <1>3, <2>2
<1>11. QED
  BY <1>1, <1>3, <1>8, <1>9, <1>10

(* In front of a unit there are as many frames as its time says, at least. *)
LEMMA FramesInFront ==
  ASSUME NEW f, FileFacts(f), f.audio, NEW b \in Beginnings(f.blocks),
         NEW x \in 1 .. Len(f.stream), x < FirstOf(f.blocks, b)
  PROVE  /\ FrameNr(f.blocks, f.stream[x]) \in Nat
         /\ FrameNr(f.blocks, <<UnitOf(f.blocks, b), 1>>) \in Nat
         /\ FrameCount(f, x, FirstOf(f.blocks, b)) \in Nat
         /\ FrameNr(f.blocks, f.stream[x]) + FrameCount(f, x, FirstOf(f.blocks, b))
              <= FrameNr(f.blocks, <<UnitOf(f.blocks, b), 1>>)
<1> DEFINE bl == f.blocks
           u == UnitOf(bl, b)
           y == FirstOf(bl, b)
           a == <<u, 1>>
           Q == Spanned(f, x, y)
           B == Between(bl, f.stream[x], a)
           g == [z \in Q |-> <<f.stream[z][1], f.stream[z][2]>>]
<1>1. /\ y \in 1 .. Len(f.stream) /\ Len(f.stream) \in Nat
      /\ x \in Int /\ y \in Int /\ x <= y /\ y <= y
  <2>1. bl \in Seq(BlockTypes) /\ f.stream = Stream(bl)
    BY DEF FileFacts
  <2>2. y \in 1 .. Len(f.stream)
    BY <2>1, BeginningFacts
  <2>3. Len(f.stream) \in Nat
    BY FileLaid
  <2> HIDE DEF y
  <2>4. x < y
    BY DEF y
  <2>5. QED
    BY <2>2, <2>3, <2>4
<1>2. IsFiniteSet(Q) /\ Cardinality(Q) \in Nat /\ FrameCount(f, x, y) = Cardinality(Q)
  <2> HIDE DEF y
  <2>1. QED
    BY <1>1, StepsFacts, FS_CardinalityType DEF FrameCount
<1>3. \A z \in 1 .. Len(f.stream) : z < y => f.stream[z][1] < u
  BY InFrontOfUnit
<1>4. \A z \in 1 .. Len(f.stream) :
        /\ f.stream[z][1] \in 1 .. Len(bl) /\ f.stream[z][1] \in Nat /\ f.stream[z][2] \in Nat
        /\ f.stream[z][3] <=> f.stream[z][2] \in bl[f.stream[z][1]].marks
  BY ByteTypes
<1>5. u \in Nat
  <2>1. bl \in Seq(BlockTypes) /\ u \in Own(bl)
    BY SeekPlace DEF FileFacts
  <2>2. QED
    BY <2>1, LenNat
<1>6. a[1] = u /\ a[2] = 1
  OBVIOUS
<1> HIDE DEF u, y, a
<1>7. /\ FrameNr(bl, f.stream[x]) \in Nat /\ FrameNr(bl, a) \in Nat
      /\ IsFiniteSet(B) /\ Cardinality(B) \in Nat
      /\ FrameNr(bl, a) = FrameNr(bl, f.stream[x]) + Cardinality(B)
  <2>1. f.stream[x][1] \in Nat /\ f.stream[x][2] \in Nat /\ f.stream[x][1] < u
    BY <1>3, <1>4 DEF y
  <2>2. ~Precedes(a, f.stream[x])
    BY <1>5, <1>6, <2>1 DEF Precedes
  <2>3. a[1] \in Nat /\ a[2] \in Nat
    BY <1>5, <1>6
  <2>4. QED
    BY <2>1, <2>2, <2>3, FrameNrFacts
<1>8. ASSUME NEW z \in Q
      PROVE  z \in 1 .. Len(f.stream) /\ x <= z /\ z < y /\ f.stream[z][3]
  BY DEF Spanned, Framed
<1>9. ASSUME NEW z \in Q
      PROVE  g[z] \in B
  <2>1. z \in 1 .. Len(f.stream) /\ x <= z /\ z < y /\ f.stream[z][3]
    BY <1>8
  <2> DEFINE m == <<f.stream[z][1], f.stream[z][2]>>
  <2>2. m[1] = f.stream[z][1] /\ m[2] = f.stream[z][2]
    OBVIOUS
  <2>3. m \in Marks(bl)
    BY <1>4, <2>1, MarksFacts
  <2>4. ~Precedes(f.stream[z], f.stream[x])
    BY <2>1, NotBefore
  <2>5. f.stream[z][1] < u
    BY <1>3, <2>1
  <2>6. g[z] = m
    OBVIOUS
  <2> HIDE DEF m
  <2>7. ~Precedes(m, f.stream[x]) /\ Precedes(m, a)
    BY <1>6, <2>2, <2>4, <2>5 DEF Precedes
  <2> HIDE DEF g
  <2>8. QED
    BY <2>3, <2>6, <2>7 DEF Between
<1>10. ASSUME NEW z \in Q, NEW w \in Q, g[z] = g[w]
       PROVE  z = w
  <2>1. f.stream[z][1] = f.stream[w][1] /\ f.stream[z][2] = f.stream[w][2]
    BY <1>10
  <2>2. z \in 1 .. Len(f.stream) /\ w \in 1 .. Len(f.stream)
    BY <1>8
  <2> HIDE DEF g
  <2>3. ~(z < w)
    <3> SUFFICES ASSUME z < w
                 PROVE  FALSE
      OBVIOUS
    <3>1. Precedes(f.stream[z], f.stream[w])
      BY <2>2, BytesInOrder
    <3>2. QED
      BY <1>4, <2>1, <2>2, <3>1 DEF Precedes
  <2>4. ~(w < z)
    <3> SUFFICES ASSUME w < z
                 PROVE  FALSE
      OBVIOUS
    <3>1. Precedes(f.stream[w], f.stream[z])
      BY <2>2, BytesInOrder
    <3>2. QED
      BY <1>4, <2>1, <2>2, <3>1 DEF Precedes
  <2>5. z \in Int /\ w \in Int
    BY <1>1, <2>2
  <2>6. QED
    BY <2>3, <2>4, <2>5
<1> HIDE DEF B, Q
<1>11. g \in Injection(Q, B)
  <2>1. g \in [Q -> B]
    BY <1>9
  <2>2. IsInjective(g)
    BY <1>10 DEF IsInjective
  <2> HIDE DEF g
  <2>3. QED
    BY <2>1, <2>2 DEF Injection
<1> HIDE DEF g
<1>12. Cardinality(Q) <= Cardinality(B)
  BY <1>7, <1>11, FS_Injection
<1>13. FrameNr(bl, f.stream[x]) + FrameCount(f, x, y) <= FrameNr(bl, a)
  BY <1>2, <1>7, <1>12
<1>14. QED
  BY <1>2, <1>7, <1>13 DEF u, y, a

-----------------------------------------------------------------------------
(* What FramesTimed says of an item, x being the place of its byte.        *)
UnitAt(f, it) == f.cells[it.file + 1].block

Dated(f, it, x) ==
  /\ UnitAt(f, it) \in Nat /\ UnitAt(f, it) <= f.stream[x][1]
  /\ it.pts <= FrameNr(f.blocks, f.stream[x]) * FrameTime
  /\ Whole(f.blocks, UnitAt(f, it), f.stream[x][1]) =>
       it.pts = FrameNr(f.blocks, f.stream[x]) * FrameTime

Sounding(f, s, l) ==
  /\ \A i \in 1 .. Len(s.items) : Dated(f, s.items[i], PlaceAt(s, l, s.items[i].bp))
  /\ Spaced(f, s, l)

LEMMA TimesSum ==
  ASSUME NEW k \in Nat, NEW n \in Nat, NEW a \in Nat, NEW b \in Nat, a + n <= b
  PROVE  /\ a * k + n * k <= b * k
         /\ b = a + n => a * k + n * k = b * k
<1> DEFINE r == b - (a + n)
<1>1. r \in Nat /\ b = (a + n) + r
  OBVIOUS
<1> HIDE DEF r
<1>2. b * k = (a * k + n * k) + r * k
  BY <1>1
<1>3. a * k \in Nat /\ n * k \in Nat /\ r * k \in Nat
  BY <1>1
<1>4. a * k + n * k <= b * k
  BY <1>2, <1>3
<1>5. b = a + n => a * k + n * k = b * k
  OBVIOUS
<1>6. QED
  BY <1>4, <1>5

(* An item that audio_addpts() makes has its own time if the one it makes  *)
(* it from has.                                                            *)
LEMMA ReckonedInTime ==
  ASSUME NEW f, FileFacts(f), f.audio, NEW s, Buffered(s), NEW l,
         InStream(f.stream, s.data, l), NEW it \in ItemTypes, it.pts \in Nat,
         s.offset <= it.bp, Dated(f, it, PlaceAt(s, l, it.bp)),
         NEW p \in Nat, p < EndPos(s), NEW new, Reckoned(s, it, p, new)
  PROVE  Dated(f, new, PlaceAt(s, l, p))
<1> DEFINE x == PlaceAt(s, l, it.bp)
           y == PlaceAt(s, l, p)
           n == Cardinality(PassedBy(s, it.bp, p))
           nx == FrameNr(f.blocks, f.stream[x])
           ny == FrameNr(f.blocks, f.stream[y])
           u == UnitAt(f, it)
<1>1. it.bp \in Nat /\ it.bp <= p /\ (p = it.bp \/ p \in Frames(s)) /\ FrameTime \in Nat
  BY StreamDataAssumption DEF ItemTypes, Reckoned
<1>2. /\ x \in 1 .. Len(f.stream) /\ y \in 1 .. Len(f.stream) /\ x <= y
      /\ Counted(f, n, x, y)
      /\ Whole(f.blocks, f.stream[x][1], f.stream[y][1]) => ny = nx + n
  BY <1>1, PassedCount
<1>3. n \in Nat /\ nx \in Nat /\ ny \in Nat /\ nx + n <= ny
  BY <1>2 DEF Counted
<1>4. new.file = it.file /\ new.pts = it.pts + n * FrameTime
  <2>1. new = FrameItem(s, it, p)
    BY DEF Reckoned
  <2>2. QED
    BY <2>1 DEF FrameItem, PassedBy, ItemTypes
<1>5. f.stream[x][1] <= f.stream[y][1] /\ f.stream[x][1] \in Nat /\ f.stream[y][1] \in Nat
  BY <1>2, NotBefore
<1>6. /\ u \in Nat /\ u <= f.stream[x][1] /\ it.pts <= nx * FrameTime
      /\ Whole(f.blocks, u, f.stream[x][1]) => it.pts = nx * FrameTime
  BY DEF Dated
<1>7. UnitAt(f, new) = u
  BY <1>4 DEF UnitAt
<1>8. Whole(f.blocks, u, f.stream[y][1]) =>
        /\ Whole(f.blocks, u, f.stream[x][1])
        /\ Whole(f.blocks, f.stream[x][1], f.stream[y][1])
  <2> DEFINE i == f.stream[x][1]
             j == f.stream[y][1]
  <2>1. u \in Nat /\ i \in Nat /\ j \in Nat /\ u <= i /\ i <= j
    BY <1>5, <1>6
  <2> HIDE DEF u, i, j
  <2>2. u .. i \subseteq u .. j /\ i .. j \subseteq u .. j
    BY <2>1
  <2>3. QED
    BY <2>2 DEF Whole, i, j
<1> DEFINE a == nx * FrameTime
           b == ny * FrameTime
           d == n * FrameTime
<1>9. /\ a + d <= b /\ (ny = nx + n => a + d = b)
      /\ a \in Nat /\ b \in Nat /\ d \in Nat
  <2> HIDE DEF nx, ny, n
  <2>1. /\ nx * FrameTime + n * FrameTime <= ny * FrameTime
        /\ ny = nx + n => nx * FrameTime + n * FrameTime = ny * FrameTime
    BY <1>1, <1>3, TimesSum
  <2>2. a \in Nat /\ b \in Nat /\ d \in Nat
    BY <1>1, <1>3
  <2>3. QED
    BY <2>1, <2>2
<1>10. u <= f.stream[y][1]
  BY <1>5, <1>6
<1>11. new.pts = it.pts + d /\ it.pts <= a
       /\ (Whole(f.blocks, u, f.stream[x][1]) => it.pts = a)
  BY <1>4, <1>6
<1> HIDE DEF a, d, b, n, nx, ny
<1>12. new.pts <= b
  BY <1>9, <1>11
<1>13. Whole(f.blocks, u, f.stream[y][1]) => new.pts = b
  BY <1>2, <1>8, <1>9, <1>11
<1>14. QED
  BY <1>6, <1>7, <1>10, <1>12, <1>13 DEF Dated, b, ny

(* A buffer of sound.                                                      *)
Sound(f, s, l) ==
  /\ BufferOK(s) /\ AllTimed(s) /\ InStream(f.stream, s.data, l) /\ Sounding(f, s, l)

LEMMA AddPtsSound ==
  ASSUME NEW f, FileFacts(f), f.audio, NEW s, NEW l, Sound(f, s, l)
  PROVE  Sound(f, AudioAddPts(s), l)
<1> DEFINE t == AudioAddPts(s)
<1>1. BufferOK(s) /\ AllTimed(s) /\ InStream(f.stream, s.data, l) /\ Sounding(f, s, l)
  BY DEF Sound
<1>2. Heard(s, t) /\ AllTimed(t) /\ ReckonedFrom(s, t)
  BY <1>1, AddPtsFacts
<1> HIDE DEF t
<1>3. BufferOK(t) /\ t.data = s.data /\ t.offset = s.offset
  BY <1>2 DEF Heard, ReckonedFrom
<1>4. Buffered(s) /\ Buffered(t)
  BY <1>1, <1>3 DEF BufferOK
<1>5. ASSUME NEW j \in 1 .. Len(t.items)
      PROVE  Dated(f, t.items[j], PlaceAt(t, l, t.items[j].bp))
  <2>1. PICK i \in 1 .. Len(s.items) : Reckoned(s, s.items[i], t.items[j].bp, t.items[j])
    BY <1>2 DEF ReckonedFrom
  <2>2. s.items[i] \in ItemTypes /\ t.items[j].bp \in Nat
    BY <1>4, BufferedTypes
  <2>3. s.items[i].pts \in Nat
    BY <1>1 DEF AllTimed
  <2>4. s.offset <= s.items[i].bp
    BY <1>4 DEF Buffered
  <2>5. t.items[j].bp < EndPos(s)
    <3>1. t.items[j].bp < t.offset + Len(t.data)
      BY <1>4 DEF Buffered
    <3>2. QED
      BY <1>3, <3>1 DEF EndPos
  <2>6. Dated(f, s.items[i], PlaceAt(s, l, s.items[i].bp))
    BY <1>1 DEF Sounding
  <2>7. Dated(f, t.items[j], PlaceAt(s, l, t.items[j].bp))
    BY <1>1, <1>4, <2>1, <2>2, <2>3, <2>4, <2>5, <2>6, ReckonedInTime
  <2>8. PlaceAt(t, l, t.items[j].bp) = PlaceAt(s, l, t.items[j].bp)
    BY <1>3 DEF PlaceAt
  <2>9. QED
    BY <2>7, <2>8
<1>8. Spaced(f, t, l)
  <2>1. Spaced(f, s, l)
    BY <1>1 DEF Sounding
  <2>2. QED
    BY <1>1, <2>1, AddPtsSpaced DEF t
<1>6. Sound(f, t, l)
  BY <1>1, <1>2, <1>3, <1>5, <1>8 DEF Sound, Sounding
<1>7. QED
  BY <1>6 DEF t

LEMMA PlaceFromEnd ==
  ASSUME NEW s, Buffered(s), NEW l \in Nat, NEW bp \in Nat
  PROVE  PlaceAt(s, l, bp) = (l - ToEnd(s, bp)) + 1
<1> DEFINE o == s.offset
           c == Len(s.data)
<1>1. o \in Nat /\ c \in Nat
  BY BufferedTypes
<1>2. /\ PlaceAt(s, l, bp) = ((l - c) + (bp - o)) + 1 /\ ToEnd(s, bp) = (o + c) - bp
  BY DEF PlaceAt, ToEnd
<1> HIDE DEF o, c
<1>3. ((l - c) + (bp - o)) + 1 = (l - ((o + c) - bp)) + 1
  BY <1>1
<1>4. QED
  BY <1>2, <1>3

LEMMA StaysSound ==
  ASSUME NEW f, NEW s, NEW l, Sound(f, s, l), NEW t, Heard(s, t), Stays(s, t)
  PROVE  Sound(f, t, l)
<1>1. BufferOK(s) /\ AllTimed(s) /\ InStream(f.stream, s.data, l) /\ Sounding(f, s, l)
  BY DEF Sound
<1>2. BufferOK(t) /\ AllTimed(t) /\ \E n \in Nat : t.data = SubSeq(s.data, n + 1, Len(s.data))
  BY <1>1 DEF Heard
<1>3. InStream(f.stream, t.data, l)
  BY <1>1, <1>2, Taking
<1>4. Buffered(s) /\ Buffered(t) /\ l \in Nat
  BY <1>1, <1>2 DEF BufferOK, InStream
<1>8. ASSUME NEW j \in 1 .. Len(t.items)
      PROVE  \E i \in 1 .. Len(s.items) :
               /\ t.items[j].file = s.items[i].file /\ t.items[j].pts = s.items[i].pts
               /\ PlaceAt(t, l, t.items[j].bp) = PlaceAt(s, l, s.items[i].bp)
  <2>1. PICK i \in 1 .. Len(s.items) :
          /\ t.items[j].file = s.items[i].file /\ t.items[j].pts = s.items[i].pts
          /\ ToEnd(t, t.items[j].bp) = ToEnd(s, s.items[i].bp)
    BY DEF Stays
  <2>2. t.items[j].bp \in Nat /\ s.items[i].bp \in Nat
    BY <1>4, BufferedTypes
  <2>3. PlaceAt(t, l, t.items[j].bp) = PlaceAt(s, l, s.items[i].bp)
    BY <1>4, <2>1, <2>2, PlaceFromEnd
  <2>4. QED
    BY <2>1, <2>3
<1>5. ASSUME NEW j \in 1 .. Len(t.items)
      PROVE  Dated(f, t.items[j], PlaceAt(t, l, t.items[j].bp))
  <2>1. PICK i \in 1 .. Len(s.items) :
          /\ t.items[j].file = s.items[i].file /\ t.items[j].pts = s.items[i].pts
          /\ PlaceAt(t, l, t.items[j].bp) = PlaceAt(s, l, s.items[i].bp)
    BY <1>8
  <2>2. Dated(f, s.items[i], PlaceAt(s, l, s.items[i].bp))
    BY <1>1 DEF Sounding
  <2>3. QED
    BY <2>1, <2>2 DEF Dated, UnitAt
<1>9. ASSUME NEW j \in 1 .. Len(t.items), NEW k \in 1 .. Len(t.items)
      PROVE  Apart(f, t.items[j], PlaceAt(t, l, t.items[j].bp),
                   t.items[k], PlaceAt(t, l, t.items[k].bp))
  <2>1. PICK i \in 1 .. Len(s.items) :
          /\ t.items[j].pts = s.items[i].pts
          /\ PlaceAt(t, l, t.items[j].bp) = PlaceAt(s, l, s.items[i].bp)
    BY <1>8
  <2>2. PICK h \in 1 .. Len(s.items) :
          /\ t.items[k].pts = s.items[h].pts
          /\ PlaceAt(t, l, t.items[k].bp) = PlaceAt(s, l, s.items[h].bp)
    BY <1>8
  <2>3. Apart(f, s.items[i], PlaceAt(s, l, s.items[i].bp),
              s.items[h], PlaceAt(s, l, s.items[h].bp))
    BY <1>1 DEF Sounding, Spaced
  <2>4. QED
    BY <2>1, <2>2, <2>3 DEF Apart
<1>6. QED
  BY <1>2, <1>3, <1>5, <1>9 DEF Sound, Sounding, Spaced

(* Up to an item only whole items are discarded.                           *)
Whereupon(s, t, n) ==
  t.items # << >> => \E k \in Nat :
    /\ Len(t.items) = Len(s.items) - k /\ k + 1 \in 1 .. Len(s.items)
    /\ s.items[k + 1].bp = s.offset + n
    /\ \A j \in 1 .. Len(t.items) :
         k + j \in 1 .. Len(s.items) /\ t.items[j].pts = s.items[k + j].pts

LEMMA AlignedStays ==
  ASSUME NEW s, BufferOK(s), NEW n \in Nat,
         s.items # << >> => \E i \in 1 .. Len(s.items) : s.items[i].bp = s.offset + n
  PROVE  /\ Heard(s, Discard(s, n)) /\ Stays(s, Discard(s, n))
         /\ Whereupon(s, Discard(s, n), n)
<1> DEFINE t == Discard(s, n)
<1>1. /\ BufferOK(t) /\ t.data = SubSeq(s.data, n + 1, Len(s.data)) /\ Moved(s, t, n)
      /\ Heard(s, t)
  BY DiscardFacts, DiscardHeard
<1> HIDE DEF t
<1>2. Buffered(s) /\ Buffered(t)
  BY <1>1 DEF BufferOK
<1>3. /\ Len(s.data) \in Nat /\ s.offset \in Nat /\ s.data \in Seq(Bytes)
      /\ Len(s.items) \in Nat /\ \A i \in 1 .. Len(s.items) : s.items[i].bp \in Nat
      /\ Len(t.data) \in Nat /\ t.offset \in Nat /\ Len(t.items) \in Nat
      /\ \A i \in 1 .. Len(t.items) : t.items[i].bp \in Nat
      /\ (t.items = << >> <=> Len(t.items) = 0)
      /\ (t.data = << >> <=> Len(t.data) = 0)
  BY <1>2, BufferedTypes
<1>4. CASE t.items = << >>
  <2>1. \A j \in 1 .. Len(t.items) : FALSE
    BY <1>4
  <2>3. Whereupon(s, t, n)
    BY <1>4 DEF Whereupon
  <2>2. QED
    BY <1>1, <2>1, <2>3 DEF Stays, t
<1>5. CASE t.items # << >>
  <2>1. PICK k \in Nat :
          /\ Len(t.items) = Len(s.items) - k
          /\ k + 1 \in 1 .. Len(s.items)
          /\ s.items[k + 1].bp <= s.offset + n
          /\ t.items[1].file = s.items[k + 1].file
          /\ t.items[1].off = s.items[k + 1].off + ((s.offset + n) - s.items[k + 1].bp)
          /\ t.items[1].pts = s.items[k + 1].pts
          /\ \A j \in 2 .. Len(t.items) :
               /\ t.items[j].file = s.items[k + j].file /\ t.items[j].off = s.items[k + j].off
               /\ t.items[j].pts = s.items[k + j].pts
               /\ t.items[j].bp - t.offset = s.items[k + j].bp - (s.offset + n)
    BY <1>1, <1>5 DEF Moved
  <2>2. t.items[1].bp = t.offset /\ 1 \in 1 .. Len(t.items)
    BY <1>2, <1>3, <1>5 DEF Buffered
  <2>3. Len(t.data) = Len(s.data) - n
    <3>1. Len(t.data) = IF n <= Len(s.data) THEN Len(s.data) - n ELSE 0
      BY <1>1, <1>3, EndOf
    <3>2. Len(t.data) # 0
      BY <1>2, <1>3, <1>5 DEF Buffered
    <3>3. QED
      BY <3>1, <3>2
  <2>4. PICK i \in 1 .. Len(s.items) : s.items[i].bp = s.offset + n
    <3>1. s.items # << >>
      <4>1. Len(s.items) # 0
        BY <1>3, <2>1
      <4>2. QED
        BY <4>1
    <3>2. QED
      BY <3>1
  <2>5. s.items[k + 1].bp = s.offset + n
    <3>1. k + 1 \in 1 .. Len(s.items) /\ s.items[k + 1].bp <= s.offset + n
          /\ Len(t.items) = Len(s.items) - k
      BY <2>1, Zenon
    <3>2. s.items[k + 1].bp \in Nat /\ s.items[i].bp \in Nat /\ s.offset + n \in Nat
      <4>1. \A h \in 1 .. Len(s.items) : s.items[h].bp \in Nat
        BY <1>3
      <4>2. s.offset + n \in Nat
        BY <1>3
      <4>3. QED
        BY <3>1, <4>1, <4>2, Zenon
    <3>3. CASE i = k + 1
      BY <2>4, <3>3
    <3>4. CASE i < k + 1
      <4>1. s.items[i].bp < s.items[k + 1].bp
        BY <1>2, <3>1, <3>4 DEF Buffered
      <4>2. QED
        BY <2>4, <3>1, <3>2, <4>1
    <3>5. CASE k + 1 < i
      <4> DEFINE j == i - k
                 m == Len(s.items)
                 c == Len(t.items)
      <4>1. m \in Nat /\ c \in Nat /\ c = m - k /\ i \in 1 .. m
        BY <1>3, <3>1
      <4> HIDE DEF m, c
      <4>2. j \in 2 .. c /\ j \in 1 .. c /\ k + j = i /\ 1 < j
        BY <3>5, <4>1
      <4> HIDE DEF j
      <4>3. t.items[j].bp - t.offset = s.items[k + j].bp - (s.offset + n)
        BY <2>1, <4>2 DEF c
      <4>4. t.items[j].bp - t.offset = 0
        BY <1>3, <2>4, <3>2, <4>2, <4>3
      <4>5. t.items[1].bp < t.items[j].bp /\ t.items[j].bp \in Nat
        BY <1>2, <1>3, <2>2, <4>2 DEF Buffered, c
      <4>6. FALSE
        BY <1>3, <2>2, <4>4, <4>5
      <4>7. QED
        BY <4>6
    <3>6. QED
      BY <3>3, <3>4, <3>5
  <2> DEFINE e == s.offset + n
  <2>6. (s.offset + Len(s.data)) = e + Len(t.data) /\ e \in Nat
    <3> DEFINE o == s.offset
               c == Len(s.data)
               d == Len(t.data)
    <3>1. o \in Nat /\ c \in Nat /\ d \in Nat /\ d = c - n /\ e = o + n
      BY <1>3, <2>3
    <3> HIDE DEF o, c, d, e
    <3>2. o + c = e + d /\ e \in Nat
      BY <3>1
    <3>3. QED
      BY <3>2 DEF o, c, d
  <2>7. ASSUME NEW j \in 1 .. Len(t.items)
        PROVE  \E h \in 1 .. Len(s.items) :
                 /\ t.items[j].file = s.items[h].file /\ t.items[j].pts = s.items[h].pts
                 /\ ToEnd(t, t.items[j].bp) = ToEnd(s, s.items[h].bp)
    <3>1. /\ k + j \in 1 .. Len(s.items)
          /\ t.items[j].file = s.items[k + j].file /\ t.items[j].pts = s.items[k + j].pts
          /\ t.items[j].bp - t.offset = s.items[k + j].bp - e
      <4>1. CASE j = 1
        <5>1. t.items[1].bp - t.offset = 0 /\ s.items[k + 1].bp - e = 0
          <6>1. t.offset - t.offset = 0
            BY <1>3
          <6>2. e - e = 0
            BY <2>6
          <6>3. QED
            BY <2>2, <2>5, <6>1, <6>2
        <5>2. QED
          BY <2>1, <4>1, <5>1
      <4>2. CASE 1 < j
        <5>1. j \in 2 .. Len(t.items) /\ k + j \in 1 .. Len(s.items)
          BY <1>3, <2>1, <4>2
        <5>2. QED
          BY <2>1, <5>1
      <4>3. QED
        BY <1>3, <4>1, <4>2
    <3> DEFINE y == t.items[j].bp
               x == s.items[k + j].bp
               c == Len(t.data)
    <3>2. y \in Nat /\ x \in Nat /\ c \in Nat
      BY <1>3, <3>1
    <3>3. ToEnd(t, y) = (t.offset + c) - y /\ ToEnd(s, x) = (e + c) - x
      BY <2>6 DEF ToEnd
    <3>4. y - t.offset = x - e
      BY <3>1
    <3> HIDE DEF x, y, c, e
    <3>5. (t.offset + c) - y = (e + c) - x
      <4> DEFINE o == t.offset
      <4>1. o \in Nat /\ y - o = x - e /\ e \in Nat
        BY <1>3, <2>6, <3>4
      <4> HIDE DEF o
      <4>2. (o + c) - y = (e + c) - x
        BY <3>2, <4>1
      <4>3. QED
        BY <4>2 DEF o
    <3>6. ToEnd(t, y) = ToEnd(s, x)
      BY <3>3, <3>5
    <3>7. QED
      BY <3>1, <3>6 DEF x, y
  <2>9. \A j \in 1 .. Len(t.items) :
          k + j \in 1 .. Len(s.items) /\ t.items[j].pts = s.items[k + j].pts
    <3> TAKE j \in 1 .. Len(t.items)
    <3>1. CASE j = 1
      BY <2>1, <3>1
    <3>2. CASE 1 < j
      <4>1. j \in 2 .. Len(t.items) /\ k + j \in 1 .. Len(s.items)
        BY <1>3, <2>1, <3>2
      <4>2. QED
        BY <2>1, <4>1
    <3>3. QED
      BY <1>3, <3>1, <3>2
  <2>10. Whereupon(s, t, n)
    BY <2>1, <2>5, <2>9 DEF Whereupon
  <2>8. QED
    BY <1>1, <2>7, <2>10 DEF Stays, t
<1>6. QED
  BY <1>4, <1>5

LEMMA DiscardToSound ==
  ASSUME NEW f, NEW s, NEW l, Sound(f, s, l),
         NEW bp \in {s.offset} \cup {s.items[k].bp : k \in 1 .. Len(s.items)}
  PROVE  /\ Heard(s, Discard(s, Max({0, bp - s.offset})))
         /\ Sound(f, Discard(s, Max({0, bp - s.offset})), l)
<1>1. BufferOK(s) /\ Buffered(s)
  BY DEF Sound, BufferOK
<1>2. s.offset \in Nat /\ Len(s.items) \in Nat /\ (s.items = << >> <=> Len(s.items) = 0)
      /\ \A i \in 1 .. Len(s.items) : s.items[i].bp \in Nat
  BY <1>1, BufferedTypes
<1>3. bp \in Nat /\ s.offset <= bp
  BY <1>1, <1>2 DEF Buffered
<1> DEFINE n == Max({0, bp - s.offset})
<1>4. n = bp - s.offset /\ n \in Nat
  <2> DEFINE v == bp - s.offset
  <2>1. v \in Nat
    BY <1>2, <1>3
  <2> HIDE DEF v
  <2>2. Max({0, v}) = v
    BY <2>1, NotNegative
  <2>3. QED
    BY <2>1, <2>2 DEF v
<1> HIDE DEF n
<1>5. s.offset + n = bp
  BY <1>2, <1>3, <1>4
<1>6. s.items # << >> => \E i \in 1 .. Len(s.items) : s.items[i].bp = s.offset + n
  <2> SUFFICES ASSUME s.items # << >>
               PROVE  \E i \in 1 .. Len(s.items) : s.items[i].bp = bp
    BY <1>5
  <2>1. 1 \in 1 .. Len(s.items) /\ s.items[1].bp = s.offset
    BY <1>1, <1>2 DEF Buffered
  <2>2. QED
    BY <2>1
<1>7. Heard(s, Discard(s, n)) /\ Stays(s, Discard(s, n))
  BY <1>1, <1>4, <1>6, AlignedStays
<1>8. Sound(f, Discard(s, n), l)
  BY <1>7, StaysSound
<1>9. QED
  BY <1>7, <1>8 DEF n

(* The start of the sound of a range.                                      *)
Started(s, t) ==
  LET timed == AudioAddPts(s)
      one   == Discard(timed, Max({0, PtsBufferPos(timed, t) - timed.offset}))
      again == AudioAddPts(one)
  IN  Discard(again, Max({0, ClosestPtsBufferPos(again, t) - again.offset}))

LEMMA StartedSound ==
  ASSUME NEW f, FileFacts(f), f.audio, NEW s, NEW l, Sound(f, s, l), NEW t
  PROVE  Heard(s, Started(s, t)) /\ Sound(f, Started(s, t), l)
<1> DEFINE timed == AudioAddPts(s)
           one   == Discard(timed, Max({0, PtsBufferPos(timed, t) - timed.offset}))
           again == AudioAddPts(one)
           two   == Discard(again, Max({0, ClosestPtsBufferPos(again, t) - again.offset}))
<1>0. BufferOK(s) /\ AllTimed(s)
  BY DEF Sound
<1>1. Heard(s, timed) /\ Sound(f, timed, l)
  BY <1>0, AddPtsFacts, AddPtsSound
<1> HIDE DEF timed
<1>2. BufferOK(timed) /\ AllTimed(timed)
  BY <1>1 DEF Sound
<1>3. Heard(timed, one) /\ Sound(f, one, l)
  <2>1. PtsBufferPos(timed, t) \in
          {timed.offset} \cup {timed.items[k].bp : k \in 1 .. Len(timed.items)}
    BY <1>2, StartPlaces
  <2>2. QED
    BY <1>1, <2>1, DiscardToSound
<1> HIDE DEF one
<1>4. BufferOK(one) /\ AllTimed(one)
  BY <1>3 DEF Sound
<1>5. Heard(one, again) /\ Sound(f, again, l)
  BY <1>3, <1>4, AddPtsFacts, AddPtsSound
<1> HIDE DEF again
<1>6. BufferOK(again) /\ AllTimed(again)
  BY <1>5 DEF Sound
<1>7. Heard(again, two) /\ Sound(f, two, l)
  <2>1. ClosestPtsBufferPos(again, t) \in
          {again.offset} \cup {again.items[k].bp : k \in 1 .. Len(again.items)}
    BY <1>6, StartPlaces
  <2>2. QED
    BY <1>5, <2>1, DiscardToSound
<1> HIDE DEF two
<1>8. Heard(s, one)
  BY <1>0, <1>1, <1>3, HeardTwice
<1>9. Heard(s, again)
  BY <1>0, <1>5, <1>8, HeardTwice
<1>10. Heard(s, two)
  BY <1>0, <1>7, <1>9, HeardTwice
<1>11. Started(s, t) = two
  BY DEF Started, two, again, one, timed
<1>12. QED
  BY <1>7, <1>10, <1>11

(* The item of a unit stands where its header ends: no frame lies between  *)
(* the begin of the unit and there unless a packet is missing.             *)
LEMMA HeaderHasNoFrame ==
  ASSUME NEW f, FileFacts(f), f.audio, NEW b \in Beginnings(f.blocks),
         NEW u, u = UnitOf(f.blocks, b), Whole(f.blocks, u, b),
         NEW a, a[1] = u, a[2] = 1,
         NEW c, c[1] = b, c[2] = (f.blocks[u].hl - Before(f.blocks, b)) + 1
  PROVE  Between(f.blocks, a, c) = {}
<1> DEFINE bl == f.blocks
<1>1. bl \in Seq(BlockTypes) /\ Len(bl) \in Nat
  BY FileLaid
<1>2. b \in Own(bl) /\ b \in 1 .. Len(bl) /\ u # None /\ bl[u].good
  BY <1>1, BeginningFacts
<1>3. u \in 1 .. b /\ u \in Own(bl) /\ u \in 1 .. Len(bl)
  <2>1. b \in 0 .. Len(bl)
    BY <1>1, <1>2
  <2>2. QED
    BY <1>1, <1>2, <2>1, UnitTypes
<1>4. Before(bl, b) \in Nat /\ Before(bl, b) < bl[u].hl /\ bl[u].hl \in Nat
  <2>1. bl[u].hl \in Nat
    BY <1>3, PacketFacts
  <2>2. QED
    BY <1>1, <2>1, BeginningEnds
<1>5. SoundOK(bl, f.stream)
  BY DEF FileFacts
<1>6. ASSUME NEW m \in Between(bl, a, c)
      PROVE  FALSE
  <2> DEFINE d == m[1]
             v == m[2]
  <2>1. m \in Marks(bl) /\ ~Precedes(m, a) /\ Precedes(m, c)
    BY <1>6 DEF Between
  <2>2. d \in 1 .. Len(bl) /\ v \in bl[d].marks /\ v \in 1 .. bl[d].len
    BY <2>1, MarksFacts
  <2>3. bl[d].len \in Nat
    <3>1. bl[d] \in BlockTypes
      BY <1>1, <2>2
    <3> HIDE DEF d
    <3>2. QED
      BY <3>1 DEF BlockTypes
  <2>4. u <= d
    BY <1>1, <1>3, <2>1, <2>2 DEF Precedes
  <2>5. d < b \/ (d = b /\ v < c[2])
    BY <2>1 DEF Precedes
  <2>6. d \in u .. b
    BY <1>1, <1>2, <1>3, <2>2, <2>4, <2>5
  <2>7. d \in Own(bl)
    <3>1. bl[d].len # 0
      BY <2>2, <2>3
    <3>2. QED
      BY <2>6, <3>1 DEF Whole
  <2>8. UnitOf(bl, d) = u /\ (d < b => Before(bl, d) + bl[d].len <= Before(bl, b))
    <3>1. CASE d = b
      BY <1>2, <3>1
    <3>2. CASE d < b
      BY <1>1, <1>2, <2>4, <2>7, <3>2, LessInFront
    <3>3. QED
      BY <1>2, <2>2, <2>5, <3>1, <3>2
  <2>9. bl[u].hl < Before(bl, d) + v
    BY <1>2, <1>5, <2>2, <2>7, <2>8 DEF SoundOK
  <2>10. Before(bl, d) \in Nat
    BY <2>7, PacketFacts
  <2>11. CASE d < b
    <3> DEFINE x == Before(bl, d)
               y == Before(bl, b)
               h == bl[u].hl
               k == bl[d].len
    <3>1. x \in Nat /\ y \in Nat /\ h \in Nat /\ k \in Nat /\ v \in 1 .. k
          /\ x + k <= y /\ y < h /\ h < x + v
      BY <1>4, <2>2, <2>3, <2>8, <2>9, <2>10, <2>11
    <3> HIDE DEF x, y, h, k, v, d
    <3>2. QED
      BY <3>1
  <2>12. CASE d = b /\ v < c[2]
    <3> DEFINE y == Before(bl, b)
               h == bl[u].hl
    <3>1. y \in Nat /\ h \in Nat /\ v \in Nat /\ h < y + v /\ v < (h - y) + 1 /\ y < h
      BY <1>4, <2>2, <2>3, <2>9, <2>12
    <3> HIDE DEF y, h, v, d
    <3>2. QED
      BY <3>1
  <2>13. QED
    BY <2>5, <2>11, <2>12
<1>7. QED
  BY <1>6

LEMMA UnitNumber ==
  ASSUME NEW f, FileFacts(f), f.audio, NEW b \in Beginnings(f.blocks)
  PROVE  /\ FrameNr(f.blocks, <<UnitOf(f.blocks, b), 1>>) \in Nat
         /\ f.blocks[UnitOf(f.blocks, b)].pts =
              FrameNr(f.blocks, <<UnitOf(f.blocks, b), 1>>) * FrameTime
<1> DEFINE bl == f.blocks
           u == UnitOf(bl, b)
           a == <<u, 1>>
<1>1. bl \in Seq(BlockTypes)
  BY DEF FileFacts
<1>2. u \in Own(bl) /\ bl[u].start /\ bl[u].good
  BY <1>1, SeekPlace, BeginningFacts
<1>3. u \in Nat
  BY <1>1, <1>2, LenNat
<1>4. bl[u].pts = FrameNr(bl, a) * FrameTime
  BY <1>2 DEF FileFacts, SoundOK
<1>5. a[1] = u /\ a[2] = 1
  OBVIOUS
<1> HIDE DEF u, a
<1>6. a[1] \in Nat /\ a[2] \in Nat /\ ~Precedes(a, a)
  BY <1>3, <1>5 DEF Precedes
<1>7. FrameNr(bl, a) \in Nat
  BY <1>6, FrameNrFacts
<1>8. QED
  BY <1>4, <1>7 DEF u, a

LEMMA UnitTimed ==
  ASSUME NEW f, FileFacts(f), f.audio, NEW b \in Beginnings(f.blocks),
         NEW u, u = UnitOf(f.blocks, b),
         NEW it, it.file = Begin(f.blocks, u), it.pts = f.blocks[u].pts,
         NEW x, x = FirstOf(f.blocks, b)
  PROVE  Dated(f, it, x)
<1> DEFINE bl == f.blocks
           c == f.stream[x]
           a == <<u, 1>>
<1>1. bl \in Seq(BlockTypes) /\ Len(bl) \in Nat /\ f.stream = Stream(bl)
  BY FileLaid DEF FileFacts
<1>2. /\ b \in Own(bl) /\ b \in 1 .. Len(bl) /\ u # None /\ bl[u].good
      /\ 1 \in 1 .. Len(Carries(bl, b)) /\ c = Carries(bl, b)[1]
  BY <1>1, BeginningFacts
<1>3. u \in 1 .. b /\ u \in Own(bl) /\ bl[u].start
  <2>1. b \in 0 .. Len(bl)
    BY <1>1, <1>2
  <2>2. QED
    BY <1>1, <1>2, <2>1, UnitTypes
<1>4. Before(bl, b) \in Nat /\ Before(bl, b) < bl[u].hl /\ bl[u].hl \in Nat
  <2>1. bl[u].hl \in Nat
    BY <1>3, PacketFacts
  <2>2. QED
    BY <1>1, <2>1, BeginningEnds
<1>5. c[1] = b /\ c[2] = (bl[u].hl - Before(bl, b)) + 1
  <2>1. c[1] = b /\ c[2] = Skipped(bl, b) + 1
    BY <1>1, <1>2, CarriesFacts
  <2>2. Skipped(bl, b) = bl[u].hl - Before(bl, b)
    BY <1>2, <1>4 DEF Skipped
  <2>3. QED
    BY <2>1, <2>2
<1>6. c[1] \in Nat /\ c[2] \in Nat /\ 1 <= c[2] /\ u <= c[1] /\ u \in Nat
  <2> DEFINE h == bl[u].hl
             y == Before(bl, b)
  <2>1. h \in Nat /\ y \in Nat /\ y < h /\ c[2] = (h - y) + 1
    BY <1>4, <1>5
  <2> HIDE DEF h, y, c
  <2>2. c[2] \in Nat /\ 1 <= c[2]
    BY <2>1
  <2>3. QED
    BY <1>2, <1>3, <1>5, <2>2
<1>7. a[1] = u /\ a[2] = 1
  OBVIOUS
<1> HIDE DEF a, c
<1>8. ~Precedes(c, a)
  BY <1>6, <1>7 DEF Precedes
<1> DEFINE na == FrameNr(bl, a)
           nc == FrameNr(bl, c)
           n == Cardinality(Between(bl, a, c))
<1>9. na \in Nat /\ nc \in Nat /\ n \in Nat /\ nc = na + n
  BY <1>6, <1>7, <1>8, FrameNrFacts
<1>10. Whole(bl, u, b) => n = 0
  <2>1. ASSUME Whole(bl, u, b)
        PROVE  n = 0
    <3>1. Between(bl, a, c) = {}
      BY <1>5, <1>7, <2>1, HeaderHasNoFrame
    <3>2. QED
      BY <3>1, FS_EmptySet
  <2>2. QED
    BY <2>1
<1>11. bl[u].pts = na * FrameTime
  <2>1. SoundOK(bl, f.stream)
    BY DEF FileFacts
  <2>2. QED
    BY <1>2, <1>3, <2>1 DEF SoundOK, a
<1>12. UnitAt(f, it) = u
  BY <1>3, OwnPlace DEF UnitAt
<1>13. FrameTime \in Nat
  BY StreamDataAssumption
<1> HIDE DEF na, nc, n
<1>14. na * FrameTime <= nc * FrameTime
  <2>1. na * FrameTime + n * FrameTime <= nc * FrameTime
    BY <1>9, <1>13, TimesSum
  <2>2. na * FrameTime \in Nat /\ n * FrameTime \in Nat /\ nc * FrameTime \in Nat
    BY <1>9, <1>13
  <2>3. QED
    BY <2>1, <2>2
<1>15. Whole(bl, u, b) => na * FrameTime = nc * FrameTime
  BY <1>9, <1>10
<1>16. QED
  BY <1>5, <1>6, <1>11, <1>12, <1>14, <1>15 DEF Dated, c, nc

(* What is read is timed.                                                  *)
LEMMA AppendSounding ==
  ASSUME NEW f, FileFacts(f), f.audio, NEW s, BufferOK(s), NEW l \in Nat, Sounding(f, s, l),
         InStream(f.stream, s.data, l),
         NEW b \in Beginnings(f.blocks), NEW t, t.offset = s.offset,
         NewItem(s, t, Begin(f.blocks, UnitOf(f.blocks, b))),
         t.items[Len(s.items) + 1].pts = f.blocks[UnitOf(f.blocks, b)].pts,
         s.data # << >> => l = PartEnd(f.blocks, b - 1),
         PartEnd(f.blocks, b) - Len(t.data) = PartEnd(f.blocks, b - 1) - Len(s.data)
  PROVE  Sounding(f, t, PartEnd(f.blocks, b))
<1> DEFINE bl == f.blocks
           x == PartEnd(bl, b - 1)
           m == PartEnd(bl, b)
           n == Len(s.items) + 1
<1>1. /\ Len(t.items) = n /\ \A i \in 1 .. Len(s.items) : t.items[i] = s.items[i]
      /\ t.items[n].file = Begin(bl, UnitOf(bl, b))
      /\ t.items[n].bp = s.offset + Len(s.data)
      /\ t.items[n].pts = bl[UnitOf(bl, b)].pts
  BY DEF NewItem
<1>2. Buffered(s)
  BY DEF BufferOK
<1>3. /\ Len(s.data) \in Nat /\ s.offset \in Nat /\ Len(s.items) \in Nat
      /\ (s.items = << >> <=> Len(s.items) = 0)
  BY <1>2, BufferedTypes
<1>4. bl \in Seq(BlockTypes) /\ StreamLaid(bl, f.stream) /\ Len(bl) \in Nat
  BY FileLaid
<1>5. b \in 1 .. Len(bl)
  BY <1>4, BeginningFacts
<1>6. x \in Nat
  <2>1. b - 1 \in 0 .. Len(bl)
    BY <1>4, <1>5
  <2>2. QED
    BY <1>4, <2>1 DEF StreamLaid
<1>7. FirstOf(bl, b) = x + 1
  BY DEF FirstOf
<1> HIDE DEF x, m
<1>8. m - Len(t.data) = x - Len(s.data) /\ (s.data # << >> => l = x)
  BY DEF x, m
<1>9. ASSUME NEW i \in 1 .. Len(s.items)
      PROVE  Dated(f, t.items[i], PlaceAt(t, m, t.items[i].bp))
  <2>1. s.data # << >>
    BY <1>2, <1>3 DEF Buffered
  <2>2. m - Len(t.data) = l - Len(s.data)
    BY <1>8, <2>1
  <2>3. PlaceAt(t, m, t.items[i].bp) = PlaceAt(s, l, s.items[i].bp)
    BY <1>1, <2>2 DEF PlaceAt
  <2>4. QED
    BY <1>1, <2>3 DEF Sounding
<1>10. PlaceAt(t, m, t.items[n].bp) = FirstOf(bl, b)
  <2>1. t.items[n].bp - t.offset = Len(s.data)
    BY <1>1, <1>3
  <2>2. (x - Len(s.data)) + Len(s.data) = x
    BY <1>3, <1>6
  <2>3. QED
    BY <1>7, <1>8, <2>1, <2>2 DEF PlaceAt
<1>11. Dated(f, t.items[n], FirstOf(bl, b))
  BY <1>1, UnitTimed
<1>14. Spaced(f, t, m)
  <2>1. ASSUME NEW i \in 1 .. Len(s.items)
        PROVE  /\ PlaceAt(t, m, t.items[i].bp) = PlaceAt(s, l, s.items[i].bp)
               /\ PlaceAt(s, l, s.items[i].bp) \in 1 .. Len(f.stream)
               /\ PlaceAt(s, l, s.items[i].bp) < FirstOf(bl, b)
               /\ Dated(f, s.items[i], PlaceAt(s, l, s.items[i].bp))
    <3>1. s.data # << >>
      BY <1>2, <1>3 DEF Buffered
    <3>2. m - Len(t.data) = l - Len(s.data)
      BY <1>8, <3>1
    <3>3. PlaceAt(t, m, t.items[i].bp) = PlaceAt(s, l, s.items[i].bp)
      BY <1>1, <3>2 DEF PlaceAt
    <3>4. s.items[i].bp \in Nat /\ s.offset <= s.items[i].bp /\ s.items[i].bp < EndPos(s)
      BY <1>2, BufferedTypes DEF Buffered, EndPos
    <3>5. /\ PlaceAt(s, l, s.items[i].bp) \in 1 .. Len(f.stream)
          /\ PlaceAt(s, l, s.items[i].bp) <= l
      BY <1>2, <3>4, BufferPlaces
    <3>6. PlaceAt(s, l, s.items[i].bp) < FirstOf(bl, b)
      BY <1>6, <1>7, <1>8, <3>1, <3>5
    <3>7. QED
      BY <3>3, <3>5, <3>6 DEF Sounding
  <2> DEFINE P(i) == PlaceAt(t, m, t.items[i].bp)
             y == FirstOf(bl, b)
  <2>2. y \in Int
    BY <1>6, <1>7
  <2>3. ASSUME NEW i \in 1 .. Len(s.items)
        PROVE  Apart(f, t.items[i], P(i), t.items[n], y)
    <3> DEFINE w == PlaceAt(s, l, s.items[i].bp)
               nx == FrameNr(bl, f.stream[w])
               nu == FrameNr(bl, <<UnitOf(bl, b), 1>>)
               k == FrameCount(f, w, y)
    <3>1. w \in 1 .. Len(f.stream) /\ w < y /\ P(i) = w /\ Dated(f, s.items[i], w)
      BY <2>1
    <3>2. nx \in Nat /\ nu \in Nat /\ k \in Nat /\ nx + k <= nu
      <4> HIDE DEF w
      <4>1. QED
        BY <3>1, FramesInFront
    <3>3. s.items[i].pts <= nx * FrameTime
      BY <3>1 DEF Dated
    <3>4. t.items[n].pts = nu * FrameTime /\ t.items[i].pts = s.items[i].pts
      BY <1>1, UnitNumber
    <3>5. FrameTime \in Nat /\ s.items[i].pts \in Int
      <4>1. s.items[i].pts \in Nat \cup {NoPts}
        BY <1>2, BufferedTypes
      <4>2. QED
        BY <4>1, StreamDataAssumption DEF NoPts
    <3> HIDE DEF nx, nu, k
    <3>6. nx * FrameTime + k * FrameTime <= nu * FrameTime
      BY <3>2, <3>5, TimesSum
    <3>7. nx * FrameTime \in Nat /\ k * FrameTime \in Nat /\ nu * FrameTime \in Nat
      BY <3>2, <3>5
    <3> DEFINE v == k * FrameTime
    <3>8. s.items[i].pts + v <= t.items[n].pts
      <4> DEFINE a == nx * FrameTime
                 c == nu * FrameTime
      <4>1. a \in Nat /\ v \in Nat /\ c \in Nat /\ a + v <= c
            /\ s.items[i].pts <= a /\ t.items[n].pts = c
        BY <3>3, <3>4, <3>6, <3>7
      <4> HIDE DEF a, v, c
      <4>2. QED
        BY <3>5, <4>1
    <3> HIDE DEF v
    <3>9. QED
      BY <3>1, <3>4, <3>8 DEF Apart, v, k
  <2>4. ASSUME NEW i \in 1 .. Len(s.items), NEW j \in 1 .. Len(s.items)
        PROVE  Apart(f, t.items[i], P(i), t.items[j], P(j))
    <3>1. Apart(f, s.items[i], PlaceAt(s, l, s.items[i].bp),
                s.items[j], PlaceAt(s, l, s.items[j].bp))
      BY DEF Sounding, Spaced
    <3>2. P(i) = PlaceAt(s, l, s.items[i].bp) /\ P(j) = PlaceAt(s, l, s.items[j].bp)
      BY <2>1
    <3>3. t.items[i] = s.items[i] /\ t.items[j] = s.items[j]
      BY <1>1
    <3>4. QED
      BY <3>1, <3>2, <3>3
  <2>5. ASSUME NEW i \in 1 .. Len(s.items)
        PROVE  Apart(f, t.items[n], y, t.items[i], P(i))
    <3>1. P(i) \in Int /\ P(i) < y
      BY <2>1
    <3>2. QED
      BY <2>2, <3>1 DEF Apart
  <2>6. Apart(f, t.items[n], y, t.items[n], y)
    <3>1. Spanned(f, y, y) = {}
      <4>1. \A z \in Framed(f) : z \in Int
        BY DEF Framed
      <4>2. QED
        BY <2>2, <4>1 DEF Spanned
    <3>2. FrameCount(f, y, y) = 0
      BY <3>1, FS_EmptySet DEF FrameCount
    <3>3. t.items[n].pts \in Int /\ FrameTime \in Nat
      <4>1. t.items[n].pts = FrameNr(bl, <<UnitOf(bl, b), 1>>) * FrameTime
            /\ FrameNr(bl, <<UnitOf(bl, b), 1>>) \in Nat
        BY <1>1, UnitNumber
      <4>2. FrameTime \in Nat
        BY StreamDataAssumption
      <4>3. QED
        BY <4>1, <4>2
    <3>4. QED
      BY <3>2, <3>3 DEF Apart
  <2>7. P(n) = y
    BY <1>10
  <2> HIDE DEF P, y
  <2>8. ASSUME NEW i \in 1 .. Len(t.items), NEW j \in 1 .. Len(t.items)
        PROVE  Apart(f, t.items[i], P(i), t.items[j], P(j))
    <3>1. (i \in 1 .. Len(s.items) \/ i = n) /\ (j \in 1 .. Len(s.items) \/ j = n)
      BY <1>1, <1>3
    <3>2. QED
      BY <2>3, <2>4, <2>5, <2>6, <2>7, <3>1
  <2>9. QED
    BY <2>8 DEF Spaced, P
<1>12. Sounding(f, t, m)
  <2>1. ASSUME NEW i \in 1 .. Len(t.items)
        PROVE  Dated(f, t.items[i], PlaceAt(t, m, t.items[i].bp))
    <3>1. i \in 1 .. Len(s.items) \/ i = n
      BY <1>1, <1>3
    <3>2. QED
      BY <1>9, <1>10, <1>11, <3>1
  <2>2. QED
    BY <1>14, <2>1 DEF Sounding
<1>13. QED
  BY <1>12 DEF m

LEMMA BytesSounding ==
  ASSUME NEW f, NEW s, NEW l, Sounding(f, s, l),
         NEW t, t.offset = s.offset, t.items = s.items,
         NEW m, m - Len(t.data) = l - Len(s.data)
  PROVE  Sounding(f, t, m)
<1>1. \A i \in 1 .. Len(s.items) : PlaceAt(t, m, s.items[i].bp) = PlaceAt(s, l, s.items[i].bp)
  BY DEF PlaceAt
<1>2. QED
  BY <1>1 DEF Sounding, Spaced

-----------------------------------------------------------------------------
(* What holds of the file, the buffer and the place in the stream.  Of the *)
(* packets in front of filepos all has been read or passed over; if there  *)
(* is something in the buffer, nothing of them is missing behind it.       *)
Standing(f, n, s, l) ==
  Rest(f.blocks, n) =>
    LET c == LastOwn(f.blocks, n)
    IN  /\ l <= PartEnd(f.blocks, c)
        /\ s.data # << >> => /\ l = PartEnd(f.blocks, c)
                             /\ \E u \in Beginnings(f.blocks) : u <= c
        /\ HeaderState(f, s, c)

Holding(f, s, l) ==
  /\ InStream(f.stream, s.data, l) /\ BufferOK(s)
  /\ f.audio => AllTimed(s)
  /\ f.audio => Sounding(f, s, l)
  /\ ~f.audio => ItemsTell(f, s, l)
  /\ ~f.ts => s.header = << >>

(* A transport stream is only looked at where it may be; a search that     *)
(* found nothing goes on where it ended.                                   *)
Looking(f, n, lost) ==
  f.ts =>
    /\ n \in Looked(f.blocks, f.cells)
    /\ lost => /\ n - Search \in Looked(f.blocks, f.cells)
               /\ SearchEnds(f.cells, n - Search) = Search

(* What a reader may add to the buffer, and what others may take.          *)
Delivers(f, d, l, e, m) ==
  \E first \in {l + 1} \cup {u \in f.units : d = << >> /\ u > l} :
    \E end \in first .. Len(f.stream) :
      e = d \o SubSeq(f.stream, first, end) /\ m = end

LastIs(f, s, t, l) ==
  IF Len(t.data) > Len(s.data) THEN PlaceOf(f.stream, Last(t.data)) ELSE l

ReadOK(f, n, s, t, l) ==
  /\ Standing(f, n, t, LastIs(f, s, t, l)) /\ Holding(f, t, LastIs(f, s, t, l))
  /\ \/ t.data = s.data /\ LastIs(f, s, t, l) = l
     \/ Delivers(f, s.data, l, t.data, LastIs(f, s, t, l))

(* A packet of the stream at the place, and what came in front of it.      *)
AtOwn(f, b, n, s, l, c) ==
  /\ b \in Own(f.blocks) /\ n = Begin(f.blocks, b)
  /\ NextOwn(f.blocks, c, b) /\ HeaderState(f, s, c)
  /\ PartEnd(f.blocks, b - 1) \in Nat /\ l <= PartEnd(f.blocks, b - 1)
  /\ s.data # << >> => /\ l = PartEnd(f.blocks, b - 1)
                       /\ \E u \in Beginnings(f.blocks) : u <= c
  /\ LastOwn(f.blocks, n + SizeOf(f.blocks, b)) = b
  /\ b \in 1 .. Len(f.blocks) /\ c < b
  /\ PartEnd(f.blocks, b) \in Nat
  /\ PartEnd(f.blocks, b) =
       PartEnd(f.blocks, b - 1) + Len(PartOf(f.blocks, b))
  /\ PartOf(f.blocks, b) \in Seq(Bytes)

LEMMA AtOwnFacts ==
  ASSUME NEW f, FileFacts(f), NEW b \in Own(f.blocks), NEW n, n = Begin(f.blocks, b),
         NEW s, NEW l, Standing(f, n, s, l)
  PROVE  AtOwn(f, b, n, s, l, LastOwn(f.blocks, n))
<1> DEFINE bl == f.blocks
           c == LastOwn(bl, n)
           m == n + SizeOf(bl, b)
<1>1. /\ b \in 1 .. Len(bl) /\ SizeOf(bl, b) \in Nat /\ SizeOf(bl, b) > 0
      /\ n \in Nat
  BY OwnPlace
<1>2. NextOwn(bl, c, b) /\ LastOwn(bl, m) = b
  <2>1. m \in Nat /\ n < m /\ m <= n + SizeOf(bl, b)
    BY <1>1
  <2> HIDE DEF m
  <2>2. QED
    BY <2>1, LastOwnNext
<1>3. Rest(bl, n)
  BY <1>1 DEF Rest
<1> HIDE DEF c
<1>4. l <= PartEnd(bl, c) /\ HeaderState(f, s, c)
      /\ (s.data # << >> => l = PartEnd(bl, c) /\ \E u \in Beginnings(bl) : u <= c)
  BY <1>3 DEF Standing, c
<1>5. PartEnd(bl, b - 1) = PartEnd(bl, c) /\ c < b
  BY <1>2, PartsBetween
<1>6. StreamLaid(bl, f.stream) /\ Len(bl) \in Nat /\ bl \in Seq(BlockTypes)
  BY FileLaid
<1>7. PartEnd(bl, b - 1) \in Nat /\ PartEnd(bl, b) \in Nat
      /\ PartEnd(bl, b) = PartEnd(bl, b - 1) + Len(PartOf(bl, b))
  <2>1. b - 1 \in 0 .. Len(bl) /\ b \in 0 .. Len(bl)
    BY <1>1, <1>6
  <2>2. QED
    BY <1>1, <1>6, <2>1 DEF StreamLaid
<1>8. PartOf(bl, b) \in Seq(Bytes)
  BY <1>1, <1>6, PartFacts
<1>9. AtOwn(f, b, n, s, l, c)
  BY <1>1, <1>2, <1>4, <1>5, <1>7, <1>8 DEF AtOwn
<1>10. QED
  BY <1>9 DEF c

(* It brings nothing ...                                                   *)
LEMMA NothingRead ==
  ASSUME NEW f, FileFacts(f), NEW b, NEW n, NEW s, NEW l \in Nat, NEW c,
         AtOwn(f, b, n, s, l, c), Holding(f, s, l),
         NEW t, SameBuffer(s, t), HeaderState(f, t, b), ~f.ts => t.header = << >>,
         s.data = << >> \/ PartOf(f.blocks, b) = << >>
  PROVE  ReadOK(f, n + SizeOf(f.blocks, b), s, t, l)
<1> DEFINE bl == f.blocks
           m == n + SizeOf(bl, b)
<1>t. /\ BufferOK(t) /\ t.items = s.items /\ t.data = s.data /\ t.offset = s.offset
      /\ AllTimed(s) => AllTimed(t)
  BY DEF SameBuffer
<1>1. LastIs(f, s, t, l) = l
  <2>1. Buffered(s)
    BY DEF Holding, BufferOK
  <2>2. Len(s.data) \in Nat
    BY <2>1, BufferedTypes
  <2>3. ~(Len(t.data) > Len(s.data))
    BY <1>t, <2>2
  <2>4. QED
    BY <2>3 DEF LastIs
<1>2. Holding(f, t, l)
  <2>1. InStream(f.stream, t.data, l)
    BY <1>t DEF Holding
  <2>2. ~f.audio => ItemsTell(f, t, l)
    BY <1>t DEF Holding, ItemsTell, PlaceAt
  <2>3. f.audio => AllTimed(t)
    BY <1>t DEF Holding
  <2>4. f.audio => Sounding(f, t, l)
    BY <1>t DEF Holding, Sounding, Spaced, PlaceAt
  <2>5. QED
    BY <1>t, <2>1, <2>2, <2>3, <2>4 DEF Holding
<1>3. Standing(f, m, t, l)
  <2>1. LastOwn(bl, m) = b
    BY DEF AtOwn
  <2>2. l <= PartEnd(bl, b)
    <3>1. /\ PartEnd(bl, b - 1) \in Nat /\ l <= PartEnd(bl, b - 1)
          /\ PartEnd(bl, b) = PartEnd(bl, b - 1) + Len(PartOf(bl, b))
          /\ PartOf(bl, b) \in Seq(Bytes)
      BY DEF AtOwn
    <3>2. Len(PartOf(bl, b)) \in Nat
      BY <3>1, EmptyIs
    <3>3. QED
      BY <3>1, <3>2
  <2>3. ASSUME t.data # << >>
        PROVE  l = PartEnd(bl, b) /\ \E u \in Beginnings(bl) : u <= b
    <3>1. PartOf(bl, b) = << >>
      BY <1>t, <2>3
    <3>2. Len(PartOf(bl, b)) = 0
      BY <3>1
    <3>3. l = PartEnd(bl, b - 1) /\ PartEnd(bl, b) = PartEnd(bl, b - 1) + 0
          /\ PartEnd(bl, b - 1) \in Nat
      BY <1>t, <2>3, <3>2 DEF AtOwn
    <3>4. PICK u \in Beginnings(bl) : u <= c
      BY <1>t, <2>3 DEF AtOwn
    <3>5. u \in Nat /\ b \in Nat /\ c \in Int /\ c < b
      <4>1. bl \in Seq(BlockTypes) /\ Len(bl) \in Nat
        BY FileLaid
      <4>2. u \in 1 .. Len(bl)
        BY <4>1, BeginningFacts
      <4>3. NextOwn(bl, c, b) /\ b \in 1 .. Len(bl) /\ c < b
        BY DEF AtOwn
      <4>4. c \in 0 .. Len(bl)
        BY <4>3, PartsBetween
      <4>5. QED
        BY <4>1, <4>2, <4>3, <4>4
    <3>6. u <= b
      BY <3>4, <3>5
    <3>7. QED
      BY <3>3, <3>6
  <2> HIDE DEF m
  <2>4. QED
    BY <2>1, <2>2, <2>3 DEF Standing
<1>4. QED
  BY <1>t, <1>1, <1>2, <1>3 DEF ReadOK

(* ... or what it carries, with an item if a unit begins with it.          *)
LEMMA PartRead ==
  ASSUME NEW f, FileFacts(f), NEW b, NEW n, NEW s, NEW l \in Nat, NEW c,
         AtOwn(f, b, n, s, l, c), Holding(f, s, l),
         NEW t, BufferOK(t), t.offset = s.offset,
         PartOf(f.blocks, b) # << >>, t.data = s.data \o PartOf(f.blocks, b),
         f.audio => AllTimed(t), HeaderState(f, t, b), ~f.ts => t.header = << >>,
         \/ /\ s.data # << >> /\ b \notin Beginnings(f.blocks) /\ t.items = s.items
         \/ b \in Beginnings(f.blocks) /\ NewItem(s, t, Begin(f.blocks, UnitOf(f.blocks, b))),
         f.audio /\ b \in Beginnings(f.blocks) =>
           t.items[Len(s.items) + 1].pts = f.blocks[UnitOf(f.blocks, b)].pts
  PROVE  ReadOK(f, n + SizeOf(f.blocks, b), s, t, l)
<1> DEFINE bl == f.blocks
           m == n + SizeOf(bl, b)
           x == PartEnd(bl, b - 1)
           y == PartEnd(bl, b)
<1>1. /\ b \in 1 .. Len(bl) /\ l <= x /\ x \in Nat /\ y \in Nat /\ NextOwn(bl, c, b)
      /\ c < b /\ (s.data # << >> => l = x /\ \E u \in Beginnings(bl) : u <= c)
      /\ LastOwn(bl, m) = b
  BY DEF AtOwn
<1>2. InStream(f.stream, s.data, l) /\ BufferOK(s)
  BY DEF Holding
<1>3. /\ InStream(f.stream, t.data, y)
      /\ Len(s.data) < Len(t.data) /\ t.data # << >>
      /\ PlaceOf(f.stream, Last(t.data)) = y
      /\ t.data = s.data \o SubSeq(f.stream, FirstOf(bl, b), y)
      /\ l < FirstOf(bl, b) /\ (s.data # << >> => FirstOf(bl, b) = l + 1)
      /\ y \in FirstOf(bl, b) .. Len(f.stream)
      /\ y - Len(t.data) = x - Len(s.data)
  <2>1. Waiting(f, b, s.data, l)
    BY <1>1, <1>2 DEF Waiting
  <2>2. Appended(f, b, s.data, l, t.data)
    BY <1>1, <2>1, Delivering
  <2>3. QED
    BY <2>2 DEF Appended
<1>4. LastIs(f, s, t, l) = y
  <2>1. Buffered(s) /\ Buffered(t)
    BY <1>2 DEF BufferOK
  <2>2. Len(s.data) \in Nat /\ Len(t.data) \in Nat
    BY <2>1, BufferedTypes
  <2>3. Len(t.data) > Len(s.data)
    BY <1>3, <2>2
  <2>4. QED
    BY <1>3, <2>3 DEF LastIs
<1>5. ASSUME ~f.audio
      PROVE  ItemsTell(f, t, y)
  <2>1. ItemsTell(f, s, l)
    BY <1>5 DEF Holding
  <2>2. Len(t.data) \in Nat
    <3>1. Buffered(t)
      BY DEF BufferOK
    <3>2. QED
      BY <3>1, BufferedTypes
  <2>3. CASE b \in Beginnings(bl)
    BY <1>1, <1>2, <1>3, <2>1, <2>3, AppendTells
  <2>4. CASE b \notin Beginnings(bl)
    BY <1>1, <1>2, <1>3, <2>1, <2>2, <2>4, BytesTell
  <2>5. QED
    BY <2>3, <2>4
<1>s. ASSUME f.audio
      PROVE  Sounding(f, t, y)
  <2>1. Sounding(f, s, l)
    BY <1>s DEF Holding
  <2>2. CASE b \in Beginnings(bl)
    BY <1>1, <1>2, <1>3, <1>s, <2>1, <2>2, AppendSounding
  <2>3. CASE b \notin Beginnings(bl)
    <3>1. y - Len(t.data) = l - Len(s.data)
      BY <1>1, <1>3, <2>3
    <3> HIDE DEF y
    <3>2. QED
      BY <2>1, <2>3, <3>1, BytesSounding
  <2>4. QED
    BY <2>2, <2>3
<1>6. Holding(f, t, y)
  <2> HIDE DEF y
  <2>1. QED
    BY <1>3, <1>5, <1>s DEF Holding
<1>7. \E u \in Beginnings(bl) : u <= b
  <2>1. bl \in Seq(BlockTypes) /\ Len(bl) \in Nat
    BY FileLaid
  <2>2. CASE b \in Beginnings(bl)
    <3>1. b <= b
      BY <1>1
    <3>2. QED
      BY <2>2, <3>1
  <2>3. CASE b \notin Beginnings(bl)
    <3>1. PICK u \in Beginnings(bl) : u <= c
      BY <1>1, <2>3
    <3>2. u \in 1 .. Len(bl)
      BY <2>1, BeginningFacts
    <3>3. c \in 0 .. Len(bl)
      BY <1>1, PartsBetween
    <3>4. u <= b
      BY <1>1, <2>1, <3>1, <3>2, <3>3
    <3>5. QED
      BY <3>4
  <2>4. QED
    BY <2>2, <2>3
<1>8. Standing(f, m, t, y)
  <2>1. y <= y
    BY <1>1
  <2>2. QED
    BY <1>1, <1>7, <2>1 DEF Standing
<1>9. Delivers(f, s.data, l, t.data, y)
  <2>1. FirstOf(bl, b) \in {l + 1} \cup {u \in f.units : s.data = << >> /\ u > l}
    <3>1. CASE s.data # << >>
      BY <1>3, <3>1
    <3>2. CASE s.data = << >>
      <4>1. FirstOf(bl, b) \in f.units
        BY <3>2 DEF FileFacts
      <4>2. FirstOf(bl, b) > l
        <5>1. FirstOf(bl, b) \in Nat
          BY <1>1 DEF FirstOf
        <5>2. QED
          BY <1>3, <5>1
      <4>3. QED
        BY <3>2, <4>1, <4>2
    <3>3. QED
      BY <3>1, <3>2
  <2> HIDE DEF y
  <2>2. QED
    BY <1>3, <2>1 DEF Delivers
<1>10. QED
  BY <1>4, <1>6, <1>8, <1>9 DEF ReadOK

(* Passing over what is not of the stream.                                 *)
LEMMA StandingPassed ==
  ASSUME NEW f, FileFacts(f), NEW n \in Nat, NEW m \in Nat, n <= m, m <= Len(f.cells),
         MayPass(f.blocks, f.cells, n, m), NEW s, NEW l, Standing(f, n, s, l)
  PROVE  Standing(f, m, s, l)
<1> SUFFICES ASSUME Rest(f.blocks, m)
             PROVE  Standing(f, m, s, l)
  BY DEF Standing
<1>1. LastOwn(f.blocks, m) = LastOwn(f.blocks, n) /\ Rest(f.blocks, n)
  BY Passed
<1>2. QED
  BY <1>1 DEF Standing

(* Those who take bytes leave the place in the stream as it is.            *)
Takes(d, e) == \E k \in 1 .. Len(d) : e = SubSeq(d, k + 1, Len(d))

LEMMA StillHolding ==
  ASSUME NEW f, FileFacts(f), NEW n, NEW s, NEW l \in Nat, Standing(f, n, s, l),
         Holding(f, s, l), NEW t, BufferOK(t),
         t.header = s.header, t.nextfilepos = s.nextfilepos,
         NEW k \in Nat, t.data = SubSeq(s.data, k + 1, Len(s.data)),
         f.audio => AllTimed(t) /\ Sounding(f, t, l), ~f.audio => ItemsTell(f, t, l)
  PROVE  /\ Standing(f, n, t, l) /\ Holding(f, t, l)
         /\ t.data = s.data \/ Takes(s.data, t.data)
<1>1. InStream(f.stream, s.data, l) /\ BufferOK(s)
  BY DEF Holding
<1>2. InStream(f.stream, t.data, l)
  BY <1>1, Taking
<1>3. Buffered(s)
  BY <1>1 DEF BufferOK
<1>4. s.data \in Seq(Bytes) /\ Len(s.data) \in Nat /\ (s.data = << >> <=> Len(s.data) = 0)
  BY <1>3, BufferedTypes
<1>5. CASE k = 0
  <2>1. t.data = SubSeq(s.data, 1, Len(s.data))
    <3>1. k + 1 = 1
      BY <1>5
    <3>2. QED
      BY <3>1
  <2>2. t.data = s.data
    BY <1>4, <2>1, WholeSeq
  <2>3. QED
    BY <1>2, <2>2 DEF Standing, Holding, HeaderState
<1>6. CASE k > 0
  <2>1. t.data # << >> => k < Len(s.data) /\ s.data # << >>
    <3> SUFFICES ASSUME t.data # << >>, ~(k < Len(s.data))
                 PROVE  FALSE
      BY <1>4
    <3>1. t.data \in Seq(Bytes) /\ Len(t.data) = IF k <= Len(s.data) THEN Len(s.data) - k ELSE 0
      BY <1>4, EndOf
    <3>2. Len(t.data) = 0
      BY <1>4, <3>1
    <3>3. QED
      BY <3>1, <3>2, EmptyIs
  <2>2. Standing(f, n, t, l)
    BY <2>1 DEF Standing, HeaderState
  <2>3. Holding(f, t, l)
    BY <1>2 DEF Holding
  <2>4. t.data = s.data \/ Takes(s.data, t.data)
    <3>1. CASE k <= Len(s.data)
      <4>1. k \in 1 .. Len(s.data)
        BY <1>4, <1>6, <3>1
      <4>2. QED
        BY <4>1 DEF Takes
    <3>2. CASE Len(s.data) < k /\ s.data # << >>
      <4>1. t.data = << >>
        BY <1>4, <2>1, <3>2
      <4>2. Len(s.data) \in 1 .. Len(s.data)
        BY <1>4, <3>2
      <4>3. SubSeq(s.data, Len(s.data) + 1, Len(s.data)) = << >>
        <5>1. /\ SubSeq(s.data, Len(s.data) + 1, Len(s.data)) \in Seq(Bytes)
              /\ Len(SubSeq(s.data, Len(s.data) + 1, Len(s.data))) =
                   IF Len(s.data) <= Len(s.data) THEN Len(s.data) - Len(s.data) ELSE 0
          BY <1>4, EndOf
        <5>2. Len(SubSeq(s.data, Len(s.data) + 1, Len(s.data))) = 0
          BY <1>4, <5>1
        <5>3. QED
          BY <5>1, <5>2, EmptyIs
      <4>4. QED
        BY <4>1, <4>2, <4>3 DEF Takes
    <3>3. CASE s.data = << >>
      BY <1>4, <2>1, <3>3
    <3>4. QED
      BY <1>4, <3>1, <3>2, <3>3
  <2>5. QED
    BY <2>2, <2>3, <2>4
<1>7. QED
  BY <1>5, <1>6

-----------------------------------------------------------------------------
(* The steps of the reader of a transport stream at a packet of the stream.*)
LEMMA ContinueRead ==
  ASSUME NEW f, FileFacts(f), f.ts, NEW b, NEW n, NEW s, NEW l \in Nat, NEW c,
         AtOwn(f, b, n, s, l, c), Holding(f, s, l), HeaderAfter(s, f.blocks, b) = << >>,
         NEW t, t = AppendToItem(s, BlockPayload(f.blocks, b))
  PROVE  ReadOK(f, n + SizeOf(f.blocks, b), s, t, l)
<1> DEFINE bl == f.blocks
           p == BlockPayload(bl, b)
<1>1. /\ b \in Own(bl) /\ b \in 1 .. Len(bl) /\ NextOwn(bl, c, b) /\ HeaderState(f, s, c)
      /\ c < b /\ (s.data # << >> => \E u \in Beginnings(bl) : u <= c)
  BY DEF AtOwn
<1>2. bl \in Seq(BlockTypes) /\ Len(bl) \in Nat
  BY FileLaid
<1>3. p \in Seq(Bytes) /\ Len(p) = bl[b].len /\ bl[b].len \in Nat /\ bl[b].len > 0
  BY <1>1, <1>2, PayloadFacts, PacketFacts
<1>4. p # << >>
  <2> HIDE DEF p
  <2>1. QED
    BY <1>3, EmptyIs
<1>5. BufferOK(s) /\ Buffered(s) /\ s.header \in Seq(Bytes)
  <2>1. BufferOK(s) /\ Buffered(s)
    BY DEF Holding, BufferOK
  <2>2. QED
    BY <2>1, BufferedTypes
<1>6. ~bl[b].start
  BY <1>4 DEF HeaderAfter
<1>7. s.header = << >>
  <2> SUFFICES ASSUME s.header # << >>
               PROVE  FALSE
    OBVIOUS
  <2>1. s.header \o p = << >>
    BY <1>6 DEF HeaderAfter
  <2> HIDE DEF p
  <2>2. Len(s.header \o p) = Len(s.header) + Len(p)
    BY <1>3, <1>5, ConcatProperties
  <2>3. Len(s.header) \in Nat
    BY <1>5, EmptyIs
  <2>4. Len(s.header \o p) = 0
    BY <2>1
  <2>5. QED
    BY <1>3, <2>2, <2>3, <2>4
<1>8. Past(bl, b) /\ (UnitOf(bl, b) # None => Carries(bl, b) = p)
  BY <1>1, <1>6, <1>7, HeaderGone
<1>9. CASE s.items = << >>
  <2>1. t = s /\ s.data = << >>
    BY <1>5, <1>9 DEF AppendToItem, Buffered
  <2>2. HeaderState(f, t, b)
    BY <1>7, <1>8, <2>1 DEF HeaderState
  <2>3. SameBuffer(s, t)
    BY <1>5, <2>1 DEF SameBuffer
  <2>4. QED
    BY <1>7, <2>1, <2>2, <2>3, NothingRead
<1>10. CASE s.items # << >>
  <2>1. t = AppendBytes(s, p) /\ s.data # << >>
    BY <1>5, <1>10 DEF AppendToItem, Buffered
  <2>2. PICK u \in Beginnings(bl) : u <= c
    BY <1>1, <2>1
  <2>3. u \in Own(bl) /\ u \in 1 .. Len(bl) /\ UnitOf(bl, u) # None
    BY <1>2, BeginningFacts
  <2>4. u <= b /\ u \in 0 .. Len(bl) /\ b \in 0 .. Len(bl)
    <3>1. c \in 0 .. Len(bl)
      BY <1>1, PartsBetween
    <3>2. QED
      BY <1>1, <1>2, <2>2, <2>3, <3>1
  <2>5. UnitOf(bl, b) # None
    <3> DEFINE v == UnitOf(bl, u)
    <3>1. v \in 1 .. u /\ v \in Own(bl) /\ bl[v].start
      BY <1>2, <2>3, <2>4, UnitTypes
    <3>2. v <= b
      BY <1>1, <2>3, <2>4, <3>1
    <3>3. v \in StartsTo(bl, b)
      BY <3>1, <3>2 DEF StartsTo
    <3>4. QED
      BY <1>2, <2>4, <3>3, UnitIs
  <2>6. Carries(bl, b) = p /\ PartOf(bl, b) = p
    BY <1>8, <2>4, <2>5 DEF PartOf
  <2>7. b \notin Beginnings(bl)
    BY <1>1, <1>2, <2>6, NotWhole
  <2> HIDE DEF p
  <2>8. /\ BufferOK(t) /\ t.items = s.items /\ t.data = s.data \o p
        /\ t.offset = s.offset /\ SameCollected(s, t) /\ (AllTimed(s) => AllTimed(t))
    BY <1>3, <1>5, <1>10, <2>1, AppendBytesFacts
  <2>9. HeaderState(f, t, b)
    BY <1>7, <1>8, <2>8 DEF HeaderState, SameCollected
  <2>10. f.audio => AllTimed(t)
    BY <2>8 DEF Holding
  <2>11. PartOf(bl, b) # << >> /\ t.data = s.data \o PartOf(bl, b)
    BY <1>4, <2>6, <2>8
  <2>12. QED
    BY <2>1, <2>7, <2>8, <2>9, <2>10, <2>11, PartRead
<1>11. QED
  BY <1>9, <1>10

(* The begin of a unit and what follows it, until its header is complete.  *)
Gathered(f, s, b, n, h) ==
  WithHeader(s, h, IF f.blocks[b].start THEN n ELSE s.nextfilepos)

LEMMA GatheredFacts ==
  ASSUME NEW f, FileFacts(f), f.ts, NEW b, NEW n, NEW s, NEW l \in Nat, NEW c,
         AtOwn(f, b, n, s, l, c), Holding(f, s, l),
         NEW h, h = HeaderAfter(s, f.blocks, b), h # << >>
  PROVE  /\ SameBuffer(s, Gathered(f, s, b, n, h))
         /\ Gathered(f, s, b, n, h).header = h
         /\ Gathered(f, s, b, n, h).nextfilepos = Begin(f.blocks, UnitOf(f.blocks, b))
         /\ Begin(f.blocks, UnitOf(f.blocks, b)) \in Nat
         /\ Growing(f, s, b, h)
<1> DEFINE bl == f.blocks
<1>1. /\ b \in Own(bl) /\ n = Begin(bl, b) /\ NextOwn(bl, c, b) /\ HeaderState(f, s, c)
  BY DEF AtOwn
<1>2. BufferOK(s) /\ s.nextfilepos \in Nat
  <2>1. BufferOK(s) /\ Buffered(s)
    BY DEF Holding, BufferOK
  <2>2. QED
    BY <2>1, BufferedTypes
<1>3. n \in Nat
  BY <1>1, OwnPlace
<1>4. bl[b].start \/ s.header # << >>
  BY DEF HeaderAfter
<1>5. Growing(f, s, b, h)
  BY <1>1, <1>4, HeaderGrows
<1>6. h \in Seq(Bytes)
  BY <1>5 DEF Growing
<1> DEFINE p == IF bl[b].start THEN n ELSE s.nextfilepos
<1>7. p \in Nat
  BY <1>2, <1>3
<1>8. p = Begin(bl, UnitOf(bl, b))
  BY <1>1, <1>5 DEF Growing
<1>9. Gathered(f, s, b, n, h) = WithHeader(s, h, p)
  BY DEF Gathered
<1> HIDE DEF p
<1>10. /\ SameBuffer(s, WithHeader(s, h, p))
       /\ WithHeader(s, h, p).header = h /\ WithHeader(s, h, p).nextfilepos = p
  BY <1>2, <1>6, <1>7, CollectedFacts
<1>11. QED
  BY <1>5, <1>7, <1>8, <1>9, <1>10

LEMMA CollectRead ==
  ASSUME NEW f, FileFacts(f), f.ts, NEW b, NEW n, NEW s, NEW l \in Nat, NEW c,
         AtOwn(f, b, n, s, l, c), Holding(f, s, l),
         NEW h, h = HeaderAfter(s, f.blocks, b), h # << >>,
         \/ Len(h) < MinHeader
         \/ f.blocks[h[1][1]].good /\ Len(h) < f.blocks[h[1][1]].hl
  PROVE  ReadOK(f, n + SizeOf(f.blocks, b), s, Gathered(f, s, b, n, h), l)
<1> DEFINE bl == f.blocks
           t == Gathered(f, s, b, n, h)
<1>1. b \in Own(bl)
  BY DEF AtOwn
<1>2. /\ SameBuffer(s, t) /\ t.header = h
      /\ t.nextfilepos = Begin(bl, UnitOf(bl, b)) /\ Growing(f, s, b, h)
  BY GatheredFacts
<1> HIDE DEF t
<1>3. Carries(bl, b) = << >> /\ ~Past(bl, b)
  BY <1>1, <1>2, Collecting
<1>4. HeaderState(f, t, b)
  BY <1>2, <1>3 DEF HeaderState, Growing
<1>5. PartOf(bl, b) = << >>
  BY <1>3 DEF PartOf
<1>6. ReadOK(f, n + SizeOf(bl, b), s, t, l)
  BY <1>2, <1>4, <1>5, NothingRead
<1>7. QED
  BY <1>6 DEF t

LEMMA BadHeaderRead ==
  ASSUME NEW f, FileFacts(f), f.ts, NEW b, NEW n, NEW s, NEW l \in Nat, NEW c,
         AtOwn(f, b, n, s, l, c), Holding(f, s, l),
         NEW h, h = HeaderAfter(s, f.blocks, b), h # << >>,
         Len(h) >= MinHeader, ~f.blocks[h[1][1]].good
  PROVE  ReadOK(f, n + SizeOf(f.blocks, b), s, Dropped(Gathered(f, s, b, n, h)), l)
<1> DEFINE bl == f.blocks
           g == Gathered(f, s, b, n, h)
           t == Dropped(g)
<1>1. b \in Own(bl)
  BY DEF AtOwn
<1>2. SameBuffer(s, g) /\ Growing(f, s, b, h)
  BY GatheredFacts
<1> HIDE DEF g
<1>3. BufferOK(g)
  BY <1>2 DEF SameBuffer
<1>4. SameBuffer(g, t) /\ t.header = << >>
  BY <1>3, HeaderDropped
<1> HIDE DEF t
<1>5. SameBuffer(s, t)
  BY <1>2, <1>4 DEF SameBuffer
<1>6. Carries(bl, b) = << >> /\ Past(bl, b)
  BY <1>1, <1>2, BadHeader
<1>7. HeaderState(f, t, b)
  BY <1>4, <1>6 DEF HeaderState
<1>8. PartOf(bl, b) = << >>
  BY <1>6 DEF PartOf
<1>9. ReadOK(f, n + SizeOf(bl, b), s, t, l)
  BY <1>4, <1>5, <1>7, <1>8, NothingRead
<1>10. QED
  BY <1>9 DEF t, g

(* A unit: the item names the packet in which its header began.            *)
LEMMA ItemRead ==
  ASSUME NEW f, FileFacts(f), NEW b, NEW n, NEW s, NEW l \in Nat, NEW c,
         AtOwn(f, b, n, s, l, c), Holding(f, s, l),
         NEW e, SameBuffer(s, e), e.header = << >>,
         Past(f.blocks, b) \/ StartsNext(f.blocks, b),
         Carries(f.blocks, b) # << >> => b \in Beginnings(f.blocks),
         NEW v \in Nat, v = Begin(f.blocks, UnitOf(f.blocks, b)),
         NEW pts \in Nat \cup {NoPts},
         f.audio => pts \in Nat /\ pts = f.blocks[UnitOf(f.blocks, b)].pts
  PROVE  ReadOK(f, n + SizeOf(f.blocks, b), s,
                AppendItem(e, v, pts, Carries(f.blocks, b)), l)
<1> DEFINE bl == f.blocks
           d == Carries(bl, b)
           t == AppendItem(e, v, pts, d)
<1>1. b \in Own(bl) /\ b \in 1 .. Len(bl)
  BY DEF AtOwn
<1>2. bl \in Seq(BlockTypes) /\ Len(bl) \in Nat
  BY FileLaid
<1>3. /\ BufferOK(e) /\ e.items = s.items /\ e.data = s.data /\ e.offset = s.offset
      /\ AllTimed(s) => AllTimed(e)
  BY DEF SameBuffer
<1>4. CASE d = << >>
  <2>1. t = e
    BY <1>4 DEF AppendItem
  <2> HIDE DEF t
  <2>2. HeaderState(f, t, b)
    BY <2>1 DEF HeaderState
  <2>3. PartOf(bl, b) = << >>
    BY <1>4 DEF PartOf
  <2>4. ReadOK(f, n + SizeOf(bl, b), s, t, l)
    BY <2>1, <2>2, <2>3, NothingRead
  <2>5. QED
    BY <2>4 DEF t
<1>5. CASE d # << >>
  <2>1. b \in Beginnings(bl) /\ PartOf(bl, b) = d
    BY <1>2, <1>5, BeginningFacts
  <2>2. d \in Seq(Bytes)
    BY <1>1, <1>2, CarriesFacts
  <2> HIDE DEF d
  <2>3. Added(e, t, v, pts, d)
    BY <1>3, <1>5, <2>2, AppendItemFacts
  <2> HIDE DEF t
  <2>4. /\ BufferOK(t) /\ t.data = s.data \o d /\ t.offset = s.offset
        /\ SameCollected(e, t) /\ (AllTimed(s) /\ pts \in Nat => AllTimed(t))
    BY <1>3, <2>3 DEF Added
  <2>5. NewItem(s, t, Begin(bl, UnitOf(bl, b)))
    BY <1>3, <2>3 DEF Added, NewItem
  <2>6. PartOf(bl, b) # << >> /\ t.data = s.data \o PartOf(bl, b)
    BY <1>5, <2>1, <2>4
  <2>7. f.audio => AllTimed(t)
    BY <2>4 DEF Holding
  <2>8. t.header = << >> /\ HeaderState(f, t, b)
    BY <2>4 DEF HeaderState, SameCollected
  <2>9. f.audio => t.items[Len(s.items) + 1].pts = bl[UnitOf(bl, b)].pts
    BY <1>3, <2>3 DEF Added
  <2>10. ReadOK(f, n + SizeOf(bl, b), s, t, l)
    BY <2>1, <2>4, <2>5, <2>6, <2>7, <2>8, <2>9, PartRead
  <2>11. QED
    BY <2>10 DEF t, d
<1>6. QED
  BY <1>4, <1>5

LEMMA UnitRead ==
  ASSUME NEW f, FileFacts(f), f.ts, NEW b, NEW n, NEW s, NEW l \in Nat, NEW c,
         AtOwn(f, b, n, s, l, c), Holding(f, s, l),
         NEW h, h = HeaderAfter(s, f.blocks, b), h # << >>,
         f.blocks[h[1][1]].good, Len(h) >= f.blocks[h[1][1]].hl
  PROVE  ReadOK(f, n + SizeOf(f.blocks, b), s,
                AppendItem(Dropped(Gathered(f, s, b, n, h)),
                           Gathered(f, s, b, n, h).nextfilepos, f.blocks[h[1][1]].pts,
                           SubSeq(h, f.blocks[h[1][1]].hl + 1, Len(h))), l)
<1> DEFINE bl == f.blocks
           u == UnitOf(bl, b)
           g == Gathered(f, s, b, n, h)
           e == Dropped(g)
<1>1. b \in Own(bl) /\ b \in 1 .. Len(bl)
  BY DEF AtOwn
<1>2. /\ SameBuffer(s, g) /\ g.nextfilepos = Begin(bl, u) /\ Begin(bl, u) \in Nat
      /\ Growing(f, s, b, h)
  BY GatheredFacts
<1> HIDE DEF g
<1>3. BufferOK(g)
  BY <1>2 DEF SameBuffer
<1>4. SameBuffer(g, e) /\ e.header = << >>
  BY <1>3, HeaderDropped
<1> HIDE DEF e
<1>5. SameBuffer(s, e)
  BY <1>2, <1>4 DEF SameBuffer
<1>6. /\ SubSeq(h, bl[h[1][1]].hl + 1, Len(h)) = Carries(bl, b) /\ Past(bl, b)
      /\ Carries(bl, b) # << >> => b \in Beginnings(bl)
  BY <1>1, <1>2, WholeHeader
<1>7. h[1][1] = u /\ u # None
  BY <1>2 DEF Growing
<1>8. bl[u].pts \in Nat \cup {NoPts} /\ (f.audio => bl[u].pts \in Nat)
  <2>1. u \in Own(bl) /\ bl[u].start
    BY <1>1, <1>7, PacketFacts
  <2>2. bl[u].good
    BY <1>7
  <2> HIDE DEF u
  <2>3. QED
    BY <2>1, <2>2, PacketFacts
<1>9. ReadOK(f, n + SizeOf(bl, b), s, AppendItem(e, g.nextfilepos, bl[u].pts, Carries(bl, b)), l)
  <2>1. PICK v \in Nat : v = g.nextfilepos
    BY <1>2
  <2>2. PICK pts \in Nat \cup {NoPts} : pts = bl[u].pts
    BY <1>8
  <2>3. /\ v = Begin(bl, UnitOf(bl, b))
        /\ f.audio => pts \in Nat /\ pts = bl[UnitOf(bl, b)].pts
    BY <1>2, <1>8, <2>1, <2>2
  <2> HIDE DEF u
  <2>4. ReadOK(f, n + SizeOf(bl, b), s, AppendItem(e, v, pts, Carries(bl, b)), l)
    BY <1>4, <1>5, <1>6, <2>3, ItemRead
  <2>5. QED
    BY <2>1, <2>2, <2>4
<1>10. QED
  BY <1>6, <1>7, <1>9 DEF e, g

-----------------------------------------------------------------------------
(* The packets of a program stream are units.                              *)
LEMMA ProgramPacket ==
  ASSUME NEW f, FileFacts(f), ~f.ts, NEW b \in Own(f.blocks)
  PROVE  /\ StartsNext(f.blocks, b) /\ UnitOf(f.blocks, b) = b
         /\ Carries(f.blocks, b) =
              SubSeq(BlockPayload(f.blocks, b), f.blocks[b].hl + 1, f.blocks[b].len)
         /\ f.blocks[b].len > f.blocks[b].hl <=> Carries(f.blocks, b) # << >>
         /\ Carries(f.blocks, b) # << >> => b \in Beginnings(f.blocks)
         /\ f.audio => f.blocks[b].pts \in Nat
<1> DEFINE bl == f.blocks
<1>1. bl \in Seq(BlockTypes) /\ Len(bl) \in Nat /\ b \in 1 .. Len(bl)
  BY FileLaid, OwnPlace
<1>2. \A d \in Own(bl) : bl[d].start /\ bl[d].good /\ bl[d].hl > 0
  BY DEF FileFacts, PacketOK
<1>3. StartsNext(bl, b)
  BY <1>2 DEF StartsNext, NextOwn
<1>4. UnitOf(bl, b) = b /\ Before(bl, b) = 0
  BY <1>1, <1>2, UnitBegins, NothingBefore
<1>5. bl[b].hl \in Nat /\ bl[b].len \in Nat /\ bl[b].hl > 0 /\ b # None
  <2>1. b \in Nat /\ None = -1
    BY <1>1 DEF None
  <2>2. QED
    BY <1>1, <1>2, <2>1, LenNat
<1>6. Skipped(bl, b) = bl[b].hl
  <2>1. bl[b].hl - 0 = bl[b].hl /\ 0 < bl[b].hl
    BY <1>5
  <2>2. QED
    BY <1>2, <1>4, <1>5, <2>1 DEF Skipped
<1>7. Carries(bl, b) = SubSeq(BlockPayload(bl, b), bl[b].hl + 1, bl[b].len)
  BY <1>1, <1>6, CarriesIs
<1>8. Carries(bl, b) \in Seq(Bytes)
      /\ Len(Carries(bl, b)) = IF bl[b].hl <= bl[b].len THEN bl[b].len - bl[b].hl ELSE 0
  BY <1>1, <1>6, CarriesFacts
<1>9. bl[b].len > bl[b].hl <=> Len(Carries(bl, b)) # 0
  BY <1>5, <1>8
<1>10. Carries(bl, b) # << >> <=> Len(Carries(bl, b)) # 0
  BY <1>8, EmptyIs
<1>11. Carries(bl, b) # << >> => b \in Beginnings(bl)
  BY <1>2, <1>4, <1>5 DEF Beginnings
<1>12. f.audio => bl[b].pts \in Nat
  BY <1>2, PacketFacts
<1>13. QED
  BY <1>3, <1>4, <1>7, <1>9, <1>10, <1>11, <1>12

LEMMA ProgramRead ==
  ASSUME NEW f, FileFacts(f), ~f.ts, NEW b, NEW n, NEW s, NEW l \in Nat, NEW c,
         AtOwn(f, b, n, s, l, c), Holding(f, s, l)
  PROVE  /\ f.blocks[b].len > f.blocks[b].hl =>
              ReadOK(f, n + SizeOf(f.blocks, b), s,
                     AppendItem(s, n, f.blocks[b].pts,
                                SubSeq(BlockPayload(f.blocks, b),
                                       f.blocks[b].hl + 1, f.blocks[b].len)), l)
         /\ ~(f.blocks[b].len > f.blocks[b].hl) =>
              ReadOK(f, n + SizeOf(f.blocks, b), s, s, l)
<1> DEFINE bl == f.blocks
           d == Carries(bl, b)
<1>1. b \in Own(bl) /\ n = Begin(bl, b)
  BY DEF AtOwn
<1>2. /\ StartsNext(bl, b) /\ UnitOf(bl, b) = b
      /\ d = SubSeq(BlockPayload(bl, b), bl[b].hl + 1, bl[b].len)
      /\ bl[b].len > bl[b].hl <=> d # << >>
      /\ d # << >> => b \in Beginnings(bl)
      /\ f.audio => bl[b].pts \in Nat
  BY <1>1, ProgramPacket
<1>3. BufferOK(s) /\ s.header = << >>
  BY DEF Holding
<1>4. SameBuffer(s, s)
  BY <1>3 DEF SameBuffer
<1>5. n \in Nat /\ bl[b].pts \in Nat \cup {NoPts}
  BY <1>1, OwnPlace, PacketFacts
<1>6. ReadOK(f, n + SizeOf(bl, b), s, AppendItem(s, n, bl[b].pts, d), l)
  <2>1. PICK pts \in Nat \cup {NoPts} : pts = bl[b].pts
    BY <1>5
  <2>2. /\ n = Begin(bl, UnitOf(bl, b))
        /\ f.audio => pts \in Nat /\ pts = bl[UnitOf(bl, b)].pts
    BY <1>1, <1>2, <2>1
  <2>3. d # << >> => b \in Beginnings(bl)
    BY <1>2
  <2>4. ReadOK(f, n + SizeOf(bl, b), s, AppendItem(s, n, pts, d), l)
    BY <1>2, <1>3, <1>4, <1>5, <2>2, <2>3, ItemRead
  <2>5. QED
    BY <2>1, <2>4
<1>7. d = << >> => AppendItem(s, n, bl[b].pts, d) = s
  BY DEF AppendItem
<1>8. QED
  BY <1>2, <1>6, <1>7

-----------------------------------------------------------------------------
(* The invariant.                                                          *)
Control(g, lost, p, r) ==
  /\ g \in Nat /\ lost \in BOOLEAN /\ p \in {"idle", "reading"}
  /\ r \in Nat \cup {None} /\ (p = "idle" => ~lost)

IInv ==
  /\ FileFacts(file) /\ filepos \in Nat /\ Control(got, lostsync, pc, ret)
  /\ Standing(file, filepos, sd, last) /\ Holding(file, sd, last)
  /\ Looking(file, filepos, lostsync) /\ Noted(file, want)

ESStep == [ES!Next]_(ES!vars)

LEMMA InitInv ==
  ASSUME Init
  PROVE  IInv /\ ES!Init
<1>1. FileFacts(file)
  BY OpenedFacts DEF Init
<1>2. /\ filepos = 0 /\ sd = NewStream /\ pc = "idle" /\ got = 0 /\ lostsync = FALSE
      /\ ret = None /\ last = 0 /\ want = << >>
  BY DEF Init
<1>3. /\ sd.items = << >> /\ sd.data = << >> /\ sd.offset = 0 /\ sd.header = << >>
      /\ sd \in StreamTypes
  BY <1>2 DEF NewStream, StreamTypes
<1>4. CellsLaid(file.blocks, file.cells) /\ StreamLaid(file.blocks, file.stream)
      /\ Len(file.cells) \in Nat /\ Len(file.stream) \in Nat
      /\ file.blocks \in Seq(BlockTypes) /\ Len(file.blocks) \in Nat
  BY <1>1, FileLaid
<1>5. BufferOK(sd) /\ Len(sd.data) = 0 /\ Len(sd.items) = 0
  <2>1. Len(sd.items) = 0 /\ Len(sd.data) = 0
    BY <1>3
  <2>2. 0 < Half
    BY StreamDataAssumption
  <2>3. QED
    BY <1>3, <2>1, <2>2 DEF BufferOK, Buffered
<1>6. Holding(file, sd, last)
  <2>1. InStream(file.stream, sd.data, last)
    <3>1. sd.data \in Seq(Bytes)
      BY <1>3 DEF StreamTypes
    <3>2. QED
      BY <1>2, <1>4, <1>5, <3>1 DEF InStream
  <2>2. ItemsTell(file, sd, last)
    BY <1>1, <1>2, <1>3, NothingTold
  <2>3. AllTimed(sd) /\ Sounding(file, sd, last)
    BY <1>5 DEF AllTimed, Sounding, Spaced
  <2>4. QED
    BY <1>3, <1>5, <2>1, <2>2, <2>3 DEF Holding
<1>7. Standing(file, filepos, sd, last)
  <2> DEFINE c == LastOwn(file.blocks, 0)
  <2>1. c = 0
    <3>1. c \in {0} \cup BegunBefore(file.blocks, 0)
      BY <1>1, LastOwnIs
    <3>2. \A b \in BegunBefore(file.blocks, 0) : FALSE
      <4> TAKE b \in BegunBefore(file.blocks, 0)
      <4>1. b \in Own(file.blocks) /\ Begin(file.blocks, b) < 0
        BY DEF BegunBefore
      <4>2. Begin(file.blocks, b) \in Nat
        BY <1>1, <4>1, OwnPlace
      <4>3. QED
        BY <4>1, <4>2
    <3>3. QED
      BY <3>1, <3>2
  <2>2. PartEnd(file.blocks, 0) = 0
    BY <1>4 DEF StreamLaid
  <2>3. HeaderState(file, sd, 0)
    <3>1. UnitOf(file.blocks, 0) = None
      BY <1>4, UnitOfZero
    <3>2. QED
      BY <1>3, <3>1 DEF HeaderState, Past
  <2> HIDE DEF c
  <2>4. QED
    BY <1>2, <1>3, <2>1, <2>2, <2>3 DEF Standing, c
<1>8. Looking(file, filepos, lostsync)
  <2>1. 0 \in Looked(file.blocks, file.cells)
    BY <1>4, LookedFacts DEF LookedClosed
  <2>2. QED
    BY <1>2, <2>1 DEF Looking
<1>9. Noted(file, want)
  BY <1>2 DEF Noted
<1>10. Control(got, lostsync, pc, ret)
  BY <1>2 DEF Control
<1>11. ES!Init
  <2>1. file.units \subseteq DOMAIN file.stream
    <3>1. file.units = {FirstOf(file.blocks, b) : b \in Beginnings(file.blocks)}
      BY <1>1 DEF FileFacts
    <3>2. \A b \in Beginnings(file.blocks) : FirstOf(file.blocks, b) \in 1 .. Len(file.stream)
      BY <1>1, UnitsInOrder
    <3>3. DOMAIN file.stream = 1 .. Len(file.stream)
      BY <1>1, FileLaid
    <3>4. QED
      BY <3>1, <3>2, <3>3
  <2>2. QED
    BY <1>2, <1>3, <2>1 DEF ES!Init
<1>12. QED
  BY <1>1, <1>2, <1>6, <1>7, <1>8, <1>9, <1>10, <1>11 DEF IInv

-----------------------------------------------------------------------------
(* Steps of the readers: with and without bytes of the stream.             *)
LEMMA ReadStep ==
  ASSUME IInv, NEW new, Read(new), filepos' \in Nat,
         ReadOK(file, filepos', sd, new, last),
         Looking(file, filepos', lostsync'), Control(got', lostsync', pc', ret')
  PROVE  IInv' /\ ESStep
<1>1. sd' = new /\ last' = LastIs(file, sd, new, last) /\ file' = file /\ want' = want
  BY DEF Read, LastIs
<1>2. /\ Standing(file, filepos', new, last') /\ Holding(file, new, last')
      /\ \/ new.data = sd.data /\ last' = last
         \/ Delivers(file, sd.data, last, new.data, last')
  BY <1>1 DEF ReadOK
<1>3. IInv'
  BY <1>1, <1>2 DEF IInv
<1>4. CASE new.data = sd.data /\ last' = last
  BY <1>1, <1>3, <1>4 DEF ESStep, ES!vars
<1>5. CASE Delivers(file, sd.data, last, new.data, last')
  BY <1>1, <1>3, <1>5 DEF ESStep, ES!Next, ES!Deliver, Delivers
<1>6. QED
  BY <1>2, <1>3, <1>4, <1>5

LEMMA UnreadStep ==
  ASSUME IInv, Unread, filepos' \in Nat, Standing(file, filepos', sd, last),
         Looking(file, filepos', lostsync'), Control(got', lostsync', pc', ret')
  PROVE  IInv' /\ ESStep
<1>1. sd' = sd /\ last' = last /\ file' = file /\ want' = want
  BY DEF Unread
<1>2. IInv'
  BY <1>1 DEF IInv
<1>3. ESStep
  BY <1>1 DEF ESStep, ES!vars
<1>4. QED
  BY <1>2, <1>3

LEMMA ReturnControl ==
  ASSUME NEW n \in Nat, Return(n)
  PROVE  Control(got', lostsync', pc', ret') /\ ~lostsync'
BY DEF Return, Control

LEMMA GoOnControl ==
  ASSUME IInv, GoOn, UNCHANGED local
  PROVE  Control(got', lostsync', pc', ret') /\ lostsync' = lostsync
BY DEF IInv, GoOn, local, Control

-----------------------------------------------------------------------------
(* A transport stream.                                                     *)
LEMMA AtPacketFacts ==
  ASSUME IInv, file.ts, AtPacket
  PROVE  /\ pc = "reading" /\ lostsync = FALSE
         /\ filepos \in 0 .. Len(file.cells) - 1 /\ Len(file.cells) \in Nat
         /\ filepos' = filepos + PacketSize /\ filepos' \in Nat
         /\ filepos' <= Len(file.cells) /\ filepos <= filepos'
         /\ filepos \in Looked(file.blocks, file.cells)
         /\ LooksLikePacket(file.cells, filepos)
         /\ Looking(file, filepos', FALSE)
<1>1. FileFacts(file) /\ filepos \in Nat /\ filepos \in Looked(file.blocks, file.cells)
      /\ lostsync \in BOOLEAN
  BY DEF IInv, Looking, Control
<1>2. Len(file.cells) \in Nat
  BY <1>1, FileLaid
<1>3. PacketSize \in Nat /\ PacketSize > 0
  BY TsFileAssumption
<1>4. /\ pc = "reading" /\ lostsync = FALSE /\ filepos' = filepos + PacketSize
      /\ Len(file.cells) - filepos >= PacketSize /\ file.cells[filepos + 1].sync
  BY <1>1 DEF AtPacket, Left, InSync, Cell
<1>5. /\ filepos \in 0 .. Len(file.cells) - 1 /\ filepos + PacketSize <= Len(file.cells)
      /\ filepos + PacketSize \in Nat /\ filepos <= filepos + PacketSize
  BY <1>1, <1>2, <1>3, <1>4
<1>6. LooksLikePacket(file.cells, filepos)
  BY <1>4, <1>5 DEF LooksLikePacket
<1>7. filepos + PacketSize \in Looked(file.blocks, file.cells)
  BY <1>1, <1>2, <1>6, LookedFacts DEF LookedClosed
<1>8. Looking(file, filepos', FALSE)
  BY <1>4, <1>7 DEF Looking
<1>9. QED
  BY <1>1, <1>2, <1>4, <1>5, <1>6, <1>8

LEMMA OwnPacketFacts ==
  ASSUME IInv, file.ts, OwnPacket,
         NEW b, b = Cell(filepos).block
  PROVE  /\ AtOwn(file, b, filepos, sd, last, LastOwn(file.blocks, filepos))
         /\ filepos' = filepos + SizeOf(file.blocks, b)
         /\ b \in Own(file.blocks) /\ b \in 1 .. Len(file.blocks)
<1>1. AtPacket /\ Block.own /\ Cell(filepos).nr = 1
  BY DEF OwnPacket
<1>2. FileFacts(file) /\ Standing(file, filepos, sd, last)
  BY DEF IInv
<1>3. filepos \in 0 .. Len(file.cells) - 1 /\ filepos' = filepos + PacketSize
  BY <1>1, AtPacketFacts
<1>4. b = file.cells[filepos + 1].block /\ file.cells[filepos + 1].nr = 1
  BY <1>1 DEF Cell
<1>5. b \in 1 .. Len(file.blocks) /\ Begin(file.blocks, b) = filepos
  BY <1>2, <1>3, <1>4, OwnBeginsIs
<1>6. b \in Own(file.blocks)
  <2>1. DOMAIN file.blocks = 1 .. Len(file.blocks)
    BY <1>2, FileLaid
  <2>2. QED
    BY <1>1, <1>5, <2>1 DEF Own, Block
<1>7. SizeOf(file.blocks, b) = PacketSize
  BY <1>2, <1>6, OwnPlace
<1>8. AtOwn(file, b, filepos, sd, last, LastOwn(file.blocks, filepos))
  BY <1>2, <1>5, <1>6, AtOwnFacts
<1>9. QED
  BY <1>3, <1>5, <1>6, <1>7, <1>8

LEMMA TsStep ==
  ASSUME IInv, file.ts, TsStreamReader
  PROVE  IInv' /\ ESStep
<1>1. /\ FileFacts(file) /\ filepos \in Nat /\ Holding(file, sd, last) /\ last \in Nat
      /\ Standing(file, filepos, sd, last) /\ got \in Nat /\ Looking(file, filepos, lostsync)
      /\ Control(got, lostsync, pc, ret)
  BY DEF IInv, Holding, InStream, Control
<1>2. Len(file.cells) \in Nat /\ Len(file.blocks) \in Nat
      /\ file.blocks \in Seq(BlockTypes)
  BY <1>1, FileLaid
<1>3. filepos \in Looked(file.blocks, file.cells)
  BY <1>1 DEF Looking
<1> DEFINE b == Cell(filepos).block
           c == LastOwn(file.blocks, filepos)
<1>4. ASSUME OwnPacket
      PROVE  /\ AtOwn(file, b, filepos, sd, last, c)
             /\ filepos' = filepos + SizeOf(file.blocks, b) /\ filepos' \in Nat
             /\ b \in Own(file.blocks) /\ b \in 1 .. Len(file.blocks)
             /\ Looking(file, filepos', FALSE) /\ lostsync = FALSE
             /\ Block = file.blocks[b] /\ Payload = BlockPayload(file.blocks, b)
             /\ Header = HeaderAfter(sd, file.blocks, b)
  <2>1. AtPacket
    BY <1>4 DEF OwnPacket
  <2>2. Block = file.blocks[b] /\ Payload = BlockPayload(file.blocks, b)
    BY DEF Block, Payload
  <2>3. Header = HeaderAfter(sd, file.blocks, b)
    BY <2>2 DEF Header, HeaderAfter
  <2>4. /\ AtOwn(file, b, filepos, sd, last, c)
        /\ filepos' = filepos + SizeOf(file.blocks, b)
        /\ b \in Own(file.blocks) /\ b \in 1 .. Len(file.blocks)
    BY <1>4, OwnPacketFacts
  <2>5. filepos' \in Nat /\ Looking(file, filepos', FALSE) /\ lostsync = FALSE
    BY <2>1, AtPacketFacts
  <2>6. QED
    BY <2>2, <2>3, <2>4, <2>5
<1> HIDE DEF b, c
<1>5. CASE TsAtEnd
  <2>1. Return(got) /\ filepos' = filepos /\ Unread
    BY <1>5 DEF TsAtEnd
  <2>2. Control(got', lostsync', pc', ret') /\ ~lostsync'
    BY <1>1, <2>1, ReturnControl
  <2>3. Looking(file, filepos', lostsync')
    BY <1>3, <2>1, <2>2 DEF Looking
  <2>4. QED
    BY <1>1, <2>1, <2>2, <2>3, UnreadStep
<1>6. CASE TsSearch
  <2>1. /\ pc = "reading" /\ Len(file.cells) - filepos >= PacketSize
        /\ lostsync \/ ~file.cells[filepos + 1].sync
        /\ Unread
    BY <1>6 DEF TsSearch, Left, InSync, Cell
  <2>2. CASE Left < Window
    <3>1. Return(got) /\ filepos' = filepos
      BY <1>6, <2>2 DEF TsSearch
    <3>2. Control(got', lostsync', pc', ret') /\ ~lostsync'
      BY <1>1, <3>1, ReturnControl
    <3>3. Looking(file, filepos', lostsync')
      BY <1>3, <3>1, <3>2 DEF Looking
    <3>4. QED
      BY <1>1, <2>1, <3>1, <3>2, <3>3, UnreadStep
  <2>3. CASE ~(Left < Window)
    <3> DEFINE e == SearchEnds(file.cells, filepos)
               places == Looked(file.blocks, file.cells)
    <3>1. /\ filepos' = filepos + e /\ lostsync' = (e = Search) /\ GoOn /\ got' = got
      BY <1>6, <2>3 DEF TsSearch, SearchEnds, Searched, Found
    <3>2. e \in 0 .. Search /\ Search \in Nat /\ Search <= Window
      BY SearchEndsFacts
    <3>3. Window \in Nat /\ Window > 0
      BY TsFileAssumption
    <3>4. filepos + Window <= Len(file.cells)
      BY <1>1, <1>2, <2>3, <3>3 DEF Left
    <3>5. filepos < Len(file.cells)
      BY <1>1, <1>2, <3>3, <3>4
    <3>6. MaySearch(file.cells, places, filepos)
      BY <1>1, <2>1, <3>4 DEF MaySearch, Looking
    <3>7. MayPass(file.blocks, file.cells, filepos, filepos + e)
      <4>1. Recognised(file.blocks, file.cells)
        BY <1>1 DEF FileFacts
      <4>2. QED
        BY <1>3, <3>5, <3>6, <4>1 DEF Recognised
    <3>8. filepos + e \in places
      BY <1>2, <1>3, <3>6, LookedFacts DEF LookedClosed
    <3> HIDE DEF e, places
    <3>9. filepos + e \in Nat /\ filepos <= filepos + e /\ filepos + e <= Len(file.cells)
          /\ (filepos + e) - e = filepos
      BY <1>1, <1>2, <3>2, <3>3, <3>4
    <3>10. Standing(file, filepos', sd, last)
      BY <1>1, <3>1, <3>7, <3>9, StandingPassed
    <3>11. Looking(file, filepos', lostsync')
      <4>1. lostsync' => filepos' - Search = filepos /\ e = Search
        BY <3>1, <3>9
      <4>2. QED
        BY <1>3, <3>1, <3>8, <4>1 DEF Looking, e, places
    <3>12. Control(got', lostsync', pc', ret')
      BY <1>1, <2>1, <3>1 DEF Control, GoOn
    <3>13. QED
      BY <2>1, <3>1, <3>9, <3>10, <3>11, <3>12, UnreadStep
  <2>4. QED
    BY <2>2, <2>3
<1>7. CASE TsSkip
  <2>1. AtPacket /\ ~(Block.own /\ Cell(filepos).nr = 1) /\ GoOn /\ UNCHANGED local /\ Unread
    BY <1>7 DEF TsSkip
  <2>2. /\ lostsync = FALSE /\ filepos \in 0 .. Len(file.cells) - 1
        /\ filepos' = filepos + PacketSize /\ filepos' \in Nat
        /\ filepos' <= Len(file.cells) /\ filepos <= filepos'
        /\ LooksLikePacket(file.cells, filepos) /\ Looking(file, filepos', FALSE)
    BY <2>1, AtPacketFacts
  <2>3. ~OwnBegins(file.blocks, file.cells, filepos)
    BY <2>1 DEF OwnBegins, Block, Cell
  <2>4. MayPass(file.blocks, file.cells, filepos, filepos')
    <3>1. Recognised(file.blocks, file.cells) /\ filepos < Len(file.cells)
      BY <1>1, <1>2, <2>2 DEF FileFacts
    <3>2. QED
      BY <1>3, <2>2, <2>3, <3>1 DEF Recognised
  <2>5. Standing(file, filepos', sd, last)
    BY <1>1, <2>2, <2>4, StandingPassed
  <2>6. Control(got', lostsync', pc', ret') /\ lostsync' = lostsync
    BY <2>1, GoOnControl
  <2>7. QED
    BY <2>1, <2>2, <2>5, <2>6, UnreadStep
<1>8. CASE TsContinue
  <2>1. /\ OwnPacket /\ Header = << >> /\ Read(AppendToItem(sd, Payload))
        /\ got' = got + (IF sd.items = << >> THEN 0 ELSE Len(Payload))
        /\ GoOn /\ lostsync' = lostsync
    BY <1>8 DEF TsContinue
  <2>2. ReadOK(file, filepos', sd, AppendToItem(sd, Payload), last)
    BY <1>1, <1>4, <2>1, ContinueRead
  <2>3. Len(Payload) \in Nat
    BY <1>2, <1>4, <2>1, PayloadFacts
  <2>4. Control(got', lostsync', pc', ret')
    BY <1>1, <2>1, <2>3 DEF Control, GoOn
  <2>5. QED
    BY <1>4, <2>1, <2>2, <2>4, ReadStep
<1> DEFINE h == Header
           g == Gathered(file, sd, b, filepos, h)
<1>9. OwnPacket => Collected = g /\ UnitBlock = file.blocks[h[1][1]]
  BY <1>4 DEF Collected, UnitBlock, Gathered, WithHeader
<1>10. CASE TsCollect
  <2>1. /\ OwnPacket /\ h # << >>
        /\ Len(h) < MinHeader \/ (UnitBlock.good /\ Len(h) < UnitBlock.hl)
        /\ Read(Collected) /\ GoOn /\ UNCHANGED local
    BY <1>10 DEF TsCollect
  <2>2. ReadOK(file, filepos', sd, g, last)
    BY <1>1, <1>4, <1>9, <2>1, CollectRead
  <2>3. Control(got', lostsync', pc', ret') /\ lostsync' = lostsync
    BY <2>1, GoOnControl
  <2>4. QED
    BY <1>4, <1>9, <2>1, <2>2, <2>3, ReadStep
<1>11. OwnPacket /\ Len(h) >= MinHeader => h # << >>
  <2>1. MinHeader \in Nat /\ MinHeader > 0
    BY RecordingAssumption
  <2>2. h = << >> => Len(h) = 0
    OBVIOUS
  <2>3. QED
    BY <2>1, <2>2
<1>12. CASE TsBadHeader
  <2>1. /\ OwnPacket /\ Len(h) >= MinHeader /\ ~UnitBlock.good
        /\ Read([Collected EXCEPT !.header = << >>]) /\ GoOn /\ UNCHANGED local
    BY <1>12 DEF TsBadHeader
  <2>2. [Collected EXCEPT !.header = << >>] = Dropped(g)
    BY <1>9, <2>1 DEF Dropped
  <2>3. ReadOK(file, filepos', sd, Dropped(g), last)
    BY <1>1, <1>4, <1>9, <1>11, <2>1, BadHeaderRead
  <2>4. Control(got', lostsync', pc', ret') /\ lostsync' = lostsync
    BY <2>1, GoOnControl
  <2>5. QED
    BY <1>4, <2>1, <2>2, <2>3, <2>4, ReadStep
<1>13. CASE TsUnit
  <2> DEFINE u == file.blocks[h[1][1]]
             d == SubSeq(h, u.hl + 1, Len(h))
             t == AppendItem(Dropped(g), g.nextfilepos, u.pts, d)
  <2>1. /\ OwnPacket /\ Len(h) >= MinHeader /\ u.good /\ Len(h) >= u.hl
        /\ Read(t) /\ Return(got + Len(d))
    BY <1>9, <1>13 DEF TsUnit, Dropped
  <2>7. PICK k : k = h
    OBVIOUS
  <2>8. /\ AtOwn(file, b, filepos, sd, last, c) /\ b \in Own(file.blocks)
        /\ b \in 1 .. Len(file.blocks)
        /\ filepos' = filepos + SizeOf(file.blocks, b) /\ filepos' \in Nat
        /\ Looking(file, filepos', FALSE) /\ k = HeaderAfter(sd, file.blocks, b)
    BY <1>4, <2>1, <2>7
  <2>9. /\ k # << >> /\ file.blocks[k[1][1]].good
        /\ Len(k) >= file.blocks[k[1][1]].hl
    BY <1>11, <2>1, <2>7
  <2> DEFINE w == AppendItem(Dropped(Gathered(file, sd, b, filepos, k)),
                             Gathered(file, sd, b, filepos, k).nextfilepos,
                             file.blocks[k[1][1]].pts,
                             SubSeq(k, file.blocks[k[1][1]].hl + 1, Len(k)))
             e == SubSeq(k, file.blocks[k[1][1]].hl + 1, Len(k))
  <2>10. Read(w) /\ Return(got + Len(e))
    BY <2>1, <2>7
  <2> HIDE DEF h, g, t, d, u
  <2>2. ReadOK(file, filepos', sd, w, last)
    BY <1>1, <2>8, <2>9, UnitRead
  <2> HIDE DEF w
  <2>3. Len(e) \in Nat
    <3>1. Growing(file, sd, b, k)
      BY <1>1, <2>8, <2>9, GatheredFacts
    <3>2. e = Carries(file.blocks, b)
      BY <1>1, <2>8, <2>9, <3>1, WholeHeader
    <3> HIDE DEF e
    <3>3. QED
      BY <1>2, <2>8, <3>2, CarriesFacts, EmptyIs
  <2> HIDE DEF e
  <2>4. Control(got', lostsync', pc', ret') /\ ~lostsync'
    <3>1. got + Len(e) \in Nat
      BY <1>1, <2>3
    <3>2. QED
      BY <2>10, <3>1, ReturnControl
  <2>5. lostsync' = FALSE
    BY <2>4 DEF Control
  <2>6. QED
    BY <2>2, <2>4, <2>5, <2>8, <2>10, ReadStep
<1>14. QED
  BY <1>5, <1>6, <1>7, <1>8, <1>10, <1>12, <1>13 DEF TsStreamReader

(* A program stream: whatever is passed over, no packet of the stream      *)
(* begins in it.                                                           *)
LEMMA NoneBeginsAt ==
  ASSUME NEW f, FileFacts(f), NEW n \in 0 .. Len(f.cells) - 1,
         ~(f.cells[n + 1].sync /\ f.cells[n + 1].nr = 1)
  PROVE  NoneBegins(f.blocks, f.cells, n, n + 1)
<1>1. ~OwnBegins(f.blocks, f.cells, n)
  <2> SUFFICES ASSUME OwnBegins(f.blocks, f.cells, n)
               PROVE  FALSE
    OBVIOUS
  <2>1. PICK b \in Own(f.blocks) : Begin(f.blocks, b) = n
    BY OwnBeginsIs
  <2>2. f.cells[n + 1].sync /\ f.cells[n + 1].nr = 1
    BY <2>1, OwnPlace
  <2>3. QED
    BY <2>2
<1>2. Len(f.cells) \in Nat
  BY FileLaid
<1>3. \A m \in n .. (n + 1) - 1 : m = n
  BY <1>2
<1>4. QED
  BY <1>1, <1>3 DEF NoneBegins

LEMMA NoneBeginsIn ==
  ASSUME NEW f, FileFacts(f), NEW n \in 0 .. Len(f.cells) - 1, f.cells[n + 1].nr = 1,
         NEW b, b = f.cells[n + 1].block, b \notin Own(f.blocks)
  PROVE  /\ NoneBegins(f.blocks, f.cells, n, n + SizeOf(f.blocks, b))
         /\ n + SizeOf(f.blocks, b) \in Nat /\ n <= n + SizeOf(f.blocks, b)
         /\ n + SizeOf(f.blocks, b) <= Len(f.cells)
<1> DEFINE bl == f.blocks
           z == SizeOf(bl, b)
<1>1. CellsLaid(bl, f.cells) /\ Len(bl) \in Nat /\ Len(f.cells) \in Nat
  BY FileLaid
<1>2. b \in 1 .. Len(bl) /\ Begin(bl, b) = n
  BY OwnBeginsIs
<1>3. z \in Nat /\ n \in Nat /\ n + z <= Len(f.cells)
      /\ \A d \in b + 1 .. Len(bl) : n + z <= Begin(bl, d)
  BY <1>1, <1>2 DEF CellsLaid
<1> HIDE DEF z
<1>4. ASSUME NEW m \in n .. (n + z) - 1, OwnBegins(bl, f.cells, m)
      PROVE  FALSE
  <2>1. m \in 0 .. Len(f.cells) - 1 /\ m \in Nat
    BY <1>1, <1>3
  <2>2. PICK d \in Own(bl) : Begin(bl, d) = m
    BY <1>4, <2>1, OwnBeginsIs
  <2>3. d \in 1 .. Len(bl) /\ d # b
    BY <2>2, OwnPlace
  <2>4. CASE d < b
    <3>1. b \in d + 1 .. Len(bl)
      BY <1>1, <1>2, <2>3, <2>4
    <3>2. Begin(bl, d) + SizeOf(bl, d) <= Begin(bl, b)
      BY <1>1, <2>3, <3>1 DEF CellsLaid
    <3>3. SizeOf(bl, d) \in Nat /\ SizeOf(bl, d) > 0
      BY <2>2, OwnPlace
    <3>4. m + SizeOf(bl, d) <= n
      BY <1>2, <2>2, <3>2
    <3>5. QED
      BY <1>3, <2>1, <3>3, <3>4
  <2>5. CASE b < d
    <3>1. d \in b + 1 .. Len(bl)
      BY <1>1, <1>2, <2>3, <2>5
    <3>2. n + z <= m
      BY <1>3, <2>2, <3>1
    <3>3. QED
      BY <1>3, <2>1, <3>2
  <2>6. QED
    BY <1>2, <2>3, <2>4, <2>5
<1>5. NoneBegins(bl, f.cells, n, n + z)
  BY <1>4 DEF NoneBegins
<1>6. n + z \in Nat /\ n <= n + z /\ n + z <= Len(f.cells)
  BY <1>3
<1>7. QED
  BY <1>5, <1>6 DEF z

LEMMA PsStep ==
  ASSUME IInv, ~file.ts, PsStreamReader
  PROVE  IInv' /\ ESStep
<1>1. /\ FileFacts(file) /\ filepos \in Nat /\ Holding(file, sd, last) /\ last \in Nat
      /\ Standing(file, filepos, sd, last) /\ got \in Nat
      /\ Control(got, lostsync, pc, ret)
  BY DEF IInv, Holding, InStream, Control
<1>2. Len(file.cells) \in Nat /\ Len(file.blocks) \in Nat
      /\ file.blocks \in Seq(BlockTypes) /\ DOMAIN file.blocks = 1 .. Len(file.blocks)
  BY <1>1, FileLaid
<1>3. MinBytes \in Nat /\ MinBytes > 0
  BY PsFileAssumption
<1>4. Left >= MinBytes => filepos \in 0 .. Len(file.cells) - 1 /\ filepos + 1 <= Len(file.cells)
  BY <1>1, <1>2, <1>3 DEF Left
<1>5. Looking(file, filepos', lostsync') /\ Looking(file, filepos, lostsync')
  <2>1. file.ts = FALSE
    BY <1>1 DEF FileFacts
  <2>2. QED
    BY <2>1 DEF Looking
<1> DEFINE b == Cell(filepos).block
           c == LastOwn(file.blocks, filepos)
<1>6. ASSUME AtWhole
      PROVE  /\ filepos \in 0 .. Len(file.cells) - 1
             /\ file.cells[filepos + 1].nr = 1 /\ b = file.cells[filepos + 1].block
             /\ filepos' = filepos + SizeOf(file.blocks, b)
             /\ b \in 1 .. Len(file.blocks) /\ Begin(file.blocks, b) = filepos
             /\ Block = file.blocks[b] /\ Payload = BlockPayload(file.blocks, b)
  <2>1. /\ Left >= MinBytes /\ AtStart /\ filepos' = filepos + Size
    BY <1>6 DEF AtWhole, PsMoved
  <2>2. filepos \in 0 .. Len(file.cells) - 1
    BY <1>4, <2>1
  <2>3. file.cells[filepos + 1].nr = 1 /\ b = file.cells[filepos + 1].block
    BY <2>1 DEF AtStart, Cell
  <2>4. b \in 1 .. Len(file.blocks) /\ Begin(file.blocks, b) = filepos
    BY <1>1, <2>2, <2>3, OwnBeginsIs
  <2>5. Size = SizeOf(file.blocks, b)
    BY DEF Size, SizeOf, Block
  <2>6. Block = file.blocks[b] /\ Payload = BlockPayload(file.blocks, b)
    BY DEF Block, Payload
  <2>7. QED
    BY <2>1, <2>2, <2>3, <2>4, <2>5, <2>6
<1> HIDE DEF b, c
<1>7. ASSUME AtWhole, Block.own
      PROVE  /\ AtOwn(file, b, filepos, sd, last, c) /\ b \in Own(file.blocks)
             /\ filepos' \in Nat
  <2>1. b \in Own(file.blocks)
    BY <1>2, <1>6, <1>7 DEF Own
  <2>2. AtOwn(file, b, filepos, sd, last, c)
    BY <1>1, <1>6, <1>7, <2>1, AtOwnFacts DEF c
  <2>3. SizeOf(file.blocks, b) \in Nat
    BY <1>1, <2>1, OwnPlace
  <2>4. filepos' \in Nat
    BY <1>1, <1>6, <1>7, <2>3
  <2>5. QED
    BY <2>1, <2>2, <2>4
<1>8. CASE PsAtEnd
  <2>1. Return(0) /\ filepos' = filepos /\ Unread
    BY <1>8 DEF PsAtEnd
  <2>2. 0 \in Nat
    OBVIOUS
  <2>3. Control(got', lostsync', pc', ret')
    BY <2>1, <2>2, ReturnControl
  <2>4. QED
    BY <1>1, <1>5, <2>1, <2>3, UnreadStep
<1>9. CASE PsRubbish
  <2>1. /\ Left >= MinBytes /\ ~AtStart /\ filepos' = filepos + 1 /\ GoOn
        /\ UNCHANGED local /\ Unread
    BY <1>9 DEF PsRubbish, PsMoved
  <2>2. filepos \in 0 .. Len(file.cells) - 1 /\ filepos + 1 <= Len(file.cells)
    BY <1>4, <2>1
  <2>3. ~(file.cells[filepos + 1].sync /\ file.cells[filepos + 1].nr = 1)
    BY <2>1 DEF AtStart, Cell
  <2>4. NoneBegins(file.blocks, file.cells, filepos, filepos + 1)
    BY <1>1, <2>2, <2>3, NoneBeginsAt
  <2>5. filepos + 1 \in Nat /\ filepos <= filepos + 1
    BY <1>1
  <2>6. Standing(file, filepos', sd, last)
    BY <1>1, <2>1, <2>2, <2>4, <2>5, StandingPassed DEF MayPass
  <2>7. Control(got', lostsync', pc', ret')
    BY <2>1, GoOnControl
  <2>8. QED
    BY <1>5, <2>1, <2>5, <2>6, <2>7, UnreadStep
<1>10. CASE PsSkip
  <2>1. AtWhole /\ ~(Block.own /\ Block.len > Block.hl) /\ GoOn /\ UNCHANGED local /\ Unread
    BY <1>10 DEF PsSkip
  <2>2. Control(got', lostsync', pc', ret')
    BY <2>1, GoOnControl
  <2>3. CASE Block.own
    <3>1. ReadOK(file, filepos', sd, sd, last)
      BY <1>1, <1>6, <1>7, <2>1, <2>3, ProgramRead
    <3>2. Read(sd)
      <4>1. Len(sd.data) \in Nat
        <5>1. Buffered(sd)
          BY <1>1 DEF Holding, BufferOK
        <5>2. QED
          BY <5>1, BufferedTypes
      <4>2. ~(Len(sd.data) > Len(sd.data))
        BY <4>1
      <4>3. QED
        BY <2>1, <4>2 DEF Read, Unread
    <3>3. QED
      BY <1>5, <1>7, <2>1, <2>2, <2>3, <3>1, <3>2, ReadStep
  <2>4. CASE ~Block.own
    <3>1. b \notin Own(file.blocks)
      BY <1>6, <2>1, <2>4 DEF Own
    <3>2. /\ NoneBegins(file.blocks, file.cells, filepos, filepos')
          /\ filepos' \in Nat /\ filepos <= filepos' /\ filepos' <= Len(file.cells)
      BY <1>1, <1>6, <2>1, <3>1, NoneBeginsIn
    <3>3. Standing(file, filepos', sd, last)
      BY <1>1, <3>2, StandingPassed DEF MayPass
    <3>4. QED
      BY <1>5, <2>1, <2>2, <3>2, <3>3, UnreadStep
  <2>5. QED
    BY <2>3, <2>4
<1>11. CASE PsPacket
  <2> DEFINE d == SubSeq(Payload, Block.hl + 1, Block.len)
             t == AppendItem(sd, filepos, Block.pts, d)
  <2>1. AtWhole /\ Block.own /\ Block.len > Block.hl /\ Read(t) /\ Return(Len(d))
    BY <1>11 DEF PsPacket
  <2>2. ReadOK(file, filepos', sd, t, last)
    BY <1>1, <1>6, <1>7, <2>1, ProgramRead
  <2>3. Len(d) \in Nat
    <3>1. d = Carries(file.blocks, b)
      BY <1>1, <1>6, <1>7, <2>1, ProgramPacket
    <3>2. Carries(file.blocks, b) \in Seq(Bytes)
      BY <1>2, <1>6, <2>1, CarriesFacts
    <3> HIDE DEF d
    <3>3. Len(Carries(file.blocks, b)) \in Nat
      BY <3>2, EmptyIs
    <3>4. QED
      BY <3>1, <3>3
  <2> HIDE DEF d
  <2>4. Control(got', lostsync', pc', ret')
    BY <2>1, <2>3, ReturnControl
  <2>5. QED
    BY <1>5, <1>7, <2>1, <2>2, <2>4, ReadStep
<1>12. QED
  BY <1>8, <1>9, <1>10, <1>11 DEF PsStreamReader

-----------------------------------------------------------------------------
(* Those who use the streams.                                              *)
LEMMA UseStep ==
  ASSUME IInv, NEW new, Using(new), BufferOK(new),
         new.header = sd.header, new.nextfilepos = sd.nextfilepos,
         NEW k \in Nat, new.data = SubSeq(sd.data, k + 1, Len(sd.data)),
         file.audio => AllTimed(new) /\ Sounding(file, new, last),
         ~file.audio => ItemsTell(file, new, last), Noted(file, want')
  PROVE  IInv' /\ ESStep
<1>1. /\ FileFacts(file) /\ Holding(file, sd, last) /\ last \in Nat
      /\ Standing(file, filepos, sd, last)
  BY DEF IInv, Holding, InStream
<1>2. /\ sd' = new /\ file' = file /\ filepos' = filepos /\ pc' = pc
      /\ got' = got /\ lostsync' = lostsync /\ ret' = ret /\ last' = last
  BY DEF Using, local
<1>3. /\ Standing(file, filepos, new, last) /\ Holding(file, new, last)
      /\ new.data = sd.data \/ Takes(sd.data, new.data)
  BY <1>1, StillHolding
<1>4. IInv'
  BY <1>2, <1>3 DEF IInv
<1>5. CASE new.data = sd.data
  BY <1>2, <1>4, <1>5 DEF ESStep, ES!vars
<1>6. CASE Takes(sd.data, new.data)
  BY <1>2, <1>4, <1>6 DEF ESStep, ES!Next, ES!Take, Takes
<1>7. QED
  BY <1>3, <1>5, <1>6

LEMMA DiscardStep ==
  ASSUME IInv, ~file.audio, NEW n \in Nat, Using(Discard(sd, n)), UNCHANGED want
  PROVE  IInv' /\ ESStep
<1> DEFINE t == Discard(sd, n)
<1>1. /\ FileFacts(file) /\ last \in Nat /\ BufferOK(sd) /\ ItemsTell(file, sd, last)
      /\ Len(sd.data) <= last /\ Noted(file, want')
  BY DEF IInv, Holding, InStream
<1>2. /\ BufferOK(t) /\ SameCollected(sd, t)
      /\ t.data = SubSeq(sd.data, n + 1, Len(sd.data)) /\ Moved(sd, t, n)
  BY <1>1, DiscardFacts
<1> HIDE DEF t
<1>3. ItemsTell(file, t, last)
  BY <1>1, <1>2, DiscardTells
<1>4. Using(t)
  BY DEF t
<1>5. QED
  BY <1>1, <1>2, <1>3, <1>4, UseStep DEF SameCollected

LEMMA HearStep ==
  ASSUME IInv, NEW new, Hear(new), Heard(sd, new), Sound(file, new, last)
  PROVE  IInv' /\ ESStep
<1>1. file.audio /\ Using(new) /\ want' = want
  BY DEF Hear
<1>2. Noted(file, want')
  BY <1>1 DEF IInv
<1>3. /\ BufferOK(new) /\ new.header = sd.header /\ new.nextfilepos = sd.nextfilepos
      /\ AllTimed(new) /\ Sounding(file, new, last)
  BY DEF Heard, Sound
<1>4. PICK k \in Nat : new.data = SubSeq(sd.data, k + 1, Len(sd.data))
  BY DEF Heard
<1>5. QED
  BY <1>1, <1>2, <1>3, <1>4, UseStep

LEMMA NoteStep ==
  ASSUME IInv, Note
  PROVE  IInv' /\ ESStep
<1>1. /\ ~file.audio /\ sd.items # << >>
      /\ want' = [pos |-> Position(sd.items[1]), byte |-> sd.data[1]] /\ Using(sd)
  BY DEF Note
<1>2. /\ FileFacts(file) /\ last \in Nat /\ BufferOK(sd) /\ ItemsTell(file, sd, last)
      /\ InStream(file.stream, sd.data, last)
  BY <1>1 DEF IInv, Holding, InStream
<1>3. Noted(file, want')
  BY <1>1, <1>2, NoteFacts
<1>4. sd.data = SubSeq(sd.data, 0 + 1, Len(sd.data))
  <2>1. sd.data \in Seq(Bytes)
    BY <1>2 DEF InStream
  <2>2. QED
    BY <2>1, WholeSeq
<1>5. QED
  BY <1>1, <1>2, <1>3, <1>4, UseStep

(* The new handle stands in front of the packet with which a unit begins.  *)
LEMMA SeekStep ==
  ASSUME IInv, Seek
  PROVE  IInv' /\ ESStep
<1> DEFINE bl == file.blocks
<1>1. FileFacts(file) /\ Control(got, lostsync, pc, ret) /\ Noted(file, want)
  BY DEF IInv
<1>2. /\ CellsLaid(bl, file.cells) /\ StreamLaid(bl, file.stream) /\ bl \in Seq(BlockTypes)
      /\ Len(file.cells) \in Nat /\ Len(bl) \in Nat
  BY <1>1, FileLaid
<1>3. PICK x \in file.units :
        /\ filepos' = CHOOSE c \in 0 .. Len(file.cells) - 1 :
             Cell(c).block = UnitOf(bl, file.stream[x][1]) /\ Cell(c).nr = 1
        /\ last' = x - 1
  BY DEF Seek
<1>4. /\ pc = "idle" /\ sd' = NewStream
      /\ file' = file /\ pc' = pc /\ got' = got /\ lostsync' = lostsync
      /\ ret' = ret /\ want' = want
  BY DEF Seek, local
<1>5. PICK b \in Beginnings(bl) : x = FirstOf(bl, b)
  BY <1>1 DEF FileFacts
<1> DEFINE u == UnitOf(bl, b)
           c == LastOwn(bl, Begin(bl, u))
<1>6. /\ NextOwn(bl, c, u) /\ bl[u].start /\ u \in Own(bl)
      /\ FirstOf(bl, b) - 1 = PartEnd(bl, c)
      /\ FirstOf(bl, b) - 1 \in 0 .. Len(file.stream)
  BY <1>1, SeekPlace
<1>7. file.stream[x][1] = b
  <2>1. file.stream = Stream(bl)
    BY <1>1 DEF FileFacts
  <2>2. QED
    BY <1>2, <1>5, <2>1, BeginningFacts
<1> HIDE DEF c
<1>8. filepos' = Begin(bl, u) /\ Begin(bl, u) \in 0 .. Len(file.cells) - 1
  <2> DEFINE at == Begin(bl, u)
             P(n) == Cell(n).block = u /\ Cell(n).nr = 1
  <2>1. at \in 0 .. Len(file.cells) - 1 /\ P(at)
    BY <1>1, <1>6, OwnPlace DEF Cell
  <2>2. ASSUME NEW n \in 0 .. Len(file.cells) - 1, P(n)
        PROVE  n = at
    BY <1>1, <2>2, OwnBeginsIs DEF Cell
  <2>3. filepos' = CHOOSE n \in 0 .. Len(file.cells) - 1 : P(n)
    BY <1>3, <1>7
  <2> HIDE DEF P, at
  <2>4. filepos' = at
    BY <2>1, <2>2, <2>3
  <2>5. QED
    BY <2>1, <2>4 DEF at
<1>9. /\ sd'.items = << >> /\ sd'.data = << >> /\ sd'.offset = 0 /\ sd'.header = << >>
      /\ sd' \in StreamTypes
  BY <1>4 DEF NewStream, StreamTypes
<1>10. PICK s : s = sd'
  OBVIOUS
<1>11. PICK l \in Nat : l = last' /\ l <= Len(file.stream) /\ l = PartEnd(bl, c)
  BY <1>2, <1>3, <1>5, <1>6 DEF StreamLaid
<1>12. Holding(file, s, l)
  <2>1. Len(s.items) = 0 /\ Len(s.data) = 0
    BY <1>9, <1>10
  <2>2. 0 < Half
    BY StreamDataAssumption
  <2>3. BufferOK(s)
    BY <1>9, <1>10, <2>1, <2>2 DEF BufferOK, Buffered
  <2>4. InStream(file.stream, s.data, l)
    <3>1. s.data \in Seq(Bytes)
      BY <1>9, <1>10 DEF StreamTypes
    <3>2. QED
      BY <1>11, <2>1, <3>1 DEF InStream
  <2>5. ItemsTell(file, s, l)
    BY <1>1, <1>9, <1>10, NothingTold
  <2>6. AllTimed(s) /\ Sounding(file, s, l)
    BY <2>1 DEF AllTimed, Sounding, Spaced
  <2>7. QED
    BY <1>9, <1>10, <2>3, <2>4, <2>5, <2>6 DEF Holding
<1>13. Standing(file, Begin(bl, u), s, l)
  <2>1. StartsNext(bl, c)
    <3>1. ASSUME NEW d, NextOwn(bl, c, d)
          PROVE  d = u
      <4>1. d \in Own(bl) /\ c < d /\ (d <= c \/ u <= d)
        BY <1>6, <3>1 DEF NextOwn
      <4>2. c < u /\ (u <= c \/ d <= u)
        BY <1>6, <3>1 DEF NextOwn
      <4>3. c \in 0 .. Len(bl) /\ u \in 1 .. Len(bl) /\ d \in 1 .. Len(bl)
        BY <1>1, <1>6, <4>1, PartsBetween, OwnPlace
      <4>4. QED
        BY <1>2, <4>1, <4>2, <4>3
    <3>2. QED
      BY <1>6, <3>1 DEF StartsNext
  <2>2. HeaderState(file, s, c)
    BY <1>9, <1>10, <2>1 DEF HeaderState
  <2>3. l <= l
    BY <1>11
  <2>4. QED
    BY <1>9, <1>10, <1>11, <2>2, <2>3 DEF Standing, c
<1>14. Begin(bl, u) \in Looked(bl, file.cells)
  <2>1. OwnBegins(bl, file.cells, Begin(bl, u))
    BY <1>1, <1>6, <1>8, OwnBeginsIs
  <2>2. QED
    BY <1>2, <1>8, <2>1, LookedFacts DEF LookedClosed
<1>15. Looking(file, filepos', lostsync')
  <2>1. ~lostsync'
    BY <1>1, <1>4 DEF Control
  <2>2. QED
    BY <1>8, <1>14, <2>1 DEF Looking
<1>16. IInv'
  <2>1. filepos' \in Nat
    BY <1>2, <1>8
  <2>2. Standing(file, filepos', sd', last') /\ Holding(file, sd', last')
    BY <1>8, <1>10, <1>11, <1>12, <1>13
  <2>3. QED
    BY <1>1, <1>4, <1>15, <2>1, <2>2 DEF IInv
<1>17. ES!Seek
  BY <1>3, <1>4, <1>9 DEF ES!Seek
<1>18. QED
  BY <1>16, <1>17 DEF ESStep, ES!Next

LEMMA FindStep ==
  ASSUME IInv, FindNoted
  PROVE  IInv' /\ ESStep /\ sd'.data[1] = want.byte
<1> DEFINE bp == FilePosBufferPos(sd, want.pos)
           n == bp - sd.offset
<1>1. /\ want # << >> /\ sd.items # << >> /\ sd.items[1].file <= want.pos.file
      /\ sd.offset <= bp /\ bp < EndPos(sd)
      /\ Using(Discard(sd, n)) /\ want' = want
  BY DEF FindNoted
<1>2. /\ FileFacts(file) /\ Noted(file, want) /\ last \in Nat /\ BufferOK(sd)
      /\ ~file.audio /\ ItemsTell(file, sd, last) /\ InStream(file.stream, sd.data, last)
  BY <1>1 DEF IInv, Holding, InStream, Noted
<1>3. bp \in Nat /\ sd.data[n + 1] = want.byte
  <2>1. PICK y : y = bp
    OBVIOUS
  <2>2. y = FilePosBufferPos(sd, want.pos) /\ sd.offset <= y /\ y < EndPos(sd)
    BY <1>1, <2>1
  <2> HIDE DEF bp
  <2>3. y \in Nat /\ sd.data[(y - sd.offset) + 1] = want.byte
    BY <1>1, <1>2, <2>2, NotedFound
  <2>4. QED
    BY <2>1, <2>3
<1>4. sd.data \in Seq(Bytes) /\ Len(sd.data) \in Nat /\ sd.offset \in Nat
  <2>1. Buffered(sd)
    BY <1>2 DEF BufferOK
  <2>2. QED
    BY <2>1, BufferedTypes
<1>5. n \in Nat /\ n < Len(sd.data)
  BY <1>1, <1>3, <1>4 DEF EndPos
<1> HIDE DEF n, bp
<1>6. IInv' /\ ESStep
  BY <1>1, <1>2, <1>5, DiscardStep
<1>7. sd' = Discard(sd, n)
  BY <1>1 DEF Using
<1>8. sd'.data = SubSeq(sd.data, n + 1, Len(sd.data))
  BY <1>2, <1>5, <1>7, DiscardFacts
<1>9. SubSeq(sd.data, n + 1, Len(sd.data))[1] = sd.data[n + 1]
  <2>1. 1 \in 1 .. Len(sd.data) - n
    BY <1>4, <1>5
  <2>2. QED
    BY <1>4, <1>5, <2>1, EndOf
<1>10. QED
  BY <1>3, <1>6, <1>8, <1>9

(* The items of a stream of sound stand in the order of their times.       *)
Ordered(s) ==
  \A i, j \in 1 .. Len(s.items) : i < j => s.items[i].pts <= s.items[j].pts

LEMMA SoundOrdered ==
  ASSUME NEW f, FileFacts(f), NEW s, NEW l, Sound(f, s, l)
  PROVE  Ordered(s)
<1>1. Buffered(s) /\ AllTimed(s) /\ InStream(f.stream, s.data, l) /\ Spaced(f, s, l)
  BY DEF Sound, Sounding, BufferOK
<1>2. /\ s.offset \in Nat /\ Len(s.data) \in Nat
      /\ \A i \in 1 .. Len(s.items) : s.items[i].bp \in Nat
  BY <1>1, BufferedTypes
<1>3. FrameTime \in Nat
  BY StreamDataAssumption
<1>4. ASSUME NEW i \in 1 .. Len(s.items), NEW j \in 1 .. Len(s.items), i < j
      PROVE  s.items[i].pts <= s.items[j].pts
  <2> DEFINE x == PlaceAt(s, l, s.items[i].bp)
             y == PlaceAt(s, l, s.items[j].bp)
  <2>1. /\ s.offset <= s.items[i].bp /\ s.items[i].bp < EndPos(s)
        /\ s.offset <= s.items[j].bp /\ s.items[j].bp < EndPos(s)
        /\ s.items[i].bp < s.items[j].bp
    BY <1>1, <1>4 DEF Buffered, EndPos
  <2>2. s.items[i].bp \in Nat /\ s.items[j].bp \in Nat
    BY <1>2
  <2>3. /\ x = s.items[i].bp + Shift(s, l) /\ y = s.items[j].bp + Shift(s, l)
        /\ Shift(s, l) \in Int
    BY <1>1, <2>1, <2>2, BufferPlaces
  <2>4. Apart(f, s.items[i], x, s.items[j], y)
    BY <1>1 DEF Spaced
  <2>5. s.items[i].pts \in Nat /\ s.items[j].pts \in Nat
    BY <1>1 DEF AllTimed
  <2> HIDE DEF x, y
  <2>6. x \in Int /\ y \in Int /\ x <= y /\ y <= y
    <3> DEFINE a == s.items[i].bp
               b == s.items[j].bp
               d == Shift(s, l)
    <3>1. a \in Nat /\ b \in Nat /\ d \in Int /\ a < b /\ x = a + d /\ y = b + d
      BY <2>1, <2>2, <2>3
    <3> HIDE DEF a, b, d
    <3>2. QED
      BY <3>1
  <2>7. FrameCount(f, x, y) \in Nat
    BY <2>6, StepsFacts
  <2>8. FrameCount(f, x, y) * FrameTime \in Nat
    BY <1>3, <2>7
  <2>9. s.items[i].pts + FrameCount(f, x, y) * FrameTime <= s.items[j].pts
    BY <2>4, <2>6 DEF Apart
  <2> DEFINE v == FrameCount(f, x, y) * FrameTime
  <2>10. v \in Nat /\ s.items[i].pts + v <= s.items[j].pts
    BY <2>8, <2>9
  <2> HIDE DEF v
  <2>11. QED
    BY <2>5, <2>10
<1>5. QED
  BY <1>4 DEF Ordered

(* Those with a time are all, and in the same order.                       *)
InTheirOrder(s, r, n) ==
  /\ r \in Seq(ItemTypes) /\ Len(r) = n /\ DOMAIN r = 1 .. n
  /\ \A i \in 1 .. n : r[i].pts \in Nat /\ r[i].bp \in Nat
  /\ \A i \in 1 .. n : \E k \in 1 .. Len(s.items) : r[i] = s.items[k]
  /\ \A k \in 1 .. Len(s.items) : \E i \in 1 .. n : r[i] = s.items[k]
  /\ \A i, j \in 1 .. n : i < j => r[i].bp < r[j].bp /\ r[i].pts <= r[j].pts
  /\ r[1] = s.items[1] /\ s.items[1].bp = s.offset

LEMMA TimedInOrder ==
  ASSUME NEW s, BufferOK(s), AllTimed(s), Ordered(s), s.items # << >>
  PROVE  \E n \in Nat : n > 0 /\ InTheirOrder(s, Timed(s.items), n)
<1> DEFINE r == Timed(s.items)
<1>1. PICK n \in Nat :
        /\ r \in Seq(ItemTypes) /\ Len(r) = n /\ DOMAIN r = 1 .. n
        /\ \A i \in 1 .. n : \E k \in 1 .. Len(s.items) : r[i] = s.items[k]
        /\ \A k \in 1 .. Len(s.items) : \E i \in 1 .. n : r[i] = s.items[k]
        /\ \A i, j \in 1 .. n : i < j => r[i].bp < r[j].bp
        /\ n > 0 /\ r[1] = s.items[1]
  BY TimedFacts
<1> HIDE DEF r
<1>2. /\ Buffered(s) /\ Len(s.items) \in Nat /\ s.items[1].bp = s.offset
      /\ \A k \in 1 .. Len(s.items) : s.items[k].bp \in Nat /\ s.items[k].pts \in Nat
  <2>1. Buffered(s)
    BY DEF BufferOK
  <2>2. QED
    BY <2>1, BufferedTypes DEF AllTimed, Buffered
<1>3. \A i \in 1 .. n : r[i].pts \in Nat /\ r[i].bp \in Nat
  BY <1>1, <1>2
<1>4. ASSUME NEW i \in 1 .. n, NEW j \in 1 .. n, i < j
      PROVE  r[i].bp < r[j].bp /\ r[i].pts <= r[j].pts
  <2>1. r[i].bp < r[j].bp
    BY <1>1, <1>4
  <2>2. PICK h \in 1 .. Len(s.items) : r[i] = s.items[h]
    BY <1>1
  <2>3. PICK k \in 1 .. Len(s.items) : r[j] = s.items[k]
    BY <1>1
  <2>4. h < k
    <3>1. k < h => s.items[k].bp < s.items[h].bp
      BY <1>2 DEF Buffered
    <3>2. s.items[h].bp < s.items[k].bp
      BY <2>1, <2>2, <2>3
    <3>3. s.items[h].bp \in Nat /\ s.items[k].bp \in Nat
      BY <1>2
    <3>4. h # k
      BY <3>2, <3>3
    <3>5. ~(k < h)
      BY <3>1, <3>2, <3>3
    <3>6. QED
      BY <1>2, <3>4, <3>5
  <2>5. s.items[h].pts <= s.items[k].pts
    BY <2>4 DEF Ordered
  <2>6. QED
    BY <2>1, <2>2, <2>3, <2>5
<1>5. InTheirOrder(s, r, n)
  BY <1>1, <1>2, <1>3, <1>4 DEF InTheirOrder
<1>6. QED
  BY <1>1, <1>5 DEF r

(* Where the search stops: what is in front is below the time, and if it   *)
(* is not the end, this one or the next is not.                            *)
LEMMA StopAtOrder ==
  ASSUME NEW s, NEW r, NEW n \in Nat, n > 0, InTheirOrder(s, r, n), NEW t \in Nat,
         NEW i, i = StopAt(r, t)
  PROVE  /\ i \in 1 .. n /\ r[i].pts \in Nat
         /\ 1 < i => r[i].pts < t
         /\ i < n => i + 1 \in 1 .. n /\ (t <= r[i].pts \/ t <= r[i + 1].pts)
<1> DEFINE S == {j \in DOMAIN r : \/ r[j].pts >= t \/ j = Len(r)
                                  \/ r[j + 1].pts >= t}
<1>1. /\ Len(r) = n /\ DOMAIN r = 1 .. n /\ \A j \in 1 .. n : r[j].pts \in Nat
  BY DEF InTheirOrder
<1>2. n \in S /\ S \subseteq 1 .. n /\ S \subseteq Nat /\ S # {}
  <2>1. n \in DOMAIN r /\ n = Len(r)
    BY <1>1
  <2>2. S \subseteq 1 .. n
    BY <1>1
  <2>3. n \in S
    BY <2>1
  <2> HIDE DEF S
  <2>4. QED
    BY <2>2, <2>3
<1>3. StopAt(r, t) = Min(S)
  BY DEF StopAt
<1>4. \A j \in 1 .. n : j \in S <=> (r[j].pts >= t \/ j = n \/ r[j + 1].pts >= t)
  BY <1>1
<1> HIDE DEF S
<1>5. i \in S /\ \A j \in S : i <= j
  BY <1>2, <1>3, MinFacts
<1>6. i \in 1 .. n /\ r[i].pts \in Nat
  BY <1>1, <1>2, <1>5
<1>7. ASSUME 1 < i
      PROVE  r[i].pts < t
  <2> DEFINE h == i - 1
  <2>1. h \in 1 .. n /\ h + 1 = i /\ h < i
    BY <1>6, <1>7
  <2> HIDE DEF h
  <2>2. h \notin S
    BY <1>5, <1>6, <2>1
  <2>3. ~(r[h + 1].pts >= t)
    BY <1>4, <2>1, <2>2
  <2>4. ~(r[i].pts >= t)
    BY <2>1, <2>3
  <2>5. QED
    BY <1>6, <2>4
<1>8. ASSUME i < n
      PROVE  i + 1 \in 1 .. n /\ (t <= r[i].pts \/ t <= r[i + 1].pts)
  <2>1. i + 1 \in 1 .. n
    BY <1>6, <1>8
  <2>2. r[i].pts >= t \/ r[i + 1].pts >= t
    BY <1>4, <1>5, <1>6, <1>8
  <2>3. r[i].pts \in Nat /\ r[i + 1].pts \in Nat
    BY <1>1, <1>6, <2>1
  <2>4. QED
    BY <2>1, <2>2, <2>3
<1>9. QED
  BY <1>6, <1>7, <1>8

(* The first search ends at an item that is not behind the time, nor in    *)
(* front of one nearer to it that it leaves behind ...                     *)
LEMMA StartsAtOrBefore ==
  ASSUME NEW s, BufferOK(s), AllTimed(s), Ordered(s), s.items # << >>, NEW t \in Nat
  PROVE  \E m \in 1 .. Len(s.items) :
           /\ PtsBufferPos(s, t) = s.items[m].bp
           /\ \A k \in 1 .. Len(s.items) :
                k < m => s.items[k].pts <= s.items[m].pts /\ s.items[m].pts <= t
<1> DEFINE r == Timed(s.items)
<1>1. PICK n \in Nat : n > 0 /\ InTheirOrder(s, r, n)
  BY TimedInOrder
<1> DEFINE i == StopAt(r, t)
<1>2. r # << >>
  <2>1. r \in Seq(ItemTypes) /\ Len(r) = n
    BY <1>1 DEF InTheirOrder
  <2> HIDE DEF r
  <2>2. QED
    BY <1>1, <2>1, EmptyIs
<1>3. PtsBufferPos(s, t) = IF r[i].pts < t /\ i < n /\ r[i + 1].pts = t
                             THEN r[i + 1].bp ELSE r[i].bp
  <2>1. Len(r) = n
    BY <1>1 DEF InTheirOrder
  <2>2. QED
    BY <1>2, <2>1 DEF PtsBufferPos
<1> HIDE DEF r
<1>4. /\ i \in 1 .. n /\ r[i].pts \in Nat
      /\ 1 < i => r[i].pts < t
      /\ i < n => i + 1 \in 1 .. n
  BY <1>1, StopAtOrder
<1> HIDE DEF i
<1>5. PICK h \in 1 .. n :
        PtsBufferPos(s, t) = r[h].bp /\ (1 < h => r[h].pts <= t)
  <2>1. CASE r[i].pts < t /\ i < n /\ r[i + 1].pts = t
    <3>1. i + 1 \in 1 .. n /\ PtsBufferPos(s, t) = r[i + 1].bp /\ r[i + 1].pts <= t
      BY <1>3, <1>4, <2>1
    <3>2. QED
      BY <3>1
  <2>2. CASE ~(r[i].pts < t /\ i < n /\ r[i + 1].pts = t)
    <3>1. PtsBufferPos(s, t) = r[i].bp /\ (1 < i => r[i].pts <= t)
      BY <1>3, <1>4, <2>2
    <3>2. QED
      BY <1>4, <3>1
  <2>3. QED
    BY <2>1, <2>2
<1>6. PICK m \in 1 .. Len(s.items) : r[h] = s.items[m]
  BY <1>1 DEF InTheirOrder
<1>7. ASSUME NEW k \in 1 .. Len(s.items), k < m
      PROVE  s.items[k].pts <= s.items[m].pts /\ s.items[m].pts <= t
  <2>1. PICK g \in 1 .. n : r[g] = s.items[k]
    BY <1>1 DEF InTheirOrder
  <2>2. r[g].bp < r[h].bp
    <3>1. Buffered(s)
      BY DEF BufferOK
    <3>2. s.items[k].bp < s.items[m].bp
      BY <1>7, <3>1 DEF Buffered
    <3>3. QED
      BY <1>6, <2>1, <3>2
  <2>3. g < h
    <3>1. h < g => r[h].bp < r[g].bp
      BY <1>1 DEF InTheirOrder
    <3>2. r[h].bp \in Nat /\ r[g].bp \in Nat
      BY <1>1 DEF InTheirOrder
    <3>3. QED
      BY <1>1, <2>2, <3>1, <3>2
  <2>4. r[g].pts <= r[h].pts
    BY <1>1, <2>3 DEF InTheirOrder
  <2>5. 1 < h
    BY <1>1, <2>3
  <2>6. QED
    BY <1>5, <1>6, <2>1, <2>4, <2>5
<1>8. QED
  BY <1>5, <1>6, <1>7

(* ... the second at the nearest one.                                      *)
LEMMA NearestOf ==
  ASSUME NEW a \in Nat, NEW b \in Nat, NEW t \in Nat, NEW it, NEW other,
         it.pts = a, other.pts = b, \/ b <= a /\ a <= t
                                    \/ t <= a /\ a <= b
                                    \/ b <= t /\ t <= a /\ a - t <= t - b
                                    \/ a <= t /\ t <= b /\ t - a <= b - t
  PROVE  Distance(it, t) <= Distance(other, t)
<1>1. Distance(it, t) = (IF a > t THEN a - t ELSE t - a)
  BY DEF Distance
<1>2. Distance(other, t) = (IF b > t THEN b - t ELSE t - b)
  BY DEF Distance
<1>3. (IF a > t THEN a - t ELSE t - a) <= (IF b > t THEN b - t ELSE t - b)
  OBVIOUS
<1>4. QED
  BY <1>1, <1>2, <1>3

LEMMA StartsClosest ==
  ASSUME NEW s, BufferOK(s), AllTimed(s), Ordered(s), s.items # << >>, NEW t \in Nat
  PROVE  \E m \in 1 .. Len(s.items) :
           /\ ClosestPtsBufferPos(s, t) = s.items[m].bp
           /\ \A k \in 1 .. Len(s.items) :
                Distance(s.items[m], t) <= Distance(s.items[k], t)
<1> DEFINE r == Timed(s.items)
<1>1. PICK n \in Nat : n > 0 /\ InTheirOrder(s, r, n)
  BY TimedInOrder
<1> DEFINE i == StopAt(r, t)
<1>2. r # << >>
  <2>1. r \in Seq(ItemTypes) /\ Len(r) = n
    BY <1>1 DEF InTheirOrder
  <2> HIDE DEF r
  <2>2. QED
    BY <1>1, <2>1, EmptyIs
<1>3. ClosestPtsBufferPos(s, t) =
        IF r[i].pts < t /\ i < n /\ (r[i + 1].pts = t \/ t - r[i].pts >= r[i + 1].pts - t)
          THEN r[i + 1].bp ELSE r[i].bp
  <2>1. Len(r) = n /\ r[1] = s.items[1] /\ s.items[1].bp = s.offset
    BY <1>1 DEF InTheirOrder
  <2>2. i = 1 => r[i].bp = s.offset
    BY <2>1
  <2>3. QED
    BY <1>2, <2>1, <2>2 DEF ClosestPtsBufferPos, Nearer
<1> HIDE DEF r
<1>4. /\ i \in 1 .. n /\ r[i].pts \in Nat
      /\ 1 < i => r[i].pts < t
      /\ i < n => i + 1 \in 1 .. n /\ (t <= r[i].pts \/ t <= r[i + 1].pts)
  BY <1>1, StopAtOrder
<1> HIDE DEF i
<1>5. \A g \in 1 .. n : r[g].pts \in Nat
  BY <1>1 DEF InTheirOrder
<1>6. \A g, h \in 1 .. n : g <= h => r[g].pts <= r[h].pts
  <2> TAKE g, h \in 1 .. n
  <2>1. CASE g = h
    BY <1>5, <2>1
  <2>2. CASE g < h
    BY <1>1, <2>2 DEF InTheirOrder
  <2>3. QED
    BY <1>1, <2>1, <2>2
<1>7. PICK h \in 1 .. n :
        /\ ClosestPtsBufferPos(s, t) = r[h].bp
        /\ \A g \in 1 .. n : Distance(r[h], t) <= Distance(r[g], t)
  <2>1. CASE r[i].pts < t /\ i < n
    <3> DEFINE j == i + 1
    <3>1. j \in 1 .. n /\ t <= r[j].pts /\ r[i].pts \in Nat /\ r[j].pts \in Nat
      BY <1>4, <1>5, <2>1
    <3>2. \A g \in 1 .. n : g <= i \/ j <= g
      BY <1>4
    <3>3. ClosestPtsBufferPos(s, t) =
            IF r[j].pts = t \/ t - r[i].pts >= r[j].pts - t THEN r[j].bp ELSE r[i].bp
      BY <1>3, <2>1
    <3> HIDE DEF j
    <3>4. CASE r[j].pts - t <= t - r[i].pts
      <4>1. ASSUME NEW g \in 1 .. n
            PROVE  Distance(r[j], t) <= Distance(r[g], t)
        <5>1. r[g].pts \in Nat /\ (r[g].pts <= r[i].pts \/ r[j].pts <= r[g].pts)
          BY <1>4, <1>5, <1>6, <3>1, <3>2
        <5>2. \/ t <= r[j].pts /\ r[j].pts <= r[g].pts
              \/ r[g].pts <= t /\ t <= r[j].pts /\ r[j].pts - t <= t - r[g].pts
          <6> DEFINE a == r[i].pts
                     b == r[j].pts
                     c == r[g].pts
          <6>1. /\ a \in Nat /\ b \in Nat /\ c \in Nat /\ a < t /\ t <= b
                /\ b - t <= t - a /\ (c <= a \/ b <= c)
            BY <2>1, <3>1, <3>4, <5>1
          <6> HIDE DEF a, b, c
          <6>2. (t <= b /\ b <= c) \/ (c <= t /\ t <= b /\ b - t <= t - c)
            BY <6>1
          <6>3. QED
            BY <6>2 DEF a, b, c
        <5>3. QED
          BY <3>1, <5>1, <5>2, NearestOf
      <4>2. ClosestPtsBufferPos(s, t) = r[j].bp
        BY <3>1, <3>3, <3>4
      <4>3. QED
        BY <3>1, <4>1, <4>2
    <3>5. CASE ~(r[j].pts - t <= t - r[i].pts)
      <4>1. ASSUME NEW g \in 1 .. n
            PROVE  Distance(r[i], t) <= Distance(r[g], t)
        <5>1. r[g].pts \in Nat /\ (r[g].pts <= r[i].pts \/ r[j].pts <= r[g].pts)
          BY <1>4, <1>5, <1>6, <3>1, <3>2
        <5>2. \/ r[g].pts <= r[i].pts /\ r[i].pts <= t
              \/ r[i].pts <= t /\ t <= r[g].pts /\ t - r[i].pts <= r[g].pts - t
          <6> DEFINE a == r[i].pts
                     b == r[j].pts
                     c == r[g].pts
          <6>1. /\ a \in Nat /\ b \in Nat /\ c \in Nat /\ a < t /\ t <= b
                /\ ~(b - t <= t - a) /\ (c <= a \/ b <= c)
            BY <2>1, <3>1, <3>5, <5>1
          <6> HIDE DEF a, b, c
          <6>2. (c <= a /\ a <= t) \/ (a <= t /\ t <= c /\ t - a <= c - t)
            BY <6>1
          <6>3. QED
            BY <6>2 DEF a, b, c
        <5>3. QED
          BY <3>1, <5>1, <5>2, NearestOf
      <4>2. ClosestPtsBufferPos(s, t) = r[i].bp
        BY <2>1, <3>1, <3>3, <3>5
      <4>3. QED
        BY <1>4, <4>1, <4>2
    <3>6. QED
      BY <3>4, <3>5
  <2>2. CASE ~(r[i].pts < t /\ i < n)
    <3>1. ClosestPtsBufferPos(s, t) = r[i].bp
      BY <1>3, <2>2
    <3>2. ASSUME NEW g \in 1 .. n
          PROVE  Distance(r[i], t) <= Distance(r[g], t)
      <4>1. r[g].pts \in Nat
        BY <1>5
      <4>2. CASE r[i].pts < t
        <5>1. g <= i
          BY <1>4, <2>2, <4>2
        <5>2. r[g].pts <= r[i].pts /\ r[i].pts <= t
          BY <1>4, <1>6, <4>2, <5>1
        <5>3. QED
          BY <1>4, <4>1, <5>2, NearestOf
      <4>3. CASE ~(r[i].pts < t)
        <5>1. i <= g
          BY <1>4, <4>3
        <5>2. t <= r[i].pts /\ r[i].pts <= r[g].pts
          BY <1>4, <1>6, <4>3, <5>1
        <5>3. QED
          BY <1>4, <4>1, <5>2, NearestOf
      <4>4. QED
        BY <4>2, <4>3
    <3>3. QED
      BY <1>4, <3>1, <3>2
  <2>3. QED
    BY <2>1, <2>2
<1>8. PICK m \in 1 .. Len(s.items) : r[h] = s.items[m]
  BY <1>1 DEF InTheirOrder
<1>9. ASSUME NEW k \in 1 .. Len(s.items)
      PROVE  Distance(s.items[m], t) <= Distance(s.items[k], t)
  <2>1. PICK g \in 1 .. n : r[g] = s.items[k]
    BY <1>1 DEF InTheirOrder
  <2>2. QED
    BY <1>7, <1>8, <2>1
<1>10. QED
  BY <1>7, <1>8, <1>9

(* What is left when everything in front of an item was discarded.         *)
LEMMA DiscardedUpTo ==
  ASSUME NEW s, BufferOK(s), NEW m \in 1 .. Len(s.items), NEW bp, bp = s.items[m].bp
  PROVE  LET t == Discard(s, Max({0, bp - s.offset}))
         IN  /\ t.items # << >> /\ t.items[1].pts = s.items[m].pts
             /\ \A k \in m .. Len(s.items) : \E j \in 1 .. Len(t.items) :
                  t.items[j].pts = s.items[k].pts
<1>1. /\ Buffered(s) /\ Len(s.items) \in Nat /\ s.offset \in Nat
      /\ Len(s.data) \in Nat /\ s.data \in Seq(Bytes)
      /\ \A i \in 1 .. Len(s.items) : s.items[i].bp \in Nat
  <2>1. Buffered(s)
    BY DEF BufferOK
  <2>2. QED
    BY <2>1, BufferedTypes
<1>2. bp \in Nat /\ s.offset <= bp /\ bp < s.offset + Len(s.data)
  BY <1>1 DEF Buffered
<1> DEFINE n == Max({0, bp - s.offset})
<1>3. n \in Nat /\ s.offset + n = bp /\ n < Len(s.data)
  <2> DEFINE v == bp - s.offset
  <2>1. v \in Nat /\ s.offset + v = bp /\ v < Len(s.data)
    BY <1>1, <1>2
  <2> HIDE DEF v
  <2>2. n = v
    BY <2>1, NotNegative DEF v
  <2>3. QED
    BY <2>1, <2>2
<1> HIDE DEF n
<1> DEFINE t == Discard(s, n)
<1>4. \E i \in 1 .. Len(s.items) : s.items[i].bp = s.offset + n
  BY <1>3
<1>5. Heard(s, t) /\ Whereupon(s, t, n)
  BY <1>3, <1>4, AlignedStays
<1>6. t.data = SubSeq(s.data, n + 1, Len(s.data))
  BY <1>3, DiscardFacts
<1> HIDE DEF t
<1>7. /\ Buffered(t) /\ Len(t.items) \in Nat /\ (t.items = << >> <=> Len(t.items) = 0)
      /\ (t.data = << >> <=> Len(t.data) = 0)
  <2>1. Buffered(t)
    BY <1>5 DEF Heard, BufferOK
  <2>2. QED
    BY <2>1, BufferedTypes
<1>8. t.items # << >>
  <2>1. Len(t.data) = Len(s.data) - n
    <3> DEFINE c == Len(s.data)
               d == Len(SubSeq(s.data, n + 1, c))
    <3>1. s.data \in Seq(Bytes) /\ n \in Nat /\ c \in Nat /\ n < c
      BY <1>1, <1>3
    <3>2. d = IF n <= c THEN c - n ELSE 0
      BY <3>1, EndOf
    <3>3. Len(t.data) = d
      BY <1>6
    <3> HIDE DEF c, d
    <3>4. Len(t.data) = c - n
      BY <3>1, <3>2, <3>3
    <3>5. QED
      BY <3>4 DEF c
  <2>2. Len(t.data) # 0
    BY <1>1, <1>3, <2>1
  <2>3. QED
    BY <1>7, <2>2 DEF Buffered
<1>9. PICK k \in Nat :
        /\ Len(t.items) = Len(s.items) - k /\ k + 1 \in 1 .. Len(s.items)
        /\ s.items[k + 1].bp = s.offset + n
        /\ \A j \in 1 .. Len(t.items) :
             k + j \in 1 .. Len(s.items) /\ t.items[j].pts = s.items[k + j].pts
  BY <1>5, <1>8 DEF Whereupon
<1>10. k + 1 = m
  <2> DEFINE h == k + 1
  <2>1. h \in 1 .. Len(s.items) /\ s.items[h].bp = s.items[m].bp
    BY <1>3, <1>9
  <2> HIDE DEF h
  <2>2. s.items[h].bp \in Nat /\ s.items[m].bp \in Nat
    BY <1>1, <2>1
  <2>3. /\ h < m => s.items[h].bp < s.items[m].bp
        /\ m < h => s.items[m].bp < s.items[h].bp
    BY <1>1, <2>1 DEF Buffered
  <2>4. ~(h < m) /\ ~(m < h)
    BY <2>1, <2>2, <2>3
  <2>5. QED
    BY <1>1, <2>1, <2>4 DEF h
<1>11. ASSUME NEW i \in m .. Len(s.items)
       PROVE  \E j \in 1 .. Len(t.items) : t.items[j].pts = s.items[i].pts
  <2>1. i - k \in 1 .. Len(t.items) /\ k + (i - k) = i
    BY <1>1, <1>7, <1>9, <1>10
  <2>2. PICK j \in 1 .. Len(t.items) : k + j = i
    BY <2>1
  <2>3. t.items[j].pts = s.items[i].pts
    BY <1>9, <2>2
  <2>4. QED
    BY <2>3
<1>12. t.items[1].pts = s.items[m].pts
  <2>1. 1 \in 1 .. Len(t.items)
    BY <1>7, <1>8
  <2>2. t.items[1].pts = s.items[k + 1].pts
    BY <1>9, <2>1
  <2>3. QED
    BY <1>10, <2>2
<1>13. QED
  BY <1>8, <1>11, <1>12 DEF t, n

(* An item that is reckoned anew keeps its time.                           *)
LEMMA AddPtsKeeps ==
  ASSUME NEW s, BufferOK(s), AllTimed(s), NEW i \in 1 .. Len(s.items)
  PROVE  \E j \in 1 .. Len(AudioAddPts(s).items) :
           AudioAddPts(s).items[j].pts = s.items[i].pts
<1> DEFINE t == AudioAddPts(s)
<1>1. ReckonedFrom(s, t)
  BY AddPtsFacts
<1> HIDE DEF t
<1>2. PICK j \in 1 .. Len(t.items) : t.items[j].bp = s.items[i].bp
  BY <1>1 DEF ReckonedFrom
<1>3. PICK h \in 1 .. Len(s.items) :
        /\ Reckoned(s, s.items[h], t.items[j].bp, t.items[j])
        /\ LastBefore(s, s.items[h], t.items[j].bp)
  BY <1>1 DEF ReckonedFrom
<1>4. Buffered(s) /\ s.items[h] \in ItemTypes /\ s.items[h].pts \in Nat
      /\ s.items[h].bp \in Nat /\ s.items[i].bp \in Nat /\ Len(s.items) \in Nat
  <2>1. Buffered(s)
    BY DEF BufferOK
  <2>2. QED
    BY <2>1, BufferedTypes DEF AllTimed
<1>5. s.items[h].bp = s.items[i].bp
  <2>1. s.items[h].bp <= s.items[i].bp
    BY <1>2, <1>3 DEF Reckoned
  <2>2. s.items[i].bp <= s.items[i].bp => s.items[i].bp <= s.items[h].bp
    BY <1>2, <1>3 DEF LastBefore
  <2>3. QED
    BY <1>4, <2>1, <2>2
<1>6. h = i
  <2>1. /\ h < i => s.items[h].bp < s.items[i].bp
        /\ i < h => s.items[i].bp < s.items[h].bp
    BY <1>4 DEF Buffered
  <2>2. ~(h < i) /\ ~(i < h)
    BY <1>4, <1>5, <2>1
  <2>3. QED
    BY <1>4, <2>2
<1> DEFINE bp == s.items[i].bp
           passed == {q \in Frames(s) : bp <= q /\ q < bp}
<1>7. passed = {}
  <2>1. ASSUME NEW q \in passed
        PROVE  FALSE
    <3>1. q \in s.offset .. EndPos(s) - 1 /\ bp <= q /\ q < bp
      BY <2>1 DEF Frames
    <3>2. q \in Int /\ bp \in Nat
      BY <1>4, <3>1
    <3> HIDE DEF bp
    <3>3. QED
      BY <3>1, <3>2
  <2> HIDE DEF passed
  <2>2. QED
    BY <2>1
<1>8. t.items[j] = FrameItem(s, s.items[i], bp)
  BY <1>2, <1>3, <1>6 DEF Reckoned
<1>9. FrameItem(s, s.items[i], bp).pts = s.items[i].pts + Cardinality(passed) * FrameTime
  BY <1>4, <1>6 DEF FrameItem, ItemTypes
<1> HIDE DEF passed, bp
<1>10. Cardinality(passed) * FrameTime = 0
  <2>1. Cardinality(passed) = 0
    BY <1>7, FS_EmptySet
  <2>2. FrameTime \in Nat
    BY StreamDataAssumption
  <2>3. QED
    BY <2>1, <2>2
<1>11. t.items[j].pts = s.items[i].pts
  BY <1>4, <1>6, <1>8, <1>9, <1>10
<1>12. QED
  BY <1>11 DEF t

(* The frame with which a range starts is the nearest of all.              *)
LEMMA Nearest ==
  ASSUME NEW f, FileFacts(f), f.audio, NEW s, NEW l, Sound(f, s, l), NEW t \in Nat,
         NEW i \in 1 .. Len(AudioAddPts(s).items)
  PROVE  /\ Started(s, t).items # << >>
         /\ Distance(Started(s, t).items[1], t) <= Distance(AudioAddPts(s).items[i], t)
<1> DEFINE timed == AudioAddPts(s)
           one   == Discard(timed, Max({0, PtsBufferPos(timed, t) - timed.offset}))
           again == AudioAddPts(one)
           two   == Discard(again, Max({0, ClosestPtsBufferPos(again, t) - again.offset}))
<1>1. Started(s, t) = two
  BY DEF Started
<1>2. Sound(f, timed, l)
  BY AddPtsSound
<1>3. i \in 1 .. Len(timed.items)
  OBVIOUS
<1> HIDE DEF timed
<1>4. BufferOK(timed) /\ AllTimed(timed) /\ Ordered(timed)
  BY <1>2, SoundOrdered DEF Sound
<1>5. /\ Len(timed.items) \in Nat /\ timed.items # << >>
      /\ \A k \in 1 .. Len(timed.items) : timed.items[k].pts \in Nat
  <2>1. Buffered(timed)
    BY <1>4 DEF BufferOK
  <2>2. Len(timed.items) \in Nat /\ (timed.items = << >> <=> Len(timed.items) = 0)
    BY <2>1, BufferedTypes
  <2>3. QED
    BY <1>3, <1>4, <2>2 DEF AllTimed
<1>6. PICK m \in 1 .. Len(timed.items) :
        /\ PtsBufferPos(timed, t) = timed.items[m].bp
        /\ \A k \in 1 .. Len(timed.items) :
             k < m => timed.items[k].pts <= timed.items[m].pts /\ timed.items[m].pts <= t
  BY <1>4, <1>5, StartsAtOrBefore
<1>7. /\ one.items # << >>
      /\ \A k \in m .. Len(timed.items) : \E j \in 1 .. Len(one.items) :
           one.items[j].pts = timed.items[k].pts
  BY <1>4, <1>6, DiscardedUpTo
<1>8. Sound(f, one, l)
  <2>1. PtsBufferPos(timed, t) \in
          {timed.offset} \cup {timed.items[k].bp : k \in 1 .. Len(timed.items)}
    BY <1>6
  <2>2. QED
    BY <1>2, <2>1, DiscardToSound
<1> HIDE DEF one
<1>9. Sound(f, again, l) /\ BufferOK(one) /\ AllTimed(one)
  BY <1>8, AddPtsSound DEF Sound
<1>10. \A j \in 1 .. Len(one.items) : \E h \in 1 .. Len(again.items) :
         again.items[h].pts = one.items[j].pts
  BY <1>9, AddPtsKeeps
<1> HIDE DEF again
<1>11. BufferOK(again) /\ AllTimed(again) /\ Ordered(again)
  BY <1>9, SoundOrdered DEF Sound
<1>12. \A k \in m .. Len(timed.items) : \E h \in 1 .. Len(again.items) :
         again.items[h].pts = timed.items[k].pts
  <2> TAKE k \in m .. Len(timed.items)
  <2>1. PICK j \in 1 .. Len(one.items) : one.items[j].pts = timed.items[k].pts
    BY <1>7
  <2>2. PICK h \in 1 .. Len(again.items) : again.items[h].pts = one.items[j].pts
    BY <1>10
  <2>3. QED
    BY <2>1, <2>2
<1>13. /\ again.items # << >> /\ m \in m .. Len(timed.items)
       /\ \A h \in 1 .. Len(again.items) : again.items[h].pts \in Nat
  <2>1. m \in m .. Len(timed.items)
    BY <1>5
  <2>2. \E h \in 1 .. Len(again.items) : TRUE
    BY <1>12, <2>1
  <2>3. Buffered(again)
    BY <1>11 DEF BufferOK
  <2>4. Len(again.items) \in Nat /\ (again.items = << >> <=> Len(again.items) = 0)
    BY <2>3, BufferedTypes
  <2>5. again.items # << >>
    BY <2>2, <2>4
  <2>6. QED
    BY <1>11, <2>1, <2>5 DEF AllTimed
<1>14. PICK c \in 1 .. Len(again.items) :
         /\ ClosestPtsBufferPos(again, t) = again.items[c].bp
         /\ \A h \in 1 .. Len(again.items) :
              Distance(again.items[c], t) <= Distance(again.items[h], t)
  BY <1>11, <1>13, StartsClosest
<1>15. two.items # << >> /\ two.items[1].pts = again.items[c].pts
  BY <1>11, <1>14, DiscardedUpTo
<1> HIDE DEF two
<1>16. \A x, y : x.pts = y.pts => Distance(x, t) = Distance(y, t)
  BY DEF Distance
<1>17. ASSUME NEW k \in m .. Len(timed.items)
       PROVE  Distance(two.items[1], t) <= Distance(timed.items[k], t)
  <2>1. PICK h \in 1 .. Len(again.items) : again.items[h].pts = timed.items[k].pts
    BY <1>12
  <2>2. Distance(again.items[c], t) <= Distance(again.items[h], t)
    BY <1>14
  <2>3. /\ Distance(two.items[1], t) = Distance(again.items[c], t)
        /\ Distance(again.items[h], t) = Distance(timed.items[k], t)
    BY <1>15, <1>16, <2>1
  <2>4. QED
    BY <2>2, <2>3
<1>18. Distance(two.items[1], t) <= Distance(timed.items[i], t)
  <2>1. CASE m <= i
    <3>1. i \in m .. Len(timed.items)
      BY <1>3, <1>5, <2>1
    <3>2. QED
      BY <1>17, <3>1
  <2>2. CASE i < m
    <3>1. timed.items[i].pts <= timed.items[m].pts /\ timed.items[m].pts <= t
      BY <1>3, <1>6, <2>2
    <3>2. timed.items[i].pts \in Nat /\ timed.items[m].pts \in Nat
      BY <1>3, <1>5
    <3>3. Distance(timed.items[m], t) <= Distance(timed.items[i], t)
      BY <3>1, <3>2, NearestOf
    <3>4. Distance(two.items[1], t) <= Distance(timed.items[m], t)
      BY <1>13, <1>17
    <3>5. /\ Distance(two.items[1], t) \in Int /\ Distance(timed.items[m], t) \in Int
          /\ Distance(timed.items[i], t) \in Int
      <4>1. two.items[1].pts \in Nat
        BY <1>13, <1>15
      <4>2. \A x : x.pts \in Nat => Distance(x, t) \in Int
        BY DEF Distance
      <4>3. QED
        BY <3>2, <4>1, <4>2
    <3>6. QED
      BY <3>3, <3>4, <3>5
  <2>3. QED
    BY <1>3, <1>5, <2>1, <2>2
<1>19. QED
  BY <1>1, <1>15, <1>18 DEF timed

LEMMA UserStep ==
  ASSUME IInv, \/ Discards \/ Note \/ Seek \/ FindNoted
               \/ AddPts \/ PopOther \/ TakeFrame \/ PopToTimed
               \/ \E t \in Times : AudioStart(t)
  PROVE  IInv' /\ ESStep
<1>1. /\ BufferOK(sd) /\ Buffered(sd) /\ FileFacts(file)
      /\ file.audio => AllTimed(sd) /\ Sound(file, sd, last)
  BY DEF IInv, Holding, BufferOK, Sound
<1>2. /\ Len(sd.items) \in Nat /\ Len(sd.data) \in Nat
      /\ \A i \in 1 .. Len(sd.items) : sd.items[i].bp \in Nat
      /\ (sd.items = << >> <=> Len(sd.items) = 0)
  BY <1>1, BufferedTypes
<1>3. CASE Discards
  <2>1. PICK n \in 1 .. Len(sd.data) :
          ~file.audio /\ Using(Discard(sd, n)) /\ UNCHANGED want
    BY <1>3 DEF Discards
  <2>2. n \in Nat
    BY <1>2
  <2>3. QED
    BY <2>1, <2>2, DiscardStep
<1>4. CASE Note
  BY <1>4, NoteStep
<1>5. CASE Seek
  BY <1>5, SeekStep
<1>6. CASE FindNoted
  BY <1>6, FindStep
<1>7. CASE AddPts
  <2>1. Hear(AudioAddPts(sd))
    BY <1>7 DEF AddPts
  <2>2. Heard(sd, AudioAddPts(sd)) /\ Sound(file, AudioAddPts(sd), last)
    BY <1>1, <2>1, AddPtsFacts, AddPtsSound DEF Hear
  <2>3. QED
    BY <2>1, <2>2, HearStep
<1>8. CASE PopOther
  <2>1. Hear(Pop(sd)) /\ sd.items # << >>
    BY <1>8 DEF PopOther
  <2>2. Heard(sd, Pop(sd)) /\ Sound(file, Pop(sd), last)
    BY <1>1, <2>1, PopFirst, StaysSound DEF Hear
  <2>3. QED
    BY <2>1, <2>2, HearStep
<1>9. CASE TakeFrame
  <2>1. PICK i \in 2 .. Len(sd.items) : Hear(Discard(sd, sd.items[i].bp - sd.items[1].bp))
    BY <1>9 DEF TakeFrame
  <2>2. i \in 1 .. Len(sd.items) /\ 1 \in 1 .. Len(sd.items) /\ 1 < i
    BY <1>2
  <2>3. sd.items[1].bp < sd.items[i].bp
    BY <1>1, <2>2 DEF Buffered
  <2>4. sd.items[i].bp - sd.items[1].bp \in Nat
    BY <1>2, <2>2, <2>3
  <2>5. PICK n \in Nat : n = sd.items[i].bp - sd.items[1].bp
    BY <2>4
  <2>6. sd.items[i].bp = sd.offset + n
    <3>1. sd.items[1].bp = sd.offset
      BY <1>1, <1>2, <2>2 DEF Buffered
    <3>2. QED
      BY <1>2, <2>2, <2>5, <3>1
  <2>7. Heard(sd, Discard(sd, n)) /\ Sound(file, Discard(sd, n), last)
    <3>1. Heard(sd, Discard(sd, n)) /\ Stays(sd, Discard(sd, n))
      BY <1>1, <2>2, <2>6, AlignedStays
    <3>2. QED
      BY <1>1, <2>1, <3>1, StaysSound DEF Hear
  <2>8. QED
    BY <2>1, <2>5, <2>7, HearStep
<1>10. CASE PopToTimed
  <2>1. PICK i \in 2 .. Len(sd.items) : Hear(PopMany(sd, i - 1))
    BY <1>10 DEF PopToTimed
  <2>2. i - 1 \in 1 .. Len(sd.items) - 1
    BY <1>2
  <2>3. PICK n \in 1 .. Len(sd.items) - 1 : n = i - 1
    BY <2>2
  <2>4. Heard(sd, PopMany(sd, n)) /\ Sound(file, PopMany(sd, n), last)
    <3>1. Heard(sd, PopMany(sd, n)) /\ Stays(sd, PopMany(sd, n))
      BY <1>1, PopManyFacts
    <3>2. QED
      BY <1>1, <2>1, <3>1, StaysSound DEF Hear
  <2>5. QED
    BY <2>1, <2>3, <2>4, HearStep
<1>11. CASE \E t \in Times : AudioStart(t)
  <2>1. PICK t \in Times : AudioStart(t)
    BY <1>11
  <2>2. Hear(Started(sd, t))
    BY <2>1 DEF AudioStart, Started
  <2>3. Heard(sd, Started(sd, t)) /\ Sound(file, Started(sd, t), last)
    BY <1>1, <2>2, StartedSound DEF Hear
  <2>4. QED
    BY <2>2, <2>3, HearStep
<1>12. QED
  BY <1>3, <1>4, <1>5, <1>6, <1>7, <1>8, <1>9, <1>10, <1>11

(* The start of a range, of a step.                                        *)
LEMMA NearestStart ==
  ASSUME IInv, NEW t \in Times, AudioStart(t), NEW it \in Range(AudioAddPts(sd).items)
  PROVE  sd'.items # << >> /\ Distance(sd'.items[1], t) <= Distance(it, t)
<1>1. Hear(Started(sd, t))
  BY DEF AudioStart, Started
<1>2. file.audio /\ sd' = Started(sd, t)
  BY <1>1 DEF Hear, Using
<1>3. FileFacts(file) /\ Sound(file, sd, last) /\ t \in Nat
  BY <1>2, RecordingAssumption DEF IInv, Holding, Sound
<1> DEFINE timed == AudioAddPts(sd)
<1>4. timed.items \in Seq(ItemTypes)
  <2>1. Heard(sd, timed)
    BY <1>3, AddPtsFacts DEF Sound
  <2> HIDE DEF timed
  <2>2. Buffered(timed)
    BY <2>1 DEF Heard, BufferOK
  <2>3. QED
    BY <2>2, BufferedTypes
<1>5. PICK i \in 1 .. Len(timed.items) : it = timed.items[i]
  BY <1>4 DEF Range
<1>6. QED
  BY <1>2, <1>3, <1>5, Nearest

LEMMA CallStep ==
  ASSUME IInv, Call
  PROVE  IInv' /\ ESStep
<1>1. /\ file' = file /\ filepos' = filepos /\ sd' = sd /\ last' = last /\ want' = want
      /\ got' = got /\ lostsync' = lostsync /\ ret' = ret /\ pc' = "reading"
  BY DEF Call, local
<1>2. Control(got', lostsync', pc', ret')
  BY <1>1 DEF IInv, Control
<1>3. IInv'
  BY <1>1, <1>2 DEF IInv
<1>4. ESStep
  BY <1>1 DEF ESStep, ES!vars
<1>5. QED
  BY <1>3, <1>4

LEMMA NextStep ==
  ASSUME IInv, [Next]_vars
  PROVE  IInv' /\ ESStep
<1>1. CASE Call
  BY <1>1, CallStep
<1>2. CASE StreamReader
  <2>1. CASE file.ts /\ TsStreamReader
    BY <2>1, TsStep
  <2>2. CASE ~file.ts /\ PsStreamReader
    BY <2>2, PsStep
  <2>3. QED
    BY <1>2, <2>1, <2>2 DEF StreamReader
<1>3. CASE \/ Discards \/ Note \/ Seek \/ FindNoted
           \/ AddPts \/ PopOther \/ TakeFrame \/ PopToTimed
           \/ \E t \in Times : AudioStart(t)
  BY <1>3, UserStep
<1>4. CASE UNCHANGED vars
  <2>1. /\ file' = file /\ filepos' = filepos /\ sd' = sd /\ last' = last /\ want' = want
        /\ got' = got /\ lostsync' = lostsync /\ ret' = ret /\ pc' = pc
    BY <1>4 DEF vars, local
  <2>2. IInv'
    BY <2>1 DEF IInv
  <2>3. ESStep
    BY <2>1 DEF ESStep, ES!vars
  <2>4. QED
    BY <2>2, <2>3
<1>5. QED
  BY <1>1, <1>2, <1>3, <1>4 DEF Next

LEMMA TypesFollow ==
  ASSUME IInv
  PROVE  TypeOK
<1>1. BufferOK(sd) /\ Buffered(sd) /\ InStream(file.stream, sd.data, last)
  BY DEF IInv, Holding, BufferOK
<1>2. /\ sd.offset \in Nat /\ Len(sd.data) \in Nat /\ sd.items \in Seq(ItemTypes)
      /\ Len(sd.items) \in Nat /\ \A i \in 1 .. Len(sd.items) : sd.items[i].bp \in Nat
  BY <1>1, BufferedTypes
<1>3. Len(file.stream) \in Nat
  BY FileLaid DEF IInv
<1>4. sd.offset \in 0 .. Half + Len(file.stream)
  <2>1. Half \in Nat /\ sd.offset < Half
    BY <1>1, StreamDataAssumption DEF BufferOK
  <2>2. QED
    BY <1>2, <1>3, <2>1
<1>5. last \in 0 .. Len(file.stream)
  BY <1>1, <1>3 DEF InStream
<1>6. ASSUME NEW i \in DOMAIN sd.items
      PROVE  /\ sd.items[i].bp \in sd.offset .. EndPos(sd) - 1
             /\ \A j \in 1 .. i - 1 : sd.items[j].bp < sd.items[i].bp
  <2>1. i \in 1 .. Len(sd.items)
    BY <1>2
  <2>2. /\ sd.offset <= sd.items[i].bp /\ sd.items[i].bp < sd.offset + Len(sd.data)
        /\ \A j \in 1 .. Len(sd.items) : j < i => sd.items[j].bp < sd.items[i].bp
    BY <1>1, <2>1 DEF Buffered
  <2>3. sd.items[i].bp \in Nat
    BY <1>2, <2>1
  <2>4. sd.items[i].bp \in sd.offset .. EndPos(sd) - 1
    BY <1>2, <2>2, <2>3 DEF EndPos
  <2>5. \A j \in 1 .. i - 1 : j \in 1 .. Len(sd.items) /\ j < i
    BY <1>2, <2>1
  <2>6. QED
    BY <2>2, <2>4, <2>5
<1>7. QED
  BY <1>4, <1>5, <1>6 DEF TypeOK, IInv, Control

LEMMA TimesFollow ==
  ASSUME IInv
  PROVE  FramesTimed
<1> SUFFICES ASSUME file.audio, NEW it \in Range(sd.items)
             PROVE  InTimeAt(it, ByteAt(sd, it.bp))
  BY DEF FramesTimed
<1>1. /\ FileFacts(file) /\ Buffered(sd) /\ InStream(file.stream, sd.data, last)
      /\ Sounding(file, sd, last)
  BY DEF IInv, Holding, BufferOK
<1>2. /\ sd.offset \in Nat /\ Len(sd.data) \in Nat
      /\ sd.items \in Seq(ItemTypes) /\ Len(sd.items) \in Nat
      /\ \A i \in 1 .. Len(sd.items) : sd.items[i].bp \in Nat
  BY <1>1, BufferedTypes
<1>3. PICK i \in 1 .. Len(sd.items) : it = sd.items[i]
  BY <1>2 DEF Range
<1>4. it.bp \in Nat /\ sd.offset <= it.bp /\ it.bp < EndPos(sd)
  BY <1>1, <1>2, <1>3 DEF Buffered, EndPos
<1>5. ByteAt(sd, it.bp) = file.stream[PlaceAt(sd, last, it.bp)]
  BY <1>1, <1>4, BufferPlaces
<1>6. Dated(file, it, PlaceAt(sd, last, it.bp))
  BY <1>1, <1>3 DEF Sounding
<1>7. Cell(it.file).block = UnitAt(file, it)
  BY DEF Cell, UnitAt
<1>8. QED
  BY <1>5, <1>6, <1>7 DEF Dated, InTimeAt

-----------------------------------------------------------------------------
(* The invariant holds.                                                    *)
THEOREM ReaderInvariant == Spec => []IInv
<1>1. Init => IInv
  BY InitInv
<1>2. IInv /\ [Next]_vars => IInv'
  BY NextStep
<1>3. QED
  BY <1>1, <1>2, PTL DEF Spec

(* The items of a stream lie in its buffer one behind the other, and the   *)
(* buffer positions stay small, whoever reads and takes (streamdata.h,     *)
(* streamdata.cpp).                                                        *)
THEOREM ReaderTypes == Spec => []TypeOK
<1>1. IInv => TypeOK
  BY TypesFollow
<1>2. QED
  BY <1>1, ReaderInvariant, PTL

(* Whatever is lost, damaged or taken from the buffer, no frame and no     *)
(* packet of sound is dated later than it is, and each has its own time if *)
(* nothing is missing since the begin of its unit (streamdata.cpp:144,     *)
(* audio_addpts()).                                                        *)
THEOREM SoundIsTimed == Spec => []FramesTimed
<1>1. IInv => FramesTimed
  BY TimesFollow
<1>2. QED
  BY <1>1, ReaderInvariant, PTL

(* Readers and buffer implement ElementaryStream, in every recording in    *)
(* which rubbish can be told from packets: every step delivers the bytes   *)
(* that follow, or from the begin of a unit on if the buffer is empty, or  *)
(* takes bytes, or starts anew, or does none of this (tsfile.cpp,          *)
(* psfile.cpp, streamdata.cpp).                                            *)
THEOREM ReadersDeliver == Spec => Delivered
<1>1. Init => IInv /\ ES!Init
  BY InitInv
<1>2. IInv /\ [Next]_vars => IInv' /\ ESStep
  BY NextStep
<1>3. QED
  BY <1>1, <1>2, PTL DEF Spec, Delivered, ES!Spec, ESStep

(* A position that was noted leads with another handle to the same byte    *)
(* (mpgIndex.cpp:241, mpgfile.cpp:505).                                    *)
THEOREM NotedFoundAgain == Spec => SeekFinds
<1>1. IInv /\ [Next]_vars => [FindNoted => sd'.data[1] = want.byte]_vars
  BY FindStep
<1>2. QED
  BY <1>1, ReaderInvariant, PTL DEF Spec, SeekFinds

(* The sound of a range starts with the packet or frame closest to the     *)
(* wanted time of all that were read, and with one if any had a time,      *)
(* though two searches and two discards lead there and the frames are      *)
(* reckoned anew between them (mpgfile.cpp:468-478).                       *)
THEOREM RangesStartNearest == Spec => StartsNearest
<1>1. IInv /\ [Next]_vars =>
        [\A t \in Times : AudioStart(t) =>
           \A it \in Range(AudioAddPts(sd).items) :
             /\ sd'.items # << >>
             /\ Distance(sd'.items[1], t) <= Distance(it, t)]_vars
  BY NearestStart
<1>2. QED
  BY <1>1, ReaderInvariant, PTL DEF Spec, StartsNearest
=============================================================================
