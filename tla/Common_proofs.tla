---------------------------- MODULE Common_proofs ---------------------------
(***************************************************************************)
(* Facts that several components need.                                     *)
(*                                                                         *)
(* Induction over the numbers is stated for a set of numbers: the library  *)
(* states it for an operator, with which the provers cannot work.  So is   *)
(* recursion: a function that is defined by a step from each number to the *)
(* next one exists.                                                        *)
(*                                                                         *)
(* What Total does with lists that grow, that are joined and that are cut, *)
(* and what becomes of a list that an item is added to or taken from.      *)
(* The lists are compared place by place, so that the facts can be used    *)
(* for any list that is computed from another one.                         *)
(*                                                                         *)
(* Tables of pictures.  A table is good if it begins with a sequence       *)
(* header and every sequence of it is numbered by a permutation: what      *)
(* generate() makes and load() asks for.  In a good table indexnr() and    *)
(* picturenr() are the reverse of each other, and check() finds a first    *)
(* and a last picture that can be decoded.                                 *)
(***************************************************************************)
EXTENDS Totals, MpgIndex, SequencesExt, FiniteSetTheorems, FunctionTheorems,
        SequenceTheorems, WellFoundedInduction, TLAPS

Less == {pair \in Nat \X Nat : pair[1] < pair[2]}

LEMMA LessWellFounded == IsWellFoundedOn(Less, Nat)
BY NatLessThanWellFounded DEF Less, OpToRel

(* A set of numbers that is not empty has a least one.                     *)
LEMMA LeastNat ==
  ASSUME NEW T, T \subseteq Nat, T # {}
  PROVE  \E x \in T : \A y \in T : x <= y
<1>1. PICK x \in T : \A y \in T : ~(<<y, x>> \in Less)
  BY LessWellFounded, WFMin
<1>2. ASSUME NEW y \in T
      PROVE  x <= y
  <2>1. ~(<<y, x>> \in Less)
    BY <1>1
  <2>2. <<y, x>> \in Nat \X Nat
    OBVIOUS
  <2>3. y < x => <<y, x>> \in Less
    BY <2>2 DEF Less
  <2>4. QED
    BY <2>1, <2>3
<1>3. QED
  BY <1>2

LEMMA Induction ==
  ASSUME NEW P, P \subseteq Nat, 0 \in P, \A n \in P : n + 1 \in P
  PROVE  P = Nat
<1>1. SUFFICES ASSUME Nat \ P # {}
               PROVE  FALSE
  OBVIOUS
<1>2. PICK x \in Nat \ P : \A y \in Nat \ P : x <= y
  <2> DEFINE T == Nat \ P
  <2>1. T \subseteq Nat /\ T # {}
    BY <1>1
  <2>2. QED
    BY <2>1, LeastNat
<1>3. x - 1 \in Nat /\ x - 1 < x
  OBVIOUS
<1>4. x - 1 \in P
  BY <1>2, <1>3
<1>5. (x - 1) + 1 \in P
  BY <1>4
<1>6. QED
  BY <1>5

(* Lists that are given place by place.                                    *)
LEMMA FcnIsSeq ==
  ASSUME NEW S, NEW n \in Nat, NEW f \in [1 .. n -> S]
  PROVE  f \in Seq(S) /\ Len(f) = n /\ DOMAIN f = 1 .. n
<1>1. f \in Seq(S)
  BY SeqDef
<1>2. DOMAIN f = 1 .. n /\ DOMAIN f = 1 .. Len(f) /\ Len(f) \in Nat
  BY <1>1, LenProperties
<1>3. QED
  BY <1>1, <1>2

-----------------------------------------------------------------------------
(* f counts what the list has up to each place.                            *)
Counts(f, list) ==
  /\ f[0] = 0
  /\ \A i \in 1 .. Len(list) : f[i] = f[i - 1] + list[i]

LEMMA CountsExist ==
  ASSUME NEW list \in Seq(Int)
  PROVE  \E f \in [0 .. Len(list) -> Int] : Counts(f, list)
<1> DEFINE P == {n \in Nat : n <= Len(list) =>
                   \E f \in [0 .. n -> Int] :
                     f[0] = 0 /\ \A i \in 1 .. n : f[i] = f[i - 1] + list[i]}
<1>1. 0 \in P
  <2> DEFINE f == [i \in 0 .. 0 |-> 0]
  <2>1. f \in [0 .. 0 -> Int] /\ f[0] = 0 /\ 1 .. 0 = {}
    OBVIOUS
  <2> HIDE DEF f
  <2>2. \A i \in 1 .. 0 : f[i] = f[i - 1] + list[i]
    BY <2>1
  <2>3. QED
    BY <2>1, <2>2
<1>2. ASSUME NEW n \in P
      PROVE  n + 1 \in P
  <2>1. CASE n + 1 <= Len(list)
    <3>1. Len(list) \in Nat /\ n \in Nat
      BY LenProperties
    <3>2. PICK f \in [0 .. n -> Int] :
            f[0] = 0 /\ \A i \in 1 .. n : f[i] = f[i - 1] + list[i]
      BY <2>1, <3>1
    <3> DEFINE g == [i \in 0 .. n + 1 |-> IF i = n + 1 THEN f[n] + list[n + 1] ELSE f[i]]
    <3>3. list[n + 1] \in Int
      BY <2>1, <3>1, ElementOfSeq
    <3>4. g \in [0 .. n + 1 -> Int]
      BY <3>1, <3>3
    <3>5. g[0] = 0 /\ \A i \in 1 .. n + 1 : g[i] = g[i - 1] + list[i]
      <4>1. g[0] = 0
        BY <3>1, <3>2
      <4>2. ASSUME NEW i \in 1 .. n + 1
            PROVE  g[i] = g[i - 1] + list[i]
        <5>1. i - 1 \in 0 .. n + 1 /\ i \in 0 .. n + 1 /\ i - 1 # n + 1
          BY <3>1
        <5>2. g[i - 1] = f[i - 1]
          BY <5>1
        <5>3. CASE i = n + 1
          BY <5>1, <5>2, <5>3
        <5>4. CASE i # n + 1
          <6>1. i \in 1 .. n /\ g[i] = f[i]
            BY <3>1, <5>1, <5>4
          <6>2. f[i] = f[i - 1] + list[i]
            BY <3>2, <6>1
          <6>3. QED
            BY <5>2, <6>1, <6>2
        <5>5. QED
          BY <5>3, <5>4
      <4>3. QED
        BY <4>1, <4>2
    <3>6. n + 1 \in Nat
      BY <3>1
    <3>7. QED
      BY <3>4, <3>5, <3>6
  <2>2. CASE ~(n + 1 <= Len(list))
    BY <2>2
  <2>3. QED
    BY <2>1, <2>2
<1>3. P = Nat
  <2> HIDE DEF P
  <2>1. P \subseteq Nat
    BY DEF P
  <2>2. QED
    BY <1>1, <1>2, <2>1, Induction
<1>4. Len(list) \in P
  BY <1>3, LenProperties
<1>5. QED
  BY <1>4 DEF Counts

(* Total[list] is the count at the end, whatever function counts.          *)
LEMMA TotalCounts ==
  ASSUME NEW list \in Seq(Int)
  PROVE  \E f \in [0 .. Len(list) -> Int] :
           Counts(f, list) /\ Total[list] = f[Len(list)]
<1> DEFINE n == Len(list)
           Rec(f) == [i \in 0 .. n |-> IF i = 0 THEN 0 ELSE f[i - 1] + list[i]]
           sum == CHOOSE f : f = Rec(f)
<1>1. n \in Nat
  BY LenProperties
<1>2. PICK f \in [0 .. n -> Int] : Counts(f, list)
  BY CountsExist
<1>3. \A i \in 0 .. n : f[i] = IF i = 0 THEN 0 ELSE f[i - 1] + list[i]
  BY <1>2 DEF Counts
<1>4. f = Rec(f)
  BY <1>3
<1>5. sum = Rec(sum)
  <2> HIDE DEF Rec
  <2>1. QED
    BY <1>4
<1>6. Total[list] = sum[n]
  BY DEF Total
<1> HIDE DEF sum
<1>7. \A i \in 0 .. n : sum[i] = IF i = 0 THEN 0 ELSE sum[i - 1] + list[i]
  BY <1>5
<1>8. Counts(sum, list)
  BY <1>1, <1>7 DEF Counts
<1>9. sum \in [0 .. n -> Int]
  <2> DEFINE P == {i \in Nat : i <= n => sum[i] \in Int}
  <2>1. 0 \in P
    BY <1>1, <1>7
  <2>2. ASSUME NEW i \in P
        PROVE  i + 1 \in P
    <3>1. CASE i + 1 <= n
      <4>1. i \in Nat /\ i + 1 \in 1 .. n /\ sum[i] \in Int
        BY <1>1, <3>1
      <4>2. list[i + 1] \in Int
        BY <4>1, ElementOfSeq
      <4>3. sum[i + 1] = sum[i] + list[i + 1]
        BY <4>1, <1>7
      <4>4. QED
        BY <4>1, <4>2, <4>3
    <3>2. CASE ~(i + 1 <= n)
      BY <3>2
    <3>3. QED
      BY <3>1, <3>2
  <2>3. P = Nat
    <3> HIDE DEF P
    <3>1. P \subseteq Nat
      BY DEF P
    <3>2. QED
      BY <2>1, <2>2, <3>1, Induction
  <2>4. \A i \in 0 .. n : sum[i] \in Int
    BY <1>1, <2>3
  <2>5. QED
    BY <1>5, <2>4
<1>10. QED
  BY <1>6, <1>8, <1>9

(* A longer list that begins with another one: the counts agree.           *)
LEMMA CountsAgree ==
  ASSUME NEW a \in Seq(Int), NEW b \in Seq(Int), Len(a) <= Len(b),
         \A i \in 1 .. Len(a) : b[i] = a[i],
         NEW f \in [0 .. Len(a) -> Int], Counts(f, a),
         NEW g \in [0 .. Len(b) -> Int], Counts(g, b)
  PROVE  \A i \in 0 .. Len(a) : g[i] = f[i]
<1> DEFINE P == {i \in Nat : i <= Len(a) => g[i] = f[i]}
<1>1. Len(a) \in Nat /\ Len(b) \in Nat
  BY LenProperties
<1>2. 0 \in P
  BY <1>1 DEF Counts
<1>3. ASSUME NEW i \in P
      PROVE  i + 1 \in P
  <2>1. CASE i + 1 <= Len(a)
    <3>1. i \in Nat /\ i + 1 \in 1 .. Len(a) /\ i + 1 \in 1 .. Len(b) /\ g[i] = f[i]
      BY <1>1, <2>1
    <3>2. f[i + 1] = f[i] + a[i + 1] /\ g[i + 1] = g[i] + b[i + 1]
      BY <3>1 DEF Counts
    <3>3. b[i + 1] = a[i + 1]
      BY <3>1
    <3>4. QED
      BY <3>1, <3>2, <3>3
  <2>2. CASE ~(i + 1 <= Len(a))
    BY <2>2
  <2>3. QED
    BY <2>1, <2>2
<1>4. P = Nat
  <2> HIDE DEF P
  <2>1. P \subseteq Nat
    BY DEF P
  <2>2. QED
    BY <1>2, <1>3, <2>1, Induction
<1>5. QED
  BY <1>1, <1>4, SMTT(30)

LEMMA TotalType ==
  ASSUME NEW list \in Seq(Int)
  PROVE  Total[list] \in Int
BY TotalCounts, LenProperties

LEMMA TotalEmpty ==
  ASSUME NEW list \in Seq(Int), Len(list) = 0
  PROVE  Total[list] = 0
BY TotalCounts DEF Counts

(* One more at the end.                                                    *)
LEMMA TotalAppend ==
  ASSUME NEW a \in Seq(Int), NEW b \in Seq(Int), Len(b) = Len(a) + 1,
         \A i \in 1 .. Len(a) : b[i] = a[i]
  PROVE  Total[b] = Total[a] + b[Len(b)]
<1>1. Len(a) \in Nat /\ Len(b) \in Nat
  BY LenProperties
<1>2. PICK f \in [0 .. Len(a) -> Int] : Counts(f, a) /\ Total[a] = f[Len(a)]
  BY TotalCounts
<1>3. PICK g \in [0 .. Len(b) -> Int] : Counts(g, b) /\ Total[b] = g[Len(b)]
  BY TotalCounts
<1>4. g[Len(a)] = f[Len(a)]
  <2>1. Len(a) \in 0 .. Len(a) /\ Len(a) <= Len(b)
    BY <1>1
  <2>2. QED
    BY <1>2, <1>3, <2>1, CountsAgree
<1>5. g[Len(b)] = g[Len(b) - 1] + b[Len(b)]
  <2>1. Len(b) \in 1 .. Len(b)
    BY <1>1
  <2>2. \A i \in 1 .. Len(b) : g[i] = g[i - 1] + b[i]
    BY <1>3 DEF Counts
  <2>3. QED
    BY <2>1, <2>2
<1>6. Len(b) - 1 = Len(a)
  BY <1>1
<1>7. QED
  BY <1>2, <1>3, <1>4, <1>5, <1>6

(* Two lists one behind the other.                                         *)
LEMMA TotalJoin ==
  ASSUME NEW a \in Seq(Int), NEW b \in Seq(Int), NEW c \in Seq(Int),
         Len(c) = Len(a) + Len(b),
         \A i \in 1 .. Len(a) : c[i] = a[i],
         \A i \in Len(a) + 1 .. Len(c) : c[i] = b[i - Len(a)]
  PROVE  Total[c] = Total[a] + Total[b]
<1> DEFINE m == Len(a)
           n == Len(b)
<1>1. m \in Nat /\ n \in Nat /\ Len(c) = m + n
  BY LenProperties
<1>2. PICK f \in [0 .. m -> Int] : Counts(f, a) /\ Total[a] = f[m]
  BY TotalCounts
<1>3. PICK g \in [0 .. n -> Int] : Counts(g, b) /\ Total[b] = g[n]
  BY TotalCounts
<1>4. PICK h \in [0 .. Len(c) -> Int] : Counts(h, c) /\ Total[c] = h[Len(c)]
  BY TotalCounts
<1>5. h[m] = f[m]
  <2>1. m \in 0 .. m /\ m <= Len(c)
    BY <1>1
  <2>2. QED
    BY <1>2, <1>4, <2>1, CountsAgree
<1>6. ASSUME NEW i \in 1 .. n
      PROVE  b[i] \in Int /\ c[m + i] = b[i]
  <2>1. \A j \in m + 1 .. Len(c) : c[j] = b[j - m]
    OBVIOUS
  <2> HIDE DEF m
  <2>2. m + i \in m + 1 .. Len(c) /\ (m + i) - m = i
    BY <1>1
  <2>3. c[m + i] = b[(m + i) - m] /\ b[i] \in Int
    BY <2>1, <2>2, ElementOfSeq
  <2>4. QED
    BY <2>2, <2>3
<1> HIDE DEF m, n
<1>7. ASSUME NEW i \in 0 .. n
      PROVE  g[i] \in Int /\ h[m + i] \in Int
  <2>1. m + i \in 0 .. Len(c)
    BY <1>1
  <2>2. QED
    BY <2>1
<1>8. g[0] = 0 /\ \A i \in 1 .. n : g[i] = g[i - 1] + b[i]
  BY <1>3 DEF Counts, n
<1>9. \A i \in 1 .. m + n : h[i] = h[i - 1] + c[i]
  BY <1>1, <1>4 DEF Counts
<1>10. ASSUME NEW i \in 0 .. n - 1
       PROVE  /\ b[i + 1] \in Int /\ g[i + 1] = g[i] + b[i + 1]
              /\ h[m + (i + 1)] = h[m + i] + b[i + 1]
  <2>1. i + 1 \in 1 .. n /\ (i + 1) - 1 = i
    BY <1>1
  <2>2. m + (i + 1) \in 1 .. m + n /\ (m + (i + 1)) - 1 = m + i
    BY <1>1
  <2>3. g[i + 1] = g[i] + b[i + 1]
    BY <1>8, <2>1
  <2>4. h[m + (i + 1)] = h[m + i] + c[m + (i + 1)]
    BY <1>9, <2>2
  <2>5. b[i + 1] \in Int /\ c[m + (i + 1)] = b[i + 1]
    BY <1>6, <2>1
  <2>6. QED
    BY <2>3, <2>4, <2>5
<1> DEFINE P == {i \in Nat : i <= n => h[m + i] = h[m] + g[i]}
<1>11. 0 \in P
  <2>1. m + 0 = m /\ 0 \in 0 .. n /\ m + 0 \in 0 .. Len(c)
    BY <1>1
  <2>2. h[m] \in Int
    BY <1>7, <2>1
  <2>3. h[m] + 0 = h[m]
    BY <2>2
  <2>4. h[m + 0] = h[m] + g[0]
    BY <1>8, <2>1, <2>3
  <2>5. QED
    BY <2>4
<1>12. ASSUME NEW i \in P
       PROVE  i + 1 \in P
  <2>1. CASE i + 1 <= n
    <3>1. i \in Nat /\ i <= n /\ i \in 0 .. n - 1 /\ i \in 0 .. n /\ 0 \in 0 .. n
      BY <1>1, <2>1
    <3>2. h[m + i] = h[m] + g[i]
      BY <3>1
    <3>3. /\ b[i + 1] \in Int /\ g[i + 1] = g[i] + b[i + 1]
          /\ h[m + (i + 1)] = h[m + i] + b[i + 1]
      BY <1>10, <3>1
    <3>4. g[i] \in Int /\ h[m] \in Int
      <4>1. m + 0 = m /\ h[m + 0] \in Int
        BY <1>1, <1>7, <3>1
      <4>2. QED
        BY <1>7, <3>1, <4>1
    <3>5. (h[m] + g[i]) + b[i + 1] = h[m] + (g[i] + b[i + 1])
      BY <3>3, <3>4
    <3>6. h[m + (i + 1)] = h[m] + g[i + 1]
      BY <3>2, <3>3, <3>5
    <3>7. i + 1 \in Nat
      BY <3>1
    <3>8. QED
      BY <3>6, <3>7
  <2>2. CASE ~(i + 1 <= n)
    <3>1. i + 1 \in Nat
      OBVIOUS
    <3>2. QED
      BY <2>2, <3>1
  <2>3. QED
    BY <2>1, <2>2
<1>13. P = Nat
  <2> HIDE DEF P
  <2>1. P \subseteq Nat
    BY DEF P
  <2>2. QED
    BY <1>11, <1>12, <2>1, Induction
<1>14. n \in P /\ n <= n
  <2> HIDE DEF P
  <2>1. QED
    BY <1>1, <1>13
<1>15. h[m + n] = h[m] + g[n]
  BY <1>14
<1>16. QED
  BY <1>1, <1>2, <1>3, <1>4, <1>5, <1>15

(* A list is its first element and the rest.                               *)
LEMMA TotalFirst ==
  ASSUME NEW a \in Seq(Int), NEW b \in Seq(Int), Len(b) = Len(a) + 1,
         \A i \in 1 .. Len(a) : b[i + 1] = a[i]
  PROVE  Total[b] = b[1] + Total[a]
<1>1. Len(a) \in Nat /\ Len(b) \in Nat
  BY LenProperties
<1> DEFINE one == <<b[1]>>
<1>2. b[1] \in Int
  BY <1>1, ElementOfSeq
<1>3. one \in Seq(Int) /\ Len(one) = 1 /\ one[1] = b[1]
  BY <1>2
<1>4. Total[one] = b[1]
  <2>1. << >> \in Seq(Int) /\ Len(<< >>) = 0
    BY EmptySeq
  <2>2. Total[<< >>] = 0
    BY <2>1, TotalEmpty
  <2> HIDE DEF one
  <2> DEFINE none == << >>
  <2> HIDE DEF none
  <2>3. none \in Seq(Int) /\ Len(none) = 0 /\ Total[none] = 0
    BY <2>1, <2>2 DEF none
  <2>4. Total[one] = Total[none] + one[Len(one)]
    <3>1. Len(one) = Len(none) + 1 /\ 1 .. Len(none) = {}
      BY <1>3, <2>3
    <3>2. \A i \in 1 .. Len(none) : one[i] = none[i]
      BY <3>1
    <3>3. QED
      BY <1>3, <2>3, <3>1, <3>2, TotalAppend
  <2>5. QED
    BY <1>2, <1>3, <2>3, <2>4
<1> HIDE DEF one
<1>5. Len(b) = Len(one) + Len(a) /\ \A i \in 1 .. Len(one) : b[i] = one[i]
  BY <1>1, <1>3
<1>6. \A i \in Len(one) + 1 .. Len(b) : b[i] = a[i - Len(one)]
  <2>1. ASSUME NEW i \in 2 .. Len(b)
        PROVE  b[i] = a[i - 1]
    <3>1. i - 1 \in 1 .. Len(a) /\ (i - 1) + 1 = i
      BY <1>1
    <3>2. QED
      BY <3>1
  <2>2. QED
    BY <1>3, <2>1
<1>7. Total[b] = Total[one] + Total[a]
  BY <1>3, <1>5, <1>6, TotalJoin
<1>8. QED
  BY <1>4, <1>7

(* Nothing in the one list is more than in the other.                      *)
LEMMA TotalMonotonic ==
  ASSUME NEW a \in Seq(Int), NEW b \in Seq(Int), Len(a) = Len(b),
         \A i \in 1 .. Len(a) : a[i] <= b[i]
  PROVE  Total[a] <= Total[b]
<1>1. Len(a) \in Nat
  BY LenProperties
<1>2. PICK f \in [0 .. Len(a) -> Int] : Counts(f, a) /\ Total[a] = f[Len(a)]
  BY TotalCounts
<1>3. PICK g \in [0 .. Len(a) -> Int] : Counts(g, b) /\ Total[b] = g[Len(a)]
  BY TotalCounts
<1> DEFINE P == {i \in Nat : i <= Len(a) => f[i] <= g[i]}
<1>4. 0 \in P
  BY <1>1, <1>2, <1>3 DEF Counts
<1>5. ASSUME NEW i \in P
      PROVE  i + 1 \in P
  <2>1. CASE i + 1 <= Len(a)
    <3>1. i \in Nat /\ f[i] <= g[i] /\ i + 1 \in 1 .. Len(a) /\ i \in 0 .. Len(a)
      BY <1>1, <2>1
    <3>2. f[i + 1] = f[i] + a[i + 1] /\ g[i + 1] = g[i] + b[i + 1]
      BY <1>2, <1>3, <3>1 DEF Counts
    <3>3. f[i] \in Int /\ g[i] \in Int /\ a[i + 1] \in Int /\ b[i + 1] \in Int
      BY <1>1, <3>1, ElementOfSeq
    <3>4. f[i + 1] <= g[i + 1]
      BY <3>1, <3>2, <3>3
    <3>5. QED
      BY <3>1, <3>4
  <2>2. CASE ~(i + 1 <= Len(a))
    BY <2>2
  <2>3. QED
    BY <2>1, <2>2
<1>6. P = Nat
  <2> HIDE DEF P
  <2>1. P \subseteq Nat
    BY DEF P
  <2>2. QED
    BY <1>4, <1>5, <2>1, Induction
<1>7. Len(a) \in P
  BY <1>1, <1>6
<1>8. QED
  BY <1>2, <1>3, <1>7, <1>1

LEMMA TotalNat ==
  ASSUME NEW list \in Seq(Nat)
  PROVE  Total[list] \in Nat
<1>1. list \in Seq(Int) /\ Len(list) \in Nat
  BY SeqMonotonic, LenProperties
<1>2. PICK f \in [0 .. Len(list) -> Int] : Counts(f, list) /\ Total[list] = f[Len(list)]
  BY <1>1, TotalCounts
<1> DEFINE P == {i \in Nat : i <= Len(list) => f[i] \in Nat}
<1>3. 0 \in P
  BY <1>1, <1>2 DEF Counts
<1>4. ASSUME NEW i \in P
      PROVE  i + 1 \in P
  <2>1. CASE i + 1 <= Len(list)
    <3>1. i \in Nat /\ f[i] \in Nat /\ i + 1 \in 1 .. Len(list)
      BY <1>1, <2>1
    <3>2. f[i + 1] = f[i] + list[i + 1] /\ list[i + 1] \in Nat
      BY <1>2, <3>1, ElementOfSeq DEF Counts
    <3>3. QED
      BY <3>1, <3>2
  <2>2. CASE ~(i + 1 <= Len(list))
    BY <2>2
  <2>3. QED
    BY <2>1, <2>2
<1>5. P = Nat
  <2> HIDE DEF P
  <2>1. P \subseteq Nat
    BY DEF P
  <2>2. QED
    BY <1>3, <1>4, <2>1, Induction
<1>6. QED
  BY <1>1, <1>2, <1>5

-----------------------------------------------------------------------------
(* Lists to which an item is added, and from which one is taken.           *)
LEMMA LeastIndex ==
  ASSUME NEW T, T \subseteq Nat, T # {}
  PROVE  Min(T) \in T /\ \A x \in T : Min(T) <= x
BY LeastNat DEF Min

(* The list without the item at a place ...                                *)
LEMMA RemoveAtFacts ==
  ASSUME NEW S, NEW list \in Seq(S), NEW k \in 1 .. Len(list)
  PROVE  LET rest == RemoveAt(list, k)
         IN  /\ rest \in Seq(S) /\ Len(rest) = Len(list) - 1
             /\ \A i \in 1 .. Len(list) - 1 : rest[i] = IF i < k THEN list[i] ELSE list[i + 1]
<1> DEFINE n == Len(list)
           a == SubSeq(list, 1, k - 1)
           b == SubSeq(list, k + 1, Len(list))
           rest == RemoveAt(list, k)
<1>1. n \in Nat /\ \A i \in 1 .. n : list[i] \in S
  BY LenProperties, ElementOfSeq
<1>2. a \in Seq(S) /\ Len(a) = k - 1 /\ \A i \in 1 .. k - 1 : a[i] = list[i]
  <2>1. \A i \in 1 .. k - 1 : list[i] \in S
    BY <1>1
  <2>2. /\ a \in Seq(S) /\ Len(a) = IF 1 <= k - 1 THEN k - 1 - 1 + 1 ELSE 0
        /\ \A i \in 1 .. k - 1 - 1 + 1 : a[i] = list[1 + i - 1]
    BY <1>1, <2>1, SubSeqProperties
  <2> HIDE DEF a
  <2>3. Len(a) = k - 1
    BY <1>1, <2>2
  <2>4. ASSUME NEW i \in 1 .. k - 1
        PROVE  a[i] = list[i]
    <3>1. i \in 1 .. k - 1 - 1 + 1 /\ 1 + i - 1 = i
      BY <1>1
    <3>2. QED
      BY <2>2, <3>1
  <2>5. QED
    BY <2>2, <2>3, <2>4
<1>3. b \in Seq(S) /\ Len(b) = n - k /\ \A i \in 1 .. n - k : b[i] = list[k + i]
  <2>1. \A i \in k + 1 .. n : list[i] \in S
    BY <1>1
  <2>2. /\ b \in Seq(S) /\ Len(b) = IF k + 1 <= n THEN n - (k + 1) + 1 ELSE 0
        /\ \A i \in 1 .. n - (k + 1) + 1 : b[i] = list[k + 1 + i - 1]
    BY <1>1, <2>1, SubSeqProperties
  <2> HIDE DEF b
  <2>3. Len(b) = n - k
    BY <1>1, <2>2
  <2>4. ASSUME NEW i \in 1 .. n - k
        PROVE  b[i] = list[k + i]
    <3>1. i \in 1 .. n - (k + 1) + 1 /\ k + 1 + i - 1 = k + i
      BY <1>1
    <3>2. QED
      BY <2>2, <3>1
  <2>5. QED
    BY <2>2, <2>3, <2>4
<1>4. rest = a \o b
  BY DEF RemoveAt
<1> HIDE DEF a, b, rest
<1>5. /\ rest \in Seq(S) /\ Len(rest) = Len(a) + Len(b)
      /\ \A i \in 1 .. Len(a) + Len(b) :
           rest[i] = IF i <= Len(a) THEN a[i] ELSE b[i - Len(a)]
  BY <1>2, <1>3, <1>4, ConcatProperties
<1>6. Len(rest) = n - 1
  BY <1>1, <1>2, <1>3, <1>5
<1>7. ASSUME NEW i \in 1 .. n - 1
      PROVE  rest[i] = IF i < k THEN list[i] ELSE list[i + 1]
  <2>1. i \in 1 .. Len(a) + Len(b)
    BY <1>1, <1>2, <1>3
  <2>2. CASE i < k
    <3>1. i <= Len(a) /\ i \in 1 .. k - 1
      BY <1>1, <1>2, <2>2
    <3>2. QED
      BY <1>2, <1>5, <2>1, <2>2, <3>1
  <2>3. CASE ~(i < k)
    <3>1. ~(i <= Len(a)) /\ i - (k - 1) \in 1 .. n - k /\ k + (i - (k - 1)) = i + 1
      BY <1>1, <1>2, <2>3
    <3>2. rest[i] = b[i - (k - 1)]
      BY <1>2, <1>5, <2>1, <3>1
    <3>3. b[i - (k - 1)] = list[k + (i - (k - 1))]
      BY <1>3, <3>1
    <3>4. QED
      BY <2>3, <3>1, <3>2, <3>3
  <2>4. QED
    BY <2>2, <2>3
<1>8. QED
  BY <1>5, <1>6, <1>7 DEF rest

(* ... and with one more in front of it, or at the end.                    *)
LEMMA InsertAtFacts ==
  ASSUME NEW S, NEW list \in Seq(S), NEW k \in 1 .. Len(list) + 1,
         NEW s \in S
  PROVE  LET new == InsertAt(list, k, s)
         IN  /\ new \in Seq(S) /\ Len(new) = Len(list) + 1
             /\ \A i \in 1 .. Len(list) + 1 :
                  new[i] = IF i < k THEN list[i] ELSE IF i = k THEN s ELSE list[i - 1]
<1> DEFINE n == Len(list)
           a == SubSeq(list, 1, k - 1)
           b == SubSeq(list, k, Len(list))
           new == InsertAt(list, k, s)
<1>1. n \in Nat /\ \A i \in 1 .. n : list[i] \in S
  BY LenProperties, ElementOfSeq
<1>2. a \in Seq(S) /\ Len(a) = k - 1 /\ \A i \in 1 .. k - 1 : a[i] = list[i]
  <2>1. \A i \in 1 .. k - 1 : list[i] \in S
    BY <1>1
  <2>2. /\ a \in Seq(S) /\ Len(a) = IF 1 <= k - 1 THEN k - 1 - 1 + 1 ELSE 0
        /\ \A i \in 1 .. k - 1 - 1 + 1 : a[i] = list[1 + i - 1]
    BY <1>1, <2>1, SubSeqProperties
  <2> HIDE DEF a
  <2>3. Len(a) = k - 1
    BY <1>1, <2>2
  <2>4. ASSUME NEW i \in 1 .. k - 1
        PROVE  a[i] = list[i]
    <3>1. i \in 1 .. k - 1 - 1 + 1 /\ 1 + i - 1 = i
      BY <1>1
    <3>2. QED
      BY <2>2, <3>1
  <2>5. QED
    BY <2>2, <2>3, <2>4
<1>3. b \in Seq(S) /\ Len(b) = n - k + 1
      /\ \A i \in 1 .. n - k + 1 : b[i] = list[k + i - 1]
  <2>1. \A i \in k .. n : list[i] \in S
    BY <1>1
  <2>2. QED
    BY <1>1, <2>1, SubSeqProperties
<1>4. new = a \o <<s>> \o b
  BY DEF InsertAt
<1> HIDE DEF a, b, new
<1> DEFINE one == <<s>>
           c == a \o one
<1>5. one \in Seq(S) /\ Len(one) = 1 /\ one[1] = s
  OBVIOUS
<1> HIDE DEF one
<1>6. /\ c \in Seq(S) /\ Len(c) = Len(a) + Len(one)
      /\ \A i \in 1 .. Len(a) + Len(one) :
           c[i] = IF i <= Len(a) THEN a[i] ELSE one[i - Len(a)]
  BY <1>2, <1>5, ConcatProperties
<1>7. new = c \o b
  BY <1>4 DEF one
<1> HIDE DEF c
<1>8. /\ new \in Seq(S) /\ Len(new) = Len(c) + Len(b)
      /\ \A i \in 1 .. Len(c) + Len(b) :
           new[i] = IF i <= Len(c) THEN c[i] ELSE b[i - Len(c)]
  <2>1. c \in Seq(S) /\ b \in Seq(S)
    BY <1>3, <1>6
  <2>2. /\ c \o b \in Seq(S) /\ Len(c \o b) = Len(c) + Len(b)
        /\ \A i \in 1 .. Len(c) + Len(b) :
             (c \o b)[i] = IF i <= Len(c) THEN c[i] ELSE b[i - Len(c)]
    BY <2>1, ConcatProperties
  <2>3. QED
    BY <1>7, <2>2
<1>9. Len(c) = k /\ Len(new) = n + 1
  BY <1>1, <1>2, <1>3, <1>5, <1>6, <1>8
<1>10. ASSUME NEW i \in 1 .. n + 1
       PROVE  new[i] = IF i < k THEN list[i] ELSE IF i = k THEN s ELSE list[i - 1]
  <2>1. i \in 1 .. Len(c) + Len(b)
    BY <1>1, <1>3, <1>9
  <2>2. CASE i < k
    <3>1. i <= Len(c) /\ i <= Len(a) /\ i \in 1 .. k - 1 /\ i \in 1 .. Len(a) + Len(one)
      BY <1>1, <1>2, <1>5, <1>9, <2>2
    <3>2. new[i] = c[i] /\ c[i] = a[i] /\ a[i] = list[i]
      BY <1>2, <1>6, <1>8, <2>1, <3>1
    <3>3. QED
      BY <2>2, <3>2
  <2>3. CASE i = k
    <3>1. i <= Len(c) /\ ~(i <= Len(a)) /\ i - Len(a) = 1 /\ i \in 1 .. Len(a) + Len(one)
      BY <1>1, <1>2, <1>5, <1>9, <2>3
    <3>2. new[i] = c[i] /\ c[i] = one[i - Len(a)]
      BY <1>6, <1>8, <2>1, <3>1
    <3>3. QED
      BY <1>5, <2>3, <3>1, <3>2
  <2>4. CASE ~(i < k) /\ i # k
    <3>1. ~(i <= Len(c)) /\ i - k \in 1 .. n - k + 1 /\ k + (i - k) - 1 = i - 1
      BY <1>1, <1>9, <2>4
    <3>2. new[i] = b[i - k]
      BY <1>8, <1>9, <2>1, <3>1
    <3>3. b[i - k] = list[k + (i - k) - 1]
      BY <1>3, <3>1
    <3>4. QED
      BY <2>4, <3>1, <3>2, <3>3
  <2>5. QED
    BY <2>2, <2>3, <2>4
<1>11. QED
  BY <1>8, <1>9, <1>10 DEF new

-----------------------------------------------------------------------------
(* A function that is defined by a step from each number to the next one.  *)
Steps(step, S, n) == \A x \in S : \A i \in 1 .. n : step[<<x, i>>] \in S

Reached(base, step, S, n) ==
  \E f \in [0 .. n -> S] :
    f[0] = base /\ \A i \in 1 .. n : f[i] = step[<<f[i - 1], i>>]

LEMMA Recursion ==
  ASSUME NEW S, NEW base \in S, NEW n \in Nat, NEW step, Steps(step, S, n)
  PROVE  Reached(base, step, S, n)
<1> DEFINE P == {k \in Nat : k <= n =>
                   \E f \in [0 .. k -> S] :
                     f[0] = base /\ \A i \in 1 .. k : f[i] = step[<<f[i - 1], i>>]}
<1>1. 0 \in P
  <2> DEFINE f == [i \in 0 .. 0 |-> base]
  <2>1. f \in [0 .. 0 -> S] /\ f[0] = base /\ 1 .. 0 = {}
    OBVIOUS
  <2> HIDE DEF f
  <2>2. \A i \in 1 .. 0 : f[i] = step[<<f[i - 1], i>>]
    BY <2>1
  <2>3. QED
    BY <2>1, <2>2
<1>2. ASSUME NEW k \in P
      PROVE  k + 1 \in P
  <2>1. CASE k + 1 <= n
    <3>1. k \in Nat /\ k + 1 \in 1 .. n
      BY <2>1
    <3>2. PICK f \in [0 .. k -> S] :
            f[0] = base /\ \A i \in 1 .. k : f[i] = step[<<f[i - 1], i>>]
      BY <2>1, <3>1
    <3> DEFINE g == [i \in 0 .. k + 1 |->
                      IF i = k + 1 THEN step[<<f[k], k + 1>>] ELSE f[i]]
    <3>3. step[<<f[k], k + 1>>] \in S
      BY <3>1, <3>2 DEF Steps
    <3>4. g \in [0 .. k + 1 -> S]
      BY <3>1, <3>3
    <3>5. g[0] = base
      BY <3>1, <3>2
    <3>6. ASSUME NEW i \in 1 .. k + 1
          PROVE  g[i] = step[<<g[i - 1], i>>]
      <4>1. i - 1 \in 0 .. k + 1 /\ i \in 0 .. k + 1 /\ i - 1 # k + 1
        BY <3>1
      <4>2. g[i - 1] = f[i - 1]
        BY <4>1
      <4>3. CASE i = k + 1
        BY <3>1, <4>1, <4>2, <4>3
      <4>4. CASE i # k + 1
        <5>1. i \in 1 .. k /\ g[i] = f[i]
          BY <3>1, <4>1, <4>4
        <5>2. f[i] = step[<<f[i - 1], i>>]
          BY <3>2, <5>1
        <5>3. QED
          BY <4>2, <5>1, <5>2
      <4>5. QED
        BY <4>3, <4>4
    <3> HIDE DEF g
    <3>7. \A i \in 1 .. k + 1 : g[i] = step[<<g[i - 1], i>>]
      BY <3>6
    <3>8. \E h \in [0 .. k + 1 -> S] :
            h[0] = base /\ \A i \in 1 .. k + 1 : h[i] = step[<<h[i - 1], i>>]
      BY <3>4, <3>5, <3>7
    <3>9. k + 1 \in Nat
      BY <3>1
    <3>10. QED
      BY <3>8, <3>9, ZenonT(30)
  <2>2. CASE ~(k + 1 <= n)
    BY <2>2
  <2>3. QED
    BY <2>1, <2>2
<1>3. P = Nat
  <2> HIDE DEF P
  <2>1. P \subseteq Nat
    BY DEF P
  <2>2. QED
    BY <1>1, <1>2, <2>1, Induction
<1>4. n \in P
  BY <1>3
<1>5. QED
  BY <1>4 DEF Reached

-----------------------------------------------------------------------------
(* The least and the greatest of some numbers.                             *)
LEMMA MinFacts ==
  ASSUME NEW S, S \subseteq Nat, S # {}
  PROVE  Min(S) \in S /\ \A x \in S : Min(S) <= x
<1>1. \E x \in S : \A y \in S : x <= y
  BY LeastNat
<1>2. QED
  BY <1>1 DEF Min

LEMMA MaxFacts ==
  ASSUME NEW n \in Nat, NEW S, S \subseteq 0 .. n, S # {}
  PROVE  Max(S) \in S /\ \A x \in S : x <= Max(S)
<1> DEFINE T == {n - x : x \in S}
<1>1. T \subseteq Nat /\ T # {}
  <2>1. \A x \in S : n - x \in Nat
    OBVIOUS
  <2>2. T \subseteq Nat
    BY <2>1
  <2>3. QED
    BY <2>2
<1>2. PICK t \in T : \A y \in T : t <= y
  BY <1>1, LeastNat
<1>3. PICK x \in S : t = n - x
  BY <1>2
<1>4. \A y \in S : y <= x
  <2> TAKE y \in S
  <2>1. n - y \in T
    OBVIOUS
  <2>2. n - x <= n - y
    BY <1>2, <1>3, <2>1
  <2>3. x \in Nat /\ y \in Nat
    OBVIOUS
  <2>4. QED
    BY <2>2, <2>3
<1>5. QED
  BY <1>3, <1>4 DEF Max

-----------------------------------------------------------------------------
(* Ascending: a set of numbers, each in its place.                         *)
InPlace(m, numbers) ==
  /\ m \in [1 .. Cardinality(numbers) -> numbers]
  /\ \A i, j \in DOMAIN m : i < j => m[i] < m[j]
  /\ \A x \in numbers : \E i \in DOMAIN m : m[i] = x

LEMMA FiniteNumbers ==
  ASSUME NEW n \in Int, NEW T, T \subseteq 0 .. n
  PROVE  IsFiniteSet(T) /\ Cardinality(T) \in Nat
<1>1. IsFiniteSet(0 .. n)
  BY FS_Interval
<1>2. IsFiniteSet(T)
  BY <1>1, FS_Subset
<1>3. QED
  BY <1>2, FS_CardinalityType

LEMMA InPlaceExists ==
  ASSUME NEW n \in Nat, NEW T, T \subseteq 0 .. n - 1
  PROVE  \E m : InPlace(m, T)
<1> DEFINE P == {k \in Nat : \A U : U \subseteq 0 .. k - 1 => \E m : InPlace(m, U)}
<1>1. 0 \in P
  <2> SUFFICES ASSUME NEW U, U \subseteq 0 .. 0 - 1
               PROVE  \E m : InPlace(m, U)
    OBVIOUS
  <2>1. U = {} /\ Cardinality(U) = 0
    <3>1. U = {}
      OBVIOUS
    <3>2. QED
      BY <3>1, FS_EmptySet
  <2> DEFINE m == [i \in 1 .. 0 |-> 0]
  <2>2. m \in [1 .. Cardinality(U) -> U] /\ DOMAIN m = {}
    BY <2>1
  <2> HIDE DEF m
  <2>3. InPlace(m, U)
    BY <2>1, <2>2 DEF InPlace
  <2>4. QED
    BY <2>3
<1>2. ASSUME NEW k \in P
      PROVE  k + 1 \in P
  <2>1. k \in Nat
    OBVIOUS
  <2> SUFFICES ASSUME NEW U, U \subseteq 0 .. (k + 1) - 1
               PROVE  \E m : InPlace(m, U)
    BY <2>1
  <2>2. CASE k \notin U
    <3>1. U \subseteq 0 .. k - 1
      BY <2>1, <2>2
    <3>2. QED
      BY <3>1
  <2>3. CASE k \in U
    <3> DEFINE V == U \ {k}
               c == Cardinality(V)
    <3>1. V \subseteq 0 .. k - 1
      BY <2>1
    <3>2. PICK m : InPlace(m, V)
      BY <3>1
    <3>3. IsFiniteSet(U) /\ c \in Nat /\ Cardinality(U) \in Nat
      <4>1. k \in Int /\ U \subseteq 0 .. k /\ V \subseteq 0 .. k
        BY <2>1
      <4>2. c \in Nat
        BY <4>1, FiniteNumbers
      <4>3. QED
        BY <4>1, <4>2, FiniteNumbers
    <3>4. Cardinality(U) = c + 1
      <4>1. Cardinality(V) = Cardinality(U) - 1
        BY <2>3, <3>3, FS_RemoveElement
      <4> HIDE DEF V
      <4>2. QED
        BY <3>3, <4>1
    <3> HIDE DEF c
    <3>5. /\ m \in [1 .. c -> V]
          /\ \A i, j \in 1 .. c : i < j => m[i] < m[j]
          /\ \A x \in V : \E i \in 1 .. c : m[i] = x
      BY <3>2 DEF InPlace, c
    <3> DEFINE new == [i \in 1 .. c + 1 |-> IF i = c + 1 THEN k ELSE m[i]]
    <3>6. /\ \A i \in 1 .. c : new[i] = m[i] /\ m[i] \in V /\ m[i] < k
          /\ new[c + 1] = k /\ DOMAIN new = 1 .. c + 1
      <4>1. \A i \in 1 .. c : i \in 1 .. c + 1 /\ i # c + 1
        BY <3>3
      <4>2. \A x \in V : x < k
        BY <2>1, <3>1
      <4>3. \A i \in 1 .. c : m[i] \in V
        BY <3>5
      <4>4. \A i \in 1 .. c : new[i] = m[i]
        BY <4>1
      <4>5. c + 1 \in 1 .. c + 1
        BY <3>3
      <4>6. QED
        BY <4>2, <4>3, <4>4, <4>5
    <3> HIDE DEF new
    <3>7. \A i \in 1 .. c + 1 : i \in 1 .. c \/ i = c + 1
      BY <3>3
    <3>8. new \in [1 .. c + 1 -> U]
      <4>1. \A i \in 1 .. c + 1 : new[i] \in U
        BY <2>3, <3>6, <3>7
      <4>2. new = [i \in 1 .. c + 1 |-> new[i]]
        BY DEF new
      <4>3. QED
        BY <4>1, <4>2
    <3>9. ASSUME NEW i \in 1 .. c + 1, NEW j \in 1 .. c + 1, i < j
          PROVE  new[i] < new[j]
      <4>1. i \in 1 .. c
        BY <3>3, <3>9
      <4>2. CASE j = c + 1
        BY <3>6, <4>1, <4>2
      <4>3. CASE j \in 1 .. c
        BY <3>5, <3>6, <3>9, <4>1, <4>3
      <4>4. QED
        BY <3>7, <4>2, <4>3
    <3>10. ASSUME NEW x \in U
           PROVE  \E i \in 1 .. c + 1 : new[i] = x
      <4>1. CASE x = k
        <5>1. c + 1 \in 1 .. c + 1
          BY <3>3
        <5>2. QED
          BY <3>6, <4>1, <5>1
      <4>2. CASE x # k
        <5>1. PICK i \in 1 .. c : m[i] = x
          BY <3>5, <4>2
        <5>2. i \in 1 .. c + 1
          BY <3>3
        <5>3. QED
          BY <3>6, <5>1, <5>2
      <4>3. QED
        BY <4>1, <4>2
    <3>11. InPlace(new, U)
      BY <3>4, <3>6, <3>8, <3>9, <3>10 DEF InPlace
    <3>12. QED
      BY <3>11
  <2>4. QED
    BY <2>2, <2>3
<1>3. P = Nat
  <2> HIDE DEF P
  <2>1. P \subseteq Nat
    BY DEF P
  <2>2. QED
    BY <1>1, <1>2, <2>1, Induction
<1>4. QED
  BY <1>3

RankIn(T, x) == Cardinality({y \in T : y <= x})

LEMMA RankInPlace ==
  ASSUME NEW n \in Nat, NEW T, T \subseteq 0 .. n - 1, NEW m, InPlace(m, T),
         NEW i \in 1 .. Cardinality(T)
  PROVE  RankIn(T, m[i]) = i
<1> DEFINE c == Cardinality(T)
           S == {y \in T : y <= m[i]}
           f == [j \in 1 .. i |-> m[j]]
<1>1. c \in Nat
  <2>1. n \in Int /\ T \subseteq 0 .. n
    OBVIOUS
  <2>2. QED
    BY <2>1, FiniteNumbers, Zenon
<1>2. /\ \A j \in 1 .. c : m[j] \in T
      /\ \A j, k \in 1 .. c : j < k => m[j] < m[k]
      /\ \A x \in T : \E j \in 1 .. c : m[j] = x
  BY DEF InPlace
<1>3. \A y \in T : y \in Int
  OBVIOUS
<1> HIDE DEF c
<1>4. i \in 1 .. c /\ i \in Nat /\ 1 .. i \subseteq 1 .. c
  BY <1>1 DEF c
<1>5. \A j \in 1 .. i : f[j] \in S
  <2> TAKE j \in 1 .. i
  <2>1. j \in 1 .. c /\ m[j] \in T /\ m[i] \in T
    BY <1>2, <1>4
  <2>2. m[j] \in Int /\ m[i] \in Int
    BY <1>3, <2>1
  <2>3. j = i \/ j < i
    BY <1>4
  <2>4. m[j] <= m[i]
    BY <1>2, <1>4, <2>1, <2>2, <2>3
  <2>5. QED
    BY <2>1, <2>4
<1>6. \A x \in S : \E j \in 1 .. i : f[j] = x
  <2> TAKE x \in S
  <2>1. PICK j \in 1 .. c : m[j] = x
    BY <1>2
  <2>2. x \in Int /\ m[i] \in Int /\ x <= m[i]
    BY <1>2, <1>3, <1>4
  <2>3. ~(i < j)
    BY <1>2, <1>4, <2>1, <2>2
  <2>4. j \in 1 .. i
    BY <1>1, <1>4, <2>3
  <2>5. QED
    BY <2>1, <2>4
<1>7. \A j, k \in 1 .. i : f[j] = f[k] => j = k
  <2> TAKE j, k \in 1 .. i
  <2>1. j \in 1 .. c /\ k \in 1 .. c
    BY <1>4
  <2>2. m[j] \in Int /\ m[k] \in Int
    BY <1>2, <1>3, <2>1
  <2>3. j < k \/ k < j \/ j = k
    BY <1>1, <2>1
  <2>4. QED
    BY <1>2, <2>1, <2>2, <2>3
<1>8. f \in Bijection(1 .. i, S)
  <2>1. f \in [1 .. i -> S]
    BY <1>5
  <2> HIDE DEF f, S
  <2>2. QED
    BY <1>6, <1>7, <2>1, Fun_IsBij
<1>9. ExistsBijection(1 .. i, S)
  BY <1>8 DEF ExistsBijection
<1> HIDE DEF f, S
<1>10. Cardinality(S) = i
  BY <1>4, <1>9, FS_CountingElements
<1>11. QED
  BY <1>10 DEF S, RankIn

LEMMA AscendingFacts ==
  ASSUME NEW n \in Nat, NEW T, T \subseteq 0 .. n - 1
  PROVE  InPlace(Ascending(T), T)
<1> DEFINE c == Cardinality(T)
<1>1. PICK m : InPlace(m, T)
  BY InPlaceExists
<1>2. /\ m \in [1 .. c -> T]
      /\ \A x \in T : \E i \in 1 .. c : m[i] = x
  BY <1>1 DEF InPlace
<1>3. \A i \in 1 .. c : RankIn(T, m[i]) = i
  <2> TAKE i \in 1 .. c
  <2>1. QED
    BY <1>1, RankInPlace, Zenon
<1>4. \A i \in 1 .. c : (CHOOSE x \in T : RankIn(T, x) = i) = m[i]
  <2> HIDE DEF c
  <2> TAKE i \in 1 .. c
  <2>1. m[i] \in T /\ RankIn(T, m[i]) = i
    BY <1>2, <1>3
  <2>2. \A x \in T : RankIn(T, x) = i => x = m[i]
    BY <1>2, <1>3
  <2>3. QED
    BY <2>1, <2>2
<1>5. Ascending(T) = [i \in 1 .. c |-> CHOOSE x \in T : RankIn(T, x) = i]
  BY DEF Ascending, RankIn
<1>6. Ascending(T) = m
  <2> HIDE DEF c
  <2>1. QED
    BY <1>2, <1>4, <1>5
<1>7. QED
  BY <1>1, <1>6

LEMMA AscendingPlaces ==
  ASSUME NEW n \in Nat, NEW T, T \subseteq 1 .. n
  PROVE  /\ InPlace(Ascending(T), T)
         /\ IsFiniteSet(T) /\ Cardinality(T) \in Nat
<1>1. /\ n \in Int /\ T \subseteq 0 .. n
      /\ n + 1 \in Nat /\ T \subseteq 0 .. (n + 1) - 1
  OBVIOUS
<1>2. InPlace(Ascending(T), T)
  BY <1>1, AscendingFacts
<1>3. IsFiniteSet(T) /\ Cardinality(T) \in Nat
  BY <1>1, FiniteNumbers
<1>4. QED
  BY <1>2, <1>3

(* What of a list lies at some places.                                    *)
KeptBy(l, T) ==
  \E n \in Nat : \E m \in [1 .. n -> T] :
    /\ Kept(l, T) = [k \in 1 .. n |-> l[m[k]]]
    /\ \A i, j \in 1 .. n : i < j => m[i] < m[j]
    /\ \A x \in T : \E i \in 1 .. n : m[i] = x

LEMMA KeptFacts ==
  ASSUME NEW l, Len(l) \in Nat, NEW T, T \subseteq 1 .. Len(l)
  PROVE  KeptBy(l, T)
<1> DEFINE m == Ascending(T)
           n == Cardinality(T)
<1>1. /\ Len(l) \in Int /\ T \subseteq 0 .. Len(l)
      /\ Len(l) + 1 \in Nat /\ T \subseteq 0 .. (Len(l) + 1) - 1
  OBVIOUS
<1>2. n \in Nat
  BY <1>1, FiniteNumbers, Zenon
<1>3. InPlace(m, T)
  BY <1>1, AscendingFacts, Zenon
<1>4. /\ m \in [1 .. n -> T] /\ DOMAIN m = 1 .. n
      /\ \A i, j \in 1 .. n : i < j => m[i] < m[j]
      /\ \A x \in T : \E i \in 1 .. n : m[i] = x
  BY <1>3 DEF InPlace
<1>5. Kept(l, T) = [k \in 1 .. n |-> l[m[k]]]
  BY <1>4 DEF Kept
<1> HIDE DEF m, n
<1>6. QED
  BY <1>2, <1>4, <1>5 DEF KeptBy

-----------------------------------------------------------------------------
(* Tables of pictures.                                                     *)
(* The sequence that begins at b.                                          *)
SequenceAt(p, n, b) == b .. SeqEnd(p, n, b) - 1

IsTable(p, n) == n \in Nat /\ p \in [0 .. n - 1 -> Picture]

RanksPermuted(p, n, b) ==
  /\ \A i \in SequenceAt(p, n, b) : p[i].seqnr < SeqEnd(p, n, b) - b
  /\ \A i, j \in SequenceAt(p, n, b) : p[i].seqnr = p[j].seqnr => i = j

GoodTable(p, n) ==
  /\ IsTable(p, n)
  /\ n > 0 => p[0].hdr
  /\ \A b \in 0 .. n - 1 : p[b].hdr => RanksPermuted(p, n, b)

(* When the picture stored at i is displayed, pictures skipped counted.    *)
Place(p, i) == p[i].seqnr + SeqBegin(p, i)

-----------------------------------------------------------------------------
LEMMA IntervalSize ==
  ASSUME NEW a \in Int, NEW b \in Int, a <= b + 1
  PROVE  IsFiniteSet(a .. b) /\ Cardinality(a .. b) = b - a + 1
<1>1. /\ IsFiniteSet(a .. b)
      /\ Cardinality(a .. b) = IF a > b THEN 0 ELSE b - a + 1
  BY FS_Interval
<1>2. a > b => b - a + 1 = 0
  OBVIOUS
<1>3. QED
  BY <1>1, <1>2

-----------------------------------------------------------------------------
(* The sequence that holds a picture.                                      *)
LEMMA SeqBeginFacts ==
  ASSUME NEW p, NEW n \in Nat, NEW i \in 0 .. n - 1, p[0].hdr
  PROVE  /\ SeqBegin(p, i) \in 0 .. i
         /\ p[SeqBegin(p, i)].hdr
         /\ \A j \in 0 .. i : p[j].hdr => j <= SeqBegin(p, i)
<1> DEFINE S == {0} \cup {j \in 0 .. i : p[j].hdr}
<1>1. S \subseteq 0 .. i /\ S # {} /\ i \in Nat
  OBVIOUS
<1>2. Max(S) \in S /\ \A x \in S : x <= Max(S)
  BY <1>1, MaxFacts
<1>3. SeqBegin(p, i) = Max(S)
  BY DEF SeqBegin
<1>4. QED
  BY <1>2, <1>3

LEMMA SeqEndFacts ==
  ASSUME NEW p, NEW n \in Nat, NEW b \in Nat, b < n
  PROVE  /\ SeqEnd(p, n, b) \in b + 1 .. n
         /\ SeqEnd(p, n, b) < n => p[SeqEnd(p, n, b)].hdr
         /\ \A j \in b + 1 .. SeqEnd(p, n, b) - 1 : ~p[j].hdr
<1> DEFINE S == {n} \cup {j \in b + 1 .. n - 1 : p[j].hdr}
<1>1. S \subseteq Nat /\ S # {}
  OBVIOUS
<1>2. Min(S) \in S /\ \A x \in S : Min(S) <= x
  BY <1>1, MinFacts
<1>3. SeqEnd(p, n, b) = Min(S)
  BY DEF SeqEnd
<1>4. Min(S) \in b + 1 .. n
  BY <1>2
<1>5. Min(S) < n => p[Min(S)].hdr
  BY <1>2
<1>6. ASSUME NEW j \in b + 1 .. Min(S) - 1, p[j].hdr
      PROVE  FALSE
  <2>1. j \in S
    BY <1>4, <1>6
  <2>2. QED
    BY <1>2, <1>4, <2>1
<1>7. QED
  BY <1>3, <1>4, <1>5, <1>6

(* A picture lies in the sequence that begins at its sequence's begin, and *)
(* all pictures of a sequence have the same begin.                         *)
LEMMA SameSequence ==
  ASSUME NEW p, NEW n \in Nat, p[0].hdr, NEW b \in 0 .. n - 1, p[b].hdr,
         NEW i \in 0 .. n - 1
  PROVE  i \in SequenceAt(p, n, b) <=> SeqBegin(p, i) = b
<1> DEFINE e == SeqEnd(p, n, b)
<1>1. /\ e \in b + 1 .. n
      /\ e < n => p[e].hdr
      /\ \A j \in b + 1 .. e - 1 : ~p[j].hdr
  BY SeqEndFacts
<1>2. /\ SeqBegin(p, i) \in 0 .. i
      /\ p[SeqBegin(p, i)].hdr
      /\ \A j \in 0 .. i : p[j].hdr => j <= SeqBegin(p, i)
  BY SeqBeginFacts
<1> HIDE DEF e
<1>3. ASSUME i \in b .. e - 1
      PROVE  SeqBegin(p, i) = b
  <2>1. b <= SeqBegin(p, i)
    BY <1>2, <1>3
  <2>2. CASE SeqBegin(p, i) # b
    BY <1>1, <1>2, <1>3, <2>1, <2>2
  <2>3. QED
    BY <2>2
<1>4. ASSUME SeqBegin(p, i) = b
      PROVE  i \in b .. e - 1
  <2>1. CASE i >= e
    <3>1. e \in 0 .. i /\ e < n
      BY <1>1, <2>1
    <3>2. QED
      BY <1>1, <1>2, <1>4, <3>1
  <2>2. QED
    BY <1>1, <1>2, <1>4, <2>1
<1>5. QED
  BY <1>3, <1>4 DEF SequenceAt, e

-----------------------------------------------------------------------------
(* Every rank of a sequence is given: there are as many pictures as ranks. *)
LEMMA RankFound ==
  ASSUME NEW p, NEW n, GoodTable(p, n), NEW b \in 0 .. n - 1, p[b].hdr,
         NEW r \in 0 .. SeqEnd(p, n, b) - b - 1
  PROVE  \E i \in SequenceAt(p, n, b) : p[i].seqnr = r
<1> DEFINE e == SeqEnd(p, n, b)
           S == SequenceAt(p, n, b)
           T == 0 .. e - b - 1
           f == [i \in S |-> p[i].seqnr]
<1>1. e \in b + 1 .. n /\ n \in Nat /\ b \in Nat
  BY SeqEndFacts DEF GoodTable, IsTable
<1>2. S = b .. e - 1
  BY DEF SequenceAt
<1>3. RanksPermuted(p, n, b)
  BY DEF GoodTable
<1>4. \A i \in S : p[i].seqnr \in T
  <2> TAKE i \in S
  <2>1. i \in 0 .. n - 1
    BY <1>1, <1>2
  <2>2. p[i].seqnr \in Nat
    BY <2>1, SeqNrsAssumption DEF GoodTable, IsTable, Picture
  <2>3. p[i].seqnr < e - b
    BY <1>3 DEF RanksPermuted
  <2>4. QED
    BY <1>1, <2>2, <2>3
<1>5. f \in Injection(S, T)
  BY <1>3, <1>4 DEF RanksPermuted, Injection, IsInjective
<1>6. /\ IsFiniteSet(T) /\ Cardinality(T) = e - b
      /\ Cardinality(S) = e - b
  <2> HIDE DEF e
  <2>1. /\ e - 1 \in Int /\ b \in Int /\ e - b - 1 \in Int /\ 0 \in Int
        /\ b <= e - 1 + 1 /\ 0 <= e - b - 1 + 1
    BY <1>1
  <2>2. IsFiniteSet(b .. e - 1) /\ Cardinality(b .. e - 1) = e - 1 - b + 1
    BY <2>1, IntervalSize
  <2>3. IsFiniteSet(0 .. e - b - 1) /\ Cardinality(0 .. e - b - 1) = e - b - 1 - 0 + 1
    BY <2>1, IntervalSize
  <2>4. e - 1 - b + 1 = e - b /\ e - b - 1 - 0 + 1 = e - b
    BY <1>1
  <2>5. QED
    BY <1>2, <2>2, <2>3, <2>4
<1>7. f \in Surjection(S, T)
  BY <1>5, <1>6, FS_Injection
<1>8. PICK i \in S : f[i] = r
  BY <1>7 DEF Surjection
<1>9. QED
  BY <1>8

(* indexnr() finds each picture, in the sequence in which it lies.         *)
LEMMA IndexNrFacts ==
  ASSUME NEW p, NEW n, GoodTable(p, n), NEW skip \in Int, NEW pic \in Int,
         pic + skip \in 0 .. n - 1
  PROVE  /\ IndexNr(p, n, skip, pic) \in 0 .. n - 1
         /\ SeqBegin(p, IndexNr(p, n, skip, pic)) = SeqBegin(p, pic + skip)
         /\ Place(p, IndexNr(p, n, skip, pic)) = pic + skip
         /\ PictureNr(p, skip, IndexNr(p, n, skip, pic)) = pic
<1> DEFINE x == pic + skip
           b == SeqBegin(p, x)
           e == SeqEnd(p, n, b)
           S == {n} \cup {i \in b .. n - 1 : p[i].seqnr = x - b}
<1>1. n \in Nat /\ x \in 0 .. n - 1 /\ p[0].hdr
  BY DEF GoodTable, IsTable
<1>2. b \in 0 .. x /\ p[b].hdr
  BY <1>1, SeqBeginFacts
<1>3. b \in 0 .. n - 1 /\ b \in Nat /\ b < n
  BY <1>1, <1>2
<1>4. x \in SequenceAt(p, n, b)
  BY <1>1, <1>2, <1>3, SameSequence
<1>5. e \in b + 1 .. n /\ SequenceAt(p, n, b) = b .. e - 1
  BY <1>1, <1>3, SeqEndFacts DEF SequenceAt
<1>6. IndexNr(p, n, skip, pic) = Min(S)
  <2>1. pic + skip - b = x - b
    BY <1>3
  <2>2. QED
    BY <2>1 DEF IndexNr
<1> HIDE DEF b, e
<1>7. x - b \in 0 .. e - b - 1
  BY <1>1, <1>2, <1>4, <1>5
<1>8. PICK i \in b .. e - 1 : p[i].seqnr = x - b
  BY <1>2, <1>3, <1>5, <1>7, RankFound DEF e
<1>9. Min(S) \in S /\ \A y \in S : Min(S) <= y
  <2>1. S \subseteq Nat /\ S # {}
    BY <1>1, <1>3
  <2> HIDE DEF S
  <2>2. QED
    BY <2>1, MinFacts
<1>10. i \in S /\ i < n
  <2>1. i \in b .. n - 1
    BY <1>1, <1>3, <1>5
  <2>2. QED
    BY <1>1, <1>3, <1>8, <2>1
<1>11. Min(S) \in b .. e - 1 /\ p[Min(S)].seqnr = x - b
  <2>1. Min(S) <= i
    BY <1>9, <1>10
  <2>2. Min(S) \in b .. n - 1 /\ p[Min(S)].seqnr = x - b
    BY <1>1, <1>3, <1>5, <1>9, <1>10, <2>1
  <2>3. QED
    BY <1>3, <1>5, <1>8, <2>1, <2>2
<1> DEFINE k == Min(S)
<1>12. k \in 0 .. n - 1
  BY <1>1, <1>3, <1>5, <1>11
<1>13. SeqBegin(p, k) = b
  BY <1>1, <1>2, <1>3, <1>5, <1>11, <1>12, SameSequence
<1> HIDE DEF S
<1>14. Place(p, k) = x - b + b
  BY <1>11, <1>13 DEF Place
<1>15. PictureNr(p, skip, k) = x - b + b - skip
  BY <1>11, <1>13 DEF PictureNr
<1>16. x - b + b = x /\ x - b + b - skip = pic
  BY <1>3
<1>17. QED
  BY <1>6, <1>12, <1>13, <1>14, <1>15, <1>16 DEF b

(* picturenr() gives a place in the sequence, and each place once.         *)
LEMMA PlaceFacts ==
  ASSUME NEW p, NEW n, GoodTable(p, n), NEW i \in 0 .. n - 1
  PROVE  /\ Place(p, i) \in 0 .. n - 1
         /\ SeqBegin(p, Place(p, i)) = SeqBegin(p, i)
<1> DEFINE b == SeqBegin(p, i)
           e == SeqEnd(p, n, b)
<1>1. n \in Nat /\ i \in Nat /\ p[0].hdr
  BY DEF GoodTable, IsTable
<1>2. b \in 0 .. i /\ p[b].hdr
  BY <1>1, SeqBeginFacts
<1>3. b \in 0 .. n - 1 /\ b \in Nat /\ b < n
  BY <1>1, <1>2
<1>4. i \in SequenceAt(p, n, b)
  BY <1>1, <1>2, <1>3, SameSequence
<1>5. e \in b + 1 .. n /\ SequenceAt(p, n, b) = b .. e - 1
  BY <1>1, <1>3, SeqEndFacts DEF SequenceAt
<1>6. p[i].seqnr \in Nat
  BY SeqNrsAssumption DEF GoodTable, IsTable, Picture
<1>7. p[i].seqnr < e - b
  BY <1>2, <1>3, <1>4 DEF GoodTable, RanksPermuted
<1>8. Place(p, i) = p[i].seqnr + b
  BY DEF Place
<1> HIDE DEF b, e
<1>9. Place(p, i) \in b .. e - 1 /\ Place(p, i) \in 0 .. n - 1
  BY <1>1, <1>3, <1>5, <1>6, <1>7, <1>8
<1>10. Place(p, i) \in SequenceAt(p, n, b)
  BY <1>5, <1>9
<1>12. SeqBegin(p, Place(p, i)) = b
  BY <1>1, <1>2, <1>3, <1>9, <1>10, SameSequence
<1>11. QED
  BY <1>9, <1>12 DEF b

LEMMA PlaceUnique ==
  ASSUME NEW p, NEW n, GoodTable(p, n), NEW i \in 0 .. n - 1, NEW j \in 0 .. n - 1,
         Place(p, i) = Place(p, j)
  PROVE  i = j
<1> DEFINE b == SeqBegin(p, i)
<1>1. n \in Nat /\ i \in Nat /\ j \in Nat /\ p[0].hdr
  BY DEF GoodTable, IsTable
<1>2. SeqBegin(p, j) = b
  BY PlaceFacts
<1>3. b \in 0 .. i /\ p[b].hdr
  BY <1>1, SeqBeginFacts
<1>4. b \in 0 .. n - 1 /\ b \in Nat
  BY <1>1, <1>3
<1> HIDE DEF b
<1>5. i \in SequenceAt(p, n, b) /\ j \in SequenceAt(p, n, b)
  BY <1>1, <1>2, <1>3, <1>4, SameSequence DEF b
<1>6. p[i].seqnr \in Nat /\ p[j].seqnr \in Nat
  <2>1. p[i] \in Picture /\ p[j] \in Picture
    BY DEF GoodTable, IsTable
  <2>2. QED
    BY <2>1, SeqNrsAssumption DEF Picture
<1>7. p[i].seqnr + b = p[j].seqnr + b
  BY <1>2 DEF Place, b
<1>8. p[i].seqnr = p[j].seqnr
  BY <1>4, <1>6, <1>7
<1>9. QED
  BY <1>3, <1>4, <1>5, <1>8 DEF GoodTable, RanksPermuted

(* The reverse: a picture is found where it is stored.                     *)
LEMMA PictureFound ==
  ASSUME NEW p, NEW n, GoodTable(p, n), NEW skip \in Int, NEW i \in 0 .. n - 1
  PROVE  /\ PictureNr(p, skip, i) = Place(p, i) - skip
         /\ IndexNr(p, n, skip, PictureNr(p, skip, i)) = i
<1>2. Place(p, i) \in 0 .. n - 1 /\ n \in Nat
  BY PlaceFacts DEF GoodTable, IsTable
<1>1. PictureNr(p, skip, i) = Place(p, i) - skip
  <2>1. i \in 0 .. n - 1 /\ p[0].hdr /\ n \in Nat
    BY DEF GoodTable, IsTable
  <2>2. SeqBegin(p, i) \in Int
    BY <2>1, SeqBeginFacts
  <2>3. p[i].seqnr \in Nat
    BY SeqNrsAssumption DEF GoodTable, IsTable, Picture
  <2>4. QED
    BY <2>2, <2>3 DEF PictureNr, Place
<1> DEFINE pic == Place(p, i) - skip
<1>3. pic \in Int /\ pic + skip = Place(p, i)
  BY <1>2
<1> HIDE DEF pic
<1>4. /\ IndexNr(p, n, skip, pic) \in 0 .. n - 1
      /\ Place(p, IndexNr(p, n, skip, pic)) = pic + skip
  BY <1>2, <1>3, IndexNrFacts
<1>5. IndexNr(p, n, skip, pic) = i
  BY <1>3, <1>4, PlaceUnique
<1>6. QED
  BY <1>1, <1>5 DEF pic

-----------------------------------------------------------------------------
(* As many pictures of a sequence are displayed before rank r as it says.  *)
LEMMA RankCount ==
  ASSUME NEW p, NEW n, GoodTable(p, n), NEW b \in 0 .. n - 1, p[b].hdr,
         NEW r \in 0 .. SeqEnd(p, n, b) - b
  PROVE  Cardinality({i \in SequenceAt(p, n, b) : p[i].seqnr < r}) = r
<1> DEFINE e == SeqEnd(p, n, b)
           C == {i \in SequenceAt(p, n, b) : p[i].seqnr < r}
           T == 0 .. r - 1
           f == [i \in C |-> p[i].seqnr]
<1>1. e \in b + 1 .. n /\ n \in Nat /\ b \in Nat /\ r \in Nat
  BY SeqEndFacts DEF GoodTable, IsTable
<1>2. SequenceAt(p, n, b) = b .. e - 1
  BY DEF SequenceAt
<1>3. RanksPermuted(p, n, b)
  BY DEF GoodTable
<1>4. \A i \in C : p[i].seqnr \in T
  <2> TAKE i \in C
  <2>1. i \in 0 .. n - 1
    BY <1>1, <1>2
  <2>2. p[i].seqnr \in Nat
    BY <2>1, SeqNrsAssumption DEF GoodTable, IsTable, Picture
  <2>3. QED
    BY <1>1, <2>2
<1>5. f \in Injection(C, T)
  BY <1>3, <1>4 DEF RanksPermuted, Injection, IsInjective
<1>6. \A x \in T : \E i \in C : p[i].seqnr = x
  <2> TAKE x \in T
  <2>1. x \in 0 .. e - b - 1 /\ x < r
    BY <1>1
  <2>2. PICK i \in SequenceAt(p, n, b) : p[i].seqnr = x
    BY <2>1, RankFound
  <2>3. QED
    BY <2>1, <2>2
<1>7. f \in Surjection(C, T)
  BY <1>4, <1>6 DEF Surjection
<1>8. IsFiniteSet(T) /\ Cardinality(T) = r
  <2>1. 0 \in Int /\ r - 1 \in Int /\ 0 <= r - 1 + 1 /\ r - 1 - 0 + 1 = r
    BY <1>1
  <2>2. QED
    BY <2>1, IntervalSize
<1> HIDE DEF C, T, f
<1>9. Cardinality(C) = Cardinality(T)
  BY <1>5, <1>7, <1>8, FS_Injection
<1>10. QED
  BY <1>8, <1>9 DEF C

(* check(): the first picture shown is the first I frame of the file.      *)
LEMMA SkipFirstFacts ==
  ASSUME NEW p, NEW n, GoodTable(p, n), IFrames(p, n) # {}
  PROVE  /\ Min(IFrames(p, n)) \in IFrames(p, n)
         /\ \A i \in IFrames(p, n) : Min(IFrames(p, n)) <= i
         /\ SkipFirst(p, n) = Place(p, Min(IFrames(p, n)))
         /\ SkipFirst(p, n) \in 0 .. n - 1
         /\ IndexNr(p, n, SkipFirst(p, n), 0) = Min(IFrames(p, n))
<1> DEFINE first == Min(IFrames(p, n))
           b == SeqBegin(p, first)
           e == SeqEnd(p, n, b)
           r == p[first].seqnr
<1>1. n \in Nat
  BY DEF GoodTable, IsTable
<1>2. first \in IFrames(p, n) /\ \A i \in IFrames(p, n) : first <= i
  <2>1. IFrames(p, n) \subseteq Nat
    BY <1>1 DEF IFrames
  <2>2. QED
    BY <2>1, MinFacts
<1> HIDE DEF first
<1>3. first \in 0 .. n - 1 /\ first \in Nat /\ n > 0 /\ p[0].hdr
  BY <1>1, <1>2 DEF IFrames, GoodTable
<1>4. b \in 0 .. first /\ p[b].hdr
  BY <1>1, <1>3, SeqBeginFacts
<1>5. b \in 0 .. n - 1 /\ b \in Nat /\ b < n
  BY <1>1, <1>3, <1>4
<1>6. e \in b + 1 .. n
  BY <1>1, <1>5, SeqEndFacts
<1> HIDE DEF b, e
<1>7. first \in SequenceAt(p, n, b)
  BY <1>1, <1>3, <1>4, <1>5, SameSequence DEF b
<1>8. r \in Nat /\ r < e - b
  <2>1. RanksPermuted(p, n, b)
    BY <1>4, <1>5 DEF GoodTable
  <2>2. r \in Nat
    BY <1>3, SeqNrsAssumption DEF GoodTable, IsTable, Picture
  <2>3. QED
    BY <1>7, <2>1, <2>2 DEF RanksPermuted, e
<1>9. Cardinality({i \in SequenceAt(p, n, b) : p[i].seqnr < r}) = r
  <2>1. r \in 0 .. e - b
    BY <1>5, <1>6, <1>8
  <2>2. QED
    BY <1>4, <1>5, <2>1, RankCount DEF e
<1>10. SkipFirst(p, n) = b + r
  BY <1>9 DEF SkipFirst, SequenceAt, first, b
<1>11. Place(p, first) = r + b
  BY DEF Place, b
<1>12. SkipFirst(p, n) = Place(p, first)
  BY <1>5, <1>8, <1>10, <1>11
<1>13. Place(p, first) \in 0 .. n - 1
  BY <1>3, PlaceFacts
<1>14. IndexNr(p, n, SkipFirst(p, n), 0) = first
  <2> DEFINE skip == SkipFirst(p, n)
  <2>1. skip \in Int /\ Place(p, first) - skip = 0
    BY <1>12, <1>13
  <2> HIDE DEF skip
  <2>2. /\ PictureNr(p, skip, first) = Place(p, first) - skip
        /\ IndexNr(p, n, skip, PictureNr(p, skip, first)) = first
    BY <1>3, <2>1, PictureFound
  <2>3. QED
    BY <2>1, <2>2 DEF skip
<1>15. QED
  BY <1>2, <1>12, <1>13, <1>14 DEF first

(* And the last one is no B frame.                                         *)
LEMMA RealPicturesFacts ==
  ASSUME NEW p, NEW n, GoodTable(p, n)
  PROVE  /\ IFrames(p, n) = {} => RealPictures(p, n) = 0
         /\ IFrames(p, n) # {} =>
              /\ RealPictures(p, n) \in 1 .. n - SkipFirst(p, n)
              /\ p[IndexNr(p, n, SkipFirst(p, n), RealPictures(p, n) - 1)].type # "B"
<1>1. IFrames(p, n) = {} => RealPictures(p, n) = 0
  BY DEF RealPictures
<1>2. ASSUME IFrames(p, n) # {}
      PROVE  /\ RealPictures(p, n) \in 1 .. n - SkipFirst(p, n)
             /\ p[IndexNr(p, n, SkipFirst(p, n), RealPictures(p, n) - 1)].type # "B"
  <2> DEFINE skip == SkipFirst(p, n)
             S == {r \in 1 .. n - skip :
                     \/ IndexNr(p, n, skip, r - 1) = n
                     \/ p[IndexNr(p, n, skip, r - 1)].type # "B"}
  <2>1. n \in Nat
    BY DEF GoodTable, IsTable
  <2>2. /\ skip \in 0 .. n - 1
        /\ IndexNr(p, n, skip, 0) = Min(IFrames(p, n))
        /\ Min(IFrames(p, n)) \in IFrames(p, n)
    BY <1>2, SkipFirstFacts
  <2>3. RealPictures(p, n) = Max({0} \cup S)
    BY <1>2 DEF RealPictures
  <2> HIDE DEF skip
  <2>4. 1 \in S
    <3>1. 1 \in 1 .. n - skip /\ 1 - 1 = 0
      BY <2>1, <2>2
    <3>2. p[IndexNr(p, n, skip, 0)].type = "I"
      BY <2>2 DEF IFrames
    <3>3. QED
      BY <3>1, <3>2
  <2>5. {0} \cup S \subseteq 0 .. n - skip /\ n - skip \in Nat
    BY <2>1, <2>2
  <2>6. ASSUME NEW r \in S
        PROVE  p[IndexNr(p, n, skip, r - 1)].type # "B"
    <3>1. r - 1 \in Int /\ r - 1 + skip \in 0 .. n - 1 /\ skip \in Int
      BY <2>1, <2>2
    <3>2. IndexNr(p, n, skip, r - 1) \in 0 .. n - 1
      BY <3>1, IndexNrFacts
    <3>3. IndexNr(p, n, skip, r - 1) # n
      BY <2>1, <3>2
    <3>4. QED
      BY <3>3
  <2>7. S \subseteq 1 .. n - skip
    OBVIOUS
  <2> HIDE DEF S
  <2>8. /\ Max({0} \cup S) \in {0} \cup S
        /\ \A x \in {0} \cup S : x <= Max({0} \cup S)
    BY <2>5, MaxFacts
  <2>9. Max({0} \cup S) \in S
    BY <2>4, <2>8
  <2>10. QED
    BY <2>3, <2>6, <2>7, <2>9 DEF skip
<1>3. QED
  BY <1>1, <1>2

-----------------------------------------------------------------------------
(* load() accepts a good table, and what it accepts is a good table.       *)
LEMMA GoodAccepted ==
  ASSUME NEW p, NEW n, GoodTable(p, n), n > 0
  PROVE  RanksOK(p, n)
<1>1. n \in Nat /\ 0 \in 0 .. n - 1 /\ p[0].hdr
  BY DEF GoodTable, IsTable
<1>2. ASSUME NEW b \in 0 .. n - 1, p[b].hdr, NEW j \in 0 .. SeqEnd(p, n, b) - b - 1
      PROVE  Cardinality({i \in SequenceAt(p, n, b) : p[i].seqnr = j}) = 1
  <2> DEFINE C == {i \in SequenceAt(p, n, b) : p[i].seqnr = j}
  <2>1. PICK i \in SequenceAt(p, n, b) : p[i].seqnr = j
    BY <1>2, RankFound
  <2>2. \A k \in C : k = i
    BY <1>2, <2>1 DEF GoodTable, RanksPermuted
  <2>3. C = {i}
    BY <2>1, <2>2
  <2> HIDE DEF C
  <2>4. Cardinality(C) = 1
    BY <2>3, FS_Singleton
  <2>5. QED
    BY <2>4 DEF C
<1>3. QED
  BY <1>1, <1>2 DEF RanksOK, SequenceAt

LEMMA AcceptedGood ==
  ASSUME NEW p, NEW n, IsTable(p, n), n > 0 => p[0].hdr, RanksOK(p, n)
  PROVE  GoodTable(p, n)
<1> SUFFICES ASSUME NEW b \in 0 .. n - 1, p[b].hdr
             PROVE  RanksPermuted(p, n, b)
  BY DEF GoodTable
<1> DEFINE e == SeqEnd(p, n, b)
           S == SequenceAt(p, n, b)
           T == 0 .. e - b - 1
           Of(j) == {i \in S : p[i].seqnr = j}
           f == [j \in T |-> CHOOSE i \in S : p[i].seqnr = j]
<1>1. e \in b + 1 .. n /\ n \in Nat /\ b \in Nat
  BY SeqEndFacts DEF IsTable
<1>2. S = b .. e - 1
  BY DEF SequenceAt
<1>3. IsFiniteSet(S) /\ IsFiniteSet(T) /\ Cardinality(S) = Cardinality(T)
  <2> HIDE DEF e, f, Of
  <2>1. /\ e - 1 \in Int /\ b \in Int /\ e - b - 1 \in Int /\ 0 \in Int
        /\ b <= e - 1 + 1 /\ 0 <= e - b - 1 + 1
    BY <1>1
  <2>2. IsFiniteSet(b .. e - 1) /\ Cardinality(b .. e - 1) = e - 1 - b + 1
    BY <2>1, IntervalSize
  <2>3. IsFiniteSet(0 .. e - b - 1) /\ Cardinality(0 .. e - b - 1) = e - b - 1 - 0 + 1
    BY <2>1, IntervalSize
  <2>4. e - 1 - b + 1 = e - b /\ e - b - 1 - 0 + 1 = e - b
    BY <1>1
  <2>5. QED
    BY <1>2, <2>2, <2>3, <2>4
<1>4. \A j \in T : Cardinality(Of(j)) = 1
  BY DEF RanksOK, SequenceAt
<1>5. \A j \in T : \E x : Of(j) = {x}
  <2> TAKE j \in T
  <2>1. Of(j) \in SUBSET S
    OBVIOUS
  <2>2. Cardinality(Of(j)) = 1
    BY <1>4
  <2> HIDE DEF Of, S
  <2>3. IsFiniteSet(Of(j))
    BY <1>3, <2>1, FS_Subset
  <2>4. QED
    BY <2>2, <2>3, FS_Singleton
<1>6. \A j \in T : f[j] \in S /\ p[f[j]].seqnr = j
  BY <1>5
<1>7. f \in Injection(T, S)
  BY <1>6 DEF Injection, IsInjective
<1>8. f \in Surjection(T, S)
  <2> HIDE DEF S, T, f
  <2>1. QED
    BY <1>3, <1>7, FS_Injection
<1>9. \A i \in S : p[i].seqnr \in T
  <2> TAKE i \in S
  <2>1. PICK j \in T : f[j] = i
    BY <1>8 DEF Surjection
  <2>2. QED
    BY <1>6, <2>1
<1>10. ASSUME NEW i \in S, NEW j \in S, p[i].seqnr = p[j].seqnr
       PROVE  i = j
  <2>1. i \in Of(p[i].seqnr) /\ j \in Of(p[i].seqnr)
    BY <1>10
  <2> HIDE DEF Of
  <2>2. QED
    BY <1>5, <1>9, <2>1
<1>11. \A i \in S : p[i].seqnr < e - b
  BY <1>1, <1>9
<1>12. QED
  BY <1>10, <1>11 DEF RanksPermuted

-----------------------------------------------------------------------------
(* What is computed from a table depends on its n pictures only: a file    *)
(* has more records.                                                       *)
Agree(p, q, n) == \A i \in 0 .. n - 1 : q[i] = p[i]

LEMMA SeqBeginAgrees ==
  ASSUME NEW p, NEW q, NEW n \in Nat, Agree(p, q, n), NEW i \in 0 .. n - 1
  PROVE  SeqBegin(q, i) = SeqBegin(p, i)
<1>1. {j \in 0 .. i : q[j].hdr} = {j \in 0 .. i : p[j].hdr}
  <2>1. \A j \in 0 .. i : q[j] = p[j]
    BY DEF Agree
  <2>2. QED
    BY <2>1
<1>2. QED
  BY <1>1 DEF SeqBegin

LEMMA SeqEndAgrees ==
  ASSUME NEW p, NEW q, NEW n \in Nat, Agree(p, q, n), NEW b \in Nat
  PROVE  SeqEnd(q, n, b) = SeqEnd(p, n, b)
<1>1. {j \in b + 1 .. n - 1 : q[j].hdr} = {j \in b + 1 .. n - 1 : p[j].hdr}
  <2>1. \A j \in b + 1 .. n - 1 : q[j] = p[j]
    BY DEF Agree
  <2>2. QED
    BY <2>1
<1>2. QED
  BY <1>1 DEF SeqEnd

LEMMA IndexNrAgrees ==
  ASSUME NEW p, NEW q, NEW n \in Nat, Agree(p, q, n), n > 0, p[0].hdr,
         NEW skip, NEW pic, pic + skip \in 0 .. n - 1
  PROVE  IndexNr(q, n, skip, pic) = IndexNr(p, n, skip, pic)
<1> DEFINE b == SeqBegin(p, pic + skip)
<1>1. SeqBegin(q, pic + skip) = b
  BY SeqBeginAgrees
<1>2. b \in 0 .. pic + skip
  BY SeqBeginFacts
<1>3. b \in Nat
  BY <1>2
<1> HIDE DEF b
<1>4. \A i \in b .. n - 1 : q[i] = p[i]
  BY <1>3 DEF Agree
<1>5. {i \in b .. n - 1 : q[i].seqnr = pic + skip - b}
      = {i \in b .. n - 1 : p[i].seqnr = pic + skip - b}
  BY <1>4
<1>6. QED
  BY <1>1, <1>5 DEF IndexNr, b

LEMMA CheckAgrees ==
  ASSUME NEW p, NEW q, NEW n, GoodTable(p, n), Agree(p, q, n), n > 0
  PROVE  /\ RanksOK(q, n)
         /\ SkipFirst(q, n) = SkipFirst(p, n)
         /\ RealPictures(q, n) = RealPictures(p, n)
<1>1. n \in Nat /\ p[0].hdr
  BY DEF GoodTable, IsTable
<1>2. \A i \in 0 .. n - 1 : q[i] = p[i]
  BY DEF Agree
<1>3. RanksOK(q, n)
  <2>1. RanksOK(p, n)
    BY GoodAccepted
  <2>2. {i \in 0 .. n - 1 : q[i].hdr} = {i \in 0 .. n - 1 : p[i].hdr}
    BY <1>2
  <2>3. ASSUME NEW b \in {0} \cup {i \in 0 .. n - 1 : p[i].hdr},
               NEW j \in 0 .. SeqEnd(p, n, b) - b - 1
        PROVE  {i \in b .. SeqEnd(p, n, b) - 1 : q[i].seqnr = j}
               = {i \in b .. SeqEnd(p, n, b) - 1 : p[i].seqnr = j}
    <3>1. b \in Nat /\ b < n
      BY <1>1
    <3>2. SeqEnd(p, n, b) \in b + 1 .. n
      BY <1>1, <3>1, SeqEndFacts
    <3>3. \A i \in b .. SeqEnd(p, n, b) - 1 : q[i] = p[i]
      BY <1>1, <1>2, <3>1, <3>2
    <3>4. QED
      BY <3>3
  <2>4. \A b \in {0} \cup {i \in 0 .. n - 1 : p[i].hdr} :
          SeqEnd(q, n, b) = SeqEnd(p, n, b)
    BY <1>1, SeqEndAgrees
  <2>5. SUFFICES ASSUME NEW b \in {0} \cup {i \in 0 .. n - 1 : q[i].hdr},
                        NEW j \in 0 .. SeqEnd(q, n, b) - b - 1
                 PROVE  Cardinality({i \in b .. SeqEnd(q, n, b) - 1 :
                                       q[i].seqnr = j}) = 1
    BY DEF RanksOK
  <2>6. b \in {0} \cup {i \in 0 .. n - 1 : p[i].hdr}
    BY <2>2
  <2>7. SeqEnd(q, n, b) = SeqEnd(p, n, b)
    BY <2>4, <2>6
  <2>8. {i \in b .. SeqEnd(p, n, b) - 1 : q[i].seqnr = j}
        = {i \in b .. SeqEnd(p, n, b) - 1 : p[i].seqnr = j}
    BY <2>3, <2>6, <2>7
  <2>9. Cardinality({i \in b .. SeqEnd(p, n, b) - 1 : p[i].seqnr = j}) = 1
    BY <2>1, <2>6, <2>7 DEF RanksOK
  <2>10. QED
    BY <2>7, <2>8, <2>9
<1>4. IFrames(q, n) = IFrames(p, n)
  BY <1>2 DEF IFrames
<1>5. SkipFirst(q, n) = SkipFirst(p, n)
  <2>1. CASE IFrames(p, n) = {}
    BY <1>4, <2>1 DEF SkipFirst
  <2>2. CASE IFrames(p, n) # {}
    <3> DEFINE first == Min(IFrames(p, n))
               b == SeqBegin(p, first)
               e == SeqEnd(p, n, b)
    <3>1. first \in 0 .. n - 1
      BY <2>2, SkipFirstFacts DEF IFrames
    <3>2. SeqBegin(q, first) = b
      BY <1>1, <3>1, SeqBeginAgrees
    <3>3. b \in 0 .. first
      BY <1>1, <3>1, SeqBeginFacts
    <3>4. b \in Nat /\ b < n
      BY <1>1, <3>1, <3>3
    <3>5. SeqEnd(q, n, b) = e
      BY <1>1, <3>4, SeqEndAgrees
    <3>6. e \in b + 1 .. n
      BY <1>1, <3>4, SeqEndFacts
    <3> HIDE DEF b, e
    <3>7. \A i \in b .. e - 1 : q[i] = p[i]
      BY <1>1, <1>2, <3>4, <3>6
    <3>8. q[first] = p[first]
      BY <1>2, <3>1
    <3>9. {i \in b .. e - 1 : q[i].seqnr < q[first].seqnr}
          = {i \in b .. e - 1 : p[i].seqnr < p[first].seqnr}
      BY <3>7, <3>8
    <3>10. QED
      BY <1>4, <2>2, <3>2, <3>5, <3>9 DEF SkipFirst, b, e
  <2>3. QED
    BY <2>1, <2>2
<1>6. RealPictures(q, n) = RealPictures(p, n)
  <2>1. CASE IFrames(p, n) = {}
    BY <1>4, <2>1 DEF RealPictures
  <2>2. CASE IFrames(p, n) # {}
    <3> DEFINE skip == SkipFirst(p, n)
               FileOf(t, r) == IndexNr(t, n, skip, r - 1)
    <3>1. skip \in 0 .. n - 1
      BY <2>2, SkipFirstFacts
    <3> HIDE DEF skip
    <3>2. ASSUME NEW r \in 1 .. n - skip
          PROVE  FileOf(q, r) = FileOf(p, r) /\ FileOf(p, r) \in 0 .. n - 1
      <4>1. r - 1 \in Int /\ skip \in Int /\ r - 1 + skip \in 0 .. n - 1
        BY <1>1, <3>1
      <4>2. QED
        BY <1>1, <4>1, IndexNrAgrees, IndexNrFacts
    <3>3. \A r \in 1 .. n - skip :
            (FileOf(q, r) = n \/ q[FileOf(q, r)].type # "B")
            <=> (FileOf(p, r) = n \/ p[FileOf(p, r)].type # "B")
      BY <1>2, <3>2
    <3> HIDE DEF FileOf
    <3>4. {r \in 1 .. n - skip : FileOf(q, r) = n \/ q[FileOf(q, r)].type # "B"}
          = {r \in 1 .. n - skip : FileOf(p, r) = n \/ p[FileOf(p, r)].type # "B"}
      BY <3>3
    <3>5. QED
      BY <1>4, <1>5, <2>2, <3>4 DEF RealPictures, FileOf, skip
  <2>3. QED
    BY <2>1, <2>2
<1>7. QED
  BY <1>3, <1>5, <1>6

-----------------------------------------------------------------------------
(* The pictures that load() looks up in the MPEG file begin sequences.     *)
LEMMA ProbedBegin ==
  ASSUME NEW q, NEW n \in Nat
  PROVE  \A i \in Probed(q, n) : i \in 0 .. n - 1 /\ q[i].hdr
<1> DEFINE J(i) == Min({n} \cup {k \in i .. n - 1 : q[k].hdr})
           Rec(f) == [i \in Nat |-> IF J(i) >= n THEN {} ELSE {J(i)} \cup f[2 * J(i)]]
           V == 0 .. n - 1
           Closed(g) == \A m \in Nat : Rec(g)[m] \subseteq g[m]
           L == [i \in Nat |-> {y \in V : \A g \in [Nat -> SUBSET V] :
                                           Closed(g) => y \in g[i]}]
           from == CHOOSE f : f = Rec(f)
<1>1. ASSUME NEW i \in Nat
      PROVE  /\ J(i) \in Nat /\ J(i) <= n
             /\ ~(J(i) >= n) => J(i) >= i /\ q[J(i)].hdr
  <2> DEFINE S == {n} \cup {k \in i .. n - 1 : q[k].hdr}
  <2>1. S \subseteq Nat /\ S # {} /\ n \in S
    OBVIOUS
  <2>2. Min(S) \in S /\ \A x \in S : Min(S) <= x
    BY <2>1, MinFacts
  <2>3. QED
    BY <2>1, <2>2
<1> HIDE DEF J
<1>2. \A f : \A i \in Nat : Rec(f)[i] = IF J(i) >= n THEN {} ELSE {J(i)} \cup f[2 * J(i)]
  OBVIOUS
<1>3. \A f : DOMAIN Rec(f) = Nat
  OBVIOUS
<1>4. \A f \in [Nat -> SUBSET V] : Rec(f) \in [Nat -> SUBSET V]
  <2> TAKE f \in [Nat -> SUBSET V]
  <2>1. ASSUME NEW i \in Nat
        PROVE  (IF J(i) >= n THEN {} ELSE {J(i)} \cup f[2 * J(i)]) \in SUBSET V
    <3>1. CASE J(i) >= n
      BY <3>1
    <3>2. CASE ~(J(i) >= n)
      <4>1. J(i) \in V /\ 2 * J(i) \in Nat
        BY <1>1, <3>2
      <4>2. f[2 * J(i)] \in SUBSET V
        BY <4>1
      <4>3. QED
        BY <3>2, <4>1, <4>2
    <3>3. QED
      BY <3>1, <3>2
  <2>2. QED
    BY <2>1
<1>5. \A f, g : (\A m \in Nat : f[m] \subseteq g[m]) =>
                 \A i \in Nat : Rec(f)[i] \subseteq Rec(g)[i]
  <2> TAKE f, g
  <2> HAVE \A m \in Nat : f[m] \subseteq g[m]
  <2> TAKE i \in Nat
  <2>1. 2 * J(i) \in Nat
    BY <1>1
  <2>2. f[2 * J(i)] \subseteq g[2 * J(i)]
    BY <2>1
  <2> HIDE DEF Rec
  <2>3. QED
    BY <1>2, <2>2
<1> HIDE DEF Rec
<1>6. L \in [Nat -> SUBSET V]
  OBVIOUS
<1>7. \A g \in [Nat -> SUBSET V] : Closed(g) => \A i \in Nat : L[i] \subseteq g[i]
  OBVIOUS
<1>8. \A i \in Nat : Rec(L)[i] \subseteq L[i]
  <2> TAKE i \in Nat
  <2>1. ASSUME NEW g \in [Nat -> SUBSET V], Closed(g)
        PROVE  Rec(L)[i] \subseteq g[i]
    <3>1. Rec(L)[i] \subseteq Rec(g)[i]
      <4>1. \A m \in Nat : L[m] \subseteq g[m]
        BY <1>7, <2>1
      <4> HIDE DEF L
      <4>2. QED
        BY <1>5, <4>1
    <3>2. Rec(g)[i] \subseteq g[i]
      BY <2>1
    <3>3. QED
      BY <3>1, <3>2
  <2>2. Rec(L)[i] \in SUBSET V
    <3> HIDE DEF L
    <3>1. QED
      BY <1>4, <1>6
  <2>3. ASSUME NEW y \in Rec(L)[i]
        PROVE  y \in L[i]
    <3>1. y \in V
      BY <2>2
    <3>2. \A g \in [Nat -> SUBSET V] : Closed(g) => y \in g[i]
      BY <2>1
    <3>3. QED
      BY <3>1, <3>2
  <2>4. QED
    BY <2>3
<1>9. Closed(Rec(L))
  <2> HIDE DEF L
  <2>1. QED
    BY <1>5, <1>8
<1>10. \A i \in Nat : L[i] \subseteq Rec(L)[i]
  <2>1. Rec(L) \in [Nat -> SUBSET V]
    <3> HIDE DEF L
    <3>1. QED
      BY <1>4, <1>6
  <2>2. QED
    BY <1>7, <1>9, <2>1
<1> HIDE DEF L, Closed
<1>11. L = Rec(L)
  <2>1. \A i \in Nat : L[i] = Rec(L)[i]
    BY <1>8, <1>10
  <2>2. DOMAIN L = Nat /\ DOMAIN Rec(L) = Nat
    BY <1>3, <1>6
  <2>3. Rec(L) \in [Nat -> SUBSET V]
    BY <1>4, <1>6
  <2>4. QED
    BY <1>6, <2>1, <2>3
<1>12. from = Rec(from)
  BY <1>11
<1>13. Probed(q, n) = from[1]
  BY DEF Probed, Rec, J
<1> HIDE DEF from
<1>14. \A i \in Nat : from[i] = IF J(i) >= n THEN {} ELSE {J(i)} \cup from[2 * J(i)]
  BY <1>2, <1>12
<1> DEFINE H == {k \in V : q[k].hdr}
           P == {m \in Nat : \A i \in Nat \ {0} : i + m >= n => from[i] \subseteq H}
<1>15. 0 \in P
  <2>1. ASSUME NEW i \in Nat \ {0}, i + 0 >= n
        PROVE  from[i] \subseteq H
    <3>1. J(i) >= n
      BY <1>1, <2>1
    <3>2. QED
      BY <1>14, <3>1
  <2>2. QED
    BY <2>1
<1>16. ASSUME NEW m \in P
       PROVE  m + 1 \in P
  <2>1. ASSUME NEW i \in Nat \ {0}, i + (m + 1) >= n
        PROVE  from[i] \subseteq H
    <3>1. CASE J(i) >= n
      BY <1>14, <3>1
    <3>2. CASE ~(J(i) >= n)
      <4>1. J(i) \in H /\ J(i) >= i
        BY <1>1, <3>2
      <4>2. 2 * J(i) \in Nat \ {0} /\ 2 * J(i) + m >= n
        BY <1>1, <2>1, <4>1
      <4>3. from[2 * J(i)] \subseteq H
        BY <4>2
      <4>4. QED
        BY <1>14, <3>2, <4>1, <4>3
    <3>3. QED
      BY <3>1, <3>2
  <2>2. m + 1 \in Nat
    OBVIOUS
  <2>3. QED
    BY <2>1, <2>2
<1>17. n \in P
  <2> HIDE DEF P
  <2>1. P \subseteq Nat
    BY DEF P
  <2>2. P = Nat
    BY <1>15, <1>16, <2>1, Induction
  <2>3. QED
    BY <2>2
<1>18. from[1] \subseteq H
  <2>1. 1 \in Nat \ {0} /\ 1 + n >= n
    OBVIOUS
  <2>2. QED
    BY <1>17, <2>1
<1>19. QED
  BY <1>13, <1>18
=============================================================================
