------------------------- MODULE EventList_proofs --------------------------
(***************************************************************************)
(* Proofs about the event list, for every file, project and setting: the   *)
(* cut table is what the markers select after every edit, and what the     *)
(* time display and the go-to field make of it agree.                      *)
(*                                                                         *)
(* The scan of a list is described by what it has of the selection after   *)
(* every item.  An edit that leaves the cut table alone leaves the         *)
(* selection alone: the old list is part of the new one, or the new one of *)
(* the old one, with all START and STOP markers.                           *)
(***************************************************************************)
EXTENDS EventList, Common_proofs

-----------------------------------------------------------------------------
-----------------------------------------------------------------------------
(* Lists and parts of them.                                                *)
SameSelection(a, b) ==
  \A opts \in CutOptions, pic \in Pics : Selected(a, opts, pic) <=> Selected(b, opts, pic)

Picks(m, a, l) ==
  /\ \A k \in 1 .. Len(a) : m[k] \in 1 .. Len(l) /\ l[m[k]] = a[k]
  /\ \A j, k \in 1 .. Len(a) : j < k => m[j] < m[k]

LEMMA ItemList ==
  ASSUME NEW l \in Seq(Items)
  PROVE  /\ Len(l) \in Nat /\ DOMAIN l = 1 .. Len(l)
         /\ \A i \in 1 .. Len(l) : /\ l[i] \in Items /\ l[i].pic \in Pics
                                   /\ l[i].pic \in Nat /\ l[i].type \in EventTypes
<1>1. Len(l) \in Nat /\ DOMAIN l = 1 .. Len(l)
  BY LenProperties
<1>2. \A i \in 1 .. Len(l) : l[i] \in Items
  BY ElementOfSeq
<1>3. \A item \in Items : item.pic \in Pics /\ item.pic \in Nat /\ item.type \in EventTypes
  BY CutTableAssumption DEF Items, Pics
<1>4. QED
  BY <1>1, <1>2, <1>3

(* A part of a list is in order ...                                        *)
LEMMA PartOrdered ==
  ASSUME NEW l \in Seq(Items), Ordered(l), NEW a \in Seq(Items), NEW m, Picks(m, a, l)
  PROVE  Ordered(a)
<1>1. DOMAIN a = 1 .. Len(a) /\ DOMAIN l = 1 .. Len(l)
  BY ItemList
<1>2. ASSUME NEW i \in 1 .. Len(a), NEW j \in 1 .. Len(a), i < j
      PROVE  a[i].pic <= a[j].pic
  <2>1. m[i] \in 1 .. Len(l) /\ m[j] \in 1 .. Len(l) /\ m[i] < m[j]
    BY <1>2 DEF Picks
  <2>2. l[m[i]].pic <= l[m[j]].pic
    BY <1>1, <2>1 DEF Ordered
  <2>3. QED
    BY <2>2 DEF Picks
<1>3. QED
  BY <1>1, <1>2 DEF Ordered

(* ... and selects the same if no START and no STOP is missing.            *)
LEMMA PartSelects ==
  ASSUME NEW l \in Seq(Items), NEW a \in Seq(Items), NEW m, Picks(m, a, l),
         \A i \in CutsOf(l) : \E k \in 1 .. Len(a) : m[k] = i
  PROVE  SameSelection(a, l)
<1> DEFINE A == CutsOf(a)
           L == CutsOf(l)
<1>1. Len(a) \in Nat /\ Len(l) \in Nat /\ DOMAIN a = 1 .. Len(a) /\ DOMAIN l = 1 .. Len(l)
  BY ItemList
<1>2. A \subseteq 1 .. Len(a) /\ L \subseteq 1 .. Len(l)
  BY <1>1 DEF CutsOf
<1>3. \A k \in A : m[k] \in L /\ l[m[k]] = a[k] /\ m[k] \in Nat /\ k \in Nat
  <2>1. \A k \in A : m[k] \in 1 .. Len(l) /\ l[m[k]] = a[k]
    BY <1>2 DEF Picks
  <2>2. \A k \in A : a[k].type \in {"start", "stop"}
    BY DEF CutsOf
  <2>3. QED
    BY <1>1, <1>2, <2>1, <2>2 DEF CutsOf
<1>4. \A i \in L : \E k \in A : m[k] = i
  <2>1. ASSUME NEW i \in L
        PROVE  \E k \in A : m[k] = i
    <3>1. PICK k \in 1 .. Len(a) : m[k] = i
      OBVIOUS
    <3>2. l[i].type \in {"start", "stop"} /\ l[i] = a[k]
      BY <3>1 DEF CutsOf, Picks
    <3>3. QED
      BY <1>1, <3>1, <3>2 DEF CutsOf
  <2>2. QED
    BY <2>1
<1>5. ASSUME NEW j \in A, NEW k \in A
      PROVE  j <= k <=> m[j] <= m[k]
  <2>1. j \in 1 .. Len(a) /\ k \in 1 .. Len(a)
    BY <1>2
  <2>2. (j < k => m[j] < m[k]) /\ (k < j => m[k] < m[j])
    BY <2>1 DEF Picks
  <2>3. m[j] \in Nat /\ m[k] \in Nat /\ j \in Nat /\ k \in Nat
    BY <1>3
  <2>4. QED
    BY <2>2, <2>3
<1>6. ASSUME NEW opts, NEW pic
      PROVE  On(a, A, opts, pic) <=> On(l, L, opts, pic)
  <2> HIDE DEF A, L
  <2>1. (\E i \in A : /\ a[i].pic <= pic /\ a[i].type = "start"
                      /\ \A k \in A : a[k].pic <= pic => k <= i)
        <=> (\E i \in L : /\ l[i].pic <= pic /\ l[i].type = "start"
                          /\ \A k \in L : l[k].pic <= pic => k <= i)
    <3>1. ASSUME NEW i \in A, a[i].pic <= pic, a[i].type = "start",
                 \A k \in A : a[k].pic <= pic => k <= i
          PROVE  \E j \in L : /\ l[j].pic <= pic /\ l[j].type = "start"
                              /\ \A k \in L : l[k].pic <= pic => k <= j
      <4>1. m[i] \in L /\ l[m[i]] = a[i]
        BY <1>3
      <4>2. ASSUME NEW k \in L, l[k].pic <= pic
            PROVE  k <= m[i]
        <5>1. PICK q \in A : m[q] = k
          BY <1>4
        <5>2. a[q] = l[k]
          BY <1>3, <5>1
        <5>3. q <= i
          BY <3>1, <4>2, <5>2
        <5>4. QED
          BY <1>5, <5>1, <5>3
      <4>3. QED
        BY <3>1, <4>1, <4>2
    <3>2. ASSUME NEW j \in L, l[j].pic <= pic, l[j].type = "start",
                 \A k \in L : l[k].pic <= pic => k <= j
          PROVE  \E i \in A : /\ a[i].pic <= pic /\ a[i].type = "start"
                              /\ \A k \in A : a[k].pic <= pic => k <= i
      <4>1. PICK i \in A : m[i] = j
        BY <1>4
      <4>2. a[i] = l[j]
        BY <1>3, <4>1
      <4>3. ASSUME NEW k \in A, a[k].pic <= pic
            PROVE  k <= i
        <5>1. m[k] \in L /\ l[m[k]] = a[k]
          BY <1>3
        <5>2. m[k] <= m[i]
          BY <3>2, <4>1, <4>3, <5>1
        <5>3. QED
          BY <1>5, <5>2
      <4>4. QED
        BY <3>2, <4>2, <4>3
    <3>3. QED
      BY <3>1, <3>2
  <2>2. (\A i \in A : pic < a[i].pic) <=> (\A i \in L : pic < l[i].pic)
    <3>1. ASSUME \A i \in A : pic < a[i].pic, NEW j \in L
          PROVE  pic < l[j].pic
      BY <1>3, <1>4, <3>1
    <3>2. ASSUME \A i \in L : pic < l[i].pic, NEW k \in A
          PROVE  pic < a[k].pic
      BY <1>3, <3>2
    <3>3. QED
      BY <3>1, <3>2
  <2>3. (\A i \in A : (\A k \in A : i <= k) => a[i].type = "stop")
        <=> (\A i \in L : (\A k \in L : i <= k) => l[i].type = "stop")
    <3>1. ASSUME \A i \in A : (\A k \in A : i <= k) => a[i].type = "stop",
                 NEW j \in L, \A k \in L : j <= k
          PROVE  l[j].type = "stop"
      <4>1. PICK i \in A : m[i] = j
        BY <1>4
      <4>2. ASSUME NEW k \in A
            PROVE  i <= k
        <5>1. m[k] \in L
          BY <1>3
        <5>2. m[i] <= m[k]
          BY <3>1, <4>1, <5>1
        <5>3. QED
          BY <1>5, <5>2
      <4>3. a[i].type = "stop"
        BY <3>1, <4>2
      <4>4. QED
        BY <1>3, <4>1, <4>3
    <3>2. ASSUME \A i \in L : (\A k \in L : i <= k) => l[i].type = "stop",
                 NEW i \in A, \A k \in A : i <= k
          PROVE  a[i].type = "stop"
      <4>1. m[i] \in L /\ l[m[i]] = a[i]
        BY <1>3
      <4>2. ASSUME NEW k \in L
            PROVE  m[i] <= k
        <5>1. PICK q \in A : m[q] = k
          BY <1>4
        <5>2. i <= q
          BY <3>2
        <5>3. QED
          BY <1>5, <5>1, <5>2
      <4>3. QED
        BY <3>2, <4>1, <4>2
    <3>3. QED
      BY <3>1, <3>2
  <2>4. QED
    BY <2>1, <2>2, <2>3 DEF On
<1>7. ASSUME NEW pic
      PROVE  StopAhead(a, A, pic) <=> StopAhead(l, L, pic)
  <2>1. ASSUME NEW k \in A, pic < a[k].pic /\ a[k].type = "stop"
        PROVE  \E i \in L : pic < l[i].pic /\ l[i].type = "stop"
    BY <1>3, <2>1
  <2>2. ASSUME NEW i \in L, pic < l[i].pic /\ l[i].type = "stop"
        PROVE  \E k \in A : pic < a[k].pic /\ a[k].type = "stop"
    BY <1>3, <1>4, <2>2
  <2>3. QED
    BY <2>1, <2>2 DEF StopAhead
<1> HIDE DEF A, L
<1>8. QED
  BY <1>6, <1>7 DEF SameSelection, Selected, A, L

NoCut(item) == item.type \notin {"start", "stop"}

Grown(new, l, more) ==
  /\ new \in Seq(Items) /\ Ordered(new)
  /\ ToSet(new) \subseteq ToSet(l) \cup more /\ ToSet(l) \subseteq ToSet(new)

(* A marker goes behind those of its own and of earlier pictures: the list *)
(* stays in order, and selects the same unless it is a START or a STOP.    *)
LEMMA AddItemFacts ==
  ASSUME NEW l \in Seq(Items), Ordered(l), NEW item \in Items
  PROVE  /\ Grown(AddItem(l, item), l, {item})
         /\ NoCut(item) => SameSelection(l, AddItem(l, item))
<1> DEFINE n == Len(l)
           later == {i \in DOMAIN l : item.pic < l[i].pic}
           k == IF later = {} THEN Len(l) + 1 ELSE Min(later)
           new == AddItem(l, item)
<1>1. /\ n \in Nat /\ DOMAIN l = 1 .. n
      /\ \A i \in 1 .. n : l[i] \in Items /\ l[i].pic \in Nat
      /\ item.pic \in Nat
  <2>1. item.pic \in Nat
    BY CutTableAssumption DEF Items, Pics
  <2>2. QED
    BY <2>1, ItemList
<1>2. CASE Contains(l, item)
  <2>1. new = l
    BY <1>2 DEF AddItem
  <2>2. SameSelection(l, l)
    BY DEF SameSelection
  <2>3. QED
    BY <2>1, <2>2 DEF Grown
<1>3. CASE ~Contains(l, item)
  <2>1. new = InsertAt(l, k, item)
    BY <1>3 DEF AddItem
  <2>2. /\ k \in 1 .. n + 1
        /\ \A i \in 1 .. n : i < k => l[i].pic <= item.pic
        /\ \A i \in 1 .. n : k <= i => item.pic < l[i].pic
    <3>1. CASE later = {}
      <4>1. k = n + 1
        BY <3>1
      <4>2. \A i \in 1 .. n : ~(item.pic < l[i].pic)
        BY <1>1, <3>1
      <4> HIDE DEF k
      <4>3. QED
        BY <1>1, <4>1, <4>2
    <3>2. CASE later # {}
      <4>1. k = Min(later)
        BY <3>2
      <4>2. later \subseteq 1 .. n /\ later \subseteq Nat
        BY <1>1
      <4>3. k \in later /\ \A x \in later : k <= x
        BY <3>2, <4>1, <4>2, LeastIndex
      <4>4. k \in 1 .. n /\ item.pic < l[k].pic
        BY <4>3
      <4>5. \A i \in 1 .. n : i < k => ~(item.pic < l[i].pic)
        <5> HIDE DEF k
        <5>1. \A i \in 1 .. n : item.pic < l[i].pic => i \in later
          BY <1>1
        <5> HIDE DEF later
        <5>2. QED
          BY <1>1, <4>3, <4>4, <5>1
      <4> HIDE DEF k, later
      <4>6. \A i \in 1 .. n : k <= i => l[k].pic <= l[i].pic
        BY <1>1, <4>4 DEF Ordered
      <4>7. QED
        BY <1>1, <4>4, <4>5, <4>6
    <3>3. QED
      BY <3>1, <3>2
  <2> HIDE DEF k, later
  <2>3. /\ new \in Seq(Items) /\ Len(new) = n + 1
        /\ \A i \in 1 .. n + 1 :
             new[i] = IF i < k THEN l[i] ELSE IF i = k THEN item ELSE l[i - 1]
    <3>1. k \in 1 .. Len(l) + 1
      BY <2>2
    <3>2. /\ InsertAt(l, k, item) \in Seq(Items) /\ Len(InsertAt(l, k, item)) = Len(l) + 1
          /\ \A i \in 1 .. Len(l) + 1 :
               InsertAt(l, k, item)[i] =
                 IF i < k THEN l[i] ELSE IF i = k THEN item ELSE l[i - 1]
      BY <3>1, InsertAtFacts
    <3> HIDE DEF new
    <3>3. QED
      BY <2>1, <3>2
  <2> HIDE DEF new
  <2>4. DOMAIN new = 1 .. n + 1
    BY <2>3, ItemList
  <2>5. ASSUME NEW i \in 1 .. n + 1
        PROVE  /\ i < k => i \in 1 .. n /\ new[i] = l[i]
               /\ i = k => new[i] = item
               /\ k < i => i - 1 \in 1 .. n /\ k <= i - 1 /\ new[i] = l[i - 1]
    <3>1. i \in Nat /\ k \in Nat /\ 1 <= k /\ k <= n + 1 /\ 1 <= i /\ i <= n + 1
      BY <1>1, <2>2
    <3> HIDE DEF n
    <3>2. /\ i < k => i \in 1 .. n
          /\ k < i => i - 1 \in 1 .. n /\ k <= i - 1 /\ ~(i < k) /\ i # k
          /\ i = k => ~(i < k)
      BY <1>1, <3>1
    <3>3. QED
      BY <2>3, <3>2
  <2>6. ASSUME NEW i \in 1 .. n + 1, NEW j \in 1 .. n + 1, i < j
        PROVE  new[i].pic <= new[j].pic
    <3>1. i \in Nat /\ j \in Nat /\ k \in Nat
      BY <1>1, <2>2
    <3>2. CASE j < k
      <4>1. i < k
        BY <2>6, <3>1, <3>2
      <4>2. QED
        BY <1>1, <2>5, <2>6, <3>2, <4>1 DEF Ordered
    <3>3. CASE j = k
      <4>1. i < k
        BY <2>6, <3>3
      <4>2. QED
        BY <2>2, <2>5, <3>3, <4>1
    <3>4. CASE k < j /\ i < k
      <4>1. i \in 1 .. n /\ j - 1 \in 1 .. n /\ i < j - 1 /\ new[i] = l[i] /\ new[j] = l[j - 1]
        BY <2>5, <3>1, <3>4
      <4>2. QED
        BY <1>1, <4>1 DEF Ordered
    <3>5. CASE k < j /\ i = k
      <4>1. j - 1 \in 1 .. n /\ k <= j - 1 /\ new[i] = item /\ new[j] = l[j - 1]
        BY <2>5, <3>5
      <4>2. item.pic < l[j - 1].pic
        BY <2>2, <4>1
      <4>3. QED
        BY <1>1, <4>1, <4>2
    <3>6. CASE k < j /\ k < i
      <4>1. /\ i - 1 \in 1 .. n /\ j - 1 \in 1 .. n /\ i - 1 < j - 1
            /\ new[i] = l[i - 1] /\ new[j] = l[j - 1]
        BY <2>5, <2>6, <3>1, <3>6
      <4>2. QED
        BY <1>1, <4>1 DEF Ordered
    <3>7. QED
      BY <3>1, <3>2, <3>3, <3>4, <3>5, <3>6
  <2>7. Ordered(new)
    BY <2>4, <2>6 DEF Ordered
  <2>8. ASSUME NoCut(item)
        PROVE  SameSelection(l, new)
    <3> DEFINE m == [i \in 1 .. n |-> IF i < k THEN i ELSE i + 1]
    <3>1. \A i \in 1 .. n : m[i] = IF i < k THEN i ELSE i + 1
      OBVIOUS
    <3> HIDE DEF m
    <3>2. ASSUME NEW i \in 1 .. n
          PROVE  m[i] \in 1 .. n + 1 /\ new[m[i]] = l[i]
      <4>1. i \in Nat /\ k \in Nat /\ n \in Nat
        BY <1>1, <2>2
      <4>2. CASE i < k
        BY <2>5, <3>1, <4>1, <4>2
      <4>3. CASE ~(i < k)
        <5>1. m[i] = i + 1 /\ i + 1 \in 1 .. n + 1 /\ k < i + 1 /\ (i + 1) - 1 = i
          BY <3>1, <4>1, <4>3
        <5>2. QED
          BY <2>5, <5>1
      <4>4. QED
        BY <4>2, <4>3
    <3>3. ASSUME NEW i \in 1 .. n, NEW j \in 1 .. n, i < j
          PROVE  m[i] < m[j]
      BY <1>1, <2>2, <3>1, <3>3
    <3>4. Picks(m, l, new)
      BY <2>3, <3>2, <3>3 DEF Picks
    <3>5. ASSUME NEW i \in CutsOf(new)
          PROVE  \E j \in 1 .. n : m[j] = i
      <4>1. i \in 1 .. n + 1 /\ new[i].type \in {"start", "stop"}
        BY <2>4 DEF CutsOf
      <4>2. i # k
        BY <2>5, <2>8, <4>1 DEF NoCut
      <4>3. i \in Nat /\ k \in Nat
        BY <1>1, <2>2, <4>1
      <4>4. CASE i < k
        BY <2>5, <3>1, <4>1, <4>4
      <4>5. CASE k < i
        <5>1. i - 1 \in 1 .. n /\ ~(i - 1 < k) /\ (i - 1) + 1 = i
          BY <2>5, <4>1, <4>3, <4>5
        <5>2. QED
          BY <3>1, <5>1
      <4>6. QED
        BY <4>2, <4>3, <4>4, <4>5
    <3>6. QED
      BY <2>3, <3>4, <3>5, PartSelects
  <2>9. ToSet(new) \subseteq ToSet(l) \cup {item}
    <3>1. ASSUME NEW i \in 1 .. n + 1
          PROVE  new[i] \in ToSet(l) \cup {item}
      <4>1. \A j \in 1 .. n : l[j] \in ToSet(l)
        BY <1>1 DEF ToSet
      <4>2. i < k \/ i = k \/ k < i
        BY <1>1, <2>2
      <4>3. QED
        BY <2>5, <4>1, <4>2
    <3>2. QED
      BY <2>4, <3>1 DEF ToSet
  <2>10. ASSUME NEW i \in 1 .. n
         PROVE  l[i] \in ToSet(new)
    <3>1. i \in Nat /\ k \in Nat /\ n \in Nat
      BY <1>1, <2>2
    <3>2. CASE i < k
      <4>1. i \in 1 .. n + 1 /\ new[i] = l[i]
        BY <2>5, <3>1, <3>2
      <4>2. QED
        BY <2>4, <4>1 DEF ToSet
    <3>3. CASE ~(i < k)
      <4>1. i + 1 \in 1 .. n + 1 /\ k < i + 1 /\ (i + 1) - 1 = i
        BY <3>1, <3>3
      <4>2. new[i + 1] = l[i]
        BY <2>5, <4>1
      <4>3. QED
        BY <2>4, <4>1, <4>2 DEF ToSet
    <3>4. QED
      BY <3>2, <3>3
  <2>11. ToSet(l) \subseteq ToSet(new)
    BY <1>1, <2>10 DEF ToSet
  <2>12. QED
    BY <2>3, <2>7, <2>8, <2>9, <2>11 DEF new, Grown
<1>4. QED
  BY <1>2, <1>3

LEMMA AddItemsFacts ==
  ASSUME NEW l \in Seq(Items), Ordered(l), NEW items \in Seq(Items)
  PROVE  /\ Grown(AddItems(l, items), l, ToSet(items))
         /\ (\A i \in 1 .. Len(items) : NoCut(items[i])) =>
              SameSelection(l, AddItems(l, items))
<1> DEFINE n == Len(items)
           S == {a \in Seq(Items) : Ordered(a)}
           step == [x \in S \X (1 .. n) |-> AddItem(x[1], items[x[2]])]
           Rec(f) == [i \in 0 .. n |-> IF i = 0 THEN l ELSE AddItem(f[i - 1], items[i])]
           added == CHOOSE f : f = Rec(f)
<1>1. n \in Nat /\ DOMAIN items = 1 .. n /\ \A i \in 1 .. n : items[i] \in Items
  BY ItemList
<1>2. ASSUME NEW a \in S, NEW i \in 1 .. n
      PROVE  AddItem(a, items[i]) \in S
  <2>1. a \in Seq(Items) /\ Ordered(a) /\ items[i] \in Items
    BY <1>1
  <2>2. QED
    BY <2>1, AddItemFacts DEF Grown
<1>3. \A a \in S : \A i \in 1 .. n :
        step[<<a, i>>] = AddItem(a, items[i]) /\ step[<<a, i>>] \in S
  BY <1>2
<1>4. l \in S /\ Steps(step, S, n)
  BY <1>3 DEF Steps
<1> HIDE DEF S, step
<1>5. PICK f \in [0 .. n -> S] :
        f[0] = l /\ \A i \in 1 .. n : f[i] = step[<<f[i - 1], i>>]
  <2>1. Reached(l, step, S, n)
    BY <1>1, <1>4, Recursion
  <2>2. QED
    BY <2>1 DEF Reached
<1>6. f = Rec(f)
  <2>1. ASSUME NEW i \in 0 .. n
        PROVE  f[i] = IF i = 0 THEN l ELSE AddItem(f[i - 1], items[i])
    <3>1. CASE i = 0
      BY <1>5, <3>1
    <3>2. CASE i # 0
      <4>1. i \in 1 .. n /\ i - 1 \in 0 .. n
        BY <1>1, <3>2
      <4>2. f[i - 1] \in S
        BY <4>1
      <4>3. QED
        BY <1>3, <1>5, <3>2, <4>1, <4>2
    <3>3. QED
      BY <3>1, <3>2
  <2>2. QED
    BY <2>1
<1>7. added = Rec(added)
  <2> HIDE DEF Rec
  <2>1. QED
    BY <1>6
<1>8. AddItems(l, items) = added[n]
  BY DEF AddItems
<1> HIDE DEF added
<1>9. \A i \in 0 .. n : added[i] = IF i = 0 THEN l ELSE AddItem(added[i - 1], items[i])
  BY <1>7
<1> DEFINE P == {k \in Nat : k <= n =>
                   /\ added[k] \in Seq(Items) /\ Ordered(added[k])
                   /\ (\A i \in 1 .. n : NoCut(items[i])) => SameSelection(l, added[k])
                   /\ ToSet(added[k]) \subseteq ToSet(l) \cup ToSet(items)
                   /\ ToSet(l) \subseteq ToSet(added[k])}
<1>10. 0 \in P
  <2>1. added[0] = l
    BY <1>1, <1>9
  <2>2. SameSelection(l, l)
    BY DEF SameSelection
  <2>3. QED
    BY <2>1, <2>2
<1>11. ASSUME NEW k \in P
       PROVE  k + 1 \in P
  <2>1. CASE k + 1 <= n
    <3>1. k \in Nat /\ k + 1 \in 1 .. n /\ k <= n
      BY <1>1, <2>1
    <3> DEFINE a == added[k]
               b == added[k + 1]
    <3>2. /\ a \in Seq(Items) /\ Ordered(a)
          /\ (\A i \in 1 .. n : NoCut(items[i])) => SameSelection(l, a)
          /\ ToSet(a) \subseteq ToSet(l) \cup ToSet(items)
          /\ ToSet(l) \subseteq ToSet(a)
      BY <3>1
    <3>3. b = AddItem(a, items[k + 1])
      <4>1. k + 1 \in 0 .. n /\ k + 1 # 0 /\ (k + 1) - 1 = k
        BY <3>1
      <4>2. QED
        BY <1>9, <4>1
    <3>4. items[k + 1] \in Items /\ items[k + 1] \in ToSet(items)
      BY <1>1, <3>1 DEF ToSet
    <3> HIDE DEF a, b
    <3>5. /\ b \in Seq(Items) /\ Ordered(b)
          /\ NoCut(items[k + 1]) => SameSelection(a, b)
          /\ ToSet(b) \subseteq ToSet(a) \cup {items[k + 1]}
          /\ ToSet(a) \subseteq ToSet(b)
      <4>1. /\ Grown(AddItem(a, items[k + 1]), a, {items[k + 1]})
            /\ NoCut(items[k + 1]) => SameSelection(a, AddItem(a, items[k + 1]))
        BY <3>2, <3>4, AddItemFacts
      <4>2. QED
        BY <3>3, <4>1 DEF Grown
    <3>6. ASSUME \A i \in 1 .. n : NoCut(items[i])
          PROVE  SameSelection(l, b)
      <4>1. SameSelection(l, a) /\ SameSelection(a, b)
        BY <3>1, <3>2, <3>5, <3>6
      <4>2. QED
        BY <4>1 DEF SameSelection
    <3>7. ToSet(b) \subseteq ToSet(l) \cup ToSet(items) /\ ToSet(l) \subseteq ToSet(b)
      BY <3>2, <3>4, <3>5
    <3>8. k + 1 \in Nat
      BY <3>1
    <3>9. QED
      BY <3>5, <3>6, <3>7, <3>8 DEF b
  <2>2. CASE ~(k + 1 <= n)
    BY <2>2
  <2>3. QED
    BY <2>1, <2>2
<1>12. P = Nat
  <2> HIDE DEF P
  <2>1. P \subseteq Nat
    BY DEF P
  <2>2. QED
    BY <1>10, <1>11, <2>1, Induction
<1>13. n \in P
  BY <1>1, <1>12
<1>14. QED
  BY <1>1, <1>8, <1>13 DEF Grown

(* A list without the marker at a place.                                   *)
LEMMA RemovedItem ==
  ASSUME NEW l \in Seq(Items), Ordered(l), NEW k \in DOMAIN l
  PROVE  LET new == RemoveAt(l, k)
         IN  /\ new \in Seq(Items) /\ Ordered(new)
             /\ NoCut(l[k]) => SameSelection(l, new)
             /\ ToSet(new) \subseteq ToSet(l) /\ ToSet(l) \subseteq ToSet(new) \cup {l[k]}
<1> DEFINE n == Len(l)
           new == RemoveAt(l, k)
           m == [i \in 1 .. n - 1 |-> IF i < k THEN i ELSE i + 1]
<1>1. n \in Nat /\ DOMAIN l = 1 .. n /\ k \in 1 .. n
  BY ItemList
<1>2. /\ new \in Seq(Items) /\ Len(new) = n - 1
      /\ \A i \in 1 .. n - 1 : new[i] = IF i < k THEN l[i] ELSE l[i + 1]
  BY <1>1, RemoveAtFacts
<1> HIDE DEF new
<1>3. \A i \in 1 .. n - 1 : m[i] = IF i < k THEN i ELSE i + 1
  OBVIOUS
<1> HIDE DEF m
<1>4. ASSUME NEW i \in 1 .. n - 1
      PROVE  m[i] \in 1 .. n /\ l[m[i]] = new[i]
  <2>1. i \in Nat /\ i \in 1 .. n /\ i + 1 \in 1 .. n
    BY <1>1
  <2>2. QED
    BY <1>2, <1>3, <2>1
<1>5. ASSUME NEW i \in 1 .. n - 1, NEW j \in 1 .. n - 1, i < j
      PROVE  m[i] < m[j]
  BY <1>1, <1>3, <1>5
<1>6. Picks(m, new, l)
  BY <1>2, <1>4, <1>5 DEF Picks
<1>7. Ordered(new)
  BY <1>2, <1>6, PartOrdered
<1>8. ASSUME NoCut(l[k])
      PROVE  SameSelection(l, new)
  <2>1. ASSUME NEW i \in CutsOf(l)
        PROVE  \E j \in 1 .. n - 1 : m[j] = i
    <3>1. i \in 1 .. n /\ i # k
      BY <1>1, <1>8 DEF CutsOf, NoCut
    <3>2. CASE i < k
      <4>1. i \in 1 .. n - 1
        BY <1>1, <3>1, <3>2
      <4>2. QED
        BY <1>3, <3>2, <4>1
    <3>3. CASE ~(i < k)
      <4>1. i - 1 \in 1 .. n - 1 /\ ~(i - 1 < k) /\ (i - 1) + 1 = i
        BY <1>1, <3>1, <3>3
      <4>2. QED
        BY <1>3, <4>1
    <3>4. QED
      BY <3>2, <3>3
  <2>2. SameSelection(new, l)
    BY <1>2, <1>6, <2>1, PartSelects
  <2>3. QED
    BY <2>2 DEF SameSelection
<1>9. DOMAIN new = 1 .. n - 1
  BY <1>2, LenProperties
<1>10. ToSet(new) \subseteq ToSet(l)
  BY <1>1, <1>4, <1>9 DEF ToSet
<1>11. ASSUME NEW i \in 1 .. n
       PROVE  l[i] \in ToSet(new) \cup {l[k]}
  <2>1. CASE i < k
    <3>1. i \in 1 .. n - 1
      BY <1>1, <2>1
    <3>2. new[i] = l[i]
      BY <1>2, <2>1, <3>1
    <3>3. QED
      BY <1>9, <3>1, <3>2 DEF ToSet
  <2>2. CASE k < i
    <3>1. i - 1 \in 1 .. n - 1 /\ ~(i - 1 < k) /\ (i - 1) + 1 = i
      BY <1>1, <2>2
    <3>2. new[i - 1] = l[i]
      BY <1>2, <3>1
    <3>3. QED
      BY <1>9, <3>1, <3>2 DEF ToSet
  <2>3. i = k \/ i < k \/ k < i
    BY <1>1
  <2>4. QED
    BY <2>1, <2>2, <2>3
<1>12. ToSet(l) \subseteq ToSet(new) \cup {l[k]}
  BY <1>1, <1>11 DEF ToSet
<1>13. QED
  BY <1>2, <1>7, <1>8, <1>10, <1>12 DEF new

(* The markers at some places.                                             *)
LEMMA KeptMarkers ==
  ASSUME NEW l \in Seq([pic: Int, type: EventTypes]), Ordered(l),
         NEW T, T \subseteq 1 .. Len(l), \A i \in T : l[i].pic \in Pics
  PROVE  Kept(l, T) \in Seq(Items) /\ Ordered(Kept(l, T))
<1> DEFINE S == [pic: Int, type: EventTypes]
<1>1. Len(l) \in Nat /\ \A i \in 1 .. Len(l) : l[i] \in S
  BY ElementOfSeq, LenProperties
<1>2. PICK n \in Nat : \E m \in [1 .. n -> T] :
        /\ Kept(l, T) = [k \in 1 .. n |-> l[m[k]]]
        /\ \A i, j \in 1 .. n : i < j => m[i] < m[j]
  <2>1. KeptBy(l, T)
    BY <1>1, KeptFacts
  <2>2. QED
    BY <2>1 DEF KeptBy
<1>3. PICK m \in [1 .. n -> T] :
        /\ Kept(l, T) = [k \in 1 .. n |-> l[m[k]]]
        /\ \A i, j \in 1 .. n : i < j => m[i] < m[j]
  BY <1>2
<1> DEFINE a == Kept(l, T)
<1>4. \A k \in 1 .. n : m[k] \in T /\ a[k] = l[m[k]] /\ a[k] \in Items
  <2>1. \A k \in 1 .. n : m[k] \in T /\ m[k] \in 1 .. Len(l) /\ a[k] = l[m[k]]
    BY <1>3
  <2>2. \A i \in T : l[i] \in Items
    BY <1>1 DEF Items
  <2>3. QED
    BY <2>1, <2>2
<1>5. DOMAIN a = 1 .. n /\ a = [k \in 1 .. n |-> a[k]]
  BY <1>3
<1> HIDE DEF a
<1>6. a \in [1 .. n -> Items]
  BY <1>4, <1>5
<1>7. a \in Seq(Items)
  BY <1>6, FcnIsSeq
<1>8. ASSUME NEW i \in 1 .. n, NEW j \in 1 .. n, i < j
      PROVE  a[i].pic <= a[j].pic
  <2>1. m[i] \in T /\ m[j] \in T /\ m[i] < m[j]
    BY <1>3, <1>8
  <2>2. DOMAIN l = 1 .. Len(l)
    BY LenProperties
  <2>3. l[m[i]].pic <= l[m[j]].pic
    BY <2>1, <2>2 DEF Ordered
  <2>4. QED
    BY <1>4, <2>3
<1>9. Ordered(a)
  BY <1>5, <1>8 DEF Ordered
<1>10. QED
  BY <1>7, <1>9 DEF a

(* A list without the markers of some types.                               *)
LEMMA WithoutFacts ==
  ASSUME NEW l \in Seq(Items), Ordered(l), NEW types
  PROVE  LET new == Without(l, types)
         IN  /\ new \in Seq(Items) /\ Ordered(new)
             /\ (\A type \in types : type \notin {"start", "stop"}) =>
                  SameSelection(l, new)
             /\ ToSet(new) = {item \in ToSet(l) : item.type \notin types}
<1> DEFINE T == {i \in DOMAIN l : l[i].type \notin types}
           new == Without(l, types)
<1>1. /\ Len(l) \in Nat /\ DOMAIN l = 1 .. Len(l)
      /\ \A i \in 1 .. Len(l) : l[i] \in Items /\ l[i].pic \in Pics
  BY ItemList
<1>2. T \subseteq 1 .. Len(l) /\ \A i \in T : l[i].pic \in Pics
  BY <1>1
<1>3. l \in Seq([pic: Int, type: EventTypes])
  <2>1. Items \subseteq [pic: Int, type: EventTypes]
    BY CutTableAssumption DEF Items, Pics
  <2>2. QED
    BY <2>1, SeqMonotonic
<1>4. new = Kept(l, T)
  BY DEF Without
<1>5. \A i \in CutsOf(l) : (\A type \in types : type \notin {"start", "stop"}) => i \in T
  BY DEF CutsOf
<1>10. \A i \in 1 .. Len(l) : i \in T <=> l[i].type \notin types
  BY <1>1
<1> HIDE DEF T, new
<1>6. new \in Seq(Items) /\ Ordered(new)
  BY <1>2, <1>3, <1>4, KeptMarkers
<1>7. PICK n \in Nat : \E m \in [1 .. n -> T] :
        /\ Kept(l, T) = [k \in 1 .. n |-> l[m[k]]]
        /\ \A i, j \in 1 .. n : i < j => m[i] < m[j]
        /\ \A x \in T : \E i \in 1 .. n : m[i] = x
  <2>1. KeptBy(l, T)
    BY <1>1, <1>2, KeptFacts
  <2>2. QED
    BY <2>1 DEF KeptBy
<1>8. PICK m \in [1 .. n -> T] :
        /\ Kept(l, T) = [k \in 1 .. n |-> l[m[k]]]
        /\ \A i, j \in 1 .. n : i < j => m[i] < m[j]
        /\ \A x \in T : \E i \in 1 .. n : m[i] = x
  BY <1>7
<1>9. Len(new) = n /\ DOMAIN new = 1 .. n
  <2>1. DOMAIN new = 1 .. n
    BY <1>4, <1>8
  <2>2. DOMAIN new = 1 .. Len(new) /\ Len(new) \in Nat
    BY <1>6, LenProperties
  <2>3. QED
    BY <2>1, <2>2
<1>11. \A k \in 1 .. n : m[k] \in T /\ m[k] \in 1 .. Len(l) /\ l[m[k]] = new[k]
  BY <1>2, <1>4, <1>8
<1>12. ASSUME \A type \in types : type \notin {"start", "stop"}
       PROVE  SameSelection(l, new)
  <2>1. Picks(m, new, l)
    BY <1>8, <1>9, <1>11 DEF Picks
  <2>2. \A i \in CutsOf(l) : \E k \in 1 .. n : m[k] = i
    BY <1>5, <1>8, <1>12
  <2>3. SameSelection(new, l)
    BY <1>6, <1>9, <2>1, <2>2, PartSelects
  <2>4. QED
    BY <2>3 DEF SameSelection
<1>13. ToSet(new) = {item \in ToSet(l) : item.type \notin types}
  <2>1. ASSUME NEW k \in 1 .. n
        PROVE  new[k] \in ToSet(l) /\ new[k].type \notin types
    <3>1. m[k] \in 1 .. Len(l) /\ l[m[k]] = new[k] /\ l[m[k]].type \notin types
      BY <1>10, <1>11
    <3>2. QED
      BY <1>1, <3>1 DEF ToSet
  <2>2. ASSUME NEW i \in 1 .. Len(l), l[i].type \notin types
        PROVE  l[i] \in ToSet(new)
    <3>1. PICK k \in 1 .. n : m[k] = i
      BY <1>8, <1>10, <2>2
    <3>2. QED
      BY <1>9, <1>11, <3>1 DEF ToSet
  <2>3. ASSUME NEW item \in ToSet(new)
        PROVE  item \in ToSet(l) /\ item.type \notin types
    BY <1>9, <2>1, <2>3 DEF ToSet
  <2>4. ASSUME NEW item \in ToSet(l), item.type \notin types
        PROVE  item \in ToSet(new)
    BY <1>1, <2>2, <2>4 DEF ToSet
  <2>5. QED
    BY <2>3, <2>4
<1>14. QED
  BY <1>6, <1>12, <1>13 DEF new

-----------------------------------------------------------------------------
(* Counting the pictures of a selection.                                   *)
LEMMA PicsFacts ==
  ASSUME NEW C, C \subseteq Pics
  PROVE  /\ IsFiniteSet(C) /\ Cardinality(C) \in 0 .. Pictures
         /\ \A x \in C : x \in Nat /\ x < Pictures
<1>1. Pictures \in Nat \ {0} /\ Pics = 0 .. Pictures - 1
  BY CutTableAssumption DEF Pics
<1>2. IsFiniteSet(Pics) /\ Cardinality(Pics) = Pictures
  <2>1. Pictures - 1 \in Int /\ 0 \in Int /\ ~(0 > Pictures - 1)
    BY <1>1
  <2>2. IsFiniteSet(0 .. Pictures - 1) /\ Cardinality(0 .. Pictures - 1) = (Pictures - 1) - 0 + 1
    BY <2>1, FS_Interval
  <2>3. QED
    BY <1>1, <2>2
<1>3. IsFiniteSet(C) /\ Cardinality(C) <= Cardinality(Pics)
  BY <1>2, FS_Subset
<1>4. Cardinality(C) \in Nat
  BY <1>3, FS_CardinalityType
<1>5. Cardinality(C) \in 0 .. Pictures
  BY <1>1, <1>2, <1>3, <1>4
<1>6. QED
  BY <1>1, <1>3, <1>5

LEMMA BeforeFacts ==
  ASSUME NEW C, C \subseteq Pics, NEW a
  PROVE  /\ {x \in C : x < a} \subseteq Pics /\ IsFiniteSet({x \in C : x < a})
         /\ Before(C, a) \in 0 .. Pictures
<1> DEFINE D == {x \in C : x < a}
<1>1. D \subseteq Pics
  OBVIOUS
<1>2. IsFiniteSet(D) /\ Cardinality(D) \in 0 .. Pictures
  <2> HIDE DEF D
  <2>1. QED
    BY <1>1, PicsFacts
<1>3. QED
  BY <1>1, <1>2 DEF Before

LEMMA BeforeRange ==
  ASSUME NEW C, C \subseteq Pics, NEW a \in Nat, NEW b \in Nat, a <= b,
         \A x \in a .. b - 1 : x \in C
  PROVE  Before(C, b) = Before(C, a) + b - a
<1> DEFINE A == {x \in C : x < a}
           B == {x \in C : x < b}
           R == a .. b - 1
<1>1. B = A \cup R
  BY PicsFacts
<1>2. A \cap R = {}
  BY PicsFacts
<1>3. IsFiniteSet(A) /\ Cardinality(A) \in Nat
  BY BeforeFacts DEF Before
<1>4. IsFiniteSet(R) /\ Cardinality(R) = b - a
  <2>1. IsFiniteSet(R) /\ Cardinality(R) = IF a > b - 1 THEN 0 ELSE (b - 1) - a + 1
    BY FS_Interval
  <2> HIDE DEF R
  <2>2. QED
    BY <2>1
<1> HIDE DEF A, B, R
<1>5. Cardinality(A \cup R) = Cardinality(A) + Cardinality(R) - Cardinality(A \cap R)
  BY <1>3, <1>4, FS_Union
<1>6. Cardinality({}) = 0
  BY FS_EmptySet
<1>7. Cardinality(B) = Cardinality(A) + b - a
  <2>1. Cardinality(A \cap R) = 0
    BY <1>2, <1>6
  <2>2. Cardinality(B) = Cardinality(A) + (b - a) - 0
    BY <1>1, <1>4, <1>5, <2>1
  <2>3. QED
    BY <1>3, <2>2
<1>8. QED
  BY <1>7 DEF Before, A, B

LEMMA BeforeGap ==
  ASSUME NEW C, C \subseteq Pics, NEW a \in Nat, NEW b \in Nat, a <= b,
         \A x \in C : x < a \/ b <= x
  PROVE  Before(C, b) = Before(C, a)
<1>1. \A x \in C : x \in Nat
  BY PicsFacts
<1>2. {x \in C : x < b} = {x \in C : x < a}
  BY <1>1
<1>3. QED
  BY <1>2 DEF Before

LEMMA BeforeGrows ==
  ASSUME NEW C, C \subseteq Pics, NEW a \in Nat, NEW b \in Nat, a <= b
  PROVE  Before(C, a) <= Before(C, b)
<1> DEFINE A == {x \in C : x < a}
           B == {x \in C : x < b}
<1>1. \A x \in C : x \in Nat
  BY PicsFacts
<1>2. A \subseteq B
  BY <1>1
<1>3. IsFiniteSet(B)
  BY BeforeFacts
<1> HIDE DEF A, B
<1>4. Cardinality(A) <= Cardinality(B)
  BY <1>2, <1>3, FS_Subset
<1>5. QED
  BY <1>4 DEF A, B, Before

LEMMA BeforeEnd ==
  ASSUME NEW C, C \subseteq Pics, NEW b, \A x \in C : x < b
  PROVE  Before(C, b) = Cardinality(C)
<1>1. {x \in C : x < b} = C
  OBVIOUS
<1>2. QED
  BY <1>1 DEF Before

-----------------------------------------------------------------------------
(* A table of ranges that are in order and count their pictures, and that  *)
(* a range is added to.                                                    *)
Entries == [start: Pics, stop: Pics, out: 0 .. Pictures]

Consecutive(ranges) ==
  /\ \A j \in DOMAIN ranges : ranges[j].start <= ranges[j].stop
  /\ \A j, k \in DOMAIN ranges : j < k => ranges[j].stop <= ranges[k].start

Counted(ranges) ==
  \A j \in DOMAIN ranges :
    ranges[j].out = Before(CoveredBy(ranges), ranges[j].stop)

IsCutTable(ranges) ==
  ranges \in Seq(Entries) /\ Consecutive(ranges) /\ Counted(ranges)

EndsBy(ranges, pic) == \A j \in 1 .. Len(ranges) : ranges[j].stop <= pic

LEMMA TableFacts ==
  ASSUME NEW ranges \in Seq(Entries)
  PROVE  /\ Len(ranges) \in Nat /\ DOMAIN ranges = 1 .. Len(ranges)
         /\ \A j \in 1 .. Len(ranges) :
              /\ ranges[j] \in Entries
              /\ ranges[j].start \in Pics /\ ranges[j].stop \in Pics
              /\ ranges[j].start \in Nat /\ ranges[j].stop \in Nat
              /\ ranges[j].out \in Nat
         /\ CoveredBy(ranges) \subseteq Pics
<1>1. Len(ranges) \in Nat /\ DOMAIN ranges = 1 .. Len(ranges)
  BY LenProperties
<1>2. \A j \in 1 .. Len(ranges) : ranges[j] \in Entries
  BY ElementOfSeq
<1>3. \A e \in Entries : /\ e.start \in Pics /\ e.stop \in Pics /\ e.start \in Nat
                         /\ e.stop \in Nat /\ e.out \in Nat
  BY CutTableAssumption DEF Entries, Pics
<1>4. CoveredBy(ranges) \subseteq Pics
  BY DEF CoveredBy
<1>5. QED
  BY <1>1, <1>2, <1>3, <1>4

Adds(new, ranges, start, stop, out) ==
  /\ IsCutTable(ranges) /\ start \in Pics /\ stop \in Pics
  /\ start <= stop /\ EndsBy(ranges, start)
  /\ out = Cardinality(CoveredBy(ranges))
  /\ new = Append(ranges, [start |-> start, stop |-> stop,
                           out |-> out + stop - start])

LEMMA RangeAdded ==
  ASSUME NEW ranges, NEW start, NEW stop, NEW out, NEW new,
         Adds(new, ranges, start, stop, out)
  PROVE  /\ IsCutTable(new) /\ EndsBy(new, stop)
         /\ CoveredBy(new) = CoveredBy(ranges) \cup (start .. stop - 1)
         /\ out + stop - start = Cardinality(CoveredBy(new))
<1> DEFINE n == Len(ranges)
           C == CoveredBy(ranges)
           D == CoveredBy(new)
           e == [start |-> start, stop |-> stop, out |-> out + stop - start]
<1> /\ IsCutTable(ranges) /\ start \in Pics /\ stop \in Pics
    /\ start <= stop /\ EndsBy(ranges, start)
    /\ out = Cardinality(CoveredBy(ranges)) /\ new = Append(ranges, e)
  BY DEF Adds
<1>1. ranges \in Seq(Entries) /\ Consecutive(ranges) /\ Counted(ranges)
  BY DEF IsCutTable
<1>2. /\ n \in Nat /\ DOMAIN ranges = 1 .. n
      /\ \A j \in 1 .. n : /\ ranges[j] \in Entries /\ ranges[j].start \in Nat
                           /\ ranges[j].stop \in Nat
      /\ C \subseteq Pics
  BY <1>1, TableFacts
<1>3. start \in Nat /\ stop \in Nat /\ stop - start \in Nat /\ stop < Pictures
  <2>1. Pictures \in Nat
    BY CutTableAssumption
  <2>2. QED
    BY <2>1 DEF Pics
<1>4. /\ \A j \in 1 .. n : Append(ranges, e)[j] = ranges[j]
      /\ Append(ranges, e)[n + 1] = e /\ DOMAIN Append(ranges, e) = 1 .. n + 1
  <2>1. ranges \in Seq(Entries \cup {e}) /\ e \in Entries \cup {e}
    BY <1>1, SeqMonotonic
  <2> HIDE DEF e
  <2>2. /\ Append(ranges, e) \in Seq(Entries \cup {e}) /\ Len(Append(ranges, e)) = n + 1
        /\ \A j \in 1 .. n : Append(ranges, e)[j] = ranges[j]
        /\ Append(ranges, e)[n + 1] = e
    BY <2>1, AppendProperties
  <2>3. QED
    BY <2>2, LenProperties
<1>5. /\ \A j \in 1 .. n : new[j] = ranges[j]
      /\ new[n + 1] = e /\ DOMAIN new = 1 .. n + 1
      /\ \A j \in 1 .. n : j \in 1 .. n + 1
      /\ \A j \in 1 .. n + 1 : j \in 1 .. n \/ j = n + 1
      /\ n + 1 \in 1 .. n + 1
  BY <1>2, <1>4
<1>6. \A x \in C : x < start /\ x < stop /\ x \in Nat
  <2>1. ASSUME NEW x \in C
        PROVE  x < start /\ x \in Nat
    <3>1. PICK j \in 1 .. n : x < ranges[j].stop
      BY <1>2 DEF CoveredBy
    <3>2. ranges[j].stop <= start /\ ranges[j].stop \in Nat /\ x \in Nat
      BY <1>2, PicsFacts DEF EndsBy
    <3>3. QED
      BY <1>3, <3>1, <3>2
  <2>2. QED
    BY <1>3, <2>1
<1>7. D = C \cup (start .. stop - 1)
  <2>1. ASSUME NEW x \in D
        PROVE  x \in C \cup (start .. stop - 1)
    <3>1. x \in Pics /\ x \in Nat
      BY CutTableAssumption DEF CoveredBy, Pics
    <3>2. PICK j \in 1 .. n + 1 : new[j].start <= x /\ x < new[j].stop
      BY <1>5 DEF CoveredBy
    <3>3. CASE j \in 1 .. n
      BY <1>2, <1>5, <3>1, <3>2, <3>3 DEF CoveredBy
    <3>4. CASE j = n + 1
      BY <1>3, <1>5, <3>1, <3>2, <3>4
    <3>5. QED
      BY <1>5, <3>3, <3>4
  <2>2. ASSUME NEW x \in C
        PROVE  x \in D
    <3>1. x \in Pics
      BY <1>2
    <3>2. PICK j \in 1 .. n : ranges[j].start <= x /\ x < ranges[j].stop
      BY <1>2 DEF CoveredBy
    <3>3. QED
      BY <1>5, <3>1, <3>2 DEF CoveredBy
  <2>3. ASSUME NEW x \in start .. stop - 1
        PROVE  x \in D
    <3>1. x \in Pics /\ start <= x /\ x < stop
      BY <1>3, CutTableAssumption DEF Pics
    <3>2. new[n + 1].start <= x /\ x < new[n + 1].stop
      BY <1>5, <3>1
    <3>3. QED
      BY <1>5, <3>1, <3>2 DEF CoveredBy
  <2>4. QED
    BY <2>1, <2>2, <2>3
<1> HIDE DEF C, D
<1>8. D \subseteq Pics
  BY DEF CoveredBy, D
<1>9. \A x \in D : x < stop
  BY <1>3, <1>6, <1>7
<1>10. Before(D, stop) = Cardinality(D)
  BY <1>8, <1>9, BeforeEnd
<1>11. Before(D, start) = out
  <2>1. {x \in D : x < start} = C
    BY <1>3, <1>6, <1>7
  <2>2. QED
    BY <2>1 DEF Before, C
<1>12. Before(D, stop) = Before(D, start) + stop - start
  <2>1. \A x \in start .. stop - 1 : x \in D
    BY <1>7
  <2>2. QED
    BY <1>3, <1>8, <2>1, BeforeRange
<1>13. out + stop - start = Cardinality(D) /\ Cardinality(D) \in 0 .. Pictures
  BY <1>8, <1>10, <1>11, <1>12, PicsFacts
<1>14. e \in Entries
  BY <1>13 DEF Entries
<1>15. new \in Seq(Entries) /\ Len(new) = n + 1
  BY <1>1, <1>14, AppendProperties
<1>16. Consecutive(new)
  <2>1. ASSUME NEW j \in 1 .. n + 1
        PROVE  new[j].start <= new[j].stop
    <3>1. CASE j \in 1 .. n
      BY <1>1, <1>2, <1>5, <3>1 DEF Consecutive
    <3>2. CASE j = n + 1
      BY <1>5, <3>2
    <3>3. QED
      BY <1>5, <3>1, <3>2
  <2>2. ASSUME NEW j \in 1 .. n + 1, NEW k \in 1 .. n + 1, j < k
        PROVE  new[j].stop <= new[k].start
    <3>1. j \in 1 .. n
      BY <1>2, <2>2
    <3>2. CASE k \in 1 .. n
      BY <1>1, <1>2, <1>5, <2>2, <3>1, <3>2 DEF Consecutive
    <3>3. CASE k = n + 1
      BY <1>5, <3>1, <3>3 DEF EndsBy
    <3>4. QED
      BY <1>5, <3>2, <3>3
  <2>3. QED
    BY <1>5, <2>1, <2>2 DEF Consecutive
<1>17. Counted(new)
  <2>1. ASSUME NEW j \in 1 .. n
        PROVE  new[j].out = Before(D, new[j].stop)
    <3>1. new[j].out = Before(C, ranges[j].stop) /\ new[j] = ranges[j]
      BY <1>1, <1>2, <1>5 DEF Counted, C
    <3>2. ranges[j].stop <= start /\ ranges[j].stop \in Nat
      BY <1>2 DEF EndsBy
    <3>3. {x \in D : x < ranges[j].stop} = {x \in C : x < ranges[j].stop}
      <4>1. \A x \in start .. stop - 1 : ~(x < ranges[j].stop)
        BY <1>3, <3>2
      <4>2. QED
        BY <1>7, <4>1
    <3>4. QED
      BY <3>1, <3>3 DEF Before
  <2>2. new[n + 1].out = Before(D, new[n + 1].stop)
    BY <1>5, <1>10, <1>13
  <2>3. QED
    BY <1>5, <2>1, <2>2 DEF Counted, D
<1>18. EndsBy(new, stop)
  <2>1. ASSUME NEW j \in 1 .. n
        PROVE  new[j].stop <= stop
    <3>1. ranges[j].stop <= start /\ ranges[j].stop \in Nat
      BY <1>2 DEF EndsBy
    <3>2. QED
      BY <1>3, <1>5, <3>1
  <2>2. new[n + 1].stop <= stop
    BY <1>3, <1>5
  <2>3. QED
    BY <1>5, <1>15, <2>1, <2>2 DEF EndsBy
<1>19. QED
  BY <1>7, <1>13, <1>15, <1>16, <1>17, <1>18 DEF IsCutTable, C, D

-----------------------------------------------------------------------------
(* The scan of a list, item by item.                                       *)
ScanStates ==
  [start: Int, realzero: BOOLEAN, out: Int, lastchapter: Int,
   ranges: Seq([start: Int, stop: Int, out: Int]), chapters: Seq(Int)]

LEMMA CloseRangeType ==
  ASSUME NEW s \in ScanStates, NEW stop \in Int
  PROVE  CloseRange(s, stop) \in ScanStates
<1> DEFINE out == s.out + stop - s.start
           e == [start |-> s.start, stop |-> stop, out |-> out]
           ranges == Append(s.ranges, e)
<1>1. /\ s.start \in Int /\ s.out \in Int
      /\ s.ranges \in Seq([start: Int, stop: Int, out: Int])
  BY DEF ScanStates
<1>2. out \in Int
  BY <1>1
<1>3. e \in [start: Int, stop: Int, out: Int]
  BY <1>1, <1>2
<1> HIDE DEF e
<1>4. ranges \in Seq([start: Int, stop: Int, out: Int])
  BY <1>1, <1>3, AppendProperties
<1>5. CloseRange(s, stop) = [s EXCEPT !.start = NoStart, !.out = out, !.ranges = ranges]
  BY DEF CloseRange, e
<1> HIDE DEF out, ranges
<1>6. NoStart \in Int
  BY DEF NoStart
<1> HIDE DEF NoStart
<1>7. [s EXCEPT !.start = NoStart, !.out = out, !.ranges = ranges] \in ScanStates
  BY <1>2, <1>4, <1>6 DEF ScanStates
<1>8. QED
  BY <1>5, <1>7

LEMMA ScanItemType ==
  ASSUME NEW s \in ScanStates, NEW item \in Items, NEW opts \in CutOptions
  PROVE  ScanItem(opts, s, item) \in ScanStates
<1>1. item.pic \in Int /\ item.type \in EventTypes
  BY CutTableAssumption DEF Items, Pics
<1>2. /\ s.start \in Int /\ s.out \in Int /\ s.lastchapter \in Int
      /\ s.chapters \in Seq(Int) /\ s.realzero \in BOOLEAN
  BY DEF ScanStates
<1>3. ScanStart(opts, s, item.pic) \in ScanStates
  <2> DEFINE c == IF s.lastchapter = item.pic THEN Append(s.chapters, s.out) ELSE s.chapters
             z == s.realzero \/ item.pic = 0
  <2>1. c \in Seq(Int)
    BY <1>2, AppendProperties
  <2>2. ScanStart(opts, s, item.pic) \in
          {s, [s EXCEPT !.start = item.pic, !.realzero = z, !.chapters = c]}
    BY DEF ScanStart
  <2>3. z \in BOOLEAN
    OBVIOUS
  <2> HIDE DEF c, z
  <2>4. [s EXCEPT !.start = item.pic, !.realzero = z, !.chapters = c] \in ScanStates
    BY <1>1, <2>1, <2>3 DEF ScanStates
  <2>5. QED
    BY <2>2, <2>4
<1>4. CloseRange(s, item.pic) \in ScanStates
  BY <1>1, CloseRangeType
<1>5. ScanChapter(s, item.pic) \in ScanStates
  <2> DEFINE c == IF s.start # NoStart
                    THEN Append(s.chapters, item.pic - s.start + s.out) ELSE s.chapters
  <2>1. c \in Seq(Int)
    BY <1>1, <1>2, AppendProperties
  <2>2. ScanChapter(s, item.pic) = [s EXCEPT !.lastchapter = item.pic, !.chapters = c]
    BY DEF ScanChapter
  <2> HIDE DEF c
  <2>3. QED
    BY <1>1, <2>1, <2>2 DEF ScanStates
<1>6. item.type = "start" => ScanItem(opts, s, item) = ScanStart(opts, s, item.pic)
  BY DEF ScanItem
<1>7. item.type = "stop" => ScanItem(opts, s, item) \in {s, CloseRange(s, item.pic)}
  BY DEF ScanItem
<1>8. item.type = "chapter" => ScanItem(opts, s, item) = ScanChapter(s, item.pic)
  BY DEF ScanItem
<1>9. item.type = "bookmark" => ScanItem(opts, s, item) = s
  BY DEF ScanItem
<1>10. QED
  BY <1>1, <1>3, <1>4, <1>5, <1>6, <1>7, <1>8, <1>9 DEF EventTypes

LEMMA ScanBeginType ==
  ASSUME NEW opts \in CutOptions
  PROVE  ScanBegin(opts) \in ScanStates
<1>1. << >> \in Seq([start: Int, stop: Int, out: Int]) /\ <<0>> \in Seq(Int)
  OBVIOUS
<1>2. QED
  BY <1>1 DEF ScanBegin, ScanStates, NoStart

ScanBy(f, l, opts) ==
  /\ f \in [0 .. Len(l) -> ScanStates]
  /\ f[0] = ScanBegin(opts)
  /\ \A i \in 1 .. Len(l) : f[i] = ScanItem(opts, f[i - 1], l[i])
  /\ Scanned(l, opts) = f[Len(l)]

LEMMA ScannedFacts ==
  ASSUME NEW l \in Seq(Items), NEW opts \in CutOptions
  PROVE  \E f : ScanBy(f, l, opts)
<1> DEFINE n == Len(l)
           base == ScanBegin(opts)
           step == [x \in ScanStates \X (1 .. n) |-> ScanItem(opts, x[1], l[x[2]])]
           Rec(f) == [i \in 0 .. n |->
                       IF i = 0 THEN ScanBegin(opts) ELSE ScanItem(opts, f[i - 1], l[i])]
           scanned == CHOOSE f : f = Rec(f)
<1>1. n \in Nat /\ \A i \in 1 .. n : l[i] \in Items
  BY ItemList
<1>2. base \in ScanStates
  BY ScanBeginType
<1>3. ASSUME NEW s \in ScanStates, NEW i \in 1 .. n
      PROVE  step[<<s, i>>] = ScanItem(opts, s, l[i]) /\ step[<<s, i>>] \in ScanStates
  <2>1. ScanItem(opts, s, l[i]) \in ScanStates
    BY <1>1, ScanItemType
  <2>2. step[<<s, i>>] = ScanItem(opts, s, l[i])
    OBVIOUS
  <2>3. QED
    BY <2>1, <2>2
<1> HIDE DEF step, base
<1>4. Steps(step, ScanStates, n)
  BY <1>3 DEF Steps
<1>5. Reached(base, step, ScanStates, n)
  BY <1>1, <1>2, <1>4, Recursion
<1>6. PICK f \in [0 .. n -> ScanStates] :
        f[0] = base /\ \A i \in 1 .. n : f[i] = step[<<f[i - 1], i>>]
  BY <1>5 DEF Reached
<1>7. ASSUME NEW i \in 1 .. n
      PROVE  f[i] = ScanItem(opts, f[i - 1], l[i])
  <2>1. i - 1 \in 0 .. n
    BY <1>1
  <2>2. f[i - 1] \in ScanStates
    BY <2>1
  <2>3. QED
    BY <1>3, <1>6, <2>2
<1>8. f = Rec(f)
  <2>1. ASSUME NEW i \in 0 .. n
        PROVE  f[i] = IF i = 0 THEN ScanBegin(opts) ELSE ScanItem(opts, f[i - 1], l[i])
    <3>1. i # 0 => i \in 1 .. n
      BY <1>1
    <3>2. QED
      BY <1>6, <1>7, <3>1 DEF base
  <2>2. QED
    BY <2>1
<1>9. scanned = Rec(scanned)
  <2> HIDE DEF Rec
  <2>1. QED
    BY <1>8
<1>10. Scanned(l, opts) = scanned[n]
  BY DEF Scanned
<1> HIDE DEF scanned
<1>11. /\ scanned = [i \in 0 .. n |-> scanned[i]]
       /\ \A i \in 0 .. n : scanned[i] =
            IF i = 0 THEN ScanBegin(opts) ELSE ScanItem(opts, scanned[i - 1], l[i])
  BY <1>9
<1>12. scanned[0] = ScanBegin(opts)
  BY <1>1, <1>11
<1>13. ASSUME NEW i \in 1 .. n
       PROVE  scanned[i] = ScanItem(opts, scanned[i - 1], l[i])
  <2>1. i \in 0 .. n /\ i # 0
    BY <1>1
  <2>2. QED
    BY <1>11, <2>1
<1> DEFINE P == {k \in Nat : k <= n => scanned[k] \in ScanStates}
<1>14. 0 \in P
  BY <1>2, <1>12 DEF base
<1>15. ASSUME NEW k \in P
       PROVE  k + 1 \in P
  <2>1. CASE k + 1 <= n
    <3>1. k \in Nat /\ k + 1 \in 1 .. n /\ k <= n /\ (k + 1) - 1 = k
      BY <1>1, <2>1
    <3>2. scanned[k] \in ScanStates /\ l[k + 1] \in Items
      BY <1>1, <3>1
    <3>3. scanned[k + 1] = ScanItem(opts, scanned[k], l[k + 1])
      BY <1>13, <3>1
    <3>4. scanned[k + 1] \in ScanStates
      BY <3>2, <3>3, ScanItemType
    <3>5. QED
      BY <3>1, <3>4
  <2>2. CASE ~(k + 1 <= n)
    BY <2>2
  <2>3. QED
    BY <2>1, <2>2
<1>16. P = Nat
  <2> HIDE DEF P
  <2>1. P \subseteq Nat
    BY DEF P
  <2>2. QED
    BY <1>14, <1>15, <2>1, Induction
<1>17. \A i \in 0 .. n : scanned[i] \in ScanStates
  BY <1>1, <1>16
<1>18. scanned \in [0 .. n -> ScanStates]
  BY <1>11, <1>17
<1>19. ScanBy(scanned, l, opts)
  BY <1>10, <1>12, <1>13, <1>18 DEF ScanBy
<1>20. QED
  BY <1>19

-----------------------------------------------------------------------------
(* What one more START or STOP, behind all others, does to the selection.  *)
CutEffect(l, C, D, opts, k) ==
  \A x \in Pics :
    /\ StopAhead(l, D, x) <=>
         StopAhead(l, C, x) \/ (l[k].type = "stop" /\ x < l[k].pic)
    /\ l[k].pic <= x => (On(l, D, opts, x) <=> l[k].type = "start")
    /\ x < l[k].pic => (On(l, D, opts, x) <=>
                          On(l, C, opts, x) /\ (C = {} => l[k].type = "stop"))

LEMMA NewCut ==
  ASSUME NEW l \in Seq(Items), Ordered(l), NEW k \in 1 .. Len(l),
         l[k].type \in {"start", "stop"},
         NEW C, C \subseteq 1 .. k - 1, NEW opts
  PROVE  CutEffect(l, C, C \cup {k}, opts, k)
<1> DEFINE D == C \cup {k}
           p == l[k].pic
           First(X, x) == \E i \in X : /\ l[i].pic <= x /\ l[i].type = "start"
                                       /\ \A j \in X : l[j].pic <= x => j <= i
           None(X, x) == \A i \in X : x < l[i].pic
           Stops(X) == \A i \in X : (\A j \in X : i <= j) => l[i].type = "stop"
<1>1. /\ Len(l) \in Nat /\ DOMAIN l = 1 .. Len(l)
      /\ k \in Nat /\ p \in Nat /\ "start" # "stop"
  BY ItemList
<1>2. \A i \in C : i \in Nat /\ i < k /\ l[i].pic \in Nat /\ l[i].pic <= p
  <2>1. ASSUME NEW i \in C
        PROVE  i \in Nat /\ i < k /\ l[i].pic \in Nat /\ l[i].pic <= p
    <3>1. i \in Nat /\ i < k /\ i \in 1 .. Len(l)
      BY <1>1
    <3>2. l[i].pic \in Nat
      BY <3>1, ItemList
    <3>3. l[i].pic <= p
      BY <1>1, <3>1 DEF Ordered
    <3>4. QED
      BY <3>1, <3>2, <3>3
  <2>2. QED
    BY <2>1
<1>3. \A i \in D : i \in C \/ i = k
  OBVIOUS
<1>4. C \subseteq D /\ k \in D
  OBVIOUS
<1>5. \A X, x : On(l, X, opts, x) <=> First(X, x) \/ (opts.start_bof /\ None(X, x) /\ Stops(X))
  BY DEF On
<1> HIDE DEF D, p
<1>6. ASSUME NEW x \in Pics
      PROVE  StopAhead(l, D, x) <=>
               StopAhead(l, C, x) \/ (l[k].type = "stop" /\ x < l[k].pic)
  BY <1>3, <1>4 DEF StopAhead
<1>7. ASSUME NEW x \in Pics
      PROVE  x \in Nat
  BY CutTableAssumption DEF Pics
<1>8. ASSUME NEW x \in Pics, p <= x
      PROVE  On(l, D, opts, x) <=> l[k].type = "start"
  <2>1. x \in Nat /\ ~(x < p)
    BY <1>1, <1>7, <1>8
  <2>2. ASSUME NEW j \in D
        PROVE  j <= k /\ (k <= j => j = k)
    <3>1. CASE j \in C
      <4>1. j \in Nat /\ j < k
        BY <1>2, <3>1
      <4>2. QED
        BY <1>1, <4>1
    <3>2. CASE j = k
      BY <1>1, <3>2
    <3>3. QED
      BY <1>3, <3>1, <3>2
  <2>3. \A i \in D : k <= i => i = k
    BY <2>2
  <2>4. First(D, x) => l[k].type = "start"
    BY <1>4, <1>8, <2>3 DEF p
  <2>5. l[k].type = "start" => First(D, x)
    BY <1>4, <1>8, <2>2 DEF p
  <2>6. ~None(D, x)
    BY <1>4, <2>1 DEF p
  <2>7. QED
    BY <1>5, <2>4, <2>5, <2>6
<1>9. ASSUME NEW x \in Pics, x < p
      PROVE  On(l, D, opts, x) <=> On(l, C, opts, x) /\ (C = {} => l[k].type = "stop")
  <2>1. x \in Nat /\ ~(p <= x)
    BY <1>1, <1>7, <1>9
  <2>2. First(D, x) <=> First(C, x)
    BY <1>3, <1>4, <2>1 DEF p
  <2>3. None(D, x) <=> None(C, x)
    BY <1>3, <1>4, <1>9 DEF p
  <2>4. CASE C = {}
    <3>1. ~First(C, x) /\ None(C, x) /\ Stops(C) /\ D = {k}
      BY <2>4 DEF D
    <3>2. Stops(D) <=> l[k].type = "stop"
      BY <1>1, <3>1
    <3>3. QED
      BY <1>5, <2>2, <2>3, <2>4, <3>1, <3>2
  <2>5. CASE C # {}
    <3>1. PICK c \in C : c \in Nat /\ c < k
      BY <1>2, <2>5
    <3>2. Stops(D) => Stops(C)
      <4>1. ASSUME Stops(D), NEW i \in C, \A j \in C : i <= j
            PROVE  l[i].type = "stop"
        <5>1. i <= k
          BY <1>1, <1>2
        <5>2. \A j \in D : i <= j
          BY <1>3, <4>1, <5>1
        <5>3. QED
          BY <1>4, <4>1, <5>2
      <4>2. QED
        BY <4>1
    <3>3. Stops(C) => Stops(D)
      <4>1. ASSUME Stops(C), NEW i \in D, \A j \in D : i <= j
            PROVE  l[i].type = "stop"
        <5>1. i # k
          BY <1>1, <1>4, <3>1, <4>1
        <5>2. i \in C /\ \A j \in C : i <= j
          BY <1>3, <1>4, <4>1, <5>1
        <5>3. QED
          BY <4>1, <5>2
      <4>2. QED
        BY <4>1
    <3>4. QED
      BY <1>5, <2>2, <2>3, <2>5, <3>2, <3>3
  <2>6. QED
    BY <2>4, <2>5
<1>10. CutEffect(l, C, D, opts, k)
  BY <1>6, <1>8, <1>9 DEF CutEffect, p
<1>11. QED
  BY <1>10 DEF D

(* What the scan has after some of the items, if START and STOP are at C   *)
(* and none of the items is behind pic.                                    *)
GoodRanges(s, pic) ==
  /\ IsCutTable(s.ranges) /\ EndsBy(s.ranges, pic)
  /\ s.out = Cardinality(CoveredBy(s.ranges))

GoodStart(s, pic) ==
  s.start # NoStart =>
    s.start \in Pics /\ s.start <= pic /\ EndsBy(s.ranges, s.start)

NoStopBehind(l, C, s) ==
  s.start # NoStart => \A x \in Pics : s.start <= x => ~StopAhead(l, C, x)

FromBegin(C, opts, s) ==
  opts.start_bof => (s.start = 0 /\ ~s.realzero <=> C = {})

Closed(l, C, opts, s) ==
  \A x \in Pics : x \in CoveredBy(s.ranges) <=>
                    On(l, C, opts, x) /\ StopAhead(l, C, x)

Open(l, C, opts, s) ==
  \A x \in Pics : ~StopAhead(l, C, x) =>
    (On(l, C, opts, x) <=> s.start # NoStart /\ s.start <= x)

Good(l, C, opts, s, pic) ==
  /\ s \in ScanStates /\ s.chapters \in Seq(0 .. 2 * Pictures)
  /\ GoodRanges(s, pic) /\ GoodStart(s, pic)
  /\ NoStopBehind(l, C, s) /\ FromBegin(C, opts, s)
  /\ Closed(l, C, opts, s) /\ Open(l, C, opts, s)

LEMMA GoodLater ==
  ASSUME NEW l, NEW C, NEW opts, NEW s, NEW p \in Nat, NEW q \in Nat, p <= q,
         Good(l, C, opts, s, p)
  PROVE  Good(l, C, opts, s, q)
<1>1. /\ s.ranges \in Seq(Entries) /\ EndsBy(s.ranges, p)
  BY DEF Good, GoodRanges, IsCutTable
<1>2. EndsBy(s.ranges, q)
  <2>1. ASSUME NEW j \in 1 .. Len(s.ranges)
        PROVE  s.ranges[j].stop <= q
    <3>1. s.ranges[j].stop <= p /\ s.ranges[j].stop \in Nat
      BY <1>1, TableFacts DEF EndsBy
    <3>2. QED
      BY <3>1
  <2>2. QED
    BY <2>1 DEF EndsBy
<1>3. GoodRanges(s, q)
  BY <1>2 DEF Good, GoodRanges
<1>4. ASSUME s.start # NoStart
      PROVE  s.start <= q
  <2>1. s.start \in Pics /\ s.start <= p
    BY <1>4 DEF Good, GoodStart
  <2>2. s.start \in Nat
    BY <2>1, CutTableAssumption DEF Pics
  <2>3. QED
    BY <2>1, <2>2
<1>5. GoodStart(s, q)
  BY <1>4 DEF Good, GoodStart
<1>6. QED
  BY <1>3, <1>5 DEF Good

LEMMA GoodBegin ==
  ASSUME NEW l \in Seq(Items), NEW opts \in CutOptions
  PROVE  Good(l, {}, opts, ScanBegin(opts), 0)
<1> DEFINE s == ScanBegin(opts)
<1>1. /\ s.start = IF opts.start_bof THEN 0 ELSE NoStart
      /\ s.realzero = FALSE /\ s.out = 0 /\ s.ranges = << >> /\ s.chapters = <<0>>
  BY DEF ScanBegin
<1>2. s \in ScanStates
  BY ScanBeginType
<1> HIDE DEF s
<1>3. Pictures \in Nat /\ 0 \in Pics /\ \A x \in Pics : x \in Nat /\ 0 <= x
  BY CutTableAssumption DEF Pics
<1>4. s.chapters \in Seq(0 .. 2 * Pictures)
  <2>1. 0 \in 0 .. 2 * Pictures
    BY <1>3
  <2>2. QED
    BY <1>1, <2>1
<1>5. Len(<< >>) = 0 /\ DOMAIN << >> = {} /\ 1 .. 0 = {}
  OBVIOUS
<1>6. CoveredBy(s.ranges) = {} /\ Cardinality({}) = 0
  BY <1>1, <1>5, FS_EmptySet DEF CoveredBy
<1>7. \A x : EndsBy(s.ranges, x)
  BY <1>1, <1>5 DEF EndsBy
<1>8. IsCutTable(s.ranges)
  BY <1>1, <1>5 DEF IsCutTable, Consecutive, Counted
<1>9. GoodRanges(s, 0)
  BY <1>1, <1>6, <1>7, <1>8 DEF GoodRanges
<1>10. \A x \in Pics : ~StopAhead(l, {}, x)
  BY DEF StopAhead
<1>11. \A x \in Pics : On(l, {}, opts, x) <=> opts.start_bof
  BY DEF On
<1>12. opts.start_bof \in BOOLEAN /\ NoStart # 0
  BY DEF CutOptions, NoStart
<1>13. GoodStart(s, 0)
  BY <1>1, <1>3, <1>7 DEF GoodStart
<1>14. NoStopBehind(l, {}, s)
  BY <1>10 DEF NoStopBehind
<1>15. FromBegin({}, opts, s)
  BY <1>1 DEF FromBegin
<1>16. Closed(l, {}, opts, s)
  BY <1>6, <1>10 DEF Closed
<1>17. Open(l, {}, opts, s)
  <2>1. CASE opts.start_bof
    <3>1. s.start = 0
      BY <1>1, <2>1
    <3>2. QED
      BY <1>3, <1>11, <1>12, <2>1, <3>1 DEF Open
  <2>2. CASE ~opts.start_bof
    <3>1. s.start = NoStart
      BY <1>1, <2>2
    <3>2. QED
      BY <1>11, <2>2, <3>1 DEF Open
  <2>3. QED
    BY <2>1, <2>2
<1>18. QED
  BY <1>2, <1>4, <1>9, <1>13, <1>14, <1>15, <1>16, <1>17 DEF Good, s

LEMMA CloseRangeGood ==
  ASSUME NEW s \in ScanStates, NEW p \in Pics, NEW q \in Nat, q <= p,
         GoodRanges(s, q), GoodStart(s, q), s.start # NoStart
  PROVE  LET t == CloseRange(s, p)
         IN  /\ GoodRanges(t, p)
             /\ CoveredBy(t.ranges) = CoveredBy(s.ranges) \cup (s.start .. p - 1)
             /\ t.start = NoStart /\ t.chapters = s.chapters
<1> DEFINE t == CloseRange(s, p)
           out == s.out
           e == [start |-> s.start, stop |-> p, out |-> out + p - s.start]
<1>1. /\ s.start \in Pics /\ s.start <= q /\ EndsBy(s.ranges, s.start)
      /\ IsCutTable(s.ranges) /\ s.out = Cardinality(CoveredBy(s.ranges))
  BY DEF GoodStart, GoodRanges
<1>2. s.start \in Nat /\ p \in Nat
  BY <1>1, CutTableAssumption DEF Pics
<1>3. s.start <= p
  BY <1>1, <1>2
<1>4. /\ t.ranges = Append(s.ranges, e) /\ t.out = out + p - s.start
      /\ t.start = NoStart /\ t.chapters = s.chapters
  <2>1. s = [start |-> s.start, realzero |-> s.realzero, out |-> s.out,
             lastchapter |-> s.lastchapter, ranges |-> s.ranges,
             chapters |-> s.chapters]
    BY DEF ScanStates
  <2>2. t = [s EXCEPT !.start = NoStart, !.out = out + p - s.start,
                      !.ranges = Append(s.ranges, e)]
    BY DEF CloseRange
  <2> HIDE DEF t, e
  <2>3. QED
    BY <2>1, <2>2
<1> HIDE DEF t, out
<1>5. /\ IsCutTable(t.ranges) /\ EndsBy(t.ranges, p)
      /\ CoveredBy(t.ranges) = CoveredBy(s.ranges) \cup (s.start .. p - 1)
      /\ out + p - s.start = Cardinality(CoveredBy(t.ranges))
  <2>1. out = Cardinality(CoveredBy(s.ranges))
    BY <1>1 DEF out
  <2>2. Adds(t.ranges, s.ranges, s.start, p, out)
    BY <1>1, <1>3, <1>4, <2>1 DEF Adds
  <2>3. QED
    BY <2>2, RangeAdded
<1>6. GoodRanges(t, p)
  BY <1>4, <1>5 DEF GoodRanges
<1>7. QED
  BY <1>4, <1>5, <1>6 DEF t

(* An item that is no START and no STOP.                                   *)
LEMMA GoodNoCut ==
  ASSUME NEW l \in Seq(Items), NEW C, NEW opts \in CutOptions, NEW s,
         NEW item \in Items, NoCut(item), Good(l, C, opts, s, item.pic)
  PROVE  Good(l, C, opts, ScanItem(opts, s, item), item.pic)
<1> DEFINE p == item.pic
           t == ScanItem(opts, s, item)
           c == IF s.start # NoStart THEN Append(s.chapters, p - s.start + s.out)
                                     ELSE s.chapters
<1>1. item.type \in EventTypes /\ p \in Pics /\ p \in Nat
  BY CutTableAssumption DEF Items, Pics
<1>2. item.type = "bookmark" \/ item.type = "chapter"
  BY <1>1 DEF EventTypes, NoCut
<1>3. CASE item.type = "bookmark"
  <2>1. t = s
    BY <1>3 DEF ScanItem
  <2>2. QED
    BY <2>1
<1>4. CASE item.type = "chapter"
  <2>1. t = ScanChapter(s, p)
    BY <1>4 DEF ScanItem
  <2>2. t = [s EXCEPT !.lastchapter = p, !.chapters = c]
    BY <2>1 DEF ScanChapter
  <2>3. /\ s \in ScanStates /\ s.chapters \in Seq(0 .. 2 * Pictures)
        /\ GoodRanges(s, p) /\ GoodStart(s, p)
    BY DEF Good
  <2>4. c \in Seq(0 .. 2 * Pictures)
    <3>1. CASE s.start # NoStart
      <4>1. s.start \in Pics /\ s.start <= p
        BY <2>3, <3>1 DEF GoodStart
      <4>2. s.out \in 0 .. Pictures
        <5>1. CoveredBy(s.ranges) \subseteq Pics
          BY DEF CoveredBy
        <5>2. s.out = Cardinality(CoveredBy(s.ranges))
          BY <2>3 DEF GoodRanges
        <5>3. QED
          BY <5>1, <5>2, PicsFacts
      <4>3. p - s.start + s.out \in 0 .. 2 * Pictures
        <5>1. PICK x \in Pics : x = s.start
          BY <4>1
        <5>2. PICK y \in 0 .. Pictures : y = s.out
          BY <4>2
        <5>3. Pictures \in Nat /\ p \in Nat /\ x \in Nat /\ p < Pictures /\ x <= p
          BY <1>1, <4>1, <5>1, CutTableAssumption DEF Pics
        <5>4. p - x + y \in 0 .. 2 * Pictures
          BY <5>2, <5>3
        <5>5. QED
          BY <5>1, <5>2, <5>4
      <4>4. QED
        BY <2>3, <3>1, <4>3, AppendProperties
    <3>2. CASE ~(s.start # NoStart)
      BY <2>3, <3>2
    <3>3. QED
      BY <3>1, <3>2
  <2> HIDE DEF c
  <2>5. t \in ScanStates
    BY <2>3, ScanItemType
  <2>6. /\ t.chapters = c /\ t.start = s.start /\ t.ranges = s.ranges
        /\ t.out = s.out /\ t.realzero = s.realzero
    <3> HIDE DEF t
    <3>1. QED
      BY <2>2, <2>3 DEF ScanStates
  <2> HIDE DEF t
  <2>7. t.chapters \in Seq(0 .. 2 * Pictures)
    BY <2>4, <2>6
  <2>8. GoodRanges(t, p) /\ GoodStart(t, p)
    BY <2>3, <2>6 DEF GoodRanges, GoodStart
  <2>9. NoStopBehind(l, C, t) /\ FromBegin(C, opts, t)
    BY <2>6 DEF Good, NoStopBehind, FromBegin
  <2>10. Closed(l, C, opts, t) /\ Open(l, C, opts, t)
    BY <2>6 DEF Good, Closed, Open
  <2>11. QED
    BY <2>5, <2>7, <2>8, <2>9, <2>10 DEF Good, t
<1>5. QED
  BY <1>2, <1>3, <1>4

(* One more START ...                                                      *)
LEMMA GoodStartMarker ==
  ASSUME NEW l \in Seq(Items), NEW C, NEW D, NEW opts \in CutOptions, NEW s,
         NEW k \in 1 .. Len(l), l[k].type = "start", CutEffect(l, C, D, opts, k),
         D # {}, Good(l, C, opts, s, l[k].pic),
         \A x \in Pics : StopAhead(l, C, x) => C # {} /\ x < l[k].pic
  PROVE  Good(l, D, opts, ScanItem(opts, s, l[k]), l[k].pic)
<1> DEFINE p == l[k].pic
           t == ScanItem(opts, s, l[k])
           fresh == opts.start_bof /\ s.start = 0 /\ ~s.realzero
           c == IF s.lastchapter = p THEN Append(s.chapters, s.out) ELSE s.chapters
<1>1. l[k] \in Items /\ p \in Pics /\ p \in Nat
  BY ItemList
<1>2. t = ScanStart(opts, s, p)
  BY DEF ScanItem
<1>3. /\ s \in ScanStates /\ s.chapters \in Seq(0 .. 2 * Pictures)
      /\ GoodRanges(s, p) /\ GoodStart(s, p)
  BY DEF Good
<1>4. t \in ScanStates
  BY <1>1, <1>3, ScanItemType
<1>5. \A x \in Pics : /\ StopAhead(l, D, x) <=> StopAhead(l, C, x)
                      /\ p <= x => On(l, D, opts, x)
                      /\ x < p => (On(l, D, opts, x) <=> On(l, C, opts, x) /\ C # {})
                      /\ x \in Nat
  <2>1. \A x \in Pics : x \in Nat
    BY CutTableAssumption DEF Pics
  <2>2. QED
    BY <2>1 DEF CutEffect
<1>6. \A x \in Pics : p <= x => ~StopAhead(l, C, x)
  BY <1>1, <1>5
<1>7. fresh => C = {}
  BY DEF Good, FromBegin
<1>8. Closed(l, D, opts, s)
  <2>1. \A x \in Pics : StopAhead(l, C, x) => (On(l, D, opts, x) <=> On(l, C, opts, x))
    BY <1>5
  <2>2. \A x \in Pics : x \in CoveredBy(s.ranges) <=> On(l, C, opts, x) /\ StopAhead(l, C, x)
    BY DEF Good, Closed
  <2>3. \A x \in Pics : x \in CoveredBy(s.ranges) <=> On(l, D, opts, x) /\ StopAhead(l, D, x)
    BY <1>5, <2>1, <2>2
  <2>4. QED
    BY <2>3 DEF Closed
<1>9. CASE s.start = NoStart \/ fresh
  <2>1. t = [s EXCEPT !.start = p, !.realzero = s.realzero \/ p = 0, !.chapters = c]
    BY <1>2, <1>9, <1>3 DEF ScanStart, ScanStates
  <2>2. c \in Seq(0 .. 2 * Pictures)
    <3>1. s.out \in 0 .. Pictures
      <4>1. CoveredBy(s.ranges) \subseteq Pics
        BY DEF CoveredBy
      <4>2. s.out = Cardinality(CoveredBy(s.ranges))
        BY <1>3 DEF GoodRanges
      <4>3. QED
        BY <4>1, <4>2, PicsFacts
    <3>2. s.out \in 0 .. 2 * Pictures
      BY <3>1, CutTableAssumption
    <3>3. QED
      BY <1>3, <3>2, AppendProperties
  <2> HIDE DEF t, c
  <2>3. /\ t.start = p /\ t.realzero = (s.realzero \/ p = 0) /\ t.chapters = c
        /\ t.ranges = s.ranges /\ t.out = s.out
    BY <1>3, <2>1 DEF ScanStates
  <2>4. GoodRanges(t, p)
    BY <1>3, <2>3 DEF GoodRanges
  <2>5. GoodStart(t, p)
    <3>1. EndsBy(t.ranges, p)
      BY <2>4 DEF GoodRanges
    <3>2. QED
      BY <1>1, <2>3, <3>1 DEF GoodStart
  <2>6. NoStopBehind(l, D, t)
    BY <1>5, <1>6, <2>3 DEF NoStopBehind
  <2>7. FromBegin(D, opts, t)
    <3>1. ~(t.start = 0 /\ ~t.realzero)
      BY <2>3
    <3>2. QED
      BY <3>1 DEF FromBegin
  <2>8. Closed(l, D, opts, t)
    BY <1>8, <2>3 DEF Closed
  <2>9. Open(l, D, opts, t)
    <3>1. t.start # NoStart
      BY <1>1, <2>3 DEF NoStart
    <3>2. ASSUME NEW x \in Pics, ~StopAhead(l, D, x), x < p
          PROVE  ~On(l, D, opts, x)
      <4>1. CASE s.start = NoStart
        <5>1. ~On(l, C, opts, x)
          BY <1>5, <3>2, <4>1 DEF Good, Open
        <5>2. QED
          BY <1>5, <3>2, <5>1
      <4>2. CASE fresh
        BY <1>5, <1>7, <3>2, <4>2
      <4>3. QED
        BY <1>9, <4>1, <4>2
    <3>3. ASSUME NEW x \in Pics, ~StopAhead(l, D, x)
          PROVE  On(l, D, opts, x) <=> t.start # NoStart /\ t.start <= x
      <4>1. CASE p <= x
        BY <1>5, <2>3, <3>1, <4>1
      <4>2. CASE x < p
        <5>1. ~(p <= x)
          BY <1>1, <1>5, <4>2
        <5>2. QED
          BY <2>3, <3>2, <3>3, <4>2, <5>1
      <4>3. QED
        BY <1>1, <1>5, <4>1, <4>2
    <3>4. QED
      BY <3>3 DEF Open
  <2>10. t.chapters \in Seq(0 .. 2 * Pictures) /\ t \in ScanStates
    BY <1>4, <2>2, <2>3 DEF t
  <2>11. Good(l, D, opts, t, p)
    BY <2>4, <2>5, <2>6, <2>7, <2>8, <2>9, <2>10 DEF Good
  <2>12. QED
    BY <2>11 DEF t
<1>10. CASE ~(s.start = NoStart \/ fresh)
  <2>1. t = s
    BY <1>2, <1>10 DEF ScanStart
  <2>2. s.start # NoStart /\ s.start \in Pics /\ s.start <= p
    BY <1>3, <1>10 DEF GoodStart
  <2>3. s.start \in Nat
    BY <1>5, <2>2
  <2>4. C # {}
    <3>1. CASE opts.start_bof
      BY <1>10, <3>1 DEF Good, FromBegin
    <3>2. CASE ~opts.start_bof
      <4>1. ASSUME C = {}
            PROVE  FALSE
        <5>1. ~StopAhead(l, C, s.start)
          BY <2>2, <4>1
        <5>2. On(l, C, opts, s.start)
          <6>1. s.start <= s.start
            BY <2>3
          <6>2. QED
            BY <2>2, <5>1, <6>1 DEF Good, Open
        <5>3. QED
          BY <3>2, <4>1, <5>2 DEF On
      <4>2. QED
        BY <4>1
    <3>3. QED
      BY <3>1, <3>2
  <2>5. NoStopBehind(l, D, s)
    BY <1>5 DEF Good, NoStopBehind
  <2>6. FromBegin(D, opts, s)
    BY <2>4 DEF Good, FromBegin
  <2>7. Open(l, D, opts, s)
    <3>1. ASSUME NEW x \in Pics, ~StopAhead(l, D, x)
          PROVE  On(l, D, opts, x) <=> s.start # NoStart /\ s.start <= x
      <4>1. On(l, C, opts, x) <=> s.start # NoStart /\ s.start <= x
        BY <1>5, <3>1 DEF Good, Open
      <4>2. CASE x < p
        BY <1>5, <2>4, <4>1, <4>2
      <4>3. CASE p <= x
        <5>1. s.start <= x
          BY <1>1, <1>5, <2>2, <2>3, <4>3
        <5>2. QED
          BY <1>5, <2>2, <4>3, <5>1
      <4>4. QED
        BY <1>1, <1>5, <4>2, <4>3
    <3>2. QED
      BY <3>1 DEF Open
  <2>8. Good(l, D, opts, s, p)
    BY <1>3, <1>8, <2>5, <2>6, <2>7 DEF Good
  <2>9. QED
    BY <2>1, <2>8
<1>11. QED
  BY <1>9, <1>10

(* ... or STOP behind all others.                                          *)
LEMMA GoodStopMarker ==
  ASSUME NEW l \in Seq(Items), NEW C, NEW D, NEW opts \in CutOptions, NEW s,
         NEW k \in 1 .. Len(l), l[k].type = "stop", CutEffect(l, C, D, opts, k),
         D # {}, Good(l, C, opts, s, l[k].pic),
         \A x \in Pics : StopAhead(l, C, x) => C # {} /\ x < l[k].pic
  PROVE  Good(l, D, opts, ScanItem(opts, s, l[k]), l[k].pic)
<1> DEFINE p == l[k].pic
           t == ScanItem(opts, s, l[k])
<1>1. l[k] \in Items /\ p \in Pics /\ p \in Nat
  BY ItemList
<1>2. t = IF s.start # NoStart THEN CloseRange(s, p) ELSE s
  BY DEF ScanItem
<1>3. /\ s \in ScanStates /\ s.chapters \in Seq(0 .. 2 * Pictures)
      /\ GoodRanges(s, p) /\ GoodStart(s, p)
  BY DEF Good
<1>4. t \in ScanStates
  BY <1>1, <1>3, ScanItemType
<1>5. \A x \in Pics : /\ StopAhead(l, D, x) <=> x < p
                      /\ p <= x => ~On(l, D, opts, x)
                      /\ x < p => (On(l, D, opts, x) <=> On(l, C, opts, x))
                      /\ x \in Nat
  <2>1. \A x \in Pics : x \in Nat
    BY CutTableAssumption DEF Pics
  <2>2. QED
    BY <2>1 DEF CutEffect
<1> HIDE DEF t
<1>6. t.start = NoStart
  <2>1. CASE s.start # NoStart
    <3>1. t = CloseRange(s, p)
      BY <1>2, <2>1
    <3>2. QED
      BY <3>1, <1>3 DEF CloseRange, ScanStates
  <2>2. CASE ~(s.start # NoStart)
    BY <1>2, <2>2
  <2>3. QED
    BY <2>1, <2>2
<1>7. GoodRanges(t, p) /\ t.chapters \in Seq(0 .. 2 * Pictures)
  <2>1. CASE s.start # NoStart
    <3>1. t = CloseRange(s, p) /\ p <= p
      BY <1>1, <1>2, <2>1
    <3>2. GoodRanges(CloseRange(s, p), p) /\ CloseRange(s, p).chapters = s.chapters
      BY <1>1, <1>3, <2>1, <3>1, CloseRangeGood
    <3>3. QED
      BY <1>3, <3>1, <3>2
  <2>2. CASE ~(s.start # NoStart)
    BY <1>2, <1>3, <2>2
  <2>3. QED
    BY <2>1, <2>2
<1>8. Closed(l, D, opts, t)
  <2>1. \A x \in Pics : x \in CoveredBy(s.ranges) <=> On(l, C, opts, x) /\ StopAhead(l, C, x)
    BY DEF Good, Closed
  <2>2. \A x \in Pics : ~StopAhead(l, C, x) =>
          (On(l, C, opts, x) <=> s.start # NoStart /\ s.start <= x)
    BY DEF Good, Open
  <2>3. CASE s.start # NoStart
    <3>1. t = CloseRange(s, p) /\ p <= p
      BY <1>1, <1>2, <2>3
    <3>2. CoveredBy(CloseRange(s, p).ranges) = CoveredBy(s.ranges) \cup (s.start .. p - 1)
      BY <1>1, <1>3, <2>3, <3>1, CloseRangeGood
    <3>3. s.start \in Nat
      BY <1>3, <1>5, <2>3 DEF GoodStart
    <3>4. \A x \in Pics : x \in s.start .. p - 1 <=> s.start <= x /\ x < p
      BY <1>1, <1>5, <3>3
    <3>5. \A x \in Pics : s.start <= x => ~StopAhead(l, C, x)
      BY <2>3 DEF Good, NoStopBehind
    <3>6. \A x \in Pics : x \in CoveredBy(t.ranges) <=>
                            x \in CoveredBy(s.ranges) \/ (s.start <= x /\ x < p)
      BY <3>1, <3>2, <3>4
    <3>7. ASSUME NEW x \in Pics
          PROVE  x \in CoveredBy(t.ranges) <=> On(l, D, opts, x) /\ StopAhead(l, D, x)
      <4>1. CASE StopAhead(l, C, x)
        <5>1. x < p /\ ~(s.start <= x)
          BY <3>5, <4>1
        <5>2. QED
          BY <1>5, <2>1, <3>6, <4>1, <5>1
      <4>2. CASE ~StopAhead(l, C, x)
        BY <1>1, <1>5, <2>1, <2>2, <2>3, <3>6, <4>2
      <4>3. QED
        BY <4>1, <4>2
    <3>8. QED
      BY <3>7 DEF Closed
  <2>4. CASE ~(s.start # NoStart)
    <3>1. t = s
      BY <1>2, <2>4
    <3>2. ASSUME NEW x \in Pics
          PROVE  x \in CoveredBy(s.ranges) <=> On(l, D, opts, x) /\ StopAhead(l, D, x)
      BY <1>5, <2>1, <2>2, <2>4
    <3>3. QED
      BY <3>1, <3>2 DEF Closed
  <2>5. QED
    BY <2>3, <2>4
<1>9. Open(l, D, opts, t)
  <2>1. \A x \in Pics : ~(x < p) => p <= x
    BY <1>1, <1>5
  <2>2. QED
    BY <1>5, <1>6, <2>1 DEF Open
<1>10. GoodStart(t, p) /\ NoStopBehind(l, D, t)
  BY <1>6 DEF GoodStart, NoStopBehind
<1>11. FromBegin(D, opts, t)
  BY <1>6 DEF FromBegin, NoStart
<1>12. Good(l, D, opts, t, p)
  BY <1>3, <1>4, <1>7, <1>8, <1>9, <1>10, <1>11 DEF Good
<1>13. QED
  BY <1>12 DEF t

-----------------------------------------------------------------------------
(* The whole list.                                                         *)
Pos(l, i) == IF i = 0 THEN 0 ELSE l[i].pic

CutsTo(l, i) == {k \in 1 .. i : l[k].type \in {"start", "stop"}}

LEMMA GoodStep ==
  ASSUME NEW l \in Seq(Items), Ordered(l), NEW opts \in CutOptions,
         NEW i \in Nat, i + 1 \in 1 .. Len(l),
         NEW s, Good(l, CutsTo(l, i), opts, s, Pos(l, i))
  PROVE  Good(l, CutsTo(l, i + 1), opts, ScanItem(opts, s, l[i + 1]), Pos(l, i + 1))
<1> DEFINE k == i + 1
           C == CutsTo(l, i)
           D == CutsTo(l, k)
<1>1. /\ Len(l) \in Nat /\ DOMAIN l = 1 .. Len(l) /\ k \in 1 .. Len(l) /\ k \in Nat
      /\ l[k] \in Items /\ l[k].pic \in Nat /\ l[k].type \in EventTypes
      /\ k # 0 /\ k - 1 = i
  BY ItemList
<1>2. Pos(l, i) \in Nat /\ Pos(l, i) <= l[k].pic /\ Pos(l, k) = l[k].pic
  <2>1. CASE i = 0
    BY <1>1, <2>1 DEF Pos
  <2>2. CASE i # 0
    <3>1. i \in 1 .. Len(l) /\ i < k
      BY <1>1, <2>2
    <3>2. l[i].pic \in Nat
      BY <3>1, ItemList
    <3>3. l[i].pic <= l[k].pic
      BY <1>1, <3>1 DEF Ordered
    <3>4. QED
      BY <1>1, <2>2, <3>2, <3>3 DEF Pos
  <2>3. QED
    BY <2>1, <2>2
<1>3. D = IF NoCut(l[k]) THEN C ELSE C \cup {k}
  <2>1. \A j : j \in 1 .. k <=> j \in 1 .. i \/ j = k
    BY <1>1
  <2>2. QED
    BY <2>1 DEF CutsTo, NoCut
<1>4. \A x \in Pics : StopAhead(l, C, x) => C # {} /\ x < l[k].pic
  <2>1. ASSUME NEW x \in Pics, StopAhead(l, C, x)
        PROVE  C # {} /\ x < l[k].pic
    <3>1. PICK j \in C : x < l[j].pic
      BY <2>1 DEF StopAhead
    <3>2. j \in 1 .. Len(l) /\ j < k
      BY <1>1 DEF CutsTo
    <3>3. l[j].pic \in Nat /\ l[j].pic <= l[k].pic
      BY <1>1, <3>2, ItemList DEF Ordered
    <3>4. x \in Nat
      BY CutTableAssumption DEF Pics
    <3>5. QED
      BY <1>1, <3>1, <3>3, <3>4
  <2>2. QED
    BY <2>1
<1>5. C \subseteq 1 .. k - 1
  BY <1>1 DEF CutsTo
<1> HIDE DEF C, D, k
<1>6. Good(l, C, opts, s, l[k].pic)
  <2>1. Good(l, C, opts, s, Pos(l, i))
    BY DEF C
  <2>2. QED
    BY <1>1, <1>2, <2>1, GoodLater
<1>7. CASE NoCut(l[k])
  <2>1. D = C
    BY <1>3, <1>7
  <2>2. Good(l, C, opts, ScanItem(opts, s, l[k]), l[k].pic)
    BY <1>1, <1>6, <1>7, GoodNoCut
  <2>3. QED
    BY <1>2, <2>1, <2>2 DEF D, k
<1>8. CASE ~NoCut(l[k])
  <2>1. D = C \cup {k} /\ D # {} /\ l[k].type \in {"start", "stop"}
    BY <1>3, <1>8 DEF NoCut
  <2>2. CutEffect(l, C, C \cup {k}, opts, k)
    BY <1>1, <1>5, <2>1, NewCut
  <2>3. CutEffect(l, C, D, opts, k)
    BY <2>1, <2>2
  <2>4. CASE l[k].type = "start"
    <3>1. Good(l, D, opts, ScanItem(opts, s, l[k]), l[k].pic)
      BY <1>1, <1>4, <1>6, <2>1, <2>3, <2>4, GoodStartMarker
    <3>2. QED
      BY <1>2, <3>1 DEF D, k
  <2>5. CASE l[k].type = "stop"
    <3>1. Good(l, D, opts, ScanItem(opts, s, l[k]), l[k].pic)
      BY <1>1, <1>4, <1>6, <2>1, <2>3, <2>5, GoodStopMarker
    <3>2. QED
      BY <1>2, <3>1 DEF D, k
  <2>6. QED
    BY <2>1, <2>4, <2>5
<1>9. QED
  BY <1>7, <1>8

(* What holds behind each item of the list.                                *)
LEMMA ScanGood ==
  ASSUME NEW l \in Seq(Items), Ordered(l), NEW opts \in CutOptions,
         NEW f, ScanBy(f, l, opts)
  PROVE  \A i \in 0 .. Len(l) : Good(l, CutsTo(l, i), opts, f[i], Pos(l, i))
<1> DEFINE n == Len(l)
<1>1. n \in Nat /\ DOMAIN l = 1 .. n
  BY ItemList
<1>2. /\ f[0] = ScanBegin(opts)
      /\ \A i \in 1 .. n : f[i] = ScanItem(opts, f[i - 1], l[i])
  BY DEF ScanBy
<1> DEFINE P == {i \in Nat : i <= n => Good(l, CutsTo(l, i), opts, f[i], Pos(l, i))}
<1>3. 0 \in P
  <2>1. CutsTo(l, 0) = {} /\ Pos(l, 0) = 0
    BY DEF CutsTo, Pos
  <2>2. Good(l, {}, opts, ScanBegin(opts), 0)
    BY GoodBegin
  <2>3. QED
    BY <1>2, <2>1, <2>2
<1>4. ASSUME NEW i \in P
      PROVE  i + 1 \in P
  <2>1. CASE i + 1 <= n
    <3>1. i \in Nat /\ i + 1 \in 1 .. n /\ i <= n /\ (i + 1) - 1 = i
      BY <1>1, <2>1
    <3>2. Good(l, CutsTo(l, i), opts, f[i], Pos(l, i))
      BY <3>1
    <3>3. Good(l, CutsTo(l, i + 1), opts, ScanItem(opts, f[i], l[i + 1]), Pos(l, i + 1))
      BY <3>1, <3>2, GoodStep
    <3>4. f[i + 1] = ScanItem(opts, f[i], l[i + 1])
      BY <1>2, <3>1
    <3>5. QED
      BY <3>1, <3>3, <3>4
  <2>2. CASE ~(i + 1 <= n)
    BY <2>2
  <2>3. QED
    BY <2>1, <2>2
<1>5. P = Nat
  <2> HIDE DEF P
  <2>1. P \subseteq Nat
    BY DEF P
  <2>2. QED
    BY <1>3, <1>4, <2>1, Induction
<1>6. QED
  BY <1>1, <1>5

LEMMA ScanSelects ==
  ASSUME NEW l \in Seq(Items), Ordered(l), NEW opts \in CutOptions
  PROVE  /\ IsCutTable(Scan(l, opts).ranges)
         /\ CoveredBy(Scan(l, opts).ranges) = {pic \in Pics : Selected(l, opts, pic)}
         /\ Scan(l, opts).chapters \in Seq(0 .. 2 * Pictures)
<1> DEFINE n == Len(l)
<1>1. n \in Nat /\ DOMAIN l = 1 .. n
  BY ItemList
<1>2. PICK f : ScanBy(f, l, opts)
  BY ScannedFacts
<1>3. Scanned(l, opts) = f[n]
  BY <1>2 DEF ScanBy
<1>6. \A i \in 0 .. n : Good(l, CutsTo(l, i), opts, f[i], Pos(l, i))
  BY <1>2, ScanGood
<1> DEFINE C == CutsOf(l)
           s == Scanned(l, opts)
           last == Pictures - 1
           q == Pos(l, n)
<1>7. Good(l, C, opts, s, q)
  <2>1. CutsTo(l, n) = CutsOf(l)
    BY <1>1 DEF CutsTo, CutsOf
  <2>2. n \in 0 .. n
    BY <1>1
  <2>3. Good(l, CutsTo(l, n), opts, f[n], q)
    BY <1>6, <2>2
  <2>4. QED
    BY <1>3, <2>1, <2>3
<1>8. Scan(l, opts) = IF opts.stop_eof /\ s.start # NoStart
                        THEN CloseRange(s, last) ELSE s
  BY DEF Scan
<1>9. \A x : Selected(l, opts, x) <=>
               On(l, C, opts, x) /\ (StopAhead(l, C, x) \/ (opts.stop_eof /\ x < last))
  BY DEF Selected
<1>10. q \in Nat /\ q <= last /\ last \in Pics /\ last \in Nat
  <2>1. Pictures \in Nat \ {0} /\ Pics = 0 .. last
    BY CutTableAssumption DEF Pics
  <2>2. q \in Pics
    <3>1. n = 0 => q = 0
      BY DEF Pos
    <3>2. n # 0 => n \in 1 .. n /\ q = l[n].pic
      BY <1>1 DEF Pos
    <3>3. QED
      BY <2>1, <3>1, <3>2, ItemList
  <2>3. QED
    BY <2>1, <2>2
<1> HIDE DEF C, s, last, q
<1>11. /\ s \in ScanStates /\ s.chapters \in Seq(0 .. 2 * Pictures)
       /\ GoodRanges(s, q) /\ GoodStart(s, q)
  BY <1>7 DEF Good
<1>12. \A x \in Pics : x \in CoveredBy(s.ranges) <=> On(l, C, opts, x) /\ StopAhead(l, C, x)
  BY <1>7 DEF Good, Closed
<1>13. \A x \in Pics : ~StopAhead(l, C, x) =>
          (On(l, C, opts, x) <=> s.start # NoStart /\ s.start <= x)
  BY <1>7 DEF Good, Open
<1>14. \A x \in Pics : x \in Nat
  BY CutTableAssumption DEF Pics
<1>15. CoveredBy(Scan(l, opts).ranges) \subseteq Pics
  BY DEF CoveredBy
<1>16. CASE opts.stop_eof /\ s.start # NoStart
  <2> DEFINE t == CloseRange(s, last)
  <2>1. Scan(l, opts) = t
    BY <1>8, <1>16
  <2>2. /\ GoodRanges(t, last)
        /\ CoveredBy(t.ranges) = CoveredBy(s.ranges) \cup (s.start .. last - 1)
        /\ t.chapters = s.chapters
    BY <1>10, <1>11, <1>16, CloseRangeGood
  <2> HIDE DEF t
  <2>3. s.start \in Nat /\ \A x \in Pics : s.start <= x => ~StopAhead(l, C, x)
    BY <1>7, <1>11, <1>14, <1>16 DEF GoodStart, Good, NoStopBehind
  <2>4. ASSUME NEW x \in Pics
        PROVE  x \in CoveredBy(t.ranges) <=> Selected(l, opts, x)
    <3>1. x \in CoveredBy(t.ranges) <=>
            x \in CoveredBy(s.ranges) \/ (s.start <= x /\ x < last)
      <4>1. x \in s.start .. last - 1 <=> s.start <= x /\ x < last
        BY <1>10, <1>14, <2>3
      <4>2. QED
        BY <2>2, <4>1
    <3>2. CASE StopAhead(l, C, x)
      <4>1. ~(s.start <= x)
        BY <2>3, <3>2
      <4>2. QED
        BY <1>9, <1>12, <3>1, <3>2, <4>1
    <3>3. CASE ~StopAhead(l, C, x)
      BY <1>9, <1>12, <1>13, <1>16, <3>1, <3>3
    <3>4. QED
      BY <3>2, <3>3
  <2>5. CoveredBy(Scan(l, opts).ranges) = {pic \in Pics : Selected(l, opts, pic)}
    BY <1>15, <2>1, <2>4
  <2>6. IsCutTable(Scan(l, opts).ranges)
    BY <2>1, <2>2 DEF GoodRanges
  <2>7. QED
    BY <1>11, <2>1, <2>2, <2>5, <2>6
<1>17. CASE ~(opts.stop_eof /\ s.start # NoStart)
  <2>1. Scan(l, opts) = s
    BY <1>8, <1>17
  <2>2. ASSUME NEW x \in Pics
        PROVE  x \in CoveredBy(s.ranges) <=> Selected(l, opts, x)
    BY <1>9, <1>12, <1>13, <1>17
  <2>3. CoveredBy(Scan(l, opts).ranges) = {pic \in Pics : Selected(l, opts, pic)}
    BY <1>15, <2>1, <2>2
  <2>4. IsCutTable(Scan(l, opts).ranges)
    BY <1>11, <2>1 DEF GoodRanges
  <2>5. QED
    BY <1>11, <2>1, <2>3, <2>4
<1>18. QED
  BY <1>16, <1>17

-----------------------------------------------------------------------------
(* The chapters.  Reach: the pictures in a range of the table or in the    *)
(* one that is open.                                                       *)
Reach(s) ==
  CoveredBy(s.ranges)
    \cup (IF s.start = NoStart THEN {} ELSE s.start .. Pictures - 1)

(* What the scan has of the chapter markers at T, none of them behind pic: *)
(* times that ascend, each that of a marker, and one for each in reach.    *)
Ascends(c) == \A i, j \in 1 .. Len(c) : i < j => c[i] <= c[j]

OfMarkers(c, C, T) ==
  \A i \in 1 .. Len(c) : c[i] = 0 \/ \E x \in T : c[i] = Before(C, x)

ForMarkers(c, C, T) ==
  \A x \in T \cap C : \E i \in 1 .. Len(c) : c[i] = Before(C, x)

Timed(s, T, pic) ==
  /\ s \in ScanStates /\ Len(s.chapters) \in Nat \ {0} /\ s.chapters[1] = 0
  /\ Ascends(s.chapters)
  /\ OfMarkers(s.chapters, Reach(s), T) /\ ForMarkers(s.chapters, Reach(s), T)
  /\ T \subseteq Pics /\ \A x \in T : x <= s.lastchapter /\ x <= pic
  /\ s.lastchapter = -2 \/ s.lastchapter \in T

LEMMA ReachFacts ==
  ASSUME NEW s, NEW pic \in Nat, GoodRanges(s, pic), GoodStart(s, pic)
  PROVE  /\ Reach(s) \subseteq Pics /\ CoveredBy(s.ranges) \subseteq Pics
         /\ \A x \in CoveredBy(s.ranges) : x \in Nat /\ x < pic
         /\ s.start # NoStart => \A x \in CoveredBy(s.ranges) : x < s.start
<1>1. s.ranges \in Seq(Entries) /\ EndsBy(s.ranges, pic)
  BY DEF GoodRanges, IsCutTable
<1>2. CoveredBy(s.ranges) \subseteq Pics
  BY DEF CoveredBy
<1>3. ASSUME NEW p \in Nat, EndsBy(s.ranges, p), NEW x \in CoveredBy(s.ranges)
      PROVE  x \in Nat /\ x < p
  <2>1. PICK j \in DOMAIN s.ranges : x < s.ranges[j].stop
    BY DEF CoveredBy
  <2>2. s.ranges[j].stop \in Nat /\ s.ranges[j].stop <= p
    BY <1>1, <1>3, TableFacts DEF EndsBy
  <2>3. x \in Nat
    BY <1>2, CutTableAssumption DEF Pics
  <2>4. QED
    BY <2>1, <2>2, <2>3
<1>4. s.start # NoStart =>
        s.start \in Pics /\ s.start \in Nat /\ EndsBy(s.ranges, s.start)
  BY CutTableAssumption DEF GoodStart, Pics
<1>5. s.start # NoStart => s.start .. Pictures - 1 \subseteq Pics
  BY <1>4, CutTableAssumption DEF Pics
<1>6. QED
  BY <1>1, <1>2, <1>3, <1>4, <1>5 DEF Reach

(* Pictures up to q are counted alike if nothing changes in front of q.    *)
SameRanges(C, D, q) == \A x \in Nat : x < q => (x \in C <=> x \in D)

LEMMA BeforeAgrees ==
  ASSUME NEW C, C \subseteq Pics, NEW D, D \subseteq Pics, NEW q \in Nat,
         SameRanges(C, D, q), NEW x \in Nat, x <= q
  PROVE  Before(C, x) = Before(D, x)
<1>1. \A y \in C \cup D : y \in Nat
  BY CutTableAssumption DEF Pics
<1>2. ASSUME NEW y
      PROVE  y \in C /\ y < x <=> y \in D /\ y < x
  <2>1. y \in Nat /\ y < x => y < q
    BY <1>2
  <2>2. QED
    BY <1>1, <2>1 DEF SameRanges
<1>3. {y \in C : y < x} = {y \in D : y < x}
  BY <1>2
<1>4. QED
  BY <1>3 DEF Before

(* One more item at q, which may add its picture to the markers and its    *)
(* time to the list.                                                       *)
Kinds(s, t, T, U, q) ==
  \/ t.chapters = s.chapters /\ \A x \in U \cap Reach(t) : x \in T \cap Reach(s)
  \/ /\ t.chapters = Append(s.chapters, Before(Reach(t), q)) /\ q \in U
     /\ \A x \in U \cap Reach(t) : x \in T \cap Reach(s) \/ x = q

LEMMA TimedGrows ==
  ASSUME NEW s, NEW t \in ScanStates, NEW T, NEW U, NEW p \in Nat, NEW q \in Pics,
         p <= q, Timed(s, T, p), Reach(s) \subseteq Pics, Reach(t) \subseteq Pics,
         SameRanges(Reach(s), Reach(t), q), U = T \/ U = T \cup {q}, Kinds(s, t, T, U, q),
         \A x \in U : x <= t.lastchapter, t.lastchapter = -2 \/ t.lastchapter \in U
  PROVE  Timed(t, U, q)
<1> DEFINE c == s.chapters
           d == t.chapters
           C == Reach(s)
           D == Reach(t)
           n == Len(c)
<1>1. q \in Nat /\ \A x \in Pics : x \in Nat
  BY CutTableAssumption DEF Pics
<1>2. /\ T \subseteq Pics /\ U \subseteq Pics /\ T \subseteq U
      /\ \A x \in T : x \in Nat /\ x <= q
      /\ \A x \in U : x \in Nat /\ x <= q
  <2>1. T \subseteq Pics /\ \A x \in T : x <= p
    BY DEF Timed
  <2>2. \A x \in T : x \in Nat /\ x <= q
    BY <1>1, <2>1
  <2>3. \A x \in U : x \in T \/ x = q
    OBVIOUS
  <2>4. \A x \in U : x \in Nat /\ x <= q
    BY <1>1, <2>2, <2>3
  <2>5. U \subseteq Pics /\ T \subseteq U
    BY <2>1, <2>3
  <2>6. QED
    BY <2>1, <2>2, <2>4, <2>5
<1>3. \A x \in T : Before(C, x) = Before(D, x)
  BY <1>1, <1>2, BeforeAgrees
<1>4. /\ c \in Seq(Int) /\ n \in Nat \ {0} /\ c[1] = 0 /\ Ascends(c)
      /\ OfMarkers(c, C, T) /\ ForMarkers(c, C, T)
  BY DEF Timed, ScanStates
<1>5. Before(D, q) \in Int /\ Before(D, q) >= 0
  <2>1. Before(D, q) \in 0 .. Pictures
    BY BeforeFacts
  <2>2. QED
    BY <2>1, CutTableAssumption
<1>6. ASSUME NEW i \in 1 .. n
      PROVE  /\ c[i] <= Before(D, q)
             /\ c[i] = 0 \/ \E x \in U : c[i] = Before(D, x)
  <2>1. CASE c[i] = 0
    BY <1>5, <2>1
  <2>2. CASE c[i] # 0
    <3>1. PICK x \in T : c[i] = Before(C, x)
      BY <1>4, <2>2 DEF OfMarkers
    <3>2. c[i] = Before(D, x)
      BY <1>3, <3>1
    <3>3. Before(D, x) <= Before(D, q)
      BY <1>1, <1>2, BeforeGrows
    <3>4. QED
      BY <1>2, <3>2, <3>3
  <2>3. QED
    BY <2>1, <2>2
<1>7. ASSUME NEW x \in T \cap C
      PROVE  \E i \in 1 .. n : c[i] = Before(D, x)
  BY <1>3, <1>4, <1>7 DEF ForMarkers
<1> HIDE DEF c, C, D, n
<1>8. CASE d = c /\ \A x \in U \cap D : x \in T \cap C
  <2>1. OfMarkers(d, D, U)
    BY <1>6, <1>8 DEF OfMarkers, n
  <2>2. ForMarkers(d, D, U)
    BY <1>7, <1>8 DEF ForMarkers, n
  <2>3. Len(d) \in Nat \ {0} /\ d[1] = 0 /\ Ascends(d)
    BY <1>4, <1>8 DEF n
  <2>4. QED
    BY <1>2, <2>1, <2>2, <2>3 DEF Timed, D
<1>9. CASE d = Append(c, Before(D, q)) /\ q \in U
           /\ \A x \in U \cap D : x \in T \cap C \/ x = q
  <2>1. /\ Len(d) = n + 1 /\ d[n + 1] = Before(D, q)
        /\ \A i \in 1 .. n : d[i] = c[i]
    BY <1>4, <1>5, <1>9, AppendProperties DEF n
  <2>2. \A i \in 1 .. n + 1 : i \in 1 .. n \/ i = n + 1
    BY <1>4
  <2>3. 1 \in 1 .. n /\ n + 1 \in 1 .. n + 1 /\ \A i \in 1 .. n : i \in 1 .. n + 1
    BY <1>4
  <2>4. OfMarkers(d, D, U)
    <3>1. ASSUME NEW i \in 1 .. n + 1
          PROVE  d[i] = 0 \/ \E x \in U : d[i] = Before(D, x)
      BY <1>6, <1>9, <2>1, <2>2
    <3>2. QED
      BY <2>1, <3>1 DEF OfMarkers
  <2>5. ForMarkers(d, D, U)
    <3>1. ASSUME NEW x \in U \cap D
          PROVE  \E i \in 1 .. n + 1 : d[i] = Before(D, x)
      <4>1. CASE x = q
        BY <2>1, <2>3, <4>1
      <4>2. CASE x \in T \cap C
        <5>1. PICK i \in 1 .. n : c[i] = Before(D, x)
          BY <1>7, <4>2
        <5>2. QED
          BY <2>1, <2>3, <5>1
      <4>3. QED
        BY <1>9, <4>1, <4>2
    <3>2. QED
      BY <2>1, <3>1 DEF ForMarkers
  <2>6. Ascends(d)
    <3>1. ASSUME NEW i \in 1 .. n + 1, NEW j \in 1 .. n + 1, i < j
          PROVE  d[i] <= d[j]
      <4>1. i \in 1 .. n
        BY <1>4, <3>1
      <4>2. CASE j = n + 1
        BY <1>6, <2>1, <4>1, <4>2
      <4>3. CASE j \in 1 .. n
        BY <1>4, <2>1, <3>1, <4>1, <4>3 DEF Ascends, n
      <4>4. QED
        BY <2>2, <4>2, <4>3
    <3>2. QED
      BY <2>1, <3>1 DEF Ascends
  <2>7. Len(d) \in Nat \ {0} /\ d[1] = 0
    BY <1>4, <2>1, <2>3
  <2>8. QED
    BY <1>2, <2>4, <2>5, <2>6, <2>7 DEF Timed, D
<1>10. QED
  BY <1>8, <1>9 DEF Kinds, c, D, C

LEMMA TimedBegin ==
  ASSUME NEW opts \in CutOptions, ~opts.start_bof
  PROVE  Timed(ScanBegin(opts), {}, 0)
<1> DEFINE s == ScanBegin(opts)
<1>1. s \in ScanStates
  BY ScanBeginType
<1>2. s.chapters = <<0>> /\ s.lastchapter = -2
  BY DEF ScanBegin
<1> HIDE DEF s
<1>3. /\ Len(s.chapters) = 1 /\ s.chapters[1] = 0
      /\ \A i \in 1 .. Len(s.chapters) : i = 1
  BY <1>2
<1>4. Ascends(s.chapters)
  BY <1>3 DEF Ascends
<1>5. OfMarkers(s.chapters, Reach(s), {}) /\ ForMarkers(s.chapters, Reach(s), {})
  BY <1>3 DEF OfMarkers, ForMarkers
<1>6. QED
  BY <1>1, <1>2, <1>3, <1>4, <1>5 DEF Timed, s

(* What the items do to the pictures in reach.                             *)
LEMMA ReachClosed ==
  ASSUME NEW s, NEW q \in Pics, GoodRanges(s, q), s.start = NoStart
  PROVE  /\ Reach(s) = CoveredBy(s.ranges) /\ q \notin Reach(s)
         /\ s.out = Before(Reach(s), q)
<1>1. q \in Nat
  BY CutTableAssumption DEF Pics
<1>2. GoodStart(s, q)
  BY DEF GoodStart
<1>3. \A x \in CoveredBy(s.ranges) : x \in Nat /\ x < q
  BY <1>1, <1>2, ReachFacts
<1>4. Reach(s) = CoveredBy(s.ranges)
  BY DEF Reach
<1>5. q \notin CoveredBy(s.ranges)
  BY <1>1, <1>3
<1>6. CoveredBy(s.ranges) \subseteq Pics
  BY DEF CoveredBy
<1>7. Before(CoveredBy(s.ranges), q) = Cardinality(CoveredBy(s.ranges))
  BY <1>3, <1>6, BeforeEnd
<1>8. QED
  BY <1>4, <1>5, <1>7 DEF GoodRanges

LEMMA ReachOpen ==
  ASSUME NEW s, NEW q \in Pics, GoodRanges(s, q), GoodStart(s, q), s.start # NoStart
  PROVE  /\ s.start \in Nat /\ s.start <= q
         /\ \A x \in Pics : x \in Reach(s) <=>
              x \in CoveredBy(s.ranges) \/ s.start <= x
         /\ \A x \in Pics : x < s.start =>
              (x \in Reach(s) <=> x \in CoveredBy(s.ranges))
         /\ s.out = Before(Reach(s), s.start)
         /\ q - s.start + s.out = Before(Reach(s), q)
<1>1. q \in Nat /\ \A x \in Pics : x \in Nat /\ x <= Pictures - 1
  BY CutTableAssumption DEF Pics
<1>2. s.start \in Nat /\ s.start <= q
  BY <1>1 DEF GoodStart
<1>3. /\ Reach(s) \subseteq Pics /\ CoveredBy(s.ranges) \subseteq Pics
      /\ \A x \in CoveredBy(s.ranges) : x < s.start
  BY <1>1, ReachFacts
<1>4. \A x \in Pics : x \in Reach(s) <=>
        x \in CoveredBy(s.ranges) \/ s.start <= x
  BY <1>1, <1>2, CutTableAssumption DEF Reach
<1>5. \A x \in Pics : x < s.start =>
        (x \in Reach(s) <=> x \in CoveredBy(s.ranges))
  BY <1>1, <1>2, <1>4
<1>6. s.out = Before(Reach(s), s.start)
  <2>1. {x \in Reach(s) : x < s.start} = CoveredBy(s.ranges)
    BY <1>3, <1>4, <1>5
  <2>2. QED
    BY <2>1 DEF Before, GoodRanges
<1>7. Before(Reach(s), q) = Before(Reach(s), s.start) + q - s.start
  <2>1. \A x \in s.start .. q - 1 : x \in Pics
    BY <1>1, <1>2, CutTableAssumption DEF Pics
  <2>2. \A x \in s.start .. q - 1 : x \in Reach(s)
    BY <1>4, <2>1
  <2>3. QED
    BY <1>1, <1>2, <1>3, <2>2, BeforeRange
<1>8. Before(Reach(s), s.start) \in 0 .. Pictures
  BY <1>3, BeforeFacts
<1>9. q - s.start + s.out = Before(Reach(s), q)
  <2>1. PICK b \in 0 .. Pictures : b = Before(Reach(s), s.start)
    BY <1>8
  <2>2. PICK a \in Nat : a = s.start
    BY <1>2
  <2>3. q - a + b = b + q - a
    BY <1>1
  <2>4. QED
    BY <1>6, <1>7, <2>1, <2>2, <2>3
<1>10. QED
  BY <1>2, <1>4, <1>5, <1>6, <1>9

LEMMA TimedStep ==
  ASSUME NEW l, NEW C, NEW opts \in CutOptions, ~opts.start_bof, NEW item \in Items,
         NEW s, Good(l, C, opts, s, item.pic),
         NEW t, t = ScanItem(opts, s, item), GoodRanges(t, item.pic), GoodStart(t, item.pic),
         NEW T, NEW p \in Nat, p <= item.pic, Timed(s, T, p)
  PROVE  Timed(t, IF item.type = "chapter" THEN T \cup {item.pic} ELSE T, item.pic)
<1> DEFINE q == item.pic
           U == IF item.type = "chapter" THEN T \cup {q} ELSE T
<1>1. /\ item.type \in EventTypes /\ q \in Pics /\ q \in Nat /\ q # -2
      /\ \A x \in Pics : x \in Nat /\ x # -2
  BY CutTableAssumption DEF Items, Pics
<1>2. /\ s \in ScanStates /\ s.chapters \in Seq(0 .. 2 * Pictures)
      /\ GoodRanges(s, q) /\ GoodStart(s, q)
  BY DEF Good
<1>3. t \in ScanStates
  BY <1>2, ScanItemType
<1>4. /\ s = [start |-> s.start, realzero |-> s.realzero, out |-> s.out,
              lastchapter |-> s.lastchapter, ranges |-> s.ranges,
              chapters |-> s.chapters]
      /\ s.lastchapter \in Int
  BY <1>2 DEF ScanStates
<1>5. Reach(s) \subseteq Pics /\ Reach(t) \subseteq Pics
  BY <1>1, <1>2, ReachFacts
<1>6. /\ T \subseteq Pics /\ \A x \in T : x <= s.lastchapter /\ x <= p
      /\ s.lastchapter = -2 \/ s.lastchapter \in T
  BY DEF Timed
<1>7. s.lastchapter <= q
  BY <1>1, <1>4, <1>6
<1>8. q \in T <=> s.lastchapter = q
  <2>1. q \in T => q <= s.lastchapter
    BY <1>6
  <2>2. QED
    BY <1>1, <1>4, <1>6, <1>7, <2>1
<1> HIDE DEF U
<1>9. CASE item.type \in {"start", "stop", "bookmark"} /\ t = s
  <2>1. U = T
    BY <1>9 DEF U
  <2>2. SameRanges(Reach(s), Reach(t), q) /\ Kinds(s, t, T, U, q)
    BY <1>9, <2>1 DEF SameRanges, Kinds
  <2>3. Timed(t, U, q)
    BY <1>1, <1>3, <1>5, <1>6, <1>9, <2>1, <2>2, TimedGrows
  <2>4. QED
    BY <2>3 DEF U
<1>10. CASE item.type = "start" /\ s.start = NoStart
  <2> DEFINE c == IF s.lastchapter = q THEN Append(s.chapters, s.out) ELSE s.chapters
             z == s.realzero \/ q = 0
  <2>1. t = [s EXCEPT !.start = q, !.realzero = z, !.chapters = c]
    BY <1>10 DEF ScanItem, ScanStart
  <2> HIDE DEF c, z
  <2>2. /\ t.start = q /\ t.ranges = s.ranges /\ t.chapters = c
        /\ t.lastchapter = s.lastchapter
    BY <1>4, <2>1
  <2>3. U = T
    BY <1>10 DEF U
  <2>4. /\ Reach(s) = CoveredBy(s.ranges) /\ q \notin Reach(s)
        /\ s.out = Before(Reach(s), q)
    BY <1>1, <1>2, <1>10, ReachClosed
  <2>5. \A x \in Pics : x \in Reach(t) <=> x \in Reach(s) \/ q <= x
    <3>1. q # NoStart
      BY <1>1 DEF NoStart
    <3>2. \A x \in Pics : x \in Reach(t) <=>
            x \in CoveredBy(t.ranges) \/ t.start <= x
      BY <1>1, <2>2, <3>1, ReachOpen
    <3>3. QED
      BY <2>2, <2>4, <3>2
  <2>6. SameRanges(Reach(s), Reach(t), q)
    <3>1. \A x \in Nat : x < q => x \in Pics
      BY <1>1, CutTableAssumption DEF Pics
    <3>2. \A x \in Nat : x < q => ~(q <= x)
      BY <1>1
    <3>3. QED
      BY <2>5, <3>1, <3>2 DEF SameRanges
  <2>7. s.out = Before(Reach(t), q)
    BY <1>1, <1>5, <2>4, <2>6, BeforeAgrees
  <2>8. \A x \in T \cap Reach(t) : x \in Reach(s) \/ x = q
    <3>1. \A x \in T : x <= q
      BY <1>1, <1>6
    <3>2. \A x \in T : q <= x => x = q
      BY <1>1, <1>6, <3>1
    <3>3. QED
      BY <1>6, <2>5, <3>2
  <2>9. Kinds(s, t, T, U, q)
    <3>1. CASE s.lastchapter = q
      BY <1>8, <2>2, <2>3, <2>7, <2>8, <3>1 DEF Kinds, c
    <3>2. CASE s.lastchapter # q
      BY <1>8, <2>2, <2>3, <2>8, <3>2 DEF Kinds, c
    <3>3. QED
      BY <3>1, <3>2
  <2>10. Timed(t, U, q)
    BY <1>1, <1>3, <1>5, <1>6, <2>2, <2>3, <2>6, <2>9, TimedGrows
  <2>11. QED
    BY <2>10 DEF U
<1>11. CASE item.type = "stop" /\ s.start # NoStart
  <2>1. t = CloseRange(s, q)
    BY <1>11 DEF ScanItem
  <2>2. /\ CoveredBy(t.ranges) = CoveredBy(s.ranges) \cup (s.start .. q - 1)
        /\ t.start = NoStart /\ t.chapters = s.chapters
    BY <1>1, <1>2, <1>11, <2>1, CloseRangeGood
  <2>3. t.lastchapter = s.lastchapter
    <3> DEFINE a == s.out + q - s.start
               b == Append(s.ranges, [start |-> s.start, stop |-> q,
                                      out |-> s.out + q - s.start])
    <3>1. t = [s EXCEPT !.start = NoStart, !.out = a, !.ranges = b]
      BY <2>1 DEF CloseRange
    <3> HIDE DEF a, b
    <3>2. QED
      BY <1>4, <3>1
  <2>4. U = T
    BY <1>11 DEF U
  <2>5. /\ s.start \in Nat /\ s.start <= q
        /\ \A x \in Pics : x \in Reach(s) <=>
             x \in CoveredBy(s.ranges) \/ s.start <= x
    BY <1>1, <1>2, <1>11, ReachOpen
  <2>6. Reach(t) = CoveredBy(t.ranges)
    BY <1>1, <2>2, ReachClosed
  <2>7. \A x \in Reach(t) : x \in Reach(s)
    <3>1. \A x \in s.start .. q - 1 : s.start <= x
      BY <1>1, <2>5
    <3>2. QED
      BY <1>5, <2>2, <2>5, <2>6, <3>1
  <2>8. SameRanges(Reach(s), Reach(t), q)
    <3>1. \A x \in Nat : x < q => x \in Pics
      BY <1>1, CutTableAssumption DEF Pics
    <3>2. \A x \in Nat : x < q => (s.start <= x <=> x \in s.start .. q - 1)
      BY <1>1, <2>5
    <3>3. QED
      BY <2>2, <2>5, <2>6, <3>1, <3>2 DEF SameRanges
  <2>9. Kinds(s, t, T, U, q)
    BY <2>2, <2>4, <2>7 DEF Kinds
  <2>10. Timed(t, U, q)
    BY <1>1, <1>3, <1>5, <1>6, <2>3, <2>4, <2>8, <2>9, TimedGrows
  <2>11. QED
    BY <2>10 DEF U
<1>12. CASE item.type = "chapter"
  <2> DEFINE c == IF s.start # NoStart THEN Append(s.chapters, q - s.start + s.out)
                                       ELSE s.chapters
  <2>1. t = [s EXCEPT !.lastchapter = q, !.chapters = c]
    BY <1>12 DEF ScanItem, ScanChapter
  <2> HIDE DEF c
  <2>2. /\ t.start = s.start /\ t.ranges = s.ranges /\ t.chapters = c
        /\ t.lastchapter = q
    BY <1>4, <2>1
  <2>3. U = T \cup {q}
    BY <1>12 DEF U
  <2>4. Reach(t) = Reach(s)
    BY <2>2 DEF Reach
  <2>5. SameRanges(Reach(s), Reach(t), q)
    BY <2>4 DEF SameRanges
  <2>6. Kinds(s, t, T, U, q)
    <3>1. CASE s.start # NoStart
      <4>1. q - s.start + s.out = Before(Reach(s), q)
        BY <1>1, <1>2, <3>1, ReachOpen
      <4>2. QED
        BY <2>2, <2>3, <2>4, <3>1, <4>1 DEF Kinds, c
    <3>2. CASE ~(s.start # NoStart)
      <4>1. q \notin Reach(s)
        BY <1>1, <1>2, <3>2, ReachClosed
      <4>2. QED
        BY <2>2, <2>3, <2>4, <3>2, <4>1 DEF Kinds, c
    <3>3. QED
      BY <3>1, <3>2
  <2>7. \A x \in U : x <= t.lastchapter
    <3>1. \A x \in T : x <= q
      BY <1>1, <1>6
    <3>2. QED
      BY <1>1, <2>2, <2>3, <3>1
  <2>8. t.lastchapter \in U
    BY <2>2, <2>3
  <2>9. Timed(t, U, q)
    BY <1>1, <1>3, <1>5, <2>3, <2>5, <2>6, <2>7, <2>8, TimedGrows
  <2>10. QED
    BY <2>9 DEF U
<1>13. CASE item.type = "start" /\ s.start # NoStart
  <2>1. t = s
    BY <1>13 DEF ScanItem, ScanStart
  <2>2. QED
    BY <1>9, <1>13, <2>1
<1>14. CASE item.type = "stop" /\ s.start = NoStart
  <2>1. t = s
    BY <1>14 DEF ScanItem
  <2>2. QED
    BY <1>9, <1>14, <2>1
<1>15. CASE item.type = "bookmark"
  <2>1. t = s
    BY <1>15 DEF ScanItem
  <2>2. QED
    BY <1>9, <1>15, <2>1
<1>16. QED
  BY <1>1, <1>10, <1>11, <1>12, <1>13, <1>14, <1>15 DEF EventTypes

(* The pictures of the chapter markers among the first items of a list.    *)
ChaptersTo(l, i) == {l[k].pic : k \in {j \in 1 .. i : l[j].type = "chapter"}}

LEMMA ScanTimed ==
  ASSUME NEW l \in Seq(Items), Ordered(l), NEW opts \in CutOptions, ~opts.start_bof,
         NEW f, ScanBy(f, l, opts)
  PROVE  \A i \in 0 .. Len(l) : Timed(f[i], ChaptersTo(l, i), Pos(l, i))
<1> DEFINE n == Len(l)
<1>1. /\ n \in Nat /\ DOMAIN l = 1 .. n
      /\ \A i \in 1 .. n : l[i] \in Items /\ l[i].pic \in Nat
  BY ItemList
<1>2. /\ f[0] = ScanBegin(opts)
      /\ \A i \in 1 .. n : f[i] = ScanItem(opts, f[i - 1], l[i])
  BY DEF ScanBy
<1>3. \A i \in 0 .. n : Good(l, CutsTo(l, i), opts, f[i], Pos(l, i))
  BY ScanGood
<1> DEFINE P == {i \in Nat : i <= n => Timed(f[i], ChaptersTo(l, i), Pos(l, i))}
<1>4. 0 \in P
  <2>1. ChaptersTo(l, 0) = {} /\ Pos(l, 0) = 0
    <3>1. 1 .. 0 = {}
      OBVIOUS
    <3>2. QED
      BY <3>1 DEF ChaptersTo, Pos
  <2>2. Timed(ScanBegin(opts), {}, 0)
    BY TimedBegin
  <2>3. QED
    BY <1>2, <2>1, <2>2
<1>5. ASSUME NEW i \in P
      PROVE  i + 1 \in P
  <2>1. CASE i + 1 <= n
    <3> DEFINE k == i + 1
               p == Pos(l, i)
               q == l[k].pic
               T == ChaptersTo(l, i)
    <3>1. i \in Nat /\ k \in 1 .. n /\ i \in 0 .. n /\ k \in 0 .. n /\ k # 0 /\ k - 1 = i
      BY <1>1, <2>1
    <3>2. Timed(f[i], T, p)
      BY <3>1
    <3>3. Good(l, CutsTo(l, i), opts, f[i], p) /\ Good(l, CutsTo(l, k), opts, f[k], Pos(l, k))
      BY <1>3, <3>1
    <3>4. Pos(l, k) = q /\ q \in Nat /\ l[k] \in Items
      BY <1>1, <3>1 DEF Pos
    <3>5. p \in Nat /\ p <= q
      <4>1. CASE i = 0
        BY <3>4, <4>1 DEF Pos
      <4>2. CASE i # 0
        <5>1. i \in 1 .. n /\ i < k
          BY <3>1, <4>2
        <5>2. l[i].pic \in Nat /\ l[i].pic <= l[k].pic
          BY <1>1, <3>1, <5>1 DEF Ordered
        <5>3. QED
          BY <4>2, <5>2 DEF Pos
      <4>3. QED
        BY <4>1, <4>2
    <3>6. ChaptersTo(l, k) = IF l[k].type = "chapter" THEN T \cup {q} ELSE T
      <4>1. \A j : j \in 1 .. k <=> j \in 1 .. i \/ j = k
        BY <3>1
      <4> HIDE DEF k
      <4>2. QED
        BY <4>1 DEF ChaptersTo
    <3>7. f[k] = ScanItem(opts, f[i], l[k])
      BY <1>2, <3>1
    <3> HIDE DEF k, p, q, T
    <3>8. Good(l, CutsTo(l, i), opts, f[i], q)
      BY <3>3, <3>4, <3>5, GoodLater
    <3>9. GoodRanges(f[k], q) /\ GoodStart(f[k], q)
      BY <3>3, <3>4 DEF Good
    <3>10. Timed(f[k], IF l[k].type = "chapter" THEN T \cup {q} ELSE T, q)
      BY <3>2, <3>4, <3>5, <3>7, <3>8, <3>9, TimedStep DEF q
    <3>11. Timed(f[k], ChaptersTo(l, k), Pos(l, k))
      BY <3>4, <3>6, <3>10
    <3>12. QED
      BY <3>1, <3>11 DEF k
  <2>2. CASE ~(i + 1 <= n)
    BY <2>2
  <2>3. QED
    BY <2>1, <2>2
<1>6. P = Nat
  <2> HIDE DEF P
  <2>1. P \subseteq Nat
    BY DEF P
  <2>2. QED
    BY <1>4, <1>5, <2>1, Induction
<1>7. QED
  BY <1>1, <1>6

(* No range would be closed by a STOP at the end of the file.              *)
NoStarts(eof) == [start_bof |-> FALSE, stop_eof |-> eof]

NothingOpen(l) ==
  \A x \in Pics : Selected(l, NoStarts(TRUE), x) => Selected(l, NoStarts(FALSE), x)

(* A list of chapters for the pictures that are exported, C, and those     *)
(* with a marker, T.                                                       *)
ChaptersFor(c, C, T) ==
  /\ c \in Seq(Int) /\ Len(c) \in Nat \ {0} /\ c[1] = 0 /\ Ascends(c)
  /\ OfMarkers(c, C, T) /\ ForMarkers(c, C, T)

Marked(l) == {l[i].pic : i \in {k \in DOMAIN l : l[k].type = "chapter"}}

LEMMA ScanChapters ==
  ASSUME NEW l \in Seq(Items), Ordered(l), NEW opts \in CutOptions, ~opts.start_bof,
         opts.stop_eof \/ NothingOpen(l)
  PROVE  ChaptersFor(Scan(l, opts).chapters, CoveredBy(Scan(l, opts).ranges), Marked(l))
<1> DEFINE n == Len(l)
           s == Scanned(l, opts)
           t == Scan(l, opts)
           q == Pos(l, n)
           C == CutsTo(l, n)
           T == ChaptersTo(l, n)
           last == Pictures - 1
<1>1. n \in Nat /\ DOMAIN l = 1 .. n /\ n \in 0 .. n
  BY ItemList
<1>2. PICK f : ScanBy(f, l, opts)
  BY ScannedFacts
<1>3. s = f[n]
  BY <1>2 DEF ScanBy
<1>4. Good(l, C, opts, s, q) /\ Timed(s, T, q)
  BY <1>1, <1>2, <1>3, ScanGood, ScanTimed
<1>5. T = Marked(l)
  BY <1>1 DEF ChaptersTo, Marked
<1>6. C = CutsOf(l)
  BY <1>1 DEF CutsTo, CutsOf
<1>7. t = IF opts.stop_eof /\ s.start # NoStart THEN CloseRange(s, last) ELSE s
  BY DEF Scan
<1>8. /\ last \in Pics /\ last \in Nat /\ \A x \in Pics : x \in Nat /\ x <= last
      /\ \A x \in Nat : x <= last => x \in Pics
  BY CutTableAssumption DEF Pics
<1>9. q \in Nat /\ q <= last
  <2>1. n = 0 => q = 0
    BY DEF Pos
  <2>2. n # 0 => n \in 1 .. n /\ q = l[n].pic
    BY <1>1 DEF Pos
  <2>3. n # 0 => q \in Pics
    BY <2>2, ItemList
  <2>4. QED
    BY <1>8, <2>1, <2>3
<1> HIDE DEF s, t, q, C, T, last
<1>10. s \in ScanStates /\ GoodRanges(s, q) /\ GoodStart(s, q)
  BY <1>4 DEF Good
<1>11. Reach(s) \subseteq Pics
  BY <1>9, <1>10, ReachFacts
<1>12. CoveredBy(t.ranges) \subseteq Pics
  BY DEF CoveredBy
<1>13. /\ t.chapters = s.chapters /\ CoveredBy(t.ranges) \subseteq Reach(s)
       /\ SameRanges(Reach(s), CoveredBy(t.ranges), last)
  <2>1. CASE s.start = NoStart
    <3>1. t = s /\ Reach(s) = CoveredBy(s.ranges)
      BY <1>7, <2>1 DEF Reach
    <3>2. QED
      BY <3>1 DEF SameRanges
  <2>2. CASE s.start # NoStart /\ opts.stop_eof
    <3>1. t = CloseRange(s, last)
      BY <1>7, <2>2
    <3>2. /\ CoveredBy(t.ranges) = CoveredBy(s.ranges) \cup (s.start .. last - 1)
          /\ t.chapters = s.chapters
      BY <1>8, <1>9, <1>10, <2>2, <3>1, CloseRangeGood
    <3>3. Reach(s) = CoveredBy(s.ranges) \cup (s.start .. last)
      BY <2>2 DEF Reach, last
    <3>4. s.start \in Nat
      BY <1>8, <1>10, <2>2 DEF GoodStart
    <3>5. \A x \in s.start .. last - 1 : x \in s.start .. last
      BY <1>8, <3>4
    <3>6. \A x \in Nat : x < last => (x \in s.start .. last - 1 <=> x \in s.start .. last)
      BY <1>8, <3>4
    <3>7. QED
      BY <3>2, <3>3, <3>5, <3>6 DEF SameRanges
  <2>3. CASE s.start # NoStart /\ ~opts.stop_eof
    <3> DEFINE x == s.start
    <3>1. x \in Pics /\ x \in Nat /\ x <= last
      BY <1>8, <1>10, <2>3 DEF GoodStart
    <3>2. ~StopAhead(l, C, x) /\ On(l, C, opts, x)
      BY <1>4, <2>3, <3>1 DEF Good, NoStopBehind, Open
    <3>3. ~(x < last)
      <4>1. \A eof : NoStarts(eof).start_bof = FALSE /\ NoStarts(eof).stop_eof = eof
        BY DEF NoStarts
      <4>2. On(l, C, NoStarts(TRUE), x)
        BY <3>2, <4>1 DEF On
      <4>3. ~Selected(l, NoStarts(FALSE), x)
        BY <1>6, <3>2, <4>1 DEF Selected
      <4>4. NothingOpen(l)
        BY <2>3
      <4>5. ~Selected(l, NoStarts(TRUE), x)
        BY <3>1, <4>3, <4>4 DEF NothingOpen
      <4>6. QED
        BY <1>6, <4>1, <4>2, <4>5 DEF Selected, last
    <3>4. x = last
      BY <1>8, <3>1, <3>3
    <3>5. t = s
      BY <1>7, <2>3
    <3>6. Reach(s) = CoveredBy(s.ranges) \cup (last .. last)
      BY <2>3, <3>4 DEF Reach, last
    <3>7. \A y \in Nat : y < last => y \notin last .. last
      BY <1>8
    <3>8. QED
      BY <3>5, <3>6, <3>7 DEF SameRanges
  <2>4. QED
    BY <2>1, <2>2, <2>3
<1> DEFINE c == s.chapters
           D == CoveredBy(t.ranges)
<1>14. /\ c \in Seq(Int) /\ Len(c) \in Nat \ {0} /\ c[1] = 0 /\ Ascends(c)
       /\ OfMarkers(c, Reach(s), T) /\ ForMarkers(c, Reach(s), T) /\ T \subseteq Pics
  BY <1>4, <1>10 DEF Timed, ScanStates
<1>15. \A x \in T : Before(Reach(s), x) = Before(D, x)
  BY <1>8, <1>11, <1>12, <1>13, <1>14, BeforeAgrees
<1>16. OfMarkers(c, D, T)
  BY <1>14, <1>15 DEF OfMarkers
<1>17. ForMarkers(c, D, T)
  BY <1>13, <1>14, <1>15 DEF ForMarkers
<1>18. ChaptersFor(c, D, T)
  BY <1>14, <1>16, <1>17 DEF ChaptersFor
<1>19. QED
  BY <1>5, <1>13, <1>18 DEF t

-----------------------------------------------------------------------------
(* What is printed: the same times, and none of them twice.                *)
PrintOne(acc, t) == IF acc # << >> /\ acc[Len(acc)] = t THEN acc ELSE Append(acc, t)

Rising(c) == \A i, j \in 1 .. Len(c) : i < j => c[i] < c[j]

Printed(acc, c, k) ==
  /\ acc \in Seq(Int) /\ Rising(acc)
  /\ \A j \in 1 .. Len(acc) : \E i \in 1 .. k : acc[j] = c[i]
  /\ \A i \in 1 .. k : \E j \in 1 .. Len(acc) : acc[j] = c[i]
  /\ k # 0 => acc # << >> /\ acc[Len(acc)] = c[k]

LEMMA PrintedOne ==
  ASSUME NEW c \in Seq(Int), Ascends(c), NEW k \in Nat, k + 1 <= Len(c),
         NEW acc, Printed(acc, c, k)
  PROVE  Printed(PrintOne(acc, c[k + 1]), c, k + 1)
<1> DEFINE m == k + 1
           x == c[m]
           n == Len(acc)
           new == PrintOne(acc, x)
<1>1. /\ Len(c) \in Nat /\ m \in 1 .. Len(c) /\ m \in 1 .. m /\ m # 0
      /\ \A i : i \in 1 .. m <=> i \in 1 .. k \/ i = m
  BY LenProperties
<1>2. \A i \in 1 .. Len(c) : c[i] \in Int
  BY ElementOfSeq
<1>3. acc \in Seq(Int) /\ n \in Nat /\ \A j \in 1 .. n : acc[j] \in Int
  <2>1. acc \in Seq(Int)
    BY DEF Printed
  <2>2. QED
    BY <2>1, ElementOfSeq, LenProperties
<1>4. /\ Rising(acc)
      /\ \A j \in 1 .. n : \E i \in 1 .. k : acc[j] = c[i]
      /\ \A i \in 1 .. k : \E j \in 1 .. n : acc[j] = c[i]
      /\ k # 0 => acc # << >> /\ acc[n] = c[k]
  BY DEF Printed
<1>5. acc = << >> <=> n = 0
  BY <1>3, EmptySeq
<1>6. k # 0 => n \in 1 .. n /\ k \in 1 .. Len(c) /\ c[k] <= x
  <2>1. k # 0 => n # 0 /\ k \in 1 .. Len(c) /\ k < m
    BY <1>1, <1>4, <1>5
  <2>2. k # 0 => c[k] <= x
    BY <1>1, <2>1 DEF Ascends
  <2>3. QED
    BY <1>3, <2>1, <2>2
<1>7. k = 0 => n = 0
  <2>1. k = 0 => 1 .. k = {}
    OBVIOUS
  <2>2. k = 0 => 1 .. n = {}
    BY <1>4, <2>1
  <2>3. n # 0 => 1 \in 1 .. n
    BY <1>3
  <2>4. QED
    BY <2>2, <2>3
<1> HIDE DEF m, x, n
<1>8. CASE acc # << >> /\ acc[n] = x
  <2>1. new = acc
    BY <1>8 DEF PrintOne, n
  <2>2. n \in 1 .. n /\ k # 0
    BY <1>5, <1>6, <1>7, <1>8
  <2>3. \A j \in 1 .. n : \E i \in 1 .. m : acc[j] = c[i]
    BY <1>1, <1>4
  <2>4. \A i \in 1 .. m : \E j \in 1 .. n : acc[j] = c[i]
    BY <1>1, <1>4, <1>8, <2>2 DEF x
  <2>5. Printed(acc, c, m)
    BY <1>3, <1>4, <1>8, <2>3, <2>4 DEF Printed, n, x
  <2>6. QED
    BY <2>1, <2>5 DEF m, x
<1>9. CASE ~(acc # << >> /\ acc[n] = x)
  <2>1. new = Append(acc, x)
    BY <1>9 DEF PrintOne, n
  <2>2. x \in Int
    BY <1>1, <1>2 DEF x
  <2>3. /\ new \in Seq(Int) /\ Len(new) = n + 1 /\ new[n + 1] = x
        /\ \A j \in 1 .. n : new[j] = acc[j]
    BY <1>3, <2>1, <2>2, AppendProperties DEF n
  <2>4. /\ n + 1 \in 1 .. n + 1 /\ \A j \in 1 .. n : j \in 1 .. n + 1
        /\ \A j \in 1 .. n + 1 : j \in 1 .. n \/ j = n + 1
    BY <1>3
  <2>5. \A j \in 1 .. n : acc[j] < x
    <3>1. ASSUME NEW j \in 1 .. n
          PROVE  acc[j] < x
      <4>1. n # 0 /\ k # 0 /\ j <= n
        BY <1>3, <1>7
      <4>2. acc[n] = c[k] /\ n \in 1 .. n /\ acc[n] \in Int /\ acc[n] # x
        BY <1>3, <1>4, <1>6, <1>9, <4>1
      <4>3. acc[n] < x
        BY <1>6, <2>2, <4>1, <4>2
      <4>4. acc[j] <= acc[n]
        <5>1. CASE j = n
          BY <1>3, <5>1
        <5>2. CASE j < n
          <6>1. acc[j] < acc[n]
            BY <1>4, <4>2, <5>2 DEF Rising, n
          <6>2. QED
            BY <1>3, <4>2, <6>1
        <5>3. QED
          BY <1>3, <4>1, <5>1, <5>2
      <4>5. QED
        BY <1>3, <2>2, <4>2, <4>3, <4>4
    <3>2. QED
      BY <3>1
  <2>6. Rising(new)
    <3>1. ASSUME NEW i \in 1 .. n + 1, NEW j \in 1 .. n + 1, i < j
          PROVE  new[i] < new[j]
      <4>1. i \in 1 .. n
        BY <1>3, <3>1
      <4>2. CASE j = n + 1
        BY <2>3, <2>5, <4>1, <4>2
      <4>3. CASE j \in 1 .. n
        <5>1. acc[i] < acc[j]
          BY <1>4, <3>1, <4>1, <4>3 DEF Rising, n
        <5>2. QED
          BY <2>3, <4>1, <4>3, <5>1
      <4>4. QED
        BY <2>4, <4>2, <4>3
    <3>2. QED
      BY <2>3, <3>1 DEF Rising
  <2>7. \A j \in 1 .. n + 1 : \E i \in 1 .. m : new[j] = c[i]
    <3>1. ASSUME NEW j \in 1 .. n + 1
          PROVE  \E i \in 1 .. m : new[j] = c[i]
      <4>1. CASE j = n + 1
        BY <1>1, <2>3, <4>1 DEF x
      <4>2. CASE j \in 1 .. n
        <5>1. PICK i \in 1 .. k : acc[j] = c[i]
          BY <1>4, <4>2
        <5>2. QED
          BY <1>1, <2>3, <4>2, <5>1
      <4>3. QED
        BY <2>4, <4>1, <4>2
    <3>2. QED
      BY <3>1
  <2>8. \A i \in 1 .. m : \E j \in 1 .. n + 1 : new[j] = c[i]
    <3>1. ASSUME NEW i \in 1 .. m
          PROVE  \E j \in 1 .. n + 1 : new[j] = c[i]
      <4>1. CASE i = m
        BY <2>3, <2>4, <4>1 DEF x
      <4>2. CASE i \in 1 .. k
        <5>1. PICK j \in 1 .. n : acc[j] = c[i]
          BY <1>4, <4>2
        <5>2. QED
          BY <2>3, <2>4, <5>1
      <4>3. QED
        BY <1>1, <4>1, <4>2
    <3>2. QED
      BY <3>1
  <2>9. new # << >> /\ new[Len(new)] = c[m]
    <3>1. Len(<< >>) = 0 /\ n + 1 # 0
      BY <1>3
    <3>2. QED
      BY <2>3, <3>1 DEF x
  <2> HIDE DEF new
  <2>10. Printed(new, c, m)
    BY <2>3, <2>6, <2>7, <2>8, <2>9 DEF Printed
  <2>11. QED
    BY <2>10 DEF m, x, new
<1>10. QED
  BY <1>8, <1>9

LEMMA PrintedFacts ==
  ASSUME NEW c \in Seq(Int), Ascends(c)
  PROVE  Printed(PrintedChapters(c), c, Len(c))
<1> DEFINE n == Len(c)
           step == [x \in Seq(Int) \X (1 .. n) |-> PrintOne(x[1], c[x[2]])]
           Rec(f) == [i \in 0 .. n |-> IF i = 0 THEN << >> ELSE PrintOne(f[i - 1], c[i])]
           printed == CHOOSE f : f = Rec(f)
<1>1. n \in Nat /\ \A i \in 1 .. n : c[i] \in Int
  BY ElementOfSeq, LenProperties
<1>2. << >> \in Seq(Int)
  OBVIOUS
<1>3. ASSUME NEW a \in Seq(Int), NEW i \in 1 .. n
      PROVE  step[<<a, i>>] = PrintOne(a, c[i]) /\ step[<<a, i>>] \in Seq(Int)
  <2>1. PrintOne(a, c[i]) \in Seq(Int)
    BY <1>1, AppendProperties DEF PrintOne
  <2>2. step[<<a, i>>] = PrintOne(a, c[i])
    OBVIOUS
  <2>3. QED
    BY <2>1, <2>2
<1> HIDE DEF step
<1>4. Steps(step, Seq(Int), n)
  BY <1>3 DEF Steps
<1>5. Reached(<< >>, step, Seq(Int), n)
  BY <1>1, <1>2, <1>4, Recursion
<1>6. PICK f \in [0 .. n -> Seq(Int)] :
        f[0] = << >> /\ \A i \in 1 .. n : f[i] = step[<<f[i - 1], i>>]
  BY <1>5 DEF Reached
<1>7. ASSUME NEW i \in 1 .. n
      PROVE  f[i] = PrintOne(f[i - 1], c[i])
  <2>1. i - 1 \in 0 .. n
    BY <1>1
  <2>2. f[i - 1] \in Seq(Int)
    BY <2>1
  <2>3. QED
    BY <1>3, <1>6, <2>2
<1>8. f = Rec(f)
  <2>1. ASSUME NEW i \in 0 .. n
        PROVE  f[i] = IF i = 0 THEN << >> ELSE PrintOne(f[i - 1], c[i])
    <3>1. i # 0 => i \in 1 .. n
      BY <1>1
    <3>2. QED
      BY <1>6, <1>7, <3>1
  <2>2. QED
    BY <2>1
<1>9. printed = Rec(printed)
  <2> HIDE DEF Rec
  <2>1. QED
    BY <1>8
<1>10. PrintedChapters(c) = printed[n]
  BY DEF PrintedChapters, PrintOne
<1> HIDE DEF printed
<1>11. \A i \in 0 .. n : printed[i] =
         IF i = 0 THEN << >> ELSE PrintOne(printed[i - 1], c[i])
  BY <1>9
<1> DEFINE P == {k \in Nat : k <= n => Printed(printed[k], c, k)}
<1>12. 0 \in P
  <2>1. printed[0] = << >>
    BY <1>1, <1>11
  <2>2. Len(<< >>) = 0 /\ 1 .. 0 = {} /\ << >> \in Seq(Int)
    OBVIOUS
  <2>3. Printed(<< >>, c, 0)
    BY <2>2 DEF Printed, Rising
  <2>4. QED
    BY <2>1, <2>3
<1>13. ASSUME NEW k \in P
       PROVE  k + 1 \in P
  <2>1. CASE k + 1 <= n
    <3>1. k \in Nat /\ k <= n /\ k + 1 \in 0 .. n /\ k + 1 # 0 /\ (k + 1) - 1 = k
      BY <1>1, <2>1
    <3>2. printed[k + 1] = PrintOne(printed[k], c[k + 1])
      BY <1>11, <3>1
    <3>3. Printed(printed[k], c, k)
      BY <3>1
    <3>4. Printed(printed[k + 1], c, k + 1)
      BY <2>1, <3>1, <3>2, <3>3, PrintedOne
    <3>5. QED
      BY <3>1, <3>4
  <2>2. CASE ~(k + 1 <= n)
    BY <2>2
  <2>3. QED
    BY <2>1, <2>2
<1>14. P = Nat
  <2> HIDE DEF P
  <2>1. P \subseteq Nat
    BY DEF P
  <2>2. QED
    BY <1>12, <1>13, <2>1, Induction
<1>15. QED
  BY <1>1, <1>10, <1>14

(* What a list of chapters for the exported pictures prints.               *)
LEMMA ChaptersPrinted ==
  ASSUME NEW c, NEW C, C \subseteq Pics, NEW T, ChaptersFor(c, C, T)
  PROVE  LET printed == PrintedChapters(c)
         IN  /\ \A i, j \in DOMAIN printed : i < j => printed[i] < printed[j]
             /\ ToSet(printed) \subseteq {0} \cup {Before(C, pic) : pic \in T}
             /\ {Before(C, pic) : pic \in T \cap C} \subseteq ToSet(printed)
<1> DEFINE printed == PrintedChapters(c)
           n == Len(c)
<1>1. /\ c \in Seq(Int) /\ Ascends(c) /\ OfMarkers(c, C, T) /\ ForMarkers(c, C, T)
  BY DEF ChaptersFor
<1>2. Printed(printed, c, n)
  BY <1>1, PrintedFacts
<1> HIDE DEF printed
<1>3. printed \in Seq(Int) /\ DOMAIN printed = 1 .. Len(printed)
  <2>1. printed \in Seq(Int)
    BY <1>2 DEF Printed
  <2>2. QED
    BY <2>1, LenProperties
<1>4. ToSet(printed) = {printed[i] : i \in DOMAIN printed}
  BY DEF ToSet
<1>5. \A i, j \in DOMAIN printed : i < j => printed[i] < printed[j]
  BY <1>2, <1>3 DEF Printed, Rising
<1>6. ASSUME NEW x \in ToSet(printed)
      PROVE  x \in {0} \cup {Before(C, pic) : pic \in T}
  <2>1. PICK j \in 1 .. Len(printed) : x = printed[j]
    BY <1>3, <1>4
  <2>2. PICK i \in 1 .. n : x = c[i]
    BY <1>2, <2>1 DEF Printed
  <2>3. QED
    BY <1>1, <2>2 DEF OfMarkers
<1>7. ASSUME NEW pic \in T \cap C
      PROVE  Before(C, pic) \in ToSet(printed)
  <2>1. PICK i \in 1 .. n : c[i] = Before(C, pic)
    BY <1>1 DEF ForMarkers
  <2>2. PICK j \in 1 .. Len(printed) : printed[j] = c[i]
    BY <1>2 DEF Printed
  <2>3. QED
    BY <1>3, <1>4, <2>1, <2>2
<1>8. QED
  BY <1>5, <1>6, <1>7 DEF printed

-----------------------------------------------------------------------------
(* What is read from a table.                                              *)
FirstAbove(keys, n, x, j) ==
  /\ j \in 1 .. n + 1
  /\ \A i \in 1 .. n : i < j => keys[i] <= x
  /\ j <= n => x < keys[j]

LEMMA UpperBoundFacts ==
  ASSUME NEW keys, NEW n \in Nat, DOMAIN keys = 1 .. n, Len(keys) = n,
         \A i \in 1 .. n : keys[i] \in Int, NEW x \in Int
  PROVE  FirstAbove(keys, n, x, UpperBound(keys, x))
<1> DEFINE above == {j \in DOMAIN keys : x < keys[j]}
           j == UpperBound(keys, x)
<1>1. j = IF above = {} THEN n + 1 ELSE Min(above)
  BY DEF UpperBound
<1>2. \A i \in 1 .. n : i \in above <=> x < keys[i]
  OBVIOUS
<1>3. above \subseteq 1 .. n /\ above \subseteq Nat
  OBVIOUS
<1> HIDE DEF above, j
<1>4. CASE above = {}
  <2>1. j = n + 1 /\ ~(j <= n)
    BY <1>1, <1>4
  <2>2. \A i \in 1 .. n : keys[i] <= x
    BY <1>2, <1>4
  <2>3. QED
    BY <2>1, <2>2 DEF FirstAbove, j
<1>5. CASE above # {}
  <2>1. j = Min(above)
    BY <1>1, <1>5
  <2>2. j \in above /\ \A i \in above : j <= i
    BY <1>3, <1>5, <2>1, LeastIndex
  <2>3. j \in 1 .. n /\ x < keys[j]
    BY <1>2, <1>3, <2>2
  <2>4. ASSUME NEW i \in 1 .. n, i < j
        PROVE  keys[i] <= x
    <3>1. i \notin above
      BY <2>2, <2>3, <2>4
    <3>2. QED
      BY <1>2, <3>1
  <2>5. QED
    BY <2>3, <2>4 DEF FirstAbove, j
<1>6. QED
  BY <1>4, <1>5

TableParts(ranges, n, C) ==
  /\ n \in Nat /\ DOMAIN ranges = 1 .. n /\ Len(ranges) = n
  /\ C = CoveredBy(ranges) /\ C \subseteq Pics
  /\ \A j \in 1 .. n : /\ ranges[j].start \in Pics /\ ranges[j].stop \in Pics
                       /\ ranges[j].start \in Nat /\ ranges[j].stop \in Nat
                       /\ ranges[j].out \in Nat
                       /\ ranges[j].start <= ranges[j].stop
                       /\ ranges[j].out = Before(C, ranges[j].stop)
  /\ \A j, k \in 1 .. n : j < k => ranges[j].stop <= ranges[k].start

LEMMA TableHasParts ==
  ASSUME NEW ranges, IsCutTable(ranges)
  PROVE  TableParts(ranges, Len(ranges), CoveredBy(ranges))
<1>1. ranges \in Seq(Entries) /\ Consecutive(ranges) /\ Counted(ranges)
  BY DEF IsCutTable
<1>2. QED
  BY <1>1, TableFacts DEF Consecutive, Counted, TableParts

(* The pictures between two ranges are not covered.                        *)
LEMMA CoveredOnce ==
  ASSUME NEW ranges, NEW n, NEW C, TableParts(ranges, n, C),
         NEW x \in Pics, NEW j \in 0 .. n,
         \A i \in 1 .. n : i <= j => ranges[i].start <= x,
         \A i \in 1 .. n : j < i => x < ranges[i].start
  PROVE  x \in C <=> j # 0 /\ x < ranges[j].stop
<1>1. x \in Nat
  BY CutTableAssumption DEF Pics
<1>2. x \in C <=> \E i \in 1 .. n : ranges[i].start <= x /\ x < ranges[i].stop
  BY DEF CoveredBy, TableParts
<1>3. ASSUME NEW i \in 1 .. n, ranges[i].start <= x, x < ranges[i].stop
      PROVE  j # 0 /\ i = j
  <2>1. i <= j
    <3>1. ~(x < ranges[i].start)
      BY <1>1, <1>3 DEF TableParts
    <3>2. QED
      BY <3>1 DEF TableParts
  <2>2. ~(i < j)
    <3>1. ASSUME i < j
          PROVE  FALSE
      <4>1. j \in 1 .. n /\ n \in Nat
        BY <3>1 DEF TableParts
      <4>2. ranges[i].stop <= ranges[j].start /\ ranges[j].start <= x
        BY <3>1, <4>1 DEF TableParts
      <4>3. ranges[i].stop \in Nat /\ ranges[j].start \in Nat
        BY <4>1 DEF TableParts
      <4>4. QED
        BY <1>1, <1>3, <4>2, <4>3
    <3>2. QED
      BY <3>1
  <2>3. QED
    BY <2>1, <2>2
<1>4. j # 0 => j \in 1 .. n /\ j <= j
  BY DEF TableParts
<1>5. QED
  BY <1>2, <1>3, <1>4

(* The output picture shown is the number of exported pictures in front.   *)
LEMMA OutPictureCounts ==
  ASSUME NEW ranges, IsCutTable(ranges), NEW x \in Pics
  PROVE  OutPicture(ranges, x) = Before(CoveredBy(ranges), x)
<1> DEFINE n == Len(ranges)
           C == CoveredBy(ranges)
           keys == StartKeys(ranges)
           u == UpperBound(keys, x)
           j == u - 1
<1>1. TableParts(ranges, n, C)
  BY TableHasParts
<1>2. x \in Nat
  BY CutTableAssumption DEF Pics
<1>3. /\ DOMAIN keys = 1 .. n /\ Len(keys) = n
      /\ \A i \in 1 .. n : keys[i] = ranges[i].start /\ keys[i] \in Int
  <2>1. /\ keys = [i \in 1 .. n |-> ranges[i].start] /\ n \in Nat
        /\ \A i \in 1 .. n : ranges[i].start \in Nat
    BY <1>1 DEF StartKeys, TableParts
  <2>2. Len(keys) = n /\ DOMAIN keys = 1 .. n
    <3> HIDE DEF keys, n
    <3>1. keys \in [1 .. n -> Nat]
      BY <2>1
    <3>2. keys \in Seq(Nat)
      BY <2>1, <3>1, FcnIsSeq
    <3>3. DOMAIN keys = 1 .. Len(keys) /\ Len(keys) \in Nat /\ DOMAIN keys = 1 .. n
      BY <3>1, <3>2, LenProperties
    <3>4. QED
      BY <2>1, <3>3
  <2>3. QED
    BY <2>1, <2>2
<1> HIDE DEF keys
<1>4. FirstAbove(keys, n, x, u)
  <2>1. n \in Nat /\ x \in Int
    BY <1>1, <1>2 DEF TableParts
  <2>2. QED
    BY <1>3, <2>1, UpperBoundFacts
<1>5. OutPicture(ranges, x) =
        IF j = 0 THEN 0
        ELSE IF x < ranges[j].stop THEN x - ranges[j].stop + ranges[j].out
        ELSE ranges[j].out
  BY DEF OutPicture, keys
<1> HIDE DEF n, C, u
<1>6. /\ n \in Nat /\ j \in 0 .. n /\ C \subseteq Pics /\ u \in Nat
      /\ j # 0 => j \in 1 .. n
  BY <1>1, <1>4 DEF TableParts, FirstAbove
<1>7. \A i \in 1 .. n : ranges[i].start \in Nat /\ ranges[i].stop \in Nat
  BY <1>1 DEF TableParts
<1>8. ASSUME NEW i \in 1 .. n
      PROVE  i <= j => ranges[i].start <= x
  <2>1. i <= j => i < u
    BY <1>6
  <2>2. QED
    BY <1>3, <1>4, <2>1 DEF FirstAbove
<1>9. ASSUME NEW i \in 1 .. n, j < i
      PROVE  x < ranges[i].start
  <2>1. u <= i /\ u \in 1 .. n
    BY <1>4, <1>6, <1>9 DEF FirstAbove
  <2>2. x < ranges[u].start
    BY <1>3, <1>4, <1>6, <2>1 DEF FirstAbove
  <2>3. u = i \/ u < i
    BY <1>6, <2>1
  <2>4. CASE u < i
    <3>1. ranges[u].stop <= ranges[i].start /\ ranges[u].start <= ranges[u].stop
      BY <1>1, <2>1, <2>4 DEF TableParts
    <3>2. QED
      BY <1>2, <1>7, <2>1, <2>2, <3>1
  <2>5. QED
    BY <2>2, <2>3, <2>4
<1> HIDE DEF j
<1>10. CASE j = 0
  <2>1. \A y \in C : ~(y < x)
    <3>1. ASSUME NEW y \in C, y < x
          PROVE  FALSE
      <4>1. PICK i \in 1 .. n : ranges[i].start <= y
        BY <1>1 DEF TableParts, CoveredBy
      <4>2. y \in Nat /\ x < ranges[i].start
        BY <1>6, <1>9, <1>10, PicsFacts
      <4>3. QED
        BY <1>2, <1>7, <3>1, <4>1, <4>2
    <3>2. QED
      BY <3>1
  <2>2. {y \in C : y < x} = {} /\ Cardinality({}) = 0
    BY <2>1, FS_EmptySet
  <2>3. Before(C, x) = 0
    BY <2>2 DEF Before
  <2>4. QED
    BY <1>5, <1>10, <2>3 DEF C
<1>11. CASE j # 0
  <2> DEFINE start == ranges[j].start
             stop == ranges[j].stop
  <2>1. /\ start \in Nat /\ stop \in Nat /\ start <= x /\ start <= stop
        /\ ranges[j].out = Before(C, stop) /\ Before(C, stop) \in Nat /\ j \in 1 .. n
    <3>1. j \in 1 .. n /\ j <= j
      BY <1>6, <1>11
    <3>2. Before(C, stop) \in 0 .. Pictures
      BY <1>6, BeforeFacts
    <3>3. Before(C, stop) \in Nat
      BY <3>2
    <3>4. ranges[j].out = Before(C, stop) /\ start <= stop /\ start \in Nat /\ stop \in Nat
      BY <1>1, <3>1 DEF TableParts
    <3>5. QED
      BY <1>8, <3>1, <3>3, <3>4
  <2> HIDE DEF start, stop
  <2>2. CASE x < stop
    <3>1. \A y \in x .. stop - 1 : y \in C
      <4>1. ASSUME NEW y \in x .. stop - 1
            PROVE  y \in C
        <5>1. start <= y /\ y < stop /\ y \in Nat
          BY <1>2, <2>1
        <5>2. y \in Pics
          <6>1. stop \in Pics
            BY <1>1, <2>1 DEF TableParts, stop
          <6>2. QED
            BY <5>1, <6>1, CutTableAssumption DEF Pics
        <5>3. QED
          BY <1>1, <2>1, <5>1, <5>2 DEF TableParts, CoveredBy, start, stop
      <4>2. QED
        BY <4>1
    <3>2. x <= stop /\ x \in Nat /\ stop \in Nat
      BY <1>2, <2>1, <2>2
    <3>3. Before(C, stop) = Before(C, x) + stop - x
      BY <1>6, <3>1, <3>2, BeforeRange
    <3>4. Before(C, x) \in 0 .. Pictures
      BY <1>6, BeforeFacts
    <3>5. OutPicture(ranges, x) = x - stop + Before(C, stop)
      BY <1>5, <1>11, <2>1, <2>2 DEF stop
    <3>6. Before(C, x) \in Nat
      BY <3>4
    <3>7. OutPicture(ranges, x) = Before(C, x)
      BY <3>2, <3>3, <3>5, <3>6
    <3>8. QED
      BY <3>7 DEF C
  <2>3. CASE ~(x < stop)
    <3>1. \A y \in C : y < stop \/ x <= y
      <4>1. ASSUME NEW y \in C, ~(y < stop)
            PROVE  x <= y
        <5>1. PICK i \in 1 .. n : ranges[i].start <= y /\ y < ranges[i].stop
          BY <1>1 DEF TableParts, CoveredBy
        <5>2. y \in Nat /\ i \in Nat /\ j \in Nat
          BY <1>6, PicsFacts
        <5>3. i # j
          BY <4>1, <5>1 DEF stop
        <5>4. ~(i < j)
          <6>1. i < j => ranges[i].stop <= start
            BY <1>1, <2>1 DEF TableParts, start
          <6>2. QED
            BY <1>7, <2>1, <4>1, <5>1, <5>2, <6>1
        <5>5. x < ranges[i].start
          BY <1>9, <5>2, <5>3, <5>4
        <5>6. QED
          BY <1>2, <1>7, <5>1, <5>2, <5>5
      <4>2. QED
        BY <4>1
    <3>2. stop <= x /\ x \in Nat /\ stop \in Nat
      BY <1>2, <2>1, <2>3
    <3>3. Before(C, x) = Before(C, stop)
      BY <1>6, <3>1, <3>2, BeforeGap
    <3>4. QED
      BY <1>5, <1>11, <2>1, <2>3, <3>3 DEF C, stop
  <2>4. QED
    BY <2>2, <2>3
<1>12. QED
  BY <1>10, <1>11

LEMMA BeforeNext ==
  ASSUME NEW C, C \subseteq Pics, NEW x \in C, NEW y \in Nat, x < y
  PROVE  Before(C, x) < Before(C, y)
<1>1. x \in Nat /\ x + 1 \in Nat /\ x <= x + 1 /\ x + 1 <= y
  <2>1. x \in Nat
    BY PicsFacts
  <2>2. QED
    BY <2>1
<1>2. \A z \in x .. (x + 1) - 1 : z \in C
  BY <1>1
<1>3. Before(C, x + 1) = Before(C, x) + (x + 1) - x
  BY <1>1, <1>2, BeforeRange
<1>4. Before(C, x + 1) <= Before(C, y)
  BY <1>1, BeforeGrows
<1>5. /\ Before(C, x) \in 0 .. Pictures /\ Before(C, y) \in 0 .. Pictures
      /\ Before(C, x + 1) \in 0 .. Pictures
  BY BeforeFacts
<1>6. QED
  BY <1>1, <1>3, <1>4, <1>5, CutTableAssumption

(* Nothing is exported between one range and the next.                     *)
LEMMA BetweenRanges ==
  ASSUME NEW ranges, NEW n, NEW C, TableParts(ranges, n, C),
         NEW v \in 1 .. n, v + 1 \in 1 .. n
  PROVE  Before(C, ranges[v + 1].start) = ranges[v].out
<1> DEFINE u == v + 1
           start == ranges[u].start
           stop == ranges[v].stop
<1>1. /\ n \in Nat /\ C \subseteq Pics /\ v < u /\ u \in 1 .. n
      /\ \A i : i < v \/ i = v \/ i = u \/ u < i \/ i \notin 1 .. n
  BY DEF TableParts
<1> HIDE DEF u
<1>2. /\ stop <= start /\ stop \in Nat /\ start \in Nat
      /\ ranges[v].out = Before(C, stop)
      /\ ranges[v].start \in Nat /\ ranges[v].start <= stop
      /\ ranges[u].stop \in Nat /\ start <= ranges[u].stop
  BY <1>1 DEF TableParts
<1>3. ASSUME NEW y \in C, ~(y < stop)
      PROVE  start <= y
  <2>1. PICK i \in 1 .. n : ranges[i].start <= y /\ y < ranges[i].stop
    BY DEF TableParts, CoveredBy
  <2>2. y \in Nat /\ ranges[i].start \in Nat /\ ranges[i].stop \in Nat
    BY <1>1, PicsFacts DEF TableParts
  <2>3. ~(i < v)
    <3>1. i < v => ranges[i].stop <= ranges[v].start
      BY DEF TableParts
    <3>2. QED
      BY <1>2, <1>3, <2>1, <2>2, <3>1
  <2>4. u < i => ranges[u].stop <= ranges[i].start
    BY <1>1 DEF TableParts
  <2>5. i = u \/ u < i
    BY <1>1, <1>3, <2>1, <2>3
  <2>6. QED
    BY <1>2, <2>1, <2>2, <2>4, <2>5
<1>4. \A y \in C : y < stop \/ start <= y
  BY <1>3
<1> HIDE DEF start, stop
<1>5. Before(C, start) = Before(C, stop)
  BY <1>1, <1>2, <1>4, BeforeGap
<1>6. QED
  BY <1>2, <1>5 DEF start, u

(* The entry that the go-to field finds for an output picture.             *)
Found(ranges, C, out, u, in) ==
  /\ u \in 1 .. Len(ranges)
  /\ ranges[u].start <= in /\ in < ranges[u].stop
  /\ in \in C /\ in \in Nat /\ Before(C, in) = out
  /\ ranges[u].out - out = ranges[u].stop - in

LEMMA InPictureFound ==
  ASSUME NEW ranges, IsCutTable(ranges), NEW out \in Nat,
         UpperBound(OutKeys(ranges), out) <= Len(ranges)
  PROVE  Found(ranges, CoveredBy(ranges), out, UpperBound(OutKeys(ranges), out),
               InPicture(ranges, out))
<1> DEFINE n == Len(ranges)
           C == CoveredBy(ranges)
           keys == OutKeys(ranges)
           u == UpperBound(keys, out)
           start == ranges[u].start
           stop == ranges[u].stop
           in == InPicture(ranges, out)
<1>1. TableParts(ranges, n, C)
  BY TableHasParts
<1>2. /\ DOMAIN keys = 1 .. n /\ Len(keys) = n
      /\ \A i \in 1 .. n : keys[i] = ranges[i].out /\ keys[i] \in Int
  <2>1. /\ keys = [i \in 1 .. n |-> ranges[i].out] /\ n \in Nat
        /\ \A i \in 1 .. n : ranges[i].out \in Nat
    BY <1>1 DEF OutKeys, TableParts
  <2>2. Len(keys) = n /\ DOMAIN keys = 1 .. n
    <3> HIDE DEF keys, n
    <3>1. keys \in [1 .. n -> Nat]
      BY <2>1
    <3>2. keys \in Seq(Nat)
      BY <2>1, <3>1, FcnIsSeq
    <3>3. DOMAIN keys = 1 .. Len(keys) /\ Len(keys) \in Nat /\ DOMAIN keys = 1 .. n
      BY <3>1, <3>2, LenProperties
    <3>4. QED
      BY <2>1, <3>3
  <2>3. QED
    BY <2>1, <2>2
<1>3. in = out - ranges[u].out + stop
  BY DEF InPicture
<1> HIDE DEF keys, in
<1>4. FirstAbove(keys, n, out, u)
  <2>1. n \in Nat /\ out \in Int
    BY <1>1 DEF TableParts
  <2>2. QED
    BY <1>2, <2>1, UpperBoundFacts
<1>5. n \in Nat /\ u \in 1 .. n /\ C \subseteq Pics
  <2>1. u <= n
    BY DEF keys
  <2> HIDE DEF n, u, C
  <2>2. QED
    BY <1>1, <1>4, <2>1 DEF FirstAbove, TableParts
<1>6. out < ranges[u].out
  BY <1>2, <1>4, <1>5 DEF FirstAbove
<1> HIDE DEF n, C, u
<1>7. /\ start \in Nat /\ stop \in Nat /\ start <= stop
      /\ ranges[u].out = Before(C, stop) /\ start \in Pics /\ stop \in Pics
  BY <1>1, <1>5 DEF TableParts
<1> HIDE DEF start, stop
<1>8. /\ Before(C, stop) \in Nat /\ Before(C, start) \in Nat /\ Before(C, in) \in Nat
  <2>1. /\ Before(C, stop) \in 0 .. Pictures /\ Before(C, start) \in 0 .. Pictures
        /\ Before(C, in) \in 0 .. Pictures
    BY <1>5, BeforeFacts
  <2>2. QED
    BY <2>1
<1>9. ASSUME NEW y \in Pics, start <= y, y < stop
      PROVE  y \in C
  BY <1>1, <1>5, <1>9 DEF TableParts, CoveredBy, start, stop
<1>10. \A y \in Nat : y < stop => y \in Pics
  BY <1>7, CutTableAssumption DEF Pics
<1>11. Before(C, stop) = Before(C, start) + stop - start
  <2>1. \A y \in start .. stop - 1 : y \in C
    <3>1. ASSUME NEW y \in start .. stop - 1
          PROVE  y \in C
      <4>1. y \in Nat /\ start <= y /\ y < stop
        BY <1>7
      <4>2. QED
        BY <1>9, <1>10, <4>1
    <3>2. QED
      BY <3>1
  <2>2. QED
    BY <1>5, <1>7, <2>1, BeforeRange
<1>12. Before(C, start) <= out
  <2>1. CASE u = 1
    <3>1. \A y \in C : ~(y < start)
      <4>1. ASSUME NEW y \in C, y < start
            PROVE  FALSE
        <5>1. PICK i \in 1 .. n : ranges[i].start <= y
          BY <1>1 DEF TableParts, CoveredBy
        <5>2. y \in Nat /\ ranges[i].start \in Nat /\ ranges[i].stop \in Nat
          BY <1>1, <1>5, PicsFacts DEF TableParts
        <5>3. i # u
          BY <1>7, <4>1, <5>1, <5>2 DEF start
        <5>4. u < i
          BY <1>5, <2>1, <5>3
        <5>5. stop <= ranges[i].start
          BY <1>1, <1>5, <5>4 DEF TableParts, stop
        <5>6. QED
          BY <1>7, <4>1, <5>1, <5>2, <5>5
      <4>2. QED
        BY <4>1
    <3>2. {y \in C : y < start} = {} /\ Cardinality({}) = 0
      BY <3>1, FS_EmptySet
    <3>3. Before(C, start) = 0
      BY <3>2 DEF Before
    <3>4. QED
      BY <3>3
  <2>2. CASE u # 1
    <3> DEFINE v == u - 1
    <3>1. v \in 1 .. n /\ v < u
      BY <1>5, <2>2
    <3> HIDE DEF v
    <3>2. /\ ranges[v].stop <= start /\ ranges[v].stop \in Nat
          /\ ranges[v].out = Before(C, ranges[v].stop)
      BY <1>1, <1>5, <3>1 DEF TableParts, start
    <3>3. v + 1 \in 1 .. n /\ v + 1 = u
      BY <1>5, <2>2 DEF v
    <3>4. Before(C, start) = Before(C, ranges[v].stop)
      <4>1. Before(C, ranges[v + 1].start) = ranges[v].out
        BY <1>1, <3>1, <3>3, BetweenRanges
      <4>2. QED
        BY <3>2, <3>3, <4>1 DEF start
    <3>5. ranges[v].out <= out
      BY <1>2, <1>4, <3>1 DEF FirstAbove
    <3>6. QED
      BY <3>2, <3>4, <3>5
  <2>3. QED
    BY <2>1, <2>2
<1>13. start <= in /\ in < stop /\ in \in Nat /\ in = out - Before(C, stop) + stop
  <2>1. PICK a \in Nat : a = Before(C, start)
    BY <1>8
  <2>2. PICK b \in Nat : b = Before(C, stop)
    BY <1>8
  <2>3. in = out - b + stop /\ out < b /\ b = a + stop - start /\ a <= out
    BY <1>3, <1>6, <1>7, <1>11, <1>12, <2>1, <2>2
  <2>4. start \in Nat /\ stop \in Nat
    BY <1>7
  <2>5. start <= in /\ in < stop /\ in \in Nat
    BY <2>3, <2>4
  <2>6. QED
    BY <2>2, <2>3, <2>5
<1>14. in \in C
  BY <1>9, <1>10, <1>13
<1>15. Before(C, in) = out
  <2>1. \A y \in in .. stop - 1 : y \in C
    <3>1. ASSUME NEW y \in in .. stop - 1
          PROVE  y \in C
      <4>1. y \in Nat /\ start <= y /\ y < stop
        BY <1>7, <1>13
      <4>2. QED
        BY <1>9, <1>10, <4>1
    <3>2. QED
      BY <3>1
  <2>2. in <= stop
    BY <1>7, <1>13
  <2>3. Before(C, stop) = Before(C, in) + stop - in
    BY <1>5, <1>7, <1>13, <2>1, <2>2, BeforeRange
  <2>4. PICK a \in Nat : a = Before(C, in)
    BY <1>8
  <2>5. PICK b \in Nat : b = Before(C, stop)
    BY <1>8
  <2>6. b = a + stop - in /\ in = out - b + stop
    BY <1>13, <2>3, <2>4, <2>5
  <2>7. in \in Nat /\ stop \in Nat /\ out \in Nat /\ a \in Nat /\ b \in Nat
    BY <1>7, <1>13
  <2>8. PICK x \in Nat : x = in
    BY <2>7
  <2>9. PICK y \in Nat : y = stop
    BY <2>7
  <2>10. b = a + y - x /\ x = out - b + y
    BY <2>6, <2>8, <2>9
  <2>11. a = out
    BY <2>10
  <2>12. QED
    BY <2>4, <2>11
<1>16. ranges[u].out - out = stop - in
  BY <1>7, <1>8, <1>13
<1>17. Found(ranges, C, out, u, in)
  BY <1>5, <1>13, <1>14, <1>15, <1>16 DEF Found, start, stop, n
<1>18. QED
  BY <1>17 DEF C, u, in, keys

LEMMA KeyAbove ==
  ASSUME NEW ranges, IsCutTable(ranges), NEW out \in Nat, NEW j \in 1 .. Len(ranges),
         out < ranges[j].out
  PROVE  UpperBound(OutKeys(ranges), out) <= Len(ranges)
<1> DEFINE keys == OutKeys(ranges)
           above == {i \in DOMAIN keys : out < keys[i]}
           u == UpperBound(keys, out)
<1>1. /\ Len(ranges) \in Nat /\ DOMAIN ranges = 1 .. Len(ranges)
  BY TableHasParts DEF TableParts
<1>2. DOMAIN keys = 1 .. Len(ranges) /\ keys[j] = ranges[j].out
  BY <1>1 DEF OutKeys
<1>3. u = IF above = {} THEN Len(keys) + 1 ELSE Min(above)
  BY DEF UpperBound
<1> HIDE DEF keys, u
<1>4. j \in above /\ above \subseteq 1 .. Len(ranges) /\ above \subseteq Nat
  BY <1>2
<1> HIDE DEF above
<1>5. u \in above
  <2>1. u = Min(above) /\ above # {}
    BY <1>3, <1>4
  <2>2. QED
    BY <1>4, <2>1, LeastIndex
<1>6. u <= Len(ranges)
  BY <1>1, <1>4, <1>5
<1>7. QED
  BY <1>6 DEF u, keys

(* An exported picture is found again.                                     *)
LEMMA TableGoesBack ==
  ASSUME NEW ranges, IsCutTable(ranges), NEW pic \in CoveredBy(ranges),
         NEW out, out = OutPicture(ranges, pic)
  PROVE  /\ out = Before(CoveredBy(ranges), pic)
         /\ HasInPicture(ranges, out) /\ InPicture(ranges, out) = pic
<1> DEFINE C == CoveredBy(ranges)
           in == InPicture(ranges, out)
<1>1. TableParts(ranges, Len(ranges), C)
  BY TableHasParts
<1>2. C \subseteq Pics /\ pic \in Pics /\ pic \in C
  BY DEF CoveredBy
<1>3. out = Before(C, pic)
  BY <1>2, OutPictureCounts
<1>4. PICK j \in 1 .. Len(ranges) : ranges[j].start <= pic /\ pic < ranges[j].stop
  BY <1>1 DEF CoveredBy, TableParts
<1> HIDE DEF C
<1>5. out \in Nat
  <2>1. Before(C, pic) \in 0 .. Pictures
    BY <1>2, BeforeFacts
  <2>2. QED
    BY <1>3, <2>1
<1>6. out < ranges[j].out
  <2>1. ranges[j].stop \in Nat /\ ranges[j].out = Before(C, ranges[j].stop)
    BY <1>1 DEF TableParts
  <2>2. Before(C, pic) < Before(C, ranges[j].stop)
    BY <1>2, <1>4, <2>1, BeforeNext
  <2>3. QED
    BY <1>3, <2>1, <2>2
<1>7. UpperBound(OutKeys(ranges), out) <= Len(ranges)
  BY <1>5, <1>6, KeyAbove
<1>8. Found(ranges, C, out, UpperBound(OutKeys(ranges), out), in)
  BY <1>5, <1>7, InPictureFound DEF C
<1> HIDE DEF in
<1>9. in \in C /\ in \in Nat /\ Before(C, in) = out
  BY <1>8 DEF Found
<1>10. in = pic
  <2>1. pic \in Nat
    BY <1>2, PicsFacts
  <2>2. ~(in < pic)
    <3>1. in < pic => Before(C, in) < Before(C, pic)
      BY <1>2, <1>9, <2>1, BeforeNext
    <3>2. QED
      BY <1>3, <1>5, <1>9, <3>1
  <2>3. ~(pic < in)
    <3>1. pic < in => Before(C, pic) < Before(C, in)
      BY <1>2, <1>9, BeforeNext
    <3>2. QED
      BY <1>3, <1>5, <1>9, <3>1
  <2>4. QED
    BY <1>9, <2>1, <2>2, <2>3
<1>11. QED
  BY <1>3, <1>7, <1>10 DEF HasInPicture, C, in
-----------------------------------------------------------------------------
(* What holds of the list and of what is kept beside it.                   *)
ListOK == list \in Seq(Items) /\ Ordered(list)

Consistent ==
  /\ IsCutTable(table)
  /\ CoveredBy(table) = {pic \in Pics : Selected(list, options, pic)}
  /\ chapters \in Seq(0 .. 2 * Pictures)

IInv == options \in CutOptions /\ pastend \in BOOLEAN /\ ListOK /\ Consistent

LEMMA Updated ==
  ASSUME options \in CutOptions, UNCHANGED options, ListOK', UpdateTable
  PROVE  Consistent'
<1>1. list' \in Seq(Items) /\ Ordered(list')
  BY DEF ListOK
<1>2. /\ IsCutTable(Scan(list', options).ranges)
      /\ CoveredBy(Scan(list', options).ranges) =
           {pic \in Pics : Selected(list', options, pic)}
      /\ Scan(list', options).chapters \in Seq(0 .. 2 * Pictures)
  BY <1>1, ScanSelects
<1>3. table' = Scan(list', options).ranges /\ chapters' = Scan(list', options).chapters
  BY DEF UpdateTable
<1>4. QED
  BY <1>2, <1>3 DEF Consistent

LEMMA NotUpdated ==
  ASSUME IInv, UNCHANGED <<options, table, chapters>>, SameSelection(list, list')
  PROVE  Consistent'
<1>1. options \in CutOptions /\ Consistent
  BY DEF IInv
<1>2. {pic \in Pics : Selected(list', options, pic)} =
        {pic \in Pics : Selected(list, options, pic)}
  BY <1>1 DEF SameSelection
<1>3. QED
  BY <1>1, <1>2 DEF Consistent

LEMMA MarkersFacts ==
  ASSUME NEW n \in Nat, NEW pics \in [1 .. n -> Pics], NEW type \in EventTypes
  PROVE  /\ Markers(pics, type) \in Seq(Items)
         /\ \A i \in 1 .. Len(Markers(pics, type)) :
              /\ i \in 1 .. n
              /\ Markers(pics, type)[i] = [pic |-> pics[i], type |-> type]
<1> DEFINE m == Markers(pics, type)
<1>1. m = [i \in 1 .. n |-> [pic |-> pics[i], type |-> type]]
  BY DEF Markers
<1>2. \A i \in 1 .. n : [pic |-> pics[i], type |-> type] \in Items
  BY DEF Items
<1> HIDE DEF m
<1>3. m \in [1 .. n -> Items]
  BY <1>1, <1>2
<1>4. m \in Seq(Items)
  BY <1>3, FcnIsSeq
<1>5. 1 .. Len(m) = 1 .. n
  BY <1>1, <1>4, LenProperties
<1>6. QED
  BY <1>1, <1>4, <1>5 DEF m

LEMMA NoCutMarkers ==
  ASSUME NEW n \in Nat, NEW pics \in [1 .. n -> Pics], NEW type \in {"bookmark", "chapter"}
  PROVE  /\ Markers(pics, type) \in Seq(Items)
         /\ \A i \in 1 .. Len(Markers(pics, type)) : NoCut(Markers(pics, type)[i])
<1> DEFINE m == Markers(pics, type)
<1>1. type \in EventTypes /\ type \notin {"start", "stop"}
  BY DEF EventTypes
<1>2. /\ m \in Seq(Items)
      /\ \A i \in 1 .. Len(m) : m[i] = [pic |-> pics[i], type |-> type]
  BY <1>1, MarkersFacts
<1> HIDE DEF m
<1>3. ASSUME NEW i \in 1 .. Len(m)
      PROVE  m[i].type = type
  <2>1. m[i] = [pic |-> pics[i], type |-> type]
    BY <1>2
  <2>2. QED
    BY <2>1
<1>4. \A i \in 1 .. Len(m) : NoCut(m[i])
  BY <1>1, <1>3 DEF NoCut
<1>5. QED
  BY <1>2, <1>4 DEF m

(* Marks that are no START and no STOP are added.                          *)
LEMMA MarkersAdded ==
  ASSUME IInv, NEW n \in Nat, NEW pics \in [1 .. n -> Pics],
         NEW type \in {"bookmark", "chapter"},
         list' = AddItems(list, Markers(pics, type))
  PROVE  /\ ListOK' /\ SameSelection(list, list')
         /\ ToSet(list') \subseteq ToSet(list) \cup ToSet(Markers(pics, type))
         /\ ToSet(list) \subseteq ToSet(list')
<1> DEFINE m == Markers(pics, type)
<1>1. list \in Seq(Items) /\ Ordered(list)
  BY DEF IInv, ListOK
<1>2. m \in Seq(Items) /\ \A i \in 1 .. Len(m) : NoCut(m[i])
  BY NoCutMarkers
<1> HIDE DEF m
<1>3. Grown(AddItems(list, m), list, ToSet(m)) /\ SameSelection(list, AddItems(list, m))
  BY <1>1, <1>2, AddItemsFacts
<1>4. list' = AddItems(list, m)
  BY DEF m
<1>5. Grown(list', list, ToSet(m)) /\ SameSelection(list, list')
  BY <1>3, <1>4
<1>6. QED
  BY <1>5 DEF Grown, ListOK, m

(* The bookmarks of a list, in order: there is nothing to sort.            *)
LEMMA BookmarksFacts ==
  ASSUME NEW l \in Seq(Items), Ordered(l)
  PROVE  /\ \E n \in Nat : Bookmarks(l) \in [1 .. n -> Pics]
         /\ \A i, j \in DOMAIN Bookmarks(l) : i < j => Bookmarks(l)[i] <= Bookmarks(l)[j]
<1> DEFINE T == {i \in DOMAIN l : l[i].type = "bookmark"}
           marks == Kept(l, T)
           b == Bookmarks(l)
<1>1. /\ Len(l) \in Nat /\ DOMAIN l = 1 .. Len(l)
      /\ \A i \in 1 .. Len(l) : l[i] \in Items /\ l[i].pic \in Pics
  BY ItemList
<1>2. T \subseteq 1 .. Len(l) /\ \A i \in T : l[i].pic \in Pics
  BY <1>1
<1>3. l \in Seq([pic: Int, type: EventTypes])
  <2>1. Items \subseteq [pic: Int, type: EventTypes]
    BY CutTableAssumption DEF Items, Pics
  <2>2. QED
    BY <2>1, SeqMonotonic
<1>4. b = [i \in DOMAIN marks |-> marks[i].pic]
  BY DEF Bookmarks
<1> HIDE DEF T, b
<1>5. marks \in Seq(Items) /\ Ordered(marks)
  BY <1>2, <1>3, KeptMarkers
<1> HIDE DEF marks
<1>6. /\ Len(marks) \in Nat /\ DOMAIN marks = 1 .. Len(marks)
      /\ \A i \in 1 .. Len(marks) : marks[i].pic \in Pics
  BY <1>5, ItemList
<1>7. b \in [1 .. Len(marks) -> Pics]
  BY <1>4, <1>6
<1>8. \A i, j \in DOMAIN b : i < j => b[i] <= b[j]
  BY <1>4, <1>5 DEF Ordered
<1>9. QED
  BY <1>6, <1>7, <1>8 DEF b

LEMMA CutItemsFacts ==
  ASSUME NEW n \in Nat, NEW pics \in [1 .. n -> Pics],
         \A i, j \in DOMAIN pics : i < j => pics[i] <= pics[j],
         NEW option
  PROVE  CutItems(pics, option) \in Seq(Items)
<1> DEFINE Holds(s) ==
             /\ \A i, j \in DOMAIN s : i < j => s[i] <= s[j]
             /\ \A pic \in ToSet(pics) : Cardinality({i \in DOMAIN s : s[i] = pic})
                                         = Cardinality({i \in DOMAIN s : pics[i] = pic})
           S == [DOMAIN pics -> ToSet(pics)]
           cuts == Sorted(pics)
           c == CutItems(pics, option)
<1>1. pics \in S
  BY DEF ToSet
<1>2. Holds(pics)
  OBVIOUS
<1>3. cuts = CHOOSE s \in S : Holds(s)
  BY DEF Sorted
<1>4. cuts \in S
  <2> HIDE DEF S, Holds
  <2>1. QED
    BY <1>1, <1>2, <1>3
<1>5. c = [i \in DOMAIN cuts |-> [pic |-> cuts[i], type |-> CutType(option, i, cuts[i])]]
  BY DEF CutItems
<1> HIDE DEF cuts, c
<1>6. DOMAIN cuts = 1 .. n /\ \A i \in 1 .. n : cuts[i] \in Pics
  BY <1>4 DEF ToSet
<1>7. \A i : CutType(option, i, cuts[i]) \in EventTypes
  BY DEF CutType, EventTypes
<1>8. c \in [1 .. n -> Items]
  BY <1>5, <1>6, <1>7 DEF Items
<1>9. c \in Seq(Items)
  BY <1>8, FcnIsSeq
<1>10. QED
  BY <1>9 DEF c

(* The picture for a chapter, while there is an entry for it.              *)
Largest(a) == Max({a, 0})

LEMMA LargestFacts ==
  ASSUME NEW a \in Int
  PROVE  Largest(a) \in Int /\ a <= Largest(a) /\ 0 <= Largest(a)
<1>1. \E x \in {a, 0} : \A y \in {a, 0} : x >= y
  <2>1. CASE a >= 0
    BY <2>1
  <2>2. CASE ~(a >= 0)
    BY <2>2
  <2>3. QED
    BY <2>1, <2>2
<1>2. Largest(a) = CHOOSE x \in {a, 0} : \A y \in {a, 0} : x >= y
  BY DEF Largest, Max
<1>3. Largest(a) \in {a, 0} /\ \A y \in {a, 0} : Largest(a) >= y
  BY <1>1, <1>2
<1>4. Largest(a) \in Int /\ Largest(a) >= a /\ Largest(a) >= 0
  BY <1>3
<1>5. QED
  BY <1>4

ChapterFits(out) ==
  /\ PastEnd(out) => ChapterTolerance > ChapterMinimum + 1
  /\ ~PastEnd(out) =>
       /\ ChapterPic(out) \in Pics
       /\ OutPictures(table) - OutPicture(table, ChapterPic(out))
            > ChapterMinimum - Largest(ChapterTolerance - 1)

LEMMA ChapterPicFits ==
  ASSUME IsCutTable(table), NEW out \in Nat \ {0},
         out < OutPictures(table) - ChapterMinimum
  PROVE  ChapterFits(out)
<1> DEFINE n == Len(table)
           C == CoveredBy(table)
           last == OutPictures(table)
           u == UpperBound(OutKeys(table), out)
           in == InPicture(table, out)
           stop == table[u].stop
           tolerance == ChapterTolerance
           minimum == ChapterMinimum
           most == Largest(tolerance - 1)
<1>1. TableParts(table, n, C)
  BY TableHasParts
<1>2. tolerance \in Nat /\ minimum \in Nat
  BY EventListAssumption
<1>3. most \in Int /\ tolerance - 1 <= most /\ 0 <= most
  BY <1>2, LargestFacts
<1>4. n \in 1 .. n /\ last = table[n].out /\ last \in Nat /\ n \in Nat
  <2>1. n \in Nat
    BY <1>1 DEF TableParts
  <2>2. table # << >>
    <3>1. ASSUME table = << >>
          PROVE  FALSE
      <4>1. last = 0
        BY <3>1 DEF OutPictures
      <4>2. out < 0 - minimum
        BY <4>1
      <4>3. QED
        BY <1>2, <4>2
    <3>2. QED
      BY <3>1
  <2>3. n # 0
    <3>1. table \in Seq(Entries)
      BY DEF IsCutTable
    <3>2. QED
      BY <2>2, <3>1, EmptySeq
  <2>4. last = table[n].out
    BY <2>2 DEF OutPictures
  <2>5. n \in 1 .. n
    BY <2>1, <2>3
  <2>6. table[n].out \in Nat
    BY <1>1, <2>5 DEF TableParts
  <2>7. QED
    BY <2>1, <2>4, <2>5, <2>6
<1>5. out < last - minimum
  OBVIOUS
<1>6. last - out > minimum /\ out < last
  BY <1>2, <1>4, <1>5
<1>7. u <= n
  BY <1>4, <1>6, KeyAbove
<1>8. Found(table, C, out, u, in)
  BY <1>7, InPictureFound
<1>9. AtEnd(out) <=> in + tolerance > stop
  BY DEF AtEnd
<1>10. PastEnd(out) <=> AtEnd(out) /\ u = n
  BY DEF PastEnd
<1>11. ChapterPic(out) =
         IF AtEnd(out) THEN table[u + 1].start
         ELSE IF SceneChanges \cap (in + 1 .. in + tolerance - 1) = {} THEN in
              ELSE Min(SceneChanges \cap (in + 1 .. in + tolerance - 1))
  BY DEF ChapterPic
<1> HIDE DEF n, C, last, u, in, tolerance, minimum, most
<1>12. /\ u \in 1 .. n /\ in < stop /\ in \in C /\ in \in Nat /\ Before(C, in) = out
       /\ table[u].out - out = stop - in
  BY <1>8 DEF Found, n
<1>13. /\ stop \in Nat /\ table[u].out \in Nat /\ table[u].out = Before(C, stop)
       /\ table[u].start <= in /\ C \subseteq Pics /\ stop \in Pics
  BY <1>1, <1>8, <1>12 DEF TableParts, Found
<1>14. \A pic \in Pics : OutPicture(table, pic) = Before(C, pic)
  BY OutPictureCounts DEF C
<1> HIDE DEF stop
<1>15. ASSUME PastEnd(out)
       PROVE  tolerance > minimum + 1
  <2>1. in + tolerance > stop /\ u = n
    BY <1>9, <1>10, <1>15
  <2>2. last - out = stop - in
    BY <1>4, <1>12, <2>1
  <2>3. QED
    BY <1>2, <1>6, <1>12, <1>13, <2>1, <2>2
<1>16. ASSUME ~PastEnd(out)
       PROVE  /\ ChapterPic(out) \in Pics
              /\ last - OutPicture(table, ChapterPic(out)) > minimum - most
  <2>1. CASE AtEnd(out)
    <3>1. u + 1 \in 1 .. n
      BY <1>4, <1>10, <1>12, <1>16, <2>1
    <3>2. table[u + 1].start \in Pics
      BY <1>1, <3>1 DEF TableParts
    <3>3. Before(C, table[u + 1].start) = table[u].out
      BY <1>1, <1>12, <3>1, BetweenRanges
    <3>4. OutPicture(table, ChapterPic(out)) = table[u].out
      BY <1>11, <1>14, <2>1, <3>2, <3>3
    <3>5. table[u].out - out <= tolerance - 1
      BY <1>2, <1>9, <1>12, <1>13, <2>1
    <3>6. last - table[u].out > minimum - most
      BY <1>2, <1>3, <1>4, <1>6, <1>13, <3>5
    <3>7. QED
      BY <1>11, <2>1, <3>2, <3>4, <3>6
  <2>2. CASE ~AtEnd(out)
    <3> DEFINE scenes == SceneChanges \cap (in + 1 .. in + tolerance - 1)
    <3>1. in + tolerance <= stop
      BY <1>2, <1>9, <1>12, <1>13, <2>2
    <3>2. ASSUME NEW pic \in Nat, in <= pic, pic <= in + most, pic < stop
          PROVE  pic \in Pics /\ last - OutPicture(table, pic) > minimum - most
      <4>1. pic \in Pics
        BY <1>13, <3>2, CutTableAssumption DEF Pics
      <4>2. \A y \in in .. pic - 1 : y \in C
        <5>1. ASSUME NEW y \in in .. pic - 1
              PROVE  y \in C
          <6>1. y \in Nat /\ in <= y /\ y < pic
            BY <1>12, <3>2
          <6>2. table[u].start \in Nat
            BY <1>1, <1>12 DEF TableParts
          <6>3. y < stop /\ table[u].start <= y
            BY <1>12, <1>13, <3>2, <6>1, <6>2
          <6>4. y \in Pics
            BY <1>13, <6>1, <6>3, CutTableAssumption DEF Pics
          <6>5. QED
            BY <1>1, <1>12, <6>3, <6>4 DEF TableParts, CoveredBy, stop
        <5>2. QED
          BY <5>1
      <4>3. Before(C, pic) = Before(C, in) + pic - in
        BY <1>12, <1>13, <3>2, <4>2, BeforeRange
      <4>4. OutPicture(table, pic) = out + pic - in
        BY <1>12, <1>14, <4>1, <4>3
      <4>5. last - (out + pic - in) > minimum - most
        BY <1>2, <1>3, <1>4, <1>6, <1>12, <3>2
      <4>6. QED
        BY <4>1, <4>4, <4>5
    <3>3. CASE scenes = {}
      <4>1. ChapterPic(out) = in
        BY <1>11, <2>2, <3>3
      <4>2. in <= in /\ in <= in + most
        BY <1>3, <1>12
      <4>3. QED
        BY <1>12, <3>2, <4>1, <4>2
    <3>4. CASE scenes # {}
      <4>1. ChapterPic(out) = Min(scenes)
        BY <1>11, <2>2, <3>4
      <4>2. scenes \subseteq Nat
        BY EventListAssumption, CutTableAssumption DEF Pics
      <4>3. Min(scenes) \in scenes
        <5> HIDE DEF scenes
        <5>1. QED
          BY <3>4, <4>2, LeastIndex
      <4>4. PICK pic \in scenes : pic = ChapterPic(out)
        BY <4>1, <4>3
      <4>5. pic \in Nat /\ in <= pic /\ pic <= in + (tolerance - 1) /\ pic < in + tolerance
        BY <1>2, <1>12, <4>2
      <4>6. pic <= in + most /\ pic < stop
        BY <1>2, <1>3, <1>12, <1>13, <3>1, <4>5
      <4>7. QED
        BY <3>2, <4>4, <4>5, <4>6
    <3>5. QED
      BY <3>3, <3>4
  <2>3. QED
    BY <2>1, <2>2
<1>17. QED
  BY <1>15, <1>16 DEF ChapterFits, last, tolerance, minimum, most

(* The chapters that are set, up to the first one that would be behind the *)
(* table.                                                                  *)
Past == {k \in DOMAIN ChapterOuts : PastEnd(ChapterOuts[k])}

ChaptersFound == IF Past = {} THEN Len(ChapterOuts) ELSE Min(Past) - 1

FoundPics == [k \in 1 .. ChaptersFound |-> ChapterPic(ChapterOuts[k])]

LEMMA ChapterOutsFacts ==
  ASSUME IsCutTable(table)
  PROVE  /\ Len(ChapterOuts) \in Nat /\ DOMAIN ChapterOuts = 1 .. Len(ChapterOuts)
         /\ ChaptersFound \in 0 .. Len(ChapterOuts)
         /\ \A k \in 1 .. Len(ChapterOuts) :
              ChapterOuts[k] \in Nat \ {0} /\ ChapterFits(ChapterOuts[k])
         /\ \A k \in 1 .. ChaptersFound : ~PastEnd(ChapterOuts[k])
<1> DEFINE T == {out \in 1 .. OutPictures(table) :
                   /\ out % ChapterStep = 0
                   /\ out < OutPictures(table) - ChapterMinimum}
           m == ChapterOuts
           c == Cardinality(T)
           n == Len(m)
<1>1. OutPictures(table) \in Nat
  <2>1. TableParts(table, Len(table), CoveredBy(table))
    BY TableHasParts
  <2>2. CASE table = << >>
    BY <2>2 DEF OutPictures
  <2>3. CASE table # << >>
    <3>1. table \in Seq(Entries) /\ Len(table) \in Nat
      BY <2>1 DEF IsCutTable, TableParts
    <3>2. Len(table) # 0
      BY <2>3, <3>1, EmptySeq
    <3>3. Len(table) \in 1 .. Len(table)
      BY <3>1, <3>2
    <3>4. QED
      BY <2>1, <2>3, <3>3 DEF OutPictures, TableParts
  <2>4. QED
    BY <2>2, <2>3
<1>2. T \subseteq 1 .. OutPictures(table)
  OBVIOUS
<1>3. \A out \in T : out \in Nat \ {0} /\ out < OutPictures(table) - ChapterMinimum
  BY <1>1
<1>4. m = Ascending(T)
  BY DEF ChapterOuts
<1> HIDE DEF T, m, c, n
<1>5. InPlace(m, T)
  BY <1>1, <1>2, <1>4, AscendingPlaces
<1>6. c \in Nat
  BY <1>1, <1>2, AscendingPlaces DEF c
<1>7. m \in [1 .. c -> T]
  BY <1>5 DEF InPlace, c
<1>8. n \in Nat /\ DOMAIN m = 1 .. n
  <2>1. m \in Seq(T)
    BY <1>6, <1>7, FcnIsSeq
  <2>2. QED
    BY <2>1, LenProperties DEF n
<1>9. ASSUME NEW k \in 1 .. n
      PROVE  m[k] \in Nat \ {0} /\ ChapterFits(m[k])
  <2>1. m[k] \in T
    BY <1>7, <1>8
  <2>2. m[k] \in Nat \ {0} /\ m[k] < OutPictures(table) - ChapterMinimum
    BY <1>3, <2>1
  <2>3. QED
    BY <2>2, ChapterPicFits
<1>10. ChaptersFound \in 0 .. n /\ \A k \in 1 .. ChaptersFound : ~PastEnd(m[k])
  <2>1. Past = {k \in 1 .. n : PastEnd(m[k])}
    BY <1>8 DEF Past, m
  <2>2. ChaptersFound = IF Past = {} THEN n ELSE Min(Past) - 1
    BY DEF ChaptersFound, n, m
  <2>3. CASE Past = {}
    BY <1>8, <2>1, <2>2, <2>3
  <2>4. CASE Past # {}
    <3>1. Past \subseteq Nat /\ Past \subseteq 1 .. n
      BY <2>1
    <3>2. Min(Past) \in Past /\ \A k \in Past : Min(Past) <= k
      BY <2>4, <3>1, LeastIndex
    <3>3. Min(Past) \in 1 .. n
      BY <3>1, <3>2
    <3>4. PICK x \in 1 .. n : x = Min(Past)
      BY <3>3
    <3>5. ChaptersFound = x - 1
      BY <2>2, <2>4, <3>4
    <3>6. ChaptersFound \in 0 .. n
      BY <1>8, <3>5
    <3>7. ASSUME NEW k \in 1 .. ChaptersFound
          PROVE  ~PastEnd(m[k])
      <4>1. k \in 1 .. n /\ ~(x <= k)
        BY <1>8, <3>5
      <4>2. k \notin Past
        BY <3>2, <3>4, <4>1
      <4>3. QED
        BY <2>1, <4>1, <4>2
    <3>8. QED
      BY <3>6, <3>7
  <2>5. QED
    BY <2>3, <2>4
<1>11. QED
  BY <1>8, <1>9, <1>10 DEF n, m

LEMMA FoundPicsFacts ==
  ASSUME IsCutTable(table)
  PROVE  ChaptersFound \in Nat /\ FoundPics \in [1 .. ChaptersFound -> Pics]
<1>1. /\ ChaptersFound \in 0 .. Len(ChapterOuts) /\ Len(ChapterOuts) \in Nat
      /\ \A k \in 1 .. Len(ChapterOuts) : ChapterFits(ChapterOuts[k])
      /\ \A k \in 1 .. ChaptersFound : ~PastEnd(ChapterOuts[k])
  BY ChapterOutsFacts
<1>2. ChaptersFound \in Nat /\ ChaptersFound <= Len(ChapterOuts)
  BY <1>1
<1>3. ASSUME NEW k \in 1 .. ChaptersFound
      PROVE  ChapterPic(ChapterOuts[k]) \in Pics
  <2>1. k \in 1 .. Len(ChapterOuts)
    BY <1>1, <1>2
  <2>2. QED
    BY <1>1, <2>1 DEF ChapterFits
<1>4. QED
  BY <1>2, <1>3 DEF FoundPics

LEMMA AutoChaptersAdd ==
  ASSUME EditAutoChapters, table # << >>
  PROVE  /\ list' = AddItems(list, Markers(FoundPics, "chapter"))
         /\ pastend' = (Past # {}) /\ UNCHANGED options
         /\ \/ UNCHANGED <<table, chapters>>
            \/ UpdateTable
BY DEF EditAutoChapters, FoundPics, ChaptersFound, Past

-----------------------------------------------------------------------------
(* Every step.                                                             *)
LEMMA InitIInv == Init => IInv
<1> SUFFICES ASSUME Init
             PROVE  IInv
  OBVIOUS
<1>1. PICK marks \in Projects :
        list = Kept(marks, {i \in DOMAIN marks : marks[i].pic \in Pics})
  BY DEF Init
<1>2. marks \in Seq([pic: Int, type: EventTypes]) /\ Ordered(marks)
  BY EventListAssumption
<1> DEFINE T == {i \in DOMAIN marks : marks[i].pic \in Pics}
<1>3. T \subseteq 1 .. Len(marks) /\ \A i \in T : marks[i].pic \in Pics
  <2>1. DOMAIN marks = 1 .. Len(marks)
    BY <1>2, LenProperties
  <2>2. QED
    BY <2>1
<1>4. list = Kept(marks, T)
  BY <1>1
<1> HIDE DEF T
<1>5. list \in Seq(Items) /\ Ordered(list)
  BY <1>2, <1>3, <1>4, KeptMarkers
<1>6. options \in CutOptions /\ pastend \in BOOLEAN
  BY EventListAssumption DEF Init
<1>7. /\ IsCutTable(Scan(list, options).ranges)
      /\ CoveredBy(Scan(list, options).ranges) =
           {pic \in Pics : Selected(list, options, pic)}
      /\ Scan(list, options).chapters \in Seq(0 .. 2 * Pictures)
  BY <1>5, <1>6, ScanSelects
<1>8. Consistent
  BY <1>7 DEF Init, Consistent
<1>9. QED
  BY <1>5, <1>6, <1>8 DEF IInv, ListOK

LEMMA StepIInv == IInv /\ [Next]_vars => IInv'
<1> SUFFICES ASSUME IInv, [Next]_vars
             PROVE  IInv'
  OBVIOUS
<1>1. /\ options \in CutOptions /\ pastend \in BOOLEAN
      /\ list \in Seq(Items) /\ Ordered(list)
      /\ IsCutTable(table) /\ ListOK /\ Consistent
  BY DEF IInv, ListOK, Consistent
<1>2. /\ Len(list) \in Nat /\ DOMAIN list = 1 .. Len(list)
      /\ \A i \in 1 .. Len(list) : /\ list[i] \in Items /\ list[i].pic \in Pics
                                   /\ list[i].type \in EventTypes
  BY <1>1, ItemList
<1>3. SameSelection(list, list)
  BY DEF SameSelection
<1>4. ASSUME UNCHANGED options, pastend' \in BOOLEAN, ListOK', Consistent'
      PROVE  IInv'
  BY <1>1, <1>4 DEF IInv
<1>5. ASSUME UNCHANGED options, UpdateTable, pastend' \in BOOLEAN, ListOK'
      PROVE  IInv'
  BY <1>1, <1>4, <1>5, Updated
<1>6. ASSUME UNCHANGED <<options, table, chapters>>, pastend' \in BOOLEAN, ListOK',
             SameSelection(list, list')
      PROVE  IInv'
  BY <1>1, <1>4, <1>6, NotUpdated
<1>7. ASSUME UNCHANGED vars
      PROVE  IInv'
  BY <1>7 DEF vars, IInv, ListOK, Consistent
<1>8. CASE EditBookmark
  <2>1. PICK pic \in Pics : list' = AddItem(list, [pic |-> pic, type |-> "bookmark"])
    BY <1>8 DEF EditBookmark
  <2> DEFINE item == [pic |-> pic, type |-> "bookmark"]
  <2>2. item \in Items /\ NoCut(item)
    BY DEF Items, EventTypes, NoCut
  <2>3. list' = AddItem(list, item)
    BY <2>1
  <2> HIDE DEF item
  <2>4. Grown(list', list, {item}) /\ SameSelection(list, list')
    BY <1>1, <2>2, <2>3, AddItemFacts
  <2>5. ListOK'
    BY <2>4 DEF Grown, ListOK
  <2>6. UNCHANGED <<options, table, chapters>> /\ pastend' \in BOOLEAN
    BY <1>1, <1>8 DEF EditBookmark
  <2>7. QED
    BY <1>6, <2>4, <2>5, <2>6
<1>9. CASE EditMarker
  <2>1. PICK item \in Items : list' = AddItem(list, item)
    BY <1>9 DEF EditMarker
  <2>2. Grown(list', list, {item})
    BY <1>1, <2>1, AddItemFacts
  <2>3. ListOK'
    BY <2>2 DEF Grown, ListOK
  <2>4. UpdateTable /\ UNCHANGED options /\ pastend' \in BOOLEAN
    BY <1>1, <1>9 DEF EditMarker
  <2>5. QED
    BY <1>5, <2>3, <2>4
<1>10. CASE EditSuggest
  <2> DEFINE T == {pic \in 1 .. Pictures - 1 : Aspect[pic] # Aspect[pic - 1]}
             pics == AspectChanges
  <2>1. Pictures - 1 \in Nat /\ Pictures - 1 \in Int /\ T \subseteq 1 .. Pictures - 1
        /\ T \subseteq Pics
    BY CutTableAssumption DEF Pics
  <2>2. pics = Ascending(T)
    BY DEF AspectChanges
  <2> HIDE DEF T, pics
  <2>3. InPlace(pics, T) /\ Cardinality(T) \in Nat
    BY <2>1, <2>2, AscendingPlaces
  <2>4. pics \in [1 .. Cardinality(T) -> Pics]
    BY <2>1, <2>3 DEF InPlace
  <2>5. list' = AddItems(list, Markers(pics, "bookmark"))
    BY <1>10 DEF EditSuggest, pics
  <2>6. ListOK' /\ SameSelection(list, list')
    BY <2>3, <2>4, <2>5, MarkersAdded
  <2>7. UNCHANGED <<options, table, chapters>> /\ pastend' \in BOOLEAN
    BY <1>1, <1>10 DEF EditSuggest
  <2>8. QED
    BY <1>6, <2>6, <2>7
<1>11. CASE EditImport
  <2>1. PICK n \in Nat : FileBookmarks \in [1 .. n -> Pics]
    <3>1. FileBookmarks \in Seq(Pics)
      BY EventListAssumption
    <3>2. QED
      BY <3>1, LenProperties
  <2>2. list' = AddItems(list, Markers(FileBookmarks, "bookmark"))
    BY <1>11 DEF EditImport
  <2>3. ListOK' /\ SameSelection(list, list')
    BY <2>1, <2>2, MarkersAdded
  <2>4. UNCHANGED <<options, table, chapters>> /\ pastend' \in BOOLEAN
    BY <1>1, <1>11 DEF EditImport
  <2>5. QED
    BY <1>6, <2>3, <2>4
<1>12. ASSUME NEW option \in 0 .. 3, EditConvert(option)
       PROVE  IInv'
  <2> DEFINE items == CutItems(Bookmarks(list), option)
             rest == Without(list, {"bookmark"})
             uncut == Without(rest, {"start", "stop"})
  <2>1. items \in Seq(Items)
    <3>1. \A i, j \in DOMAIN Bookmarks(list) :
            i < j => Bookmarks(list)[i] <= Bookmarks(list)[j]
      BY <1>1, BookmarksFacts
    <3>2. PICK n \in Nat : Bookmarks(list) \in [1 .. n -> Pics]
      BY <1>1, BookmarksFacts
    <3>3. QED
      BY <3>1, <3>2, CutItemsFacts
  <2>2. rest \in Seq(Items) /\ Ordered(rest)
    BY <1>1, WithoutFacts
  <2>3. list' = AddItems(uncut, items)
    BY <1>12 DEF EditConvert, AddStartStopItems
  <2> HIDE DEF items, rest
  <2>4. uncut \in Seq(Items) /\ Ordered(uncut)
    BY <2>2, WithoutFacts
  <2> HIDE DEF uncut
  <2>5. Grown(list', uncut, ToSet(items))
    BY <2>1, <2>3, <2>4, AddItemsFacts
  <2>6. ListOK'
    BY <2>5 DEF Grown, ListOK
  <2>7. UpdateTable /\ UNCHANGED options /\ pastend' \in BOOLEAN
    BY <1>1, <1>12 DEF EditConvert
  <2>8. QED
    BY <1>5, <2>6, <2>7
<1>13. CASE EditAutoChapters
  <2>1. CASE table = << >>
    <3>1. UNCHANGED <<options, list, table, chapters>> /\ pastend' \in BOOLEAN
      BY <1>13, <2>1 DEF EditAutoChapters
    <3>2. ListOK' /\ Consistent'
      BY <1>1, <3>1 DEF ListOK, Consistent
    <3>3. QED
      BY <1>4, <3>1, <3>2
  <2>2. CASE table # << >>
    <3>1. /\ list' = AddItems(list, Markers(FoundPics, "chapter"))
          /\ pastend' = (Past # {}) /\ UNCHANGED options
          /\ UNCHANGED <<table, chapters>> \/ UpdateTable
      BY <1>13, <2>2, AutoChaptersAdd
    <3>2. ChaptersFound \in Nat /\ FoundPics \in [1 .. ChaptersFound -> Pics]
      BY <1>1, FoundPicsFacts
    <3>3. ListOK' /\ SameSelection(list, list')
      BY <3>1, <3>2, MarkersAdded
    <3>4. pastend' \in BOOLEAN
      BY <3>1
    <3>5. QED
      BY <1>5, <1>6, <3>1, <3>3, <3>4
  <2>3. QED
    BY <2>1, <2>2
<1>14. CASE DelCurrentEventItem
  <2>1. PICK i \in DOMAIN list :
          /\ list' = RemoveAt(list, i)
          /\ IF list[i].type = "bookmark" THEN UNCHANGED <<table, chapters>>
                                          ELSE UpdateTable
    BY <1>14 DEF DelCurrentEventItem
  <2>2. /\ RemoveAt(list, i) \in Seq(Items) /\ Ordered(RemoveAt(list, i))
        /\ NoCut(list[i]) => SameSelection(list, RemoveAt(list, i))
    BY <1>1, RemovedItem
  <2>3. ListOK'
    BY <2>1, <2>2 DEF ListOK
  <2>4. list[i].type = "bookmark" => SameSelection(list, list')
    BY <2>1, <2>2 DEF NoCut
  <2>5. UNCHANGED options /\ pastend' \in BOOLEAN
    BY <1>1, <1>14 DEF DelCurrentEventItem
  <2>6. QED
    BY <1>5, <1>6, <2>1, <2>3, <2>4, <2>5
<1>15. CASE DeleteOthers
  <2>1. PICK i \in 1 .. Len(list) : list' = <<list[i]>>
    BY <1>2, <1>15 DEF DeleteOthers
  <2>2. PICK item \in Items : item = list[i]
    BY <1>2
  <2>3. <<item>> \in Seq(Items) /\ DOMAIN <<item>> = {1}
    OBVIOUS
  <2>4. Ordered(<<item>>)
    BY <2>3 DEF Ordered
  <2>5. ListOK'
    BY <2>1, <2>2, <2>3, <2>4 DEF ListOK
  <2>6. UpdateTable /\ UNCHANGED options /\ pastend' \in BOOLEAN
    BY <1>1, <1>15 DEF DeleteOthers
  <2>7. QED
    BY <1>5, <2>5, <2>6
<1>16. CASE DeleteAll
  <2>1. list' = << >> /\ << >> \in Seq(Items) /\ DOMAIN << >> = {}
    BY <1>16 DEF DeleteAll
  <2>2. ListOK'
    BY <2>1 DEF ListOK, Ordered
  <2>3. UpdateTable /\ UNCHANGED options /\ pastend' \in BOOLEAN
    BY <1>1, <1>16 DEF DeleteAll
  <2>4. QED
    BY <1>5, <2>2, <2>3
<1>17. CASE DeleteTypes
  <2>1. PICK types \in {{"start", "stop"}, {"chapter"}, {"bookmark"}} :
          /\ list' = Without(list, types)
          /\ IF types = {"bookmark"} THEN UNCHANGED <<table, chapters>> ELSE UpdateTable
    BY <1>17 DEF DeleteTypes
  <2>2. /\ Without(list, types) \in Seq(Items) /\ Ordered(Without(list, types))
        /\ (\A type \in types : type \notin {"start", "stop"}) =>
             SameSelection(list, Without(list, types))
    BY <1>1, WithoutFacts
  <2>3. ListOK'
    BY <2>1, <2>2 DEF ListOK
  <2>4. types = {"bookmark"} => SameSelection(list, list')
    BY <2>1, <2>2
  <2>5. UNCHANGED options /\ pastend' \in BOOLEAN
    BY <1>1, <1>17 DEF DeleteTypes
  <2>6. QED
    BY <1>5, <1>6, <2>1, <2>3, <2>4, <2>5
<1>18. CASE ConvertItem
  <2>1. PICK i \in DOMAIN list, type \in EventTypes : list' = [list EXCEPT ![i].type = type]
    BY <1>18 DEF ConvertItem
  <2> DEFINE item == [list[i] EXCEPT !.type = type]
  <2>2. item \in Items /\ item.pic = list[i].pic
    <3>1. list[i] \in Items
      BY <1>2
    <3>2. QED
      BY <3>1 DEF Items
  <2>3. list' = [list EXCEPT ![i] = item]
    BY <2>1
  <2> HIDE DEF item
  <2>4. /\ list' \in Seq(Items) /\ DOMAIN list' = 1 .. Len(list)
        /\ \A j \in 1 .. Len(list) : list'[j].pic = list[j].pic
    BY <1>1, <1>2, <2>2, <2>3, ExceptSeq
  <2>5. Ordered(list')
    BY <1>1, <1>2, <2>4 DEF Ordered
  <2>6. ListOK'
    BY <2>4, <2>5 DEF ListOK
  <2>7. UpdateTable /\ UNCHANGED options /\ pastend' \in BOOLEAN
    BY <1>1, <1>18 DEF ConvertItem
  <2>8. QED
    BY <1>5, <2>6, <2>7
<1>19. CASE ClickedGo2
  <2>1. UNCHANGED <<options, list, table, chapters>> /\ pastend' \in BOOLEAN
    BY <1>19 DEF ClickedGo2
  <2>2. ListOK' /\ Consistent'
    BY <1>1, <2>1 DEF ListOK, Consistent
  <2>3. QED
    BY <1>4, <2>1, <2>2
<1>20. QED
  BY <1>7, <1>8, <1>9, <1>10, <1>11, <1>12, <1>13, <1>14, <1>15, <1>16,
     <1>17, <1>18, <1>19 DEF Next, Edit

(* The list stays in order and the table and the chapters are what the     *)
(* scan makes of it, through every edit of the menus, the keys and the     *)
(* context menu (tvclipper.cpp:886-1154, 1471-1622, 2243-2264).            *)
THEOREM EventListInvariant == Spec => []IInv
BY InitIInv, StepIInv, PTL DEF Spec

-----------------------------------------------------------------------------
LEMMA IInvTable == IInv => TypeOK /\ TableIsSelection
<1> SUFFICES ASSUME IInv
             PROVE  TypeOK /\ TableIsSelection
  OBVIOUS
<1>1. /\ IsCutTable(table) /\ table \in Seq(Entries) /\ Consecutive(table) /\ Counted(table)
      /\ CoveredBy(table) = {pic \in Pics : Selected(list, options, pic)}
  BY DEF IInv, Consistent, IsCutTable
<1>2. TypeOK
  BY <1>1 DEF IInv, ListOK, Consistent, TypeOK, Entries
<1>3. TableIsSelection
  BY <1>1 DEF TableIsSelection, Covered, SelectedBefore, Consecutive, Counted
<1>4. QED
  BY <1>2, <1>3

LEMMA IInvGoBack == IInv => GoBack
<1> SUFFICES ASSUME IInv
             PROVE  GoBack
  OBVIOUS
<1>1. IsCutTable(table)
  BY DEF IInv, Consistent
<1>2. ASSUME NEW pic \in CoveredBy(table), NEW out, out = OutPicture(table, pic)
      PROVE  /\ out = Before(CoveredBy(table), pic)
             /\ HasInPicture(table, out) /\ InPicture(table, out) = pic
  BY <1>1, <1>2, TableGoesBack
<1>3. QED
  BY <1>2 DEF GoBack, Covered, SelectedBefore

(* Every entry that an edit leaves in the table is a range of pictures of  *)
(* the file, whatever the project file, the settings and the length of the *)
(* file are.                                                               *)
THEOREM TypeCorrect == Spec => []TypeOK
<1>1. IInv => TypeOK
  BY IInvTable
<1>2. QED
  BY <1>1, EventListInvariant, PTL

(* After every edit the table covers the pictures that the markers select, *)
(* range after range, and counts them (updateQuickPictureLookupTable(),    *)
(* tvclipper.cpp:2533-2615).                                               *)
THEOREM TableCorrect == Spec => []TableIsSelection
<1>1. IInv => TableIsSelection
  BY IInvTable
<1>2. QED
  BY <1>1, EventListInvariant, PTL

(* The output picture that is displayed for an exported picture leads back *)
(* to it (updateTimeDisplay() and clickedgo2(), tvclipper.cpp:1650-1668,   *)
(* 2491-2509).                                                             *)
THEOREM GoBackCorrect == Spec => []GoBack
<1>1. IInv => GoBack
  BY IInvGoBack
<1>2. QED
  BY <1>1, EventListInvariant, PTL

(* A tolerance of at most the minimal length and one picture, which the    *)
(* default settings have (settings.cpp:204-207), is enough for automatic   *)
(* chapters that are found in the table and keep their distance from the   *)
(* end (editAutoChapters(), tvclipper.cpp:974-1003).                       *)
ChaptersAddFit ==
  EditAutoChapters /\ table # << >> =>
    /\ ~pastend'
    /\ \A item \in ToSet(list') \ ToSet(list) :
         OutPictures(table) - OutPicture(table, item.pic)
           > ChapterMinimum - Max({ChapterTolerance - 1, 0})

LEMMA StepChaptersFit ==
  ASSUME ChapterTolerance <= ChapterMinimum + 1, IInv
  PROVE  ChaptersAddFit
<1> SUFFICES ASSUME EditAutoChapters, table # << >>
             PROVE  /\ ~pastend'
                    /\ \A item \in ToSet(list') \ ToSet(list) :
                         OutPictures(table) - OutPicture(table, item.pic)
                           > ChapterMinimum - Max({ChapterTolerance - 1, 0})
  BY DEF ChaptersAddFit
<1> DEFINE m == Markers(FoundPics, "chapter")
<1>1. IsCutTable(table)
  BY DEF IInv, Consistent
<1>2. /\ ChaptersFound \in 0 .. Len(ChapterOuts) /\ Len(ChapterOuts) \in Nat
      /\ DOMAIN ChapterOuts = 1 .. Len(ChapterOuts)
      /\ \A k \in 1 .. Len(ChapterOuts) : ChapterFits(ChapterOuts[k])
      /\ \A k \in 1 .. ChaptersFound : ~PastEnd(ChapterOuts[k])
  BY <1>1, ChapterOutsFacts
<1>3. Past = {}
  <2>1. ChapterTolerance \in Nat /\ ChapterMinimum \in Nat
    BY EventListAssumption
  <2>2. ~(ChapterTolerance > ChapterMinimum + 1)
    BY <2>1
  <2>3. \A k \in 1 .. Len(ChapterOuts) : ~PastEnd(ChapterOuts[k])
    BY <1>2, <2>2 DEF ChapterFits
  <2>4. QED
    BY <1>2, <2>3 DEF Past
<1>4. /\ list' = AddItems(list, m) /\ pastend' = (Past # {})
  BY AutoChaptersAdd
<1>5. ChaptersFound \in Nat /\ FoundPics \in [1 .. ChaptersFound -> Pics]
  BY <1>1, FoundPicsFacts
<1>6. ToSet(list') \subseteq ToSet(list) \cup ToSet(m)
  BY <1>4, <1>5, MarkersAdded
<1>7. ASSUME NEW item \in ToSet(m)
      PROVE  OutPictures(table) - OutPicture(table, item.pic)
               > ChapterMinimum - Max({ChapterTolerance - 1, 0})
  <2>1. m \in Seq(Items) /\ \A k \in 1 .. Len(m) :
          k \in 1 .. ChaptersFound /\ m[k] = [pic |-> FoundPics[k], type |-> "chapter"]
    BY <1>5, MarkersFacts DEF EventTypes
  <2> HIDE DEF m
  <2>2. PICK k \in 1 .. Len(m) : m[k] = item
    <3>1. DOMAIN m = 1 .. Len(m)
      BY <2>1, LenProperties
    <3>2. QED
      BY <3>1 DEF ToSet
  <2>3. k \in 1 .. ChaptersFound /\ item = [pic |-> FoundPics[k], type |-> "chapter"]
    BY <2>1, <2>2
  <2>4. item.pic = ChapterPic(ChapterOuts[k])
    <3>1. item.pic = FoundPics[k]
      BY <2>3
    <3>2. QED
      BY <2>3, <3>1 DEF FoundPics
  <2>5. k \in 1 .. Len(ChapterOuts)
    BY <1>2, <1>5, <2>3
  <2>6. ChapterFits(ChapterOuts[k]) /\ ~PastEnd(ChapterOuts[k])
    BY <1>2, <2>3, <2>5
  <2>7. QED
    BY <2>4, <2>6 DEF ChapterFits, Largest
<1>8. QED
  BY <1>3, <1>4, <1>6, <1>7

THEOREM ChaptersFit ==
  ASSUME ChapterTolerance <= ChapterMinimum + 1
  PROVE  Spec => AutoChaptersFit
<1>1. IInv => ChaptersAddFit
  BY StepChaptersFit
<1>2. Spec => [][ChaptersAddFit]_vars
  BY <1>1, EventListInvariant, PTL DEF Spec
<1>3. QED
  BY <1>2 DEF AutoChaptersFit, ChaptersAddFit
-----------------------------------------------------------------------------
(* The chapter list, as long as no range is open from the begin of the     *)
(* file or to its end.                                                     *)
ChaptersKept ==
  ~pastend /\ ~options.start_bof /\ (options.stop_eof \/ NothingOpen(list)) =>
    ChaptersFor(chapters, CoveredBy(table), Marked(list))

SameChapters(a, b) ==
  \A item : item.type = "chapter" => (item \in ToSet(a) <=> item \in ToSet(b))

LEMMA MarkedAlike ==
  ASSUME NEW a, NEW b, SameChapters(a, b)
  PROVE  Marked(a) = Marked(b)
<1>1. \A l : Marked(l) = {item.pic : item \in {x \in ToSet(l) : x.type = "chapter"}}
  BY DEF Marked, ToSet
<1>2. {x \in ToSet(a) : x.type = "chapter"} = {x \in ToSet(b) : x.type = "chapter"}
  BY DEF SameChapters
<1>3. QED
  BY <1>1, <1>2

(* Behind a STOP, or without any START, nothing is open.                   *)
LEMMA EndsClosed ==
  ASSUME ListOK, ~EndsOpen, ~options.start_bof
  PROVE  options.stop_eof \/ NothingOpen(list)
<1> DEFINE C == CutsOf(list)
<1>1. /\ list \in Seq(Items) /\ Ordered(list) /\ DOMAIN list = 1 .. Len(list)
      /\ Len(list) \in Nat
      /\ \A i \in 1 .. Len(list) : list[i].pic \in Nat
  BY ItemList DEF ListOK
<1>2. C \subseteq 1 .. Len(list) /\ \A i \in C : list[i].type \in {"start", "stop"}
  BY <1>1 DEF CutsOf
<1>3. SUFFICES ASSUME ~options.stop_eof, NEW x \in Pics, Selected(list, NoStarts(TRUE), x)
               PROVE  Selected(list, NoStarts(FALSE), x)
  BY DEF NothingOpen
<1>4. \A eof : NoStarts(eof).start_bof = FALSE /\ NoStarts(eof).stop_eof = eof
  BY DEF NoStarts
<1> HIDE DEF C
<1>5. PICK i \in C : /\ list[i].pic <= x /\ list[i].type = "start"
                     /\ \A k \in C : list[k].pic <= x => k <= i
  BY <1>3, <1>4 DEF Selected, On, C
<1>6. PICK k \in C : ~(k <= i)
  BY <1>3, <1>5 DEF EndsOpen, C
<1>7. \E m \in C : ~(m <= i) /\ \A j \in C : j <= m
  <2> DEFINE n == Len(list)
             R == {d \in Nat : n - d \in C}
  <2>1. n - k \in R
    BY <1>1, <1>2, <1>6
  <2>2. PICK d \in R : \A e \in R : d <= e
    <3>1. R \subseteq Nat /\ R # {}
      BY <2>1
    <3> HIDE DEF R
    <3>2. QED
      BY <3>1, LeastNat
  <2>3. n - d \in C
    BY <2>2
  <2>4. \A j \in C : j <= n - d
    <3>1. ASSUME NEW j \in C
          PROVE  j <= n - d
      <4>1. j \in Nat /\ j <= n /\ n - j \in Nat /\ n - (n - j) = j
        BY <1>1, <1>2
      <4>2. d <= n - j
        BY <2>2, <4>1
      <4>3. d \in Nat
        BY <2>2
      <4>4. QED
        BY <1>1, <4>1, <4>2, <4>3
    <3>2. QED
      BY <3>1
  <2>5. ~(n - d <= i)
    <3>1. k <= n - d /\ k \in Nat /\ i \in Nat /\ d \in Nat
      BY <1>1, <1>2, <1>5, <1>6, <2>2, <2>4
    <3>2. QED
      BY <1>1, <1>6, <3>1
  <2>6. QED
    BY <2>3, <2>4, <2>5
<1>8. PICK m \in C : ~(m <= i) /\ \A j \in C : j <= m
  BY <1>7
<1>9. list[m].type = "stop"
  BY <1>2, <1>3, <1>8 DEF EndsOpen, C
<1>10. x < list[m].pic
  <2>1. ~(list[m].pic <= x)
    BY <1>5, <1>8
  <2>2. x \in Nat /\ list[m].pic \in Nat
    BY <1>1, <1>2, <1>8, CutTableAssumption DEF Pics
  <2>3. QED
    BY <2>1, <2>2
<1>11. StopAhead(list, C, x)
  BY <1>8, <1>9, <1>10 DEF StopAhead
<1>12. On(list, C, NoStarts(FALSE), x)
  BY <1>5 DEF On
<1>13. QED
  BY <1>11, <1>12 DEF Selected, C

LEMMA KeptIsMatch ==
  ASSUME IInv, ChaptersKept
  PROVE  ChaptersMatchIfCut
<1>1. SUFFICES ASSUME ~pastend, ~options.start_bof, ~EndsOpen
               PROVE  ChaptersMatch
  BY DEF ChaptersMatchIfCut
<1>2. options.stop_eof \/ NothingOpen(list)
  BY <1>1, EndsClosed DEF IInv
<1>3. ChaptersFor(chapters, CoveredBy(table), Marked(list))
  BY <1>1, <1>2 DEF ChaptersKept
<1>4. CoveredBy(table) \subseteq Pics
  BY DEF CoveredBy
<1>5. LET printed == PrintedChapters(chapters)
      IN  /\ \A i, j \in DOMAIN printed : i < j => printed[i] < printed[j]
          /\ ToSet(printed) \subseteq
               {0} \cup {Before(CoveredBy(table), pic) : pic \in Marked(list)}
          /\ {Before(CoveredBy(table), pic) : pic \in Marked(list) \cap CoveredBy(table)}
               \subseteq ToSet(printed)
  BY <1>3, <1>4, ChaptersPrinted
<1>6. QED
  BY <1>5 DEF ChaptersMatch, ChapterPics, Marked, Covered, SelectedBefore

LEMMA InitKept == Init => ChaptersKept
<1> SUFFICES ASSUME Init, ~options.start_bof, options.stop_eof \/ NothingOpen(list)
             PROVE  ChaptersFor(chapters, CoveredBy(table), Marked(list))
  BY DEF ChaptersKept
<1>1. options \in CutOptions /\ list \in Seq(Items) /\ Ordered(list)
  BY InitIInv DEF IInv, ListOK
<1>2. ChaptersFor(Scan(list, options).chapters, CoveredBy(Scan(list, options).ranges),
                  Marked(list))
  BY <1>1, ScanChapters
<1>3. QED
  BY <1>2 DEF Init

LEMMA KeptUpdated ==
  ASSUME IInv, ListOK', UNCHANGED options, UpdateTable
  PROVE  ChaptersKept'
<1>1. SUFFICES ASSUME ~options.start_bof, options.stop_eof \/ NothingOpen(list')
               PROVE  ChaptersFor(chapters', CoveredBy(table'), Marked(list'))
  BY DEF ChaptersKept
<1>2. options \in CutOptions /\ list' \in Seq(Items) /\ Ordered(list')
  BY DEF IInv, ListOK
<1>3. ChaptersFor(Scan(list', options).chapters, CoveredBy(Scan(list', options).ranges),
                  Marked(list'))
  BY <1>1, <1>2, ScanChapters
<1>4. QED
  BY <1>3 DEF UpdateTable

LEMMA KeptUnchanged ==
  ASSUME IInv, ChaptersKept, UNCHANGED <<options, table, chapters>>,
         pastend' \/ pastend' = pastend,
         SameSelection(list, list'), SameChapters(list, list')
  PROVE  ChaptersKept'
<1>1. Marked(list') = Marked(list)
  BY MarkedAlike
<1>2. NothingOpen(list') => NothingOpen(list)
  <2>1. NoStarts(TRUE) \in CutOptions /\ NoStarts(FALSE) \in CutOptions
    BY DEF NoStarts, CutOptions
  <2>2. QED
    BY <2>1 DEF SameSelection, NothingOpen
<1>3. QED
  BY <1>1, <1>2 DEF ChaptersKept

LEMMA AddedNoChapters ==
  ASSUME IInv, NEW n \in Nat, NEW pics \in [1 .. n -> Pics],
         list' = AddItems(list, Markers(pics, "bookmark"))
  PROVE  ListOK' /\ SameSelection(list, list') /\ SameChapters(list, list')
<1> DEFINE m == Markers(pics, "bookmark")
<1>1. /\ ListOK' /\ SameSelection(list, list')
      /\ ToSet(list') \subseteq ToSet(list) \cup ToSet(m)
      /\ ToSet(list) \subseteq ToSet(list')
  BY MarkersAdded
<1>2. \A item \in ToSet(m) : item.type # "chapter"
  <2>1. /\ m \in Seq(Items)
        /\ \A i \in 1 .. Len(m) : m[i] = [pic |-> pics[i], type |-> "bookmark"]
    BY MarkersFacts DEF EventTypes
  <2> HIDE DEF m
  <2>2. DOMAIN m = 1 .. Len(m)
    BY <2>1, LenProperties
  <2>3. ASSUME NEW i \in 1 .. Len(m)
        PROVE  m[i].type = "bookmark"
    <3>1. m[i] = [pic |-> pics[i], type |-> "bookmark"]
      BY <2>1
    <3>2. QED
      BY <3>1
  <2>4. QED
    BY <2>2, <2>3 DEF ToSet
<1>3. SameChapters(list, list')
  BY <1>1, <1>2 DEF SameChapters
<1>4. QED
  BY <1>1, <1>3

LEMMA StepKept == IInv /\ ChaptersKept /\ IInv' /\ [Next]_vars => ChaptersKept'
<1> SUFFICES ASSUME IInv, ChaptersKept, IInv', [Next]_vars
             PROVE  ChaptersKept'
  OBVIOUS
<1>1. list \in Seq(Items) /\ Ordered(list) /\ ListOK' /\ IsCutTable(table)
  BY DEF IInv, ListOK, Consistent
<1>2. ASSUME UNCHANGED options, UpdateTable
      PROVE  ChaptersKept'
  BY <1>1, <1>2, KeptUpdated
<1>3. ASSUME UNCHANGED <<options, table, chapters>>, pastend' \/ pastend' = pastend,
             SameSelection(list, list'), SameChapters(list, list')
      PROVE  ChaptersKept'
  BY <1>3, KeptUnchanged
<1>4. ASSUME UNCHANGED <<options, list, table, chapters>>, pastend' \/ pastend' = pastend
      PROVE  ChaptersKept'
  <2>1. SameSelection(list, list') /\ SameChapters(list, list')
    BY <1>4 DEF SameSelection, SameChapters
  <2>2. QED
    BY <1>3, <1>4, <2>1
<1>5. ASSUME UNCHANGED vars
      PROVE  ChaptersKept'
  BY <1>4, <1>5 DEF vars
<1>6. ASSUME NEW n \in Nat, NEW pics \in [1 .. n -> Pics],
             list' = AddItems(list, Markers(pics, "bookmark")),
             UNCHANGED <<options, table, chapters, pastend>>
      PROVE  ChaptersKept'
  <2>1. SameSelection(list, list') /\ SameChapters(list, list')
    BY <1>6, AddedNoChapters
  <2>2. QED
    BY <1>3, <1>6, <2>1
<1>7. CASE EditBookmark
  <2>1. PICK pic \in Pics : list' = AddItem(list, [pic |-> pic, type |-> "bookmark"])
    BY <1>7 DEF EditBookmark
  <2> DEFINE item == [pic |-> pic, type |-> "bookmark"]
  <2>2. item \in Items /\ NoCut(item) /\ item.type # "chapter"
    BY DEF Items, EventTypes, NoCut
  <2>3. list' = AddItem(list, item)
    BY <2>1
  <2> HIDE DEF item
  <2>4. Grown(list', list, {item}) /\ SameSelection(list, list')
    BY <1>1, <2>2, <2>3, AddItemFacts
  <2>5. SameChapters(list, list')
    BY <2>2, <2>4 DEF Grown, SameChapters
  <2>6. QED
    BY <1>3, <1>7, <2>4, <2>5 DEF EditBookmark
<1>8. CASE EditMarker
  BY <1>2, <1>8 DEF EditMarker
<1>9. CASE EditSuggest
  <2> DEFINE T == {pic \in 1 .. Pictures - 1 : Aspect[pic] # Aspect[pic - 1]}
             pics == AspectChanges
  <2>1. Pictures - 1 \in Nat /\ Pictures - 1 \in Int /\ T \subseteq 1 .. Pictures - 1
        /\ T \subseteq Pics
    BY CutTableAssumption DEF Pics
  <2>2. pics = Ascending(T)
    BY DEF AspectChanges
  <2> HIDE DEF T, pics
  <2>3. InPlace(pics, T) /\ Cardinality(T) \in Nat
    BY <2>1, <2>2, AscendingPlaces
  <2>4. pics \in [1 .. Cardinality(T) -> Pics]
    BY <2>1, <2>3 DEF InPlace
  <2>5. list' = AddItems(list, Markers(pics, "bookmark"))
    BY <1>9 DEF EditSuggest, pics
  <2>6. QED
    BY <1>6, <1>9, <2>3, <2>4, <2>5 DEF EditSuggest
<1>10. CASE EditImport
  <2>1. PICK n \in Nat : FileBookmarks \in [1 .. n -> Pics]
    BY EventListAssumption, LenProperties
  <2>2. QED
    BY <1>6, <1>10, <2>1 DEF EditImport
<1>11. ASSUME NEW option \in 0 .. 3, EditConvert(option)
       PROVE  ChaptersKept'
  BY <1>2, <1>11 DEF EditConvert
<1>12. CASE EditAutoChapters
  <2>1. CASE table = << >>
    BY <1>4, <1>12, <2>1 DEF EditAutoChapters
  <2>2. CASE table # << >> /\ Past # {}
    <3>1. pastend'
      BY <1>12, <2>2, AutoChaptersAdd
    <3>2. QED
      BY <3>1 DEF ChaptersKept
  <2>3. CASE table # << >> /\ Past = {} /\ ChapterOuts # << >>
    BY <1>2, <1>12, <2>3 DEF EditAutoChapters, Past
  <2>4. CASE table # << >> /\ Past = {} /\ ChapterOuts = << >>
    <3>1. list' = AddItems(list, Markers(FoundPics, "chapter")) /\ ~pastend'
      BY <1>12, <2>4, AutoChaptersAdd
    <3>2. UNCHANGED <<options, table, chapters>>
      BY <1>12, <2>4 DEF EditAutoChapters, Past
    <3>3. ChaptersFound = 0
      BY <2>4 DEF ChaptersFound
    <3>4. FoundPics \in [1 .. 0 -> Pics] /\ 0 \in Nat
      BY <1>1, <3>3, FoundPicsFacts
    <3>5. Markers(FoundPics, "chapter") = Markers(FoundPics, "bookmark")
      <4>1. DOMAIN FoundPics = {}
        BY <3>4
      <4>2. QED
        BY <4>1 DEF Markers
    <3>6. SameSelection(list, list') /\ SameChapters(list, list')
      BY <3>1, <3>4, <3>5, AddedNoChapters
    <3>7. pastend' = pastend
      BY <1>12, <3>1 DEF EditAutoChapters, IInv
    <3>8. QED
      BY <1>3, <3>2, <3>6, <3>7
  <2>5. QED
    BY <2>1, <2>2, <2>3, <2>4
<1>13. CASE DelCurrentEventItem
  <2>1. PICK i \in DOMAIN list :
          /\ list' = RemoveAt(list, i)
          /\ IF list[i].type = "bookmark" THEN UNCHANGED <<table, chapters>>
                                          ELSE UpdateTable
    BY <1>13 DEF DelCurrentEventItem
  <2>2. UNCHANGED <<options, pastend>>
    BY <1>13 DEF DelCurrentEventItem
  <2>3. CASE list[i].type = "bookmark"
    <3>1. /\ NoCut(list[i]) => SameSelection(list, list')
          /\ ToSet(list') \subseteq ToSet(list)
          /\ ToSet(list) \subseteq ToSet(list') \cup {list[i]}
      BY <1>1, <2>1, RemovedItem
    <3>2. SameSelection(list, list') /\ SameChapters(list, list')
      BY <2>3, <3>1 DEF NoCut, SameChapters
    <3>3. QED
      BY <1>3, <2>1, <2>2, <2>3, <3>2
  <2>4. CASE list[i].type # "bookmark"
    BY <1>2, <2>1, <2>2, <2>4
  <2>5. QED
    BY <2>3, <2>4
<1>14. CASE DeleteOthers
  BY <1>2, <1>14 DEF DeleteOthers
<1>15. CASE DeleteAll
  BY <1>2, <1>15 DEF DeleteAll
<1>16. CASE DeleteTypes
  <2>1. PICK types \in {{"start", "stop"}, {"chapter"}, {"bookmark"}} :
          /\ list' = Without(list, types)
          /\ IF types = {"bookmark"} THEN UNCHANGED <<table, chapters>> ELSE UpdateTable
    BY <1>16 DEF DeleteTypes
  <2>2. UNCHANGED <<options, pastend>>
    BY <1>16 DEF DeleteTypes
  <2>3. CASE types = {"bookmark"}
    <3>1. /\ SameSelection(list, list')
          /\ ToSet(list') = {item \in ToSet(list) : item.type \notin types}
      BY <1>1, <2>1, <2>3, WithoutFacts
    <3>2. SameChapters(list, list')
      BY <2>3, <3>1 DEF SameChapters
    <3>3. QED
      BY <1>3, <2>1, <2>2, <2>3, <3>1, <3>2
  <2>4. CASE types # {"bookmark"}
    BY <1>2, <2>1, <2>2, <2>4
  <2>5. QED
    BY <2>3, <2>4
<1>17. CASE ConvertItem
  BY <1>2, <1>17 DEF ConvertItem
<1>18. CASE ClickedGo2
  <2>1. UNCHANGED <<options, list, table, chapters>> /\ ~pastend
    BY <1>18 DEF ClickedGo2
  <2>2. pastend' \/ pastend' = pastend
    BY <2>1 DEF IInv
  <2>3. QED
    BY <1>4, <2>1, <2>2
<1>19. QED
  BY <1>5, <1>7, <1>8, <1>9, <1>10, <1>11, <1>12, <1>13, <1>14, <1>15, <1>16,
     <1>17, <1>18 DEF Next, Edit

(* Whatever is edited, in any order: unless a range is open from the begin *)
(* of the file or left open at the end, the printed chapter list has       *)
(* ascending positions in the exported file, one for every chapter marker  *)
(* on an exported picture and none without a marker, and an edit that does *)
(* not scan the list anew changes nothing of that                          *)
(* (updateQuickPictureLookupTable() and createChapterList(),               *)
(* tvclipper.cpp:607-634, 2533-2615).                                      *)
THEOREM ChaptersCorrect == Spec => []ChaptersMatchIfCut
<1>1. IInv /\ ChaptersKept => ChaptersMatchIfCut
  BY KeptIsMatch
<1>2. QED
  BY <1>1, InitKept, StepKept, EventListInvariant, PTL DEF Spec
=============================================================================
