--------------------------- MODULE IntroSort_proofs ---------------------------
(***************************************************************************)
(* That sort() sorts, keeps its elements, stays within its bounds and does *)
(* not recurse deeper than its limit, for inputs of any length.            *)
(***************************************************************************)
EXTENDS IntroSort, FiniteSetTheorems, WellFoundedInduction, TLAPS

(* The range as if an element that is held were in its hole, and the keys  *)
(* of what is there.  No step does more to it than exchange two elements,  *)
(* but InsertFirst.                                                        *)
whole == [x \in Elements |-> IF a[x] = Hole THEN val ELSE a[x]]
keyAt == [x \in Elements |-> key[whole[x]]]

hole == IF pc \in {"sift", "order"} THEN i ELSE j

Sinks == {"heap", "sift", "order"}
Partitions == {"up", "down", "meet"}
Insertions == {"insert", "first", "linear"}
Frames == [first : 0 .. n, last : 0 .. n, limit : Nat]

TypeOK ==
  /\ n \in 1 .. MaxN /\ key \in [Elements -> Keys]
  /\ a \in [Elements -> Elements \cup {Hole}]
  /\ pc \in {"loop", "done", "threw"} \cup Sinks \cup Partitions \cup Insertions
  /\ stack \in Seq(Frames)
  /\ i \in 0 .. n /\ j \in 0 .. n /\ root \in 0 .. n /\ pivot \in 0 .. n - 1
  /\ val \in Elements \cup {Hole}

-----------------------------------------------------------------------------
(* Orders of keys, w being a function from positions to keys.              *)

(* What lies before b is not greater than what lies from b on.             *)
Boundary(w, b) == \A x, y \in DOMAIN w : x < b /\ b <= y => w[x] <= w[y]

(* Elements from b on are in order with those a block or more before them. *)
Settled(w, b) ==
  \A x, y \in DOMAIN w : b <= y /\ y - x >= threshold => w[x] <= w[y]

SortedTo(w, m) == \A x, y \in 0 .. m - 1 : x < y => w[x] <= w[y]

(* Of [first, last), what lies from e on is in its place.                  *)
SortedTail(w, first, e, last) ==
  \A x, y \in first .. last - 1 : x < y /\ e <= y => w[x] <= w[y]

ChildOf(c, t) == c = 2 * t + 1 \/ c = 2 * t + 2

(* In the heap in [first, e), numbered from 0, the children of the parents *)
(* from r on, but for s, are not greater than they; and the children of s  *)
(* are not greater than its own parent.                                    *)
HeapExcept(w, first, e, r, s) ==
  \A t, c \in 0 .. e - first - 1 :
    ChildOf(c, t) /\ r <= t /\ t # s => w[first + c] <= w[first + t]
BelowParent(w, first, e, r, s) ==
  \A p, c \in 0 .. e - first - 1 :
    ChildOf(s, p) /\ ChildOf(c, s) /\ r <= p => w[first + c] <= w[first + p]
NoOne == -1

(* Nothing is lost and nothing is there twice.                             *)
Permuted(w) ==
  /\ \A x, y \in Elements : w[x] = w[y] => x = y
  /\ \A e \in Elements : \E x \in Elements : w[x] = e

-----------------------------------------------------------------------------
(* The inductive invariant.                                                *)

(* The hole is where the element that is held came from.                   *)
HeldInv ==
  IF pc = "threw"
  THEN val = Hole /\ \A x, y \in Elements : a[x] = a[y] => x = y
  ELSE /\ \A x \in Elements : a[x] = Hole <=> val # Hole /\ x = hole
       /\ val # Hole => pc \in {"sift", "order", "first", "linear"} /\ hole < n
       /\ pc \in {"first", "linear"} => val # Hole
       /\ Permuted(whole)

(* The frames cover a prefix of the range without gaps, the innermost one  *)
(* last, and each has charged its depth.                                   *)
StackInv ==
  /\ \A f \in 1 .. Len(stack) :
       /\ stack[f].first <= stack[f].last
       /\ stack[f].limit + Len(stack) - f <= limit_factor * log2(n)
       /\ f < Len(stack) => stack[f + 1].last = stack[f].first
       /\ f = Len(stack) => stack[f].first = 0
       /\ \A g \in 1 .. f - 1 : stack[f].last <= stack[g].first

(* The quicksort has put blocks in order: what lies behind the frames is   *)
(* settled, and the ends of frames are boundaries.                         *)
rest == IF stack = <<>> THEN 0 ELSE top.last
BlockInv ==
  pc \in {"loop"} \cup Sinks \cup Partitions =>
    /\ \A f \in 1 .. Len(stack) :
         Boundary(keyAt, stack[f].first) /\ Boundary(keyAt, stack[f].last)
    /\ Settled(keyAt, rest)

(* What the scans have passed is on its side of the pivot, and each has an *)
(* element before it that stops it.                                        *)
Partitioned(at, w, frame, x, y, g) ==
  LET first == frame.first  last == frame.last IN
  /\ frame.limit > 0 /\ last - first > threshold
  /\ first <= x /\ x < last /\ first <= y /\ y <= last
  /\ first <= g /\ g < last
  /\ \A s \in first .. x - 1 : w[s] <= w[g]
  /\ \A s \in y + 1 .. last - 1 : w[g] <= w[s]
  /\ at # "meet" /\ y < last => w[g] <= w[y]
  /\ at = "up" => \E s \in x .. last - 1 : w[g] <= w[s]
  /\ at # "up" => w[g] <= w[x]
  /\ at # "meet" => \E s \in first .. y - 1 : w[s] <= w[g]
  /\ at = "meet" => y < last /\ w[y] <= w[g]
PartitionInv ==
  pc \in Partitions => stack # <<>> /\ Partitioned(pc, keyAt, top, i, j, pivot)

(* A heap above which the parents from r on are in order, but for the      *)
(* element that sinks; behind it what was popped.                          *)
Heaped(at, w, frame, x, e, g, r) ==
  LET first == frame.first  last == frame.last IN
  /\ last - first > threshold
  /\ first < e /\ e <= last
  /\ 2 * r <= last - first /\ (r > 0 => e = last)
  /\ SortedTail(w, first, e, last)
  /\ at = "heap" => HeapExcept(w, first, e, r, NoOne)
  /\ at # "heap" =>
       /\ first + r <= x /\ x < e
       /\ HeapExcept(w, first, e, r, x - first)
       /\ BelowParent(w, first, e, r, x - first)
  /\ at = "order" =>
       /\ ChildOf(g - first, x - first) /\ g < e
       /\ \A c \in 0 .. e - first - 1 : ChildOf(c, x - first) => w[first + c] <= w[g]
HeapInv ==
  pc \in Sinks => stack # <<>> /\ Heaped(pc, keyAt, top, i, j, pivot, root)

(* A sorted prefix, the first of which is not greater than any element     *)
(* that will be inserted without a test; the one that is being inserted is *)
(* less than those it has passed and not less than the first.              *)
Inserted(at, w, x, y) ==
  /\ 1 <= x /\ (at # "insert" => x < n)
  /\ \A s \in Elements : threshold <= s /\ x < s => w[0] <= w[s]
  /\ at = "insert" =>
       /\ SortedTo(w, x)
       /\ threshold <= x /\ x < n => w[0] <= w[x]
       /\ x = 1 => Settled(w, 0)
  /\ at = "first" => y = x /\ SortedTo(w, x)
  /\ at = "linear" =>
       /\ 0 < y /\ y <= x
       /\ \A s, t \in 0 .. x : s < t /\ s # y /\ t # y => w[s] <= w[t]
       /\ \A s \in y + 1 .. x : w[y] < w[s]
       /\ w[0] <= w[y]
InsertInv ==
  /\ pc \in Insertions => stack = <<>> /\ Inserted(pc, keyAt, i, j)
  /\ pc = "done" => SortedTo(keyAt, n)

IInv ==
  /\ TypeOK /\ HeldInv /\ StackInv /\ BlockInv /\ PartitionInv /\ HeapInv
  /\ InsertInv
-----------------------------------------------------------------------------
(* Exchanging two elements.                                                *)
Swapped(w, p, q) == [w EXCEPT ![p] = w[q], ![q] = w[p]]

LEMMA SwapBoundary ==
  ASSUME NEW m \in Nat, NEW w \in [0 .. m - 1 -> Int],
         NEW p \in 0 .. m - 1, NEW q \in 0 .. m - 1, NEW b \in Int,
         p < b <=> q < b, Boundary(w, b)
  PROVE  Boundary(Swapped(w, p, q), b)
<1> DEFINE v == Swapped(w, p, q)
<1>1. v \in [0 .. m - 1 -> Int] /\ v[p] = w[q] /\ v[q] = w[p]
      /\ \A x \in 0 .. m - 1 : x # p /\ x # q => v[x] = w[x]
  BY DEF Swapped
<1> HIDE DEF v
<1> SUFFICES ASSUME NEW x \in 0 .. m - 1, NEW y \in 0 .. m - 1, x < b, b <= y
             PROVE  v[x] <= v[y]
  BY <1>1 DEF Boundary, v
<1>2. \A s, t \in 0 .. m - 1 : s < b /\ b <= t => w[s] <= w[t]
  BY DEF Boundary
<1>3. \E s \in 0 .. m - 1 : s < b /\ v[x] = w[s]
  BY <1>1
<1>4. \E t \in 0 .. m - 1 : b <= t /\ v[y] = w[t]
  <2>1. p < b \/ b <= p
    OBVIOUS
  <2>2. q < b \/ b <= q
    OBVIOUS
  <2>3. CASE y = p
    <3>1. b <= q
      BY <2>2, <2>3
    <3>2. QED
      BY <1>1, <2>3, <3>1
  <2>4. CASE y = q
    <3>1. b <= p
      BY <2>1, <2>4
    <3>2. QED
      BY <1>1, <2>4, <3>1
  <2>5. CASE y # p /\ y # q
    BY <1>1, <2>5
  <2>6. QED
    BY <2>3, <2>4, <2>5
<1>5. QED
  BY <1>2, <1>3, <1>4

LEMMA SwapSettled ==
  ASSUME NEW m \in Nat, NEW w \in [0 .. m - 1 -> Int],
         NEW p \in 0 .. m - 1, NEW q \in 0 .. m - 1, NEW b \in Int,
         p < b, q < b, Boundary(w, b), Settled(w, b)
  PROVE  Settled(Swapped(w, p, q), b)
<1> DEFINE v == Swapped(w, p, q)
<1>1. v \in [0 .. m - 1 -> Int] /\ v[p] = w[q] /\ v[q] = w[p]
      /\ \A x \in 0 .. m - 1 : x # p /\ x # q => v[x] = w[x]
  BY DEF Swapped
<1> HIDE DEF v
<1> SUFFICES ASSUME NEW x \in 0 .. m - 1, NEW y \in 0 .. m - 1, b <= y, y - x >= threshold
             PROVE  v[x] <= v[y]
  BY <1>1 DEF Settled, v
<1>2. \A s, t \in 0 .. m - 1 : s < b /\ b <= t => w[s] <= w[t]
  BY DEF Boundary
<1>3. w[x] <= w[y]
  BY DEF Settled
<1>4. QED
  BY <1>1, <1>2, <1>3, SMTT(30)

LEMMA SwapTail ==
  ASSUME NEW m \in Nat, NEW w \in [0 .. m - 1 -> Int],
         NEW first \in 0 .. m, NEW e \in 0 .. m, NEW last \in 0 .. m,
         NEW p \in first .. e - 1, NEW q \in first .. e - 1, e <= last,
         SortedTail(w, first, e, last)
  PROVE  SortedTail(Swapped(w, p, q), first, e, last)
<1> DEFINE v == Swapped(w, p, q)
<1>1. v \in [0 .. m - 1 -> Int] /\ v[p] = w[q] /\ v[q] = w[p]
      /\ \A x \in 0 .. m - 1 : x # p /\ x # q => v[x] = w[x]
  BY DEF Swapped
<1> HIDE DEF v
<1> SUFFICES ASSUME NEW x \in first .. last - 1, NEW y \in first .. last - 1, x < y, e <= y
             PROVE  v[x] <= v[y]
  BY <1>1 DEF SortedTail, v
<1>2. \A s, t \in first .. last - 1 : s < t /\ e <= t => w[s] <= w[t]
  BY DEF SortedTail
<1>6. /\ x \in 0 .. m - 1 /\ y \in 0 .. m - 1 /\ y # p /\ y # q
      /\ p \in first .. last - 1 /\ q \in first .. last - 1 /\ p < y /\ q < y
  OBVIOUS
<1>3. v[y] = w[y]
  BY <1>1, <1>6
<1>4. PICK z \in first .. last - 1 : z < y /\ v[x] = w[z]
  <2>1. CASE x = p
    BY <1>1, <1>6, <2>1
  <2>2. CASE x = q
    BY <1>1, <1>6, <2>2
  <2>3. CASE x # p /\ x # q
    <3>1. v[x] = w[x]
      BY <1>1, <1>6, <2>3
    <3>2. QED
      BY <3>1
  <2>4. QED
    BY <2>1, <2>2, <2>3
<1>5. QED
  BY <1>2, <1>3, <1>4

LEMMA SwapPermuted ==
  ASSUME n \in Nat, NEW w \in [Elements -> Elements], Permuted(w),
         NEW p \in Elements, NEW q \in Elements
  PROVE  Permuted(Swapped(w, p, q))
<1> DEFINE v == Swapped(w, p, q)
<1>1. v \in [Elements -> Elements] /\ v[p] = w[q] /\ v[q] = w[p]
      /\ \A x \in Elements : x # p /\ x # q => v[x] = w[x]
  BY DEF Swapped, Elements
<1> HIDE DEF v
<1>2. ASSUME NEW x \in Elements, NEW y \in Elements, v[x] = v[y] PROVE x = y
  BY <1>1, <1>2 DEF Permuted
<1>3. ASSUME NEW e \in Elements PROVE \E x \in Elements : v[x] = e
  <2>1. PICK x \in Elements : w[x] = e
    BY DEF Permuted
  <2>2. v[IF x = p THEN q ELSE IF x = q THEN p ELSE x] = e
    BY <1>1, <2>1
  <2>3. QED
    BY <2>2
<1>4. QED
  BY <1>2, <1>3 DEF Permuted, v
-----------------------------------------------------------------------------
(* Heaps.                                                                  *)

(* A set of natural numbers has a least one.                               *)
LEMMA LeastNumber ==
  ASSUME NEW T \in SUBSET Nat, T # {}
  PROVE  \E x \in T : \A y \in T : x <= y
<1> DEFINE R == {ss \in Nat \X Nat : ss[1] < ss[2]}
<1>1. IsWellFoundedOn(R, Nat)
  BY NatLessThanWellFounded DEF OpToRel
<1>2. \A y, x \in Nat : <<y, x>> \in R <=> y < x
  OBVIOUS
<1> HIDE DEF R
<1>3. PICK x \in T : \A y \in T : ~ (<<y, x>> \in R)
  BY <1>1, WFMin
<1>4. x \in Nat /\ T \subseteq Nat
  OBVIOUS
<1>5. \A y \in T : ~ (y < x)
  BY <1>2, <1>3, <1>4
<1>6. QED
  BY <1>4, <1>5

(* The first element of a heap is the greatest.                            *)
LEMMA RootIsGreatest ==
  ASSUME NEW m \in Nat, NEW w \in [0 .. m - 1 -> Int],
         NEW first \in 0 .. m, NEW e \in 0 .. m, first < e,
         HeapExcept(w, first, e, 0, NoOne)
  PROVE  \A x \in first .. e - 1 : w[x] <= w[first]
<1> DEFINE T == {s \in 0 .. e - first - 1 : ~(w[first + s] <= w[first])}
<1>1. SUFFICES ASSUME T # {} PROVE FALSE
  <2>1. T = {}
    BY <1>1
  <2>2. ASSUME NEW x \in first .. e - 1 PROVE w[x] <= w[first]
    <3>1. x - first \in 0 .. e - first - 1 /\ first + (x - first) = x
      OBVIOUS
    <3>2. QED
      BY <2>1, <3>1
  <2>3. QED
    BY <2>2
<1>2. PICK s \in T : \A y \in T : s <= y
  <2>1. T \in SUBSET Nat
    OBVIOUS
  <2>2. QED
    BY <1>1, <2>1, LeastNumber
<1>3. s \in 0 .. e - first - 1 /\ ~(w[first + s] <= w[first])
  OBVIOUS
<1>4. s # 0
  BY <1>3
<1>5. PICK p \in 0 .. s - 1 : ChildOf(s, p)
  <2>1. CASE \E t \in Int : s = 2 * t
    <3>1. PICK t \in Int : s = 2 * t
      BY <2>1
    <3>2. t - 1 \in 0 .. s - 1 /\ s = 2 * (t - 1) + 2
      BY <1>3, <1>4, <3>1
    <3>3. QED
      BY <3>2 DEF ChildOf
  <2>2. CASE \E t \in Int : s = 2 * t + 1
    <3>1. PICK t \in Int : s = 2 * t + 1
      BY <2>2
    <3>2. t \in 0 .. s - 1
      BY <1>3, <3>1
    <3>3. QED
      BY <3>1, <3>2 DEF ChildOf
  <2>3. s = 2 * (s \div 2) \/ s = 2 * (s \div 2) + 1
    BY <1>3
  <2>4. s \div 2 \in Int
    BY <1>3
  <2>5. QED
    BY <2>1, <2>2, <2>3, <2>4
<1>6. p \notin T /\ p \in 0 .. e - first - 1
  BY <1>2, <1>3, <1>5
<1>7. w[first + p] <= w[first]
  BY <1>6
<1>8. w[first + s] <= w[first + p]
  BY <1>3, <1>5, <1>6 DEF HeapExcept, NoOne
<1>9. first + p \in 0 .. m - 1 /\ first + s \in 0 .. m - 1 /\ first \in 0 .. m - 1
  BY <1>3, <1>6
<1>10. QED
  BY <1>3, <1>7, <1>8, <1>9

(* An element without a child, or whose greatest child is not greater,     *)
(* stays: the heap is whole.                                               *)
LEMMA SunkFarEnough ==
  ASSUME NEW m \in Nat, NEW w \in [0 .. m - 1 -> Int],
         NEW first \in 0 .. m, NEW e \in 0 .. m, NEW r \in Nat, NEW s \in Nat,
         HeapExcept(w, first, e, r, s),
         \A c \in 0 .. e - first - 1 : ChildOf(c, s) => w[first + c] <= w[first + s]
  PROVE  HeapExcept(w, first, e, r, NoOne)
  BY DEF HeapExcept, NoOne

(* The greater child moves up: the element sinks below it.                 *)
LEMMA SinkOne ==
  ASSUME NEW m \in Nat, NEW w \in [0 .. m - 1 -> Int],
         NEW first \in 0 .. m, NEW e \in 0 .. m, NEW r \in Nat,
         NEW s \in 0 .. e - first - 1, NEW g \in 0 .. e - first - 1,
         r <= s, ChildOf(g, s), w[first + s] <= w[first + g],
         \A c \in 0 .. e - first - 1 : ChildOf(c, s) => w[first + c] <= w[first + g],
         HeapExcept(w, first, e, r, s), BelowParent(w, first, e, r, s)
  PROVE  /\ HeapExcept(Swapped(w, first + s, first + g), first, e, r, g)
         /\ BelowParent(Swapped(w, first + s, first + g), first, e, r, g)
<1> DEFINE v == Swapped(w, first + s, first + g)
<1>1. first + s \in 0 .. m - 1 /\ first + g \in 0 .. m - 1 /\ s < g
  BY DEF ChildOf
<1>2. v \in [0 .. m - 1 -> Int] /\ v[first + s] = w[first + g] /\ v[first + g] = w[first + s]
      /\ \A x \in 0 .. m - 1 : x # first + s /\ x # first + g => v[x] = w[x]
  BY <1>1 DEF Swapped
<1>3. \A x \in 0 .. e - first - 1 : x # s /\ x # g => v[first + x] = w[first + x]
  <2>1. ASSUME NEW x \in 0 .. e - first - 1, x # s, x # g
        PROVE  first + x \in 0 .. m - 1 /\ first + x # first + s /\ first + x # first + g
    BY <2>1
  <2>2. QED
    BY <1>2, <2>1
<1> HIDE DEF v
<1>4. \A x \in 0 .. e - first - 1 : w[first + x] \in Int
  <2>1. \A x \in 0 .. e - first - 1 : first + x \in 0 .. m - 1
    OBVIOUS
  <2>2. QED
    BY <2>1
<1>5. ASSUME NEW t \in 0 .. e - first - 1, NEW c \in 0 .. e - first - 1,
             ChildOf(c, t), r <= t, t # g
      PROVE  v[first + c] <= v[first + t]
  <2>1. CASE t = s
    <3>1. c # s
      BY <1>5, <2>1 DEF ChildOf
    <3>2. CASE c = g
      BY <1>2, <2>1, <3>2
    <3>3. CASE c # g
      BY <1>2, <1>3, <1>5, <2>1, <3>1, <3>3
    <3>4. QED
      BY <3>2, <3>3
  <2>2. CASE t # s
    <3>1. v[first + t] = w[first + t]
      BY <1>3, <1>5, <2>2
    <3>2. w[first + c] <= w[first + t]
      BY <1>5, <2>2 DEF HeapExcept
    <3>3. c # g
      BY <1>5, <2>2 DEF ChildOf
    <3>4. CASE c = s
      <4>1. w[first + g] <= w[first + t]
        BY <1>5, <3>4 DEF BelowParent
      <4>2. QED
        BY <1>2, <3>1, <3>4, <4>1
    <3>5. CASE c # s
      BY <1>3, <3>1, <3>2, <3>3, <3>5
    <3>6. QED
      BY <3>4, <3>5
  <2>3. QED
    BY <2>1, <2>2
<1>6. ASSUME NEW p \in 0 .. e - first - 1, NEW c \in 0 .. e - first - 1,
             ChildOf(g, p), ChildOf(c, g), r <= p
      PROVE  v[first + c] <= v[first + p]
  <2>1. p = s /\ c # s /\ c # g
    BY <1>1, <1>6 DEF ChildOf
  <2>2. w[first + c] <= w[first + g]
    BY <1>1, <1>6 DEF HeapExcept
  <2>3. QED
    BY <1>2, <1>3, <2>1, <2>2
<1>7. QED
  BY <1>5, <1>6 DEF HeapExcept, BelowParent, v
-----------------------------------------------------------------------------
(* The range and the frames.                                               *)

LEMMA Numbers ==
  ASSUME TypeOK
  PROVE  /\ n \in Nat /\ n > 0 /\ Elements = 0 .. n - 1
         /\ i \in Int /\ j \in Int /\ pivot \in Int /\ root \in Nat
         /\ threshold \in Int /\ threshold >= 2
  BY IntroSortAssumption DEF TypeOK, Elements

LEMMA WholeType ==
  ASSUME TypeOK, HeldInv, pc # "threw"
  PROVE  /\ whole \in [Elements -> Elements]
         /\ keyAt \in [0 .. n - 1 -> Int]
<1>1. ASSUME NEW x \in Elements PROVE (IF a[x] = Hole THEN val ELSE a[x]) \in Elements
  <2>1. CASE a[x] = Hole
    BY <2>1 DEF HeldInv, TypeOK
  <2>2. CASE a[x] # Hole
    BY <2>2 DEF TypeOK
  <2>3. QED
    BY <2>1, <2>2
<1>2. whole \in [Elements -> Elements]
  BY <1>1 DEF whole
<1>3. \A e \in Elements : key[e] \in Int
  BY IntroSortAssumption DEF TypeOK
<1>4. \A x \in Elements : key[whole[x]] \in Int
  BY <1>2, <1>3
<1>5. QED
  BY <1>2, <1>4 DEF keyAt, Elements

(* Comparing two elements of the range, or one with the one held.          *)
LEMMA Compared ==
  ASSUME TypeOK, HeldInv, pc # "threw", NEW x \in Elements, NEW y \in Elements
  PROVE  /\ a[x] # Hole /\ a[y] # Hole => (less(a[x], a[y]) <=> keyAt[x] < keyAt[y])
         /\ a[x] = Hole /\ a[y] # Hole => (less(val, a[y]) <=> keyAt[x] < keyAt[y])
         /\ a[x] # Hole /\ a[y] = Hole => (less(a[x], val) <=> keyAt[x] < keyAt[y])
  BY DEF less, keyAt, whole

(* With nothing held there is no hole.                                     *)
LEMMA NoHole ==
  ASSUME TypeOK, HeldInv, pc # "threw", val = Hole
  PROVE  whole = a /\ \A x \in Elements : a[x] # Hole
  BY DEF whole, HeldInv, TypeOK

LEMMA SameWhole ==
  ASSUME whole' = whole, key' = key, n' = n
  PROVE  keyAt' = keyAt /\ (Permuted(whole) => Permuted(whole)')
  BY DEF keyAt, Permuted, Elements

LEMMA SwappedWhole ==
  ASSUME TypeOK, HeldInv, pc # "threw", key' = key, n' = n,
         NEW p \in Elements, NEW q \in Elements, whole' = Swapped(whole, p, q)
  PROVE  keyAt' = Swapped(keyAt, p, q) /\ Permuted(whole)'
<1>1. whole \in [Elements -> Elements] /\ keyAt \in [Elements -> Int]
  BY WholeType, Numbers
<1>2. Permuted(Swapped(whole, p, q))
  BY <1>1, Numbers, SwapPermuted DEF HeldInv
<1>3. Permuted(whole)'
  BY <1>2 DEF Permuted, Elements
<1>4. \A x \in Elements : keyAt'[x] = key[Swapped(whole, p, q)[x]]
  BY DEF keyAt, Elements
<1>5. \A x \in Elements : Swapped(whole, p, q)[x] =
        IF x = q THEN whole[p] ELSE IF x = p THEN whole[q] ELSE whole[x]
  BY <1>1 DEF Swapped
<1>6. \A x \in Elements : Swapped(keyAt, p, q)[x] =
        IF x = q THEN keyAt[p] ELSE IF x = p THEN keyAt[q] ELSE keyAt[x]
  BY <1>1 DEF Swapped
<1>7. \A x \in Elements : keyAt[x] = key[whole[x]]
  BY DEF keyAt
<1>8. \A x \in Elements : keyAt'[x] = Swapped(keyAt, p, q)[x]
  BY <1>4, <1>5, <1>6, <1>7
<1>9. keyAt' = [x \in Elements |-> keyAt'[x]] /\ Swapped(keyAt, p, q) = [x \in Elements |-> Swapped(keyAt, p, q)[x]]
  BY <1>1 DEF keyAt, Elements, Swapped
<1>10. QED
  BY <1>3, <1>8, <1>9

LEMMA EmptyLength == Len(<<>>) = 0
  OBVIOUS

LEMMA StackTop ==
  ASSUME TypeOK, StackInv, stack # <<>>
  PROVE  /\ Len(stack) \in Nat \ {0} /\ top = stack[1] /\ top \in Frames /\ rest = top.last
         /\ top.first \in 0 .. n /\ top.last \in 0 .. n /\ top.limit \in Nat
         /\ top.first <= top.last
         /\ Tail(stack) \in Seq(Frames) /\ Len(Tail(stack)) = Len(stack) - 1
         /\ \A f \in 1 .. Len(stack) - 1 : Tail(stack)[f] = stack[f + 1]
         /\ \A f \in 1 .. Len(stack) : stack[f] \in Frames
<1>1. stack \in Seq(Frames)
  BY DEF TypeOK
<1>2. Len(stack) \in Nat \ {0} /\ (\A f \in 1 .. Len(stack) : stack[f] \in Frames)
      /\ top = stack[1] /\ rest = top.last
  BY <1>1 DEF top, rest
<1>3. Tail(stack) \in Seq(Frames) /\ Len(Tail(stack)) = Len(stack) - 1
      /\ \A f \in 1 .. Len(stack) - 1 : Tail(stack)[f] = stack[f + 1]
  BY <1>1
<1>4. top \in Frames /\ top.first <= top.last
  BY <1>2 DEF StackInv
<1>5. QED
  BY <1>2, <1>3, <1>4 DEF Frames

LEMMA StackKept ==
  ASSUME StackInv, stack' = stack, n' = n
  PROVE  StackInv' /\ rest' = rest /\ top' = top
  BY DEF StackInv, rest, top

LEMMA StackPopped ==
  ASSUME TypeOK, StackInv, stack # <<>>, stack' = Tail(stack), n' = n
  PROVE  StackInv' /\ stack' \in Seq(Frames)' /\ rest' = top.first
<1>1. /\ Len(stack) \in Nat \ {0} /\ top = stack[1]
      /\ stack' \in Seq(Frames) /\ Len(stack') = Len(stack) - 1
      /\ \A f \in 1 .. Len(stack) - 1 : stack'[f] = stack[f + 1]
  BY StackTop
<1>2. \A f \in 1 .. Len(stack) : stack[f] \in Frames
  BY StackTop
<1>3. ASSUME NEW f \in 1 .. Len(stack')
      PROVE  /\ stack'[f].first <= stack'[f].last
             /\ stack'[f].limit + Len(stack') - f <= limit_factor * log2(n)
             /\ f < Len(stack') => stack'[f + 1].last = stack'[f].first
             /\ f = Len(stack') => stack'[f].first = 0
             /\ \A g \in 1 .. f - 1 : stack'[f].last <= stack'[g].first
  <2>1. f + 1 \in 1 .. Len(stack) /\ stack'[f] = stack[f + 1]
        /\ (f < Len(stack') => f + 2 \in 1 .. Len(stack) /\ stack'[f + 1] = stack[f + 2])
    BY <1>1
  <2>2. stack[f + 1].limit \in Nat /\ stack[f + 1].limit + Len(stack) - (f + 1) <= limit_factor * log2(n)
    BY <1>2, <2>1 DEF StackInv, Frames
  <2>3. stack'[f].limit + Len(stack') - f = stack[f + 1].limit + Len(stack) - (f + 1)
    BY <1>1, <2>1, <2>2
  <2>6. stack[f + 1].first <= stack[f + 1].last
        /\ (f + 1 < Len(stack) => stack[f + 2].last = stack[f + 1].first)
        /\ (f + 1 = Len(stack) => stack[f + 1].first = 0)
    <3>1. \A g \in 1 .. Len(stack) :
            /\ stack[g].first <= stack[g].last
            /\ g < Len(stack) => stack[g + 1].last = stack[g].first
            /\ g = Len(stack) => stack[g].first = 0
      BY DEF StackInv
    <3>2. (f + 1) + 1 = f + 2
      OBVIOUS
    <3>3. QED
      BY <2>1, <3>1, <3>2
  <2>4. ASSUME NEW g \in 1 .. f - 1 PROVE stack'[f].last <= stack'[g].first
    <3>1. g + 1 \in 1 .. (f + 1) - 1 /\ stack'[g] = stack[g + 1]
      BY <1>1
    <3>2. stack[f + 1].last <= stack[g + 1].first
      BY <2>1, <3>1 DEF StackInv
    <3>3. QED
      BY <2>1, <3>1, <3>2
  <2>5. QED
    <3>1. stack'[f].first <= stack'[f].last
      BY <2>1, <2>6
    <3>5. ASSUME f = Len(stack') PROVE stack'[f].first = 0
      <4>1. f + 1 = Len(stack)
        BY <1>1, <3>5
      <4>2. QED
        BY <2>1, <2>6, <4>1
    <3>2. ASSUME f < Len(stack') PROVE stack'[f + 1].last = stack'[f].first
      <4>1. f + 1 < Len(stack)
        BY <1>1, <3>2
      <4>2. stack'[f] = stack[f + 1] /\ stack'[f + 1] = stack[f + 2]
        BY <2>1, <3>2
      <4>3. QED
        BY <2>6, <4>1, <4>2
    <3>3. stack'[f].limit + Len(stack') - f <= limit_factor * log2(n)
      BY <2>2, <2>3
    <3>4. QED
      BY <2>4, <3>1, <3>2, <3>3, <3>5
<1>4. StackInv'
  BY <1>3 DEF StackInv, log2
<1>5. rest' = top.first
  <2>1. CASE stack' = <<>>
    <3>1. Len(stack') = 0
      BY <2>1, EmptyLength
    <3>3. Len(stack) = 1
      BY <1>1, <3>1
    <3>2. QED
      BY <1>1, <2>1, <3>3 DEF StackInv, rest
  <2>2. CASE stack' # <<>>
    <3>1. Len(stack') # 0
      BY <1>1, <2>2
    <3>2. stack'[1] = stack[2] /\ Len(stack) > 1
      BY <1>1, <3>1
    <3>3. stack[2].last = stack[1].first
      <4>1. \A g \in 1 .. Len(stack) : g < Len(stack) => stack[g + 1].last = stack[g].first
        BY DEF StackInv
      <4>2. 1 \in 1 .. Len(stack) /\ 1 + 1 = 2
        BY <1>1
      <4>3. QED
        BY <3>2, <4>1, <4>2
    <3>4. rest' = stack'[1].last
      BY <2>2 DEF rest, top
    <3>5. QED
      BY <1>1, <3>2, <3>3, <3>4
  <2>3. QED
    BY <2>1, <2>2
<1>6. QED
  BY <1>1, <1>4, <1>5 DEF Frames

(* The frames are as before, and so are the keys, or two of them in the    *)
(* innermost frame are exchanged.                                          *)
LEMMA BlocksKept ==
  ASSUME BlockInv, pc \in {"loop"} \cup Sinks \cup Partitions,
         stack' = stack, n' = n, keyAt' = keyAt
  PROVE  BlockInv'
<1>1. rest' = rest
  BY DEF rest, top
<1>2. QED
  BY <1>1 DEF BlockInv, Boundary, Settled

LEMMA BlocksSwapped ==
  ASSUME TypeOK, HeldInv, StackInv, BlockInv, pc \in Sinks \cup Partitions, stack # <<>>,
         stack' = stack, n' = n,
         NEW p \in Elements, NEW q \in Elements,
         top.first <= p, p < top.last, top.first <= q, q < top.last,
         keyAt' = Swapped(keyAt, p, q)
  PROVE  BlockInv'
<1>1. pc # "threw" /\ pc \in {"loop"} \cup Sinks \cup Partitions
  BY DEF Sinks, Partitions
<1>2. keyAt \in [0 .. n - 1 -> Int] /\ n \in Nat /\ p \in 0 .. n - 1 /\ q \in 0 .. n - 1
  BY <1>1, WholeType, Numbers
<1>3. rest' = top.last /\ rest = top.last
  BY DEF rest, top
<1>4. ASSUME NEW f \in 1 .. Len(stack)
      PROVE  /\ Boundary(Swapped(keyAt, p, q), stack[f].first)
             /\ Boundary(Swapped(keyAt, p, q), stack[f].last)
  <2>1. stack[f].first \in 0 .. n /\ stack[f].last \in 0 .. n /\ top = stack[1]
        /\ Len(stack) \in Nat \ {0} /\ top.first \in 0 .. n /\ top.last \in 0 .. n
    BY StackTop DEF Frames
  <2>2. stack[f].first <= stack[f].last /\ (f # 1 => stack[f].last <= stack[1].first)
    <3>1. f # 1 => 1 \in 1 .. f - 1
      OBVIOUS
    <3>2. QED
      BY <3>1 DEF StackInv
  <2>3. (p < stack[f].first <=> q < stack[f].first) /\ (p < stack[f].last <=> q < stack[f].last)
    <3>1. CASE f = 1
      <4>1. stack[f].first <= p /\ stack[f].first <= q /\ p < stack[f].last /\ q < stack[f].last
        BY <2>1, <3>1
      <4>2. \A s, t \in Int : s <= t => ~(t < s)
        OBVIOUS
      <4>3. p \in Int /\ q \in Int /\ stack[f].first \in Int
        BY <1>2, <2>1
      <4>4. QED
        BY <4>1, <4>2, <4>3
    <3>2. CASE f # 1
      <4>1. stack[f].last <= top.first
        BY <2>1, <2>2, <3>2
      <4>2. \A s, t, u, x \in Int : s <= t /\ t <= u /\ u <= x => ~(x < s) /\ ~(x < t)
        OBVIOUS
      <4>3. /\ p \in Int /\ q \in Int /\ top.first \in Int
            /\ stack[f].first \in Int /\ stack[f].last \in Int
        BY <1>2, <2>1
      <4>4. /\ ~(p < stack[f].first) /\ ~(p < stack[f].last)
            /\ ~(q < stack[f].first) /\ ~(q < stack[f].last)
        BY <2>2, <4>1, <4>2, <4>3
      <4>5. QED
        BY <4>4
    <3>3. QED
      BY <3>1, <3>2
  <2>4. Boundary(keyAt, stack[f].first) /\ Boundary(keyAt, stack[f].last)
    BY <1>1 DEF BlockInv
  <2>5. \A b \in Int : (p < b <=> q < b) /\ Boundary(keyAt, b) => Boundary(Swapped(keyAt, p, q), b)
    BY <1>2, SwapBoundary
  <2>6. stack[f].first \in Int /\ stack[f].last \in Int
    BY <2>1
  <2>7. QED
    BY <2>3, <2>4, <2>5, <2>6
<1>5. Settled(Swapped(keyAt, p, q), top.last)
  <2>1. Boundary(keyAt, top.last) /\ Settled(keyAt, top.last)
    BY <1>1, <1>3, StackTop DEF BlockInv
  <2>2. top.last \in Int
    BY StackTop
  <2>3. QED
    BY <1>2, <2>1, <2>2, SwapSettled
<1>6. QED
  BY <1>3, <1>4, <1>5 DEF BlockInv, Boundary, Settled

(* A frame whose elements are settled among themselves is left.            *)
LEMMA BlockLeft ==
  ASSUME TypeOK, HeldInv, StackInv, BlockInv, stack # <<>>,
         pc \in {"loop", "heap"}, pc' = "loop", stack' = Tail(stack), n' = n, keyAt' = keyAt,
         \A x, y \in top.first .. top.last - 1 : y - x >= threshold => keyAt[x] <= keyAt[y]
  PROVE  BlockInv'
<1>1. pc # "threw" /\ pc \in {"loop"} \cup Sinks \cup Partitions
  BY DEF Sinks, Partitions
<1>2. keyAt \in [0 .. n - 1 -> Int] /\ n \in Nat /\ threshold \in Int /\ threshold >= 2
  BY <1>1, WholeType, Numbers
<1>3. rest' = top.first
  BY StackPopped
<1>4. top.first \in 0 .. n /\ top.last \in 0 .. n /\ top = stack[1] /\ rest = top.last
      /\ Len(stack) \in Nat \ {0} /\ Len(stack') = Len(stack) - 1
      /\ \A f \in 1 .. Len(stack) - 1 : stack'[f] = stack[f + 1]
  BY StackTop
<1>5. Settled(keyAt, top.last) /\ Boundary(keyAt, top.first) /\ Boundary(keyAt, top.last)
  BY <1>1, <1>4 DEF BlockInv
<1>6. Settled(keyAt, top.first)
  <2> SUFFICES ASSUME NEW x \in 0 .. n - 1, NEW y \in 0 .. n - 1,
                      top.first <= y, y - x >= threshold
               PROVE  keyAt[x] <= keyAt[y]
    BY <1>2 DEF Settled
  <2>1. CASE top.last <= y
    BY <1>2, <1>5, <2>1 DEF Settled
  <2>2. CASE x < top.first
    BY <1>2, <1>5, <2>2 DEF Boundary
  <2>3. CASE y < top.last /\ top.first <= x
    <3>1. x \in top.first .. top.last - 1 /\ y \in top.first .. top.last - 1
      BY <1>2, <1>4, <2>3
    <3>2. QED
      BY <3>1
  <2>4. QED
    BY <1>4, <2>1, <2>2, <2>3
<1>7. \A f \in 1 .. Len(stack') : Boundary(keyAt, stack'[f].first) /\ Boundary(keyAt, stack'[f].last)
  <2> SUFFICES ASSUME NEW f \in 1 .. Len(stack')
               PROVE  Boundary(keyAt, stack'[f].first) /\ Boundary(keyAt, stack'[f].last)
    OBVIOUS
  <2>1. f + 1 \in 1 .. Len(stack) /\ stack'[f] = stack[f + 1]
    BY <1>4
  <2>2. QED
    BY <1>1, <2>1 DEF BlockInv
<1>8. QED
  BY <1>3, <1>6, <1>7 DEF BlockInv, Boundary, Settled
-----------------------------------------------------------------------------
(* The steps: first the initial states and what leaves the elements alone. *)

LEMMA LogType == ASSUME NEW m \in Nat PROVE log2(m) \in Nat
<1>1. IsFiniteSet(1 .. m)
  BY FS_Interval
<1>2. IsFiniteSet({k \in 1 .. m : 2^k <= m})
  BY <1>1, FS_Subset
<1>3. QED
  BY <1>2, FS_CardinalityType DEF log2

LEMMA Start == Init => IInv
<1> SUFFICES ASSUME Init PROVE IInv
  OBVIOUS
<1>1. /\ n \in 1 .. MaxN /\ n \in Nat /\ n > 0 /\ MaxN \in Nat /\ Keys \subseteq Int
      /\ key \in [Elements -> Keys] /\ pc = "loop" /\ val = Hole
      /\ Elements = 0 .. n - 1 /\ \A x \in Elements : a[x] = x /\ x # Hole
  BY IntroSortAssumption DEF Init, Elements
<1> DEFINE limit == limit_factor * log2(n)
<1>2. limit \in Nat
  <2>1. log2(n) \in Nat /\ limit_factor \in Nat
    BY <1>1, LogType, IntroSortAssumption
  <2>2. QED
    BY <2>1
<1> HIDE DEF limit
<1>3. stack = <<Frame(0, n, limit)>> /\ Frame(0, n, limit) \in Frames
  BY <1>1, <1>2 DEF Init, Frame, Frames, limit
<1>4. /\ stack \in Seq(Frames) /\ Len(stack) = 1 /\ stack # <<>>
      /\ stack[1].first = 0 /\ stack[1].last = n /\ stack[1].limit = limit
  BY <1>3 DEF Frame
<1>5. TypeOK
  BY <1>1, <1>4 DEF Init, TypeOK
<1>6. HeldInv
  <2>1. a \in [Elements -> Elements] /\ whole = [x \in Elements |-> x]
    BY <1>1 DEF Init, whole
  <2>2. Permuted(whole)
    BY <2>1 DEF Permuted
  <2>3. QED
    BY <1>1, <2>2 DEF HeldInv
<1>7. StackInv
  BY <1>1, <1>2, <1>4 DEF StackInv, limit
<1>8. BlockInv
  <2>1. rest = n /\ DOMAIN keyAt = 0 .. n - 1
    BY <1>1, <1>4 DEF rest, top, keyAt
  <2>2. Boundary(keyAt, 0) /\ Boundary(keyAt, n) /\ Settled(keyAt, n)
    BY <1>1, <2>1 DEF Boundary, Settled
  <2>3. QED
    BY <1>4, <2>1, <2>2 DEF BlockInv
<1>9. PartitionInv /\ HeapInv /\ InsertInv
  BY <1>1 DEF PartitionInv, HeapInv, InsertInv, Sinks, Partitions, Insertions
<1>10. QED
  BY <1>5, <1>6, <1>7, <1>8, <1>9 DEF IInv

(* Between two moves nothing is held.                                      *)
LEMMA NothingHeld ==
  ASSUME TypeOK, HeldInv, pc # "threw", pc \notin {"sift", "order", "first", "linear"}
  PROVE  val = Hole /\ whole = a /\ \A x \in Elements : a[x] # Hole
<1>1. val = Hole
  BY DEF HeldInv
<1>2. QED
  BY <1>1, NoHole

(* Steps that move no element.                                             *)
LEMMA PlainStep ==
  ASSUME a' = a, val' = val, n' = n, key' = key
  PROVE  whole' = whole /\ keyAt' = keyAt
  BY DEF whole, keyAt, Elements

LEMMA HeldPlain ==
  ASSUME HeldInv, pc # "threw", val = Hole, a' = a, val' = val, n' = n, key' = key,
         pc' \notin {"threw", "first", "linear"}
  PROVE  HeldInv'
<1>1. whole' = whole
  BY PlainStep
<1>2. QED
  BY <1>1 DEF HeldInv, Permuted, Elements

LEMMA LeaveBlockStep == ASSUME IInv, LeaveBlock PROVE IInv'
<1>1. /\ TypeOK /\ HeldInv /\ StackInv /\ BlockInv
      /\ pc = "loop" /\ pc' = "loop" /\ stack # <<>> /\ stack' = Tail(stack)
      /\ top.last - top.first <= threshold
      /\ n' = n /\ key' = key /\ a' = a /\ val' = val /\ val = Hole
  BY NothingHeld DEF IInv, LeaveBlock, input
<1>2. keyAt' = keyAt /\ HeldInv'
  BY <1>1, PlainStep, HeldPlain
<1>3. StackInv' /\ stack' \in Seq(Frames)'
  BY <1>1, StackPopped
<1>4. BlockInv'
  <2>1. \A x, y \in top.first .. top.last - 1 : ~(y - x >= threshold)
    <3>1. /\ top.first \in Int /\ top.last \in Int /\ threshold \in Int
          /\ top.last - top.first <= threshold
      BY <1>1, StackTop, Numbers
    <3>2. \A f, g, h \in Int : g - f <= h => \A x, y \in f .. g - 1 : ~(y - x >= h)
      OBVIOUS
    <3>3. QED
      BY <3>1, <3>2
  <2>2. QED
    BY <1>1, <1>2, <2>1, BlockLeft
<1>5. TypeOK'
  BY <1>1, <1>3 DEF TypeOK, Elements, LeaveBlock, Sinks, Partitions, Insertions
<1>6. (PartitionInv /\ HeapInv /\ InsertInv)'
  BY <1>1 DEF PartitionInv, HeapInv, InsertInv, Sinks, Partitions, Insertions
<1>7. QED
  BY <1>2, <1>3, <1>4, <1>5, <1>6 DEF IInv

LEMMA Half ==
  ASSUME NEW d \in Nat
  PROVE  d \div 2 \in Nat /\ 2 * (d \div 2) <= d /\ d <= 2 * (d \div 2) + 1
  OBVIOUS

LEMMA BeginHeapStep == ASSUME IInv, BeginHeap PROVE IInv'
<1>1. /\ TypeOK /\ HeldInv /\ StackInv /\ BlockInv
      /\ pc = "loop" /\ pc' = "heap" /\ stack # <<>> /\ stack' = stack
      /\ top.last - top.first > threshold
      /\ n' = n /\ key' = key /\ a' = a /\ val' = val /\ val = Hole
      /\ j' = top.last /\ root' = (top.last - top.first) \div 2
  BY NothingHeld DEF IInv, BeginHeap, input
<1>2. keyAt' = keyAt /\ HeldInv' /\ StackInv' /\ BlockInv' /\ top' = top
  BY <1>1, PlainStep, HeldPlain, StackKept, BlocksKept
<1>3. top.first \in 0 .. n /\ top.last \in 0 .. n /\ n \in Nat /\ threshold \in Int /\ threshold >= 2
      /\ top.first <= top.last
  BY <1>1, StackTop, Numbers
<1>4. root' \in 0 .. n /\ 2 * root' <= top.last - top.first
      /\ top.last - top.first <= 2 * root' + 1
  <2>1. top.last - top.first \in Nat /\ top.last - top.first <= n
    BY <1>3
  <2>2. root' \in Nat /\ 2 * root' <= top.last - top.first
        /\ top.last - top.first <= 2 * root' + 1
    BY <1>1, <2>1, Half
  <2>3. QED
    BY <1>3, <2>2
<1>5. TypeOK'
  BY <1>1, <1>3, <1>4 DEF TypeOK, Frames, Elements, BeginHeap, Sinks, Partitions, Insertions
<1>6. HeapInv'
  <2>1. SortedTail(keyAt, top.first, top.last, top.last)
    BY <1>3 DEF SortedTail
  <2>2. HeapExcept(keyAt, top.first, top.last, root', NoOne)
    BY <1>3, <1>4 DEF HeapExcept, ChildOf
  <2>3. QED
    BY <1>1, <1>2, <1>3, <1>4, <2>1, <2>2 DEF HeapInv, Heaped, Sinks
<1>7. (PartitionInv /\ InsertInv)'
  BY <1>1 DEF PartitionInv, InsertInv, Sinks, Partitions, Insertions
<1>8. QED
  BY <1>2, <1>5, <1>6, <1>7 DEF IInv

LEMMA SiftParentStep == ASSUME IInv, SiftParent PROVE IInv'
<1> DEFINE first == top.first
<1>1. /\ TypeOK /\ HeldInv /\ StackInv /\ BlockInv /\ HeapInv
      /\ pc = "heap" /\ pc' = "sift" /\ stack' = stack /\ root > 0
      /\ n' = n /\ key' = key /\ a' = a /\ val' = val /\ val = Hole
      /\ j' = j /\ root' = root - 1 /\ i' = first + root - 1
  BY NothingHeld DEF IInv, SiftParent, input
<1>2. keyAt' = keyAt /\ HeldInv' /\ StackInv' /\ BlockInv' /\ top' = top
  BY <1>1, PlainStep, HeldPlain, StackKept, BlocksKept DEF Sinks
<1>3. /\ stack # <<>> /\ top.last - first > threshold /\ first < j /\ j <= top.last
      /\ 2 * root <= top.last - first /\ j = top.last
      /\ SortedTail(keyAt, first, j, top.last) /\ HeapExcept(keyAt, first, j, root, NoOne)
  BY <1>1 DEF HeapInv, Heaped, Sinks
<1>4. first \in 0 .. n /\ top.last \in 0 .. n /\ n \in Nat /\ threshold \in Int /\ threshold >= 2
      /\ root \in Nat /\ j \in Int
  BY <1>1, <1>3, StackTop, Numbers
<1>5. TypeOK'
  <2>1. i' \in 0 .. n /\ root' \in 0 .. n
    <3>1. root - 1 \in Nat /\ 2 * root <= top.last - first
      BY <1>1, <1>3, <1>4
    <3>2. \A f, g \in 0 .. n : \A h \in Nat :
            h > 0 /\ 2 * h <= g - f => f + h - 1 \in 0 .. n /\ h - 1 \in 0 .. n
      BY <1>4
    <3>3. QED
      BY <1>1, <1>4, <3>1, <3>2
  <2>2. QED
    BY <1>1, <2>1 DEF TypeOK, Frames, Elements, SiftParent, Sinks, Partitions, Insertions
<1> HIDE DEF first
<1>6. HeapInv'
  <2>1. i' - first = root - 1
    BY <1>1, <1>4
  <2>2. HeapExcept(keyAt, first, j, root - 1, root - 1)
    BY <1>3, <1>4 DEF HeapExcept, NoOne
  <2>3. BelowParent(keyAt, first, j, root - 1, root - 1)
    BY <1>4 DEF BelowParent, ChildOf
  <2>4. /\ first + root' <= i' /\ i' < j
        /\ 2 * root' < top.last - first
    BY <1>1, <1>3, <1>4
  <2>5. Heaped("sift", keyAt, top, i', j, pivot, root')
    BY <1>1, <1>3, <1>4, <2>1, <2>2, <2>3, <2>4 DEF Heaped, first
  <2>6. QED
    BY <1>1, <1>2, <1>3, <2>5 DEF HeapInv, SiftParent
<1>7. (PartitionInv /\ InsertInv)'
  BY <1>1 DEF PartitionInv, InsertInv, Sinks, Partitions, Insertions
<1>8. QED
  BY <1>2, <1>5, <1>6, <1>7 DEF IInv
-----------------------------------------------------------------------------
(* The heap sort.                                                          *)

(* Exchanging two elements of the range.                                   *)
LEMMA SwapHeld ==
  ASSUME TypeOK, HeldInv, pc \notin {"threw", "sift", "order", "first", "linear"},
         pc' \notin {"threw", "first", "linear"}, n' = n, key' = key, val' = val,
         NEW p \in Elements, NEW q \in Elements, a' = Swapped(a, p, q)
  PROVE  /\ HeldInv' /\ keyAt' = Swapped(keyAt, p, q)
         /\ a' \in [Elements -> Elements \cup {Hole}]
<1>1. val = Hole /\ whole = a /\ \A x \in Elements : a[x] # Hole
  BY NothingHeld
<1>2. pc # "threw" /\ a \in [Elements -> Elements] /\ Elements' = Elements
  BY <1>1, WholeType DEF Elements
<1>3. a' \in [Elements -> Elements] /\ \A x \in Elements : a'[x] # Hole
  BY <1>1, <1>2 DEF Swapped
<1>4. whole' = a'
  BY <1>2, <1>3 DEF whole
<1>5. keyAt' = Swapped(keyAt, p, q) /\ Permuted(whole)'
  BY <1>1, <1>2, <1>4, SwappedWhole
<1>6. HeldInv'
  BY <1>1, <1>2, <1>3, <1>5 DEF HeldInv
<1>7. QED
  BY <1>3, <1>5, <1>6

(* The element that sinks comes to rest.                                   *)
LEMMA SettleStep ==
  ASSUME TypeOK, HeldInv, pc \in {"sift", "order"}, i \in Elements, Settle,
         pc' = "heap", n' = n, key' = key
  PROVE  HeldInv' /\ keyAt' = keyAt /\ a' \in [Elements -> Elements \cup {Hole}] /\ val' = Hole
<1>1. /\ pc # "threw" /\ hole = i /\ Elements' = Elements
      /\ \A x \in Elements : a[x] = Hole <=> val # Hole /\ x = i
  BY DEF HeldInv, hole, Elements
<1>2. sinking = whole[i] /\ whole \in [Elements -> Elements] /\ Hole \notin Elements
  BY <1>1, WholeType, IntroSortAssumption DEF sinking, whole, Elements
<1>3. a' = [a EXCEPT ![i] = sinking] /\ val' = Hole /\ a \in [Elements -> Elements \cup {Hole}]
  BY DEF Settle, TypeOK
<1>4. \A x \in Elements : a'[x] = whole[x] /\ a'[x] # Hole
  BY <1>1, <1>2, <1>3 DEF whole
<1>5. a' \in [Elements -> Elements \cup {Hole}]
  BY <1>2, <1>3
<1>6. whole' = whole
  BY <1>1, <1>4 DEF whole
<1>7. keyAt' = keyAt /\ Permuted(whole)'
  BY <1>1, <1>6, SameWhole DEF HeldInv
<1>8. HeldInv'
  BY <1>1, <1>3, <1>4, <1>7 DEF HeldInv
<1>9. QED
  BY <1>3, <1>5, <1>7, <1>8

LEMMA PopHeapStep == ASSUME IInv, PopHeap PROVE IInv'
<1> DEFINE first == top.first  last == top.last
<1>1. /\ TypeOK /\ HeldInv /\ StackInv /\ BlockInv /\ HeapInv
      /\ pc = "heap" /\ pc' = "sift" /\ stack' = stack /\ root = 0 /\ root' = 0
      /\ j - first > 1
      /\ n' = n /\ key' = key /\ a' = Swapped(a, first, j - 1) /\ val' = val
      /\ j' = j - 1 /\ i' = first /\ pivot' = pivot
  BY DEF IInv, PopHeap, input, iter_swap, Swapped
<1>2. /\ stack # <<>> /\ last - first > threshold /\ first < j /\ j <= last
      /\ SortedTail(keyAt, first, j, last) /\ HeapExcept(keyAt, first, j, 0, NoOne)
  BY <1>1 DEF HeapInv, Heaped, Sinks
<1>3. /\ first \in 0 .. n /\ last \in 0 .. n /\ n \in Nat /\ threshold \in Int /\ threshold >= 2
      /\ j \in 0 .. n /\ keyAt \in [0 .. n - 1 -> Int] /\ Elements = 0 .. n - 1
  BY <1>1, <1>2, StackTop, Numbers, WholeType DEF TypeOK
<1>4. first \in Elements /\ j - 1 \in Elements
  BY <1>1, <1>2, <1>3
<1>5. /\ HeldInv' /\ keyAt' = Swapped(keyAt, first, j - 1)
      /\ a' \in [Elements -> Elements \cup {Hole}]
  BY <1>1, <1>4, SwapHeld
<1>6. StackInv' /\ top' = top
  BY <1>1, StackKept
<1>7. BlockInv'
  <2>1. first <= first /\ first < last /\ first <= j - 1 /\ j - 1 < last
    <3>1. \A f, g, h \in 0 .. n : f < h /\ h <= g =>
            f <= f /\ f < g /\ f <= h - 1 /\ h - 1 < g
      BY <1>3
    <3>2. QED
      BY <1>2, <1>3, <3>1
  <2>2. QED
    BY <1>1, <1>2, <1>4, <1>5, <2>1, BlocksSwapped DEF Sinks
<1>8. TypeOK'
  BY <1>1, <1>3, <1>5, SMTT(30) DEF TypeOK, Frames, Elements, Sinks, Partitions, Insertions
<1> HIDE DEF first, last
<1>9. HeapInv'
  <2> DEFINE v == Swapped(keyAt, first, j - 1)
  <2>1. v \in [0 .. n - 1 -> Int] /\ v[first] = keyAt[j - 1] /\ v[j - 1] = keyAt[first]
        /\ \A x \in 0 .. n - 1 : x # first /\ x # j - 1 => v[x] = keyAt[x]
    BY <1>3, <1>4 DEF Swapped
  <2>2. \A x \in first .. j - 1 : keyAt[x] <= keyAt[first]
    BY <1>2, <1>3, RootIsGreatest
  <2> HIDE DEF v
  <2>3. SortedTail(v, first, j - 1, last)
    <3>1. SortedTail(v, first, j, last)
      <4>1. first \in first .. j - 1 /\ j - 1 \in first .. j - 1
        BY <1>1, <1>2, <1>3
      <4>2. QED
        BY <1>2, <1>3, <4>1, SwapTail DEF v
    <3>2. ASSUME NEW x \in first .. j - 1 PROVE v[x] <= v[j - 1]
      <4>1. x \in 0 .. n - 1 /\ j - 1 \in first .. j - 1 /\ first \in first .. j - 1
        BY <1>1, <1>3
      <4>2. v[x] = keyAt[x] \/ v[x] = keyAt[j - 1] \/ v[x] = keyAt[first]
        BY <2>1, <4>1
      <4>3. QED
        BY <2>1, <2>2, <4>1, <4>2
    <3>3. QED
      BY <1>2, <1>3, <3>1, <3>2 DEF SortedTail
  <2>4. HeapExcept(v, first, j - 1, 0, 0)
    <3> SUFFICES ASSUME NEW t \in 0 .. j - 1 - first - 1, NEW c \in 0 .. j - 1 - first - 1,
                        ChildOf(c, t), t # 0
                 PROVE  v[first + c] <= v[first + t]
      BY DEF HeapExcept
    <3>1. v[first + c] = keyAt[first + c] /\ v[first + t] = keyAt[first + t]
      BY <1>2, <1>3, <2>1, SMTT(30) DEF ChildOf
    <3>2. t \in 0 .. j - first - 1 /\ c \in 0 .. j - first - 1
      BY <1>2, <1>3
    <3>3. keyAt[first + c] <= keyAt[first + t]
      BY <1>2, <3>2 DEF HeapExcept, NoOne
    <3>4. QED
      BY <3>1, <3>3
  <2>5. BelowParent(v, first, j - 1, 0, 0)
    BY DEF BelowParent, ChildOf
  <2>6. Heaped("sift", v, top, first, j - 1, pivot, 0)
    <3>1. /\ first - first = 0 /\ first < j - 1 /\ j - 1 <= last /\ first + 0 <= first
          /\ 2 * 0 <= last - first /\ ~(0 > 0)
      BY <1>1, <1>2, <1>3
    <3>2. first = top.first /\ last = top.last
      BY DEF first, last
    <3>3. QED
      BY <1>2, <2>3, <2>4, <2>5, <3>1, <3>2 DEF Heaped
  <2>7. QED
    BY <1>1, <1>2, <1>5, <1>6, <2>6 DEF HeapInv, v
<1>10. (PartitionInv /\ InsertInv)'
  BY <1>1 DEF PartitionInv, InsertInv, Sinks, Partitions, Insertions
<1>11. QED
  BY <1>5, <1>6, <1>7, <1>8, <1>9, <1>10 DEF IInv

LEMMA HeapSortedStep == ASSUME IInv, HeapSorted PROVE IInv'
<1>1. /\ TypeOK /\ HeldInv /\ StackInv /\ BlockInv /\ HeapInv
      /\ pc = "heap" /\ pc' = "loop" /\ stack' = Tail(stack)
      /\ j - top.first <= 1
      /\ n' = n /\ key' = key /\ a' = a /\ val' = val /\ val = Hole
  BY NothingHeld DEF IInv, HeapSorted, input
<1>2. stack # <<>> /\ SortedTail(keyAt, top.first, j, top.last)
  BY <1>1 DEF HeapInv, Heaped, Sinks
<1>3. keyAt' = keyAt /\ HeldInv'
  BY <1>1, PlainStep, HeldPlain
<1>4. StackInv' /\ stack' \in Seq(Frames)'
  BY <1>1, <1>2, StackPopped
<1>5. BlockInv'
  <2>1. top.first \in Int /\ top.last \in Int /\ j \in Int /\ threshold \in Int /\ threshold >= 2
    BY <1>1, <1>2, StackTop, Numbers
  <2>2. ASSUME NEW x \in top.first .. top.last - 1, NEW y \in top.first .. top.last - 1,
               y - x >= threshold
        PROVE  keyAt[x] <= keyAt[y]
    BY <1>1, <1>2, <2>1, <2>2 DEF SortedTail
  <2>3. QED
    BY <1>1, <1>2, <1>3, <2>2, BlockLeft
<1>6. TypeOK'
  BY <1>1, <1>4 DEF TypeOK, Elements, HeapSorted, Sinks, Partitions, Insertions
<1>7. (PartitionInv /\ HeapInv /\ InsertInv)'
  BY <1>1 DEF PartitionInv, HeapInv, InsertInv, Sinks, Partitions, Insertions
<1>8. QED
  BY <1>3, <1>4, <1>5, <1>6, <1>7 DEF IInv

(* What holds while an element sinks.                                      *)
LEMMA Sinking ==
  ASSUME TypeOK, HeldInv, StackInv, HeapInv, pc \in {"sift", "order"}
  PROVE  /\ stack # <<>> /\ top.first \in 0 .. n /\ top.last \in 0 .. n /\ n \in Nat
         /\ keyAt \in [0 .. n - 1 -> Int] /\ Elements = 0 .. n - 1
         /\ i \in Elements /\ j \in 0 .. n /\ root \in Nat
         /\ top.first + root <= i /\ i < j /\ j <= top.last
         /\ top.last - top.first > threshold /\ 2 * root <= top.last - top.first
         /\ root > 0 => j = top.last
         /\ SortedTail(keyAt, top.first, j, top.last)
         /\ HeapExcept(keyAt, top.first, j, root, i - top.first)
         /\ BelowParent(keyAt, top.first, j, root, i - top.first)
         /\ pc # "threw" /\ pc \in Sinks /\ pc \in {"loop"} \cup Sinks \cup Partitions
         /\ sinking = whole[i]
         /\ \A x \in Elements : x # i => a[x] # Hole /\ a[x] = whole[x]
<1>1. /\ stack # <<>> /\ pc \in Sinks /\ pc \in {"loop"} \cup Sinks \cup Partitions
      /\ pc # "threw" /\ pc # "heap" /\ hole = i
  BY DEF HeapInv, Sinks, hole
<1>2. top.first \in 0 .. n /\ top.last \in 0 .. n /\ n \in Nat /\ Elements = 0 .. n - 1
      /\ keyAt \in [0 .. n - 1 -> Int] /\ j \in 0 .. n /\ i \in 0 .. n /\ root \in Nat
  BY <1>1, StackTop, Numbers, WholeType DEF TypeOK
<1>3. Heaped(pc, keyAt, top, i, j, pivot, root)
  BY <1>1 DEF HeapInv
<1>4. /\ top.first + root <= i /\ i < j /\ j <= top.last
      /\ top.last - top.first > threshold /\ 2 * root <= top.last - top.first
      /\ root > 0 => j = top.last
      /\ SortedTail(keyAt, top.first, j, top.last)
      /\ HeapExcept(keyAt, top.first, j, root, i - top.first)
      /\ BelowParent(keyAt, top.first, j, root, i - top.first)
  BY <1>1, <1>3 DEF Heaped
<1>5. i \in Elements
  BY <1>2, <1>4
<1>6. sinking = whole[i] /\ \A x \in Elements : x # i => a[x] # Hole /\ a[x] = whole[x]
  BY <1>1, <1>5 DEF sinking, whole, HeldInv
<1>7. QED
  BY <1>1, <1>2, <1>4, <1>5, <1>6

LEMMA SiftLeafStep == ASSUME IInv, SiftLeaf PROVE IInv'
<1>1. /\ TypeOK /\ HeldInv /\ StackInv /\ BlockInv /\ HeapInv
      /\ pc = "sift" /\ pc' = "heap" /\ stack' = stack /\ child >= j /\ Settle
      /\ n' = n /\ key' = key /\ i' = i /\ j' = j /\ pivot' = pivot /\ root' = root
  BY DEF IInv, SiftLeaf, input
<1>2. /\ top.first \in 0 .. n /\ top.last \in 0 .. n /\ n \in Nat /\ i \in 0 .. n - 1
      /\ j \in 0 .. n /\ root \in Nat
      /\ top.first + root <= i /\ i < j /\ j <= top.last /\ 2 * root <= top.last - top.first
  BY <1>1, Sinking
<1>9. /\ stack # <<>> /\ i \in Elements /\ keyAt \in [0 .. n - 1 -> Int]
      /\ top.last - top.first > threshold /\ (root > 0 => j = top.last)
      /\ SortedTail(keyAt, top.first, j, top.last)
      /\ HeapExcept(keyAt, top.first, j, root, i - top.first)
  BY <1>1, Sinking
<1>3. HeldInv' /\ keyAt' = keyAt /\ a' \in [Elements -> Elements \cup {Hole}] /\ val' = Hole
  BY <1>1, <1>9, SettleStep
<1>4. StackInv' /\ top' = top /\ BlockInv'
  BY <1>1, <1>3, StackKept, BlocksKept DEF Sinks
<1>5. TypeOK'
  BY <1>1, <1>3 DEF TypeOK, Frames, Elements, Sinks, Partitions, Insertions
<1>6. HeapInv'
  <2>1. \A c \in 0 .. j - top.first - 1 : ~ChildOf(c, i - top.first)
    <3>1. top.first + 2 * (i - top.first) + 1 >= j
      BY <1>1 DEF child
    <3>2. QED
      BY <1>2, <3>1 DEF ChildOf
  <2>2. i - top.first \in Nat
    BY <1>2
  <2>3. HeapExcept(keyAt, top.first, j, root, NoOne)
    BY <1>2, <1>9, <2>1, <2>2, SunkFarEnough
  <2>4. Heaped("heap", keyAt, top, i, j, pivot, root)
    BY <1>2, <1>9, <2>3 DEF Heaped
  <2>5. QED
    BY <1>1, <1>9, <1>3, <1>4, <2>4 DEF HeapInv
<1>7. (PartitionInv /\ InsertInv)'
  BY <1>1 DEF PartitionInv, InsertInv, Sinks, Partitions, Insertions
<1>8. QED
  BY <1>3, <1>4, <1>5, <1>6, <1>7 DEF IInv

LEMMA GreaterChildStep == ASSUME IInv, GreaterChild PROVE IInv'
<1> DEFINE first == top.first  s == i - top.first
<1>1. /\ TypeOK /\ HeldInv /\ StackInv /\ BlockInv /\ HeapInv
      /\ pc = "sift" /\ pc' = "order" /\ stack' = stack /\ child < j
      /\ n' = n /\ key' = key /\ a' = a /\ val' = val /\ i' = i /\ j' = j /\ root' = root
      /\ pivot' = IF child + 1 < j /\ less(a[child], a[child + 1]) THEN child + 1 ELSE child
  BY DEF IInv, GreaterChild, input
<1>2. /\ first \in 0 .. n /\ top.last \in 0 .. n /\ n \in Nat /\ i \in 0 .. n - 1
      /\ j \in 0 .. n /\ root \in Nat /\ Elements = 0 .. n - 1
      /\ first + root <= i /\ i < j /\ j <= top.last /\ 2 * root <= top.last - first
  BY <1>1, Sinking
<1>12. /\ stack # <<>> /\ keyAt \in [0 .. n - 1 -> Int]
       /\ top.last - first > threshold /\ (root > 0 => j = top.last)
       /\ SortedTail(keyAt, first, j, top.last)
       /\ HeapExcept(keyAt, first, j, root, s) /\ BelowParent(keyAt, first, j, root, s)
  BY <1>1, Sinking
<1>13. \A x \in Elements : x # i => a[x] # Hole
  BY <1>1, Sinking
<1>3. whole' = whole /\ keyAt' = keyAt
  BY <1>1, PlainStep
<1>4. StackInv' /\ top' = top /\ BlockInv'
  BY <1>1, <1>3, StackKept, BlocksKept DEF Sinks
<1>5. HeldInv'
  BY <1>1, <1>3 DEF HeldInv, hole, Permuted, Elements
<1>15. child = first + 2 * s + 1 /\ child < j
  BY <1>1 DEF child
<1>16. s \in Nat /\ first \in Nat /\ j \in Nat /\ n \in Nat /\ i = first + s /\ j <= n
  BY <1>2
<1> HIDE DEF s, first
<1>6. child = first + 2 * s + 1 /\ i < child /\ child < j /\ child \in 0 .. n - 1
  BY <1>15, <1>16
<1>14. s \in Nat /\ child \in Nat /\ first \in Nat /\ j \in Nat /\ n \in Nat
       /\ child \in Elements
  BY <1>2, <1>6, <1>16
<1>7. /\ pivot' \in Elements /\ pivot' < j /\ ChildOf(pivot' - first, s)
      /\ \A c \in 0 .. j - first - 1 : ChildOf(c, s) => keyAt[first + c] <= keyAt[pivot']
  <2>1. CASE child + 1 < j
    <3>1. child + 1 \in Elements /\ i < child + 1
      BY <1>2, <1>6, <2>1
    <3>2. less(a[child], a[child + 1]) <=> keyAt[child] < keyAt[child + 1]
      <4>1. a[child] # Hole /\ a[child + 1] # Hole
        BY <1>6, <1>13, <1>14, <3>1, <1>2
      <4>2. QED
        BY <1>1, <1>14, <3>1, <4>1, Compared
    <3>3. pivot' = IF keyAt[child] < keyAt[child + 1] THEN child + 1 ELSE child
      BY <1>1, <2>1, <3>2
    <3>4. \A c \in 0 .. j - first - 1 : ChildOf(c, s) => first + c = child \/ first + c = child + 1
      BY <1>14, <1>6 DEF ChildOf
    <3>5. keyAt[child] \in Int /\ keyAt[child + 1] \in Int
      BY <1>2, <1>6, <1>12, <3>1
    <3>6. pivot' \in Elements /\ pivot' < j /\ ChildOf(pivot' - first, s)
      <4>1. CASE pivot' = child
        BY <1>6, <1>14, <4>1 DEF ChildOf
      <4>2. CASE pivot' = child + 1
        BY <1>6, <1>14, <2>1, <3>1, <4>2 DEF ChildOf
      <4>3. QED
        BY <3>3, <4>1, <4>2
    <3>7. keyAt[child] <= keyAt[pivot'] /\ keyAt[child + 1] <= keyAt[pivot']
      BY <3>3, <3>5
    <3>8. QED
      BY <3>4, <3>6, <3>7
  <2>2. CASE ~(child + 1 < j)
    <3>1. pivot' = child
      BY <1>1, <2>2
    <3>2. \A c \in 0 .. j - first - 1 : ChildOf(c, s) => first + c = child
      BY <1>6, <1>14, <2>2 DEF ChildOf
    <3>3. ChildOf(pivot' - first, s)
      BY <1>6, <1>14, <3>1 DEF ChildOf
    <3>4. keyAt[child] <= keyAt[child]
      BY <1>2, <1>6, <1>12
    <3>5. QED
      BY <1>6, <1>14, <3>1, <3>2, <3>3, <3>4
  <2>3. QED
    BY <2>1, <2>2
<1>8. TypeOK'
  BY <1>1, <1>2, <1>7 DEF TypeOK, Frames, Elements, Sinks, Partitions, Insertions
<1>9. HeapInv'
  <2>1. Heaped("order", keyAt, top, i, j, pivot', root)
    BY <1>2, <1>12, <1>7 DEF Heaped, first, s
  <2>2. QED
    BY <1>1, <1>12, <1>3, <1>4, <2>1 DEF HeapInv
<1>10. (PartitionInv /\ InsertInv)'
  BY <1>1 DEF PartitionInv, InsertInv, Sinks, Partitions, Insertions
<1>11. QED
  BY <1>3, <1>4, <1>5, <1>8, <1>9, <1>10 DEF IInv

LEMMA SiftChildStep == ASSUME IInv, SiftChild PROVE IInv'
<1> DEFINE first == top.first  s == i - top.first  g == pivot - top.first
<1>1. /\ TypeOK /\ HeldInv /\ StackInv /\ BlockInv /\ HeapInv
      /\ pc = "order" /\ stack' = stack
      /\ n' = n /\ key' = key /\ j' = j /\ pivot' = pivot /\ root' = root
  BY DEF IInv, SiftChild, input
<1>2. /\ first \in 0 .. n /\ top.last \in 0 .. n /\ n \in Nat /\ i \in 0 .. n - 1
      /\ j \in 0 .. n /\ root \in Nat /\ Elements = 0 .. n - 1
      /\ first + root <= i /\ i < j /\ j <= top.last
  BY <1>1, Sinking
<1>3. /\ stack # <<>> /\ keyAt \in [0 .. n - 1 -> Int] /\ i \in Elements
      /\ top.last - first > threshold /\ (root > 0 => j = top.last)
      /\ 2 * root <= top.last - first
      /\ SortedTail(keyAt, first, j, top.last)
      /\ HeapExcept(keyAt, first, j, root, s) /\ BelowParent(keyAt, first, j, root, s)
      /\ pc # "threw" /\ pc \in Sinks /\ pc \in {"loop"} \cup Sinks \cup Partitions
  BY <1>1, Sinking
<1>4. /\ sinking = whole[i] /\ whole \in [Elements -> Elements]
      /\ \A x \in Elements : x # i => a[x] # Hole /\ a[x] = whole[x]
  BY <1>1, <1>3, Sinking, WholeType
<1>5. /\ ChildOf(g, s) /\ pivot < j
      /\ \A c \in 0 .. j - first - 1 : ChildOf(c, s) => keyAt[first + c] <= keyAt[pivot]
  BY <1>1 DEF HeapInv, Heaped, Sinks
<1>6. s \in 0 .. j - first - 1 /\ i = first + s /\ root <= s /\ first \in Nat /\ s \in Nat
      /\ j \in Nat
  BY <1>2
<1>7. pivot \in Int /\ g = pivot - first
  BY <1>1, Numbers
<1> HIDE DEF s, g, first
<1>8. g \in 0 .. j - first - 1 /\ pivot = first + g /\ s < g
  <2>1. g = 2 * s + 1 \/ g = 2 * s + 2
    BY <1>5 DEF ChildOf
  <2>2. g \in Int /\ pivot = first + g
    BY <1>6, <1>7
  <2>3. g < j - first
    BY <1>5, <1>6, <2>2
  <2>4. QED
    BY <1>6, <2>1, <2>2, <2>3
<1>9. pivot \in Elements /\ pivot # i
  BY <1>2, <1>6, <1>8
<1>10. less(a[pivot], sinking) <=> keyAt[pivot] < keyAt[i]
  BY <1>3, <1>4, <1>9 DEF less, keyAt
<1>11. StackInv' /\ top' = top
  BY <1>1, StackKept
<1>12. CASE less(a[pivot], sinking)
  <2>1. Settle /\ i' = i /\ pc' = "heap"
    BY <1>12 DEF SiftChild
  <2>2. HeldInv' /\ keyAt' = keyAt /\ a' \in [Elements -> Elements \cup {Hole}] /\ val' = Hole
    BY <1>1, <1>3, <2>1, SettleStep
  <2>3. BlockInv'
    BY <1>1, <1>3, <2>2, BlocksKept
  <2>4. TypeOK'
    BY <1>1, <2>1, <2>2 DEF TypeOK, Frames, Elements, Sinks, Partitions, Insertions
  <2>5. HeapInv'
    <3>1. keyAt[pivot] <= keyAt[i]
      BY <1>2, <1>3, <1>9, <1>10, <1>12
    <3>2. ASSUME NEW c \in 0 .. j - first - 1, ChildOf(c, s)
          PROVE  keyAt[first + c] <= keyAt[first + s]
      <4>1. first + c \in 0 .. n - 1 /\ pivot \in 0 .. n - 1
        BY <1>2, <1>9
      <4>2. keyAt[first + c] \in Int /\ keyAt[pivot] \in Int /\ keyAt[i] \in Int
        BY <1>2, <1>3, <4>1
      <4>3. QED
        BY <1>5, <1>6, <3>1, <3>2, <4>2
    <3>3. HeapExcept(keyAt, first, j, root, NoOne)
      <4>1. first \in 0 .. n /\ j \in 0 .. n /\ n \in Nat /\ root \in Nat /\ s \in Nat
        BY <1>2, <1>6
      <4>2. QED
        BY <1>3, <3>2, <4>1, SunkFarEnough
    <3>4. Heaped("heap", keyAt, top, i, j, pivot, root)
      BY <1>2, <1>3, <3>3 DEF Heaped, first
    <3>5. QED
      BY <1>1, <1>3, <1>11, <2>1, <2>2, <3>4 DEF HeapInv
  <2>6. (PartitionInv /\ InsertInv)'
    BY <2>1 DEF PartitionInv, InsertInv, Sinks, Partitions, Insertions
  <2>7. QED
    BY <1>11, <2>2, <2>3, <2>4, <2>5, <2>6 DEF IInv
<1>13. CASE ~less(a[pivot], sinking)
  <2>1. /\ val' = sinking /\ a' = [a EXCEPT ![i] = a[pivot], ![pivot] = Hole]
        /\ i' = pivot /\ pc' = "sift"
    BY <1>13 DEF SiftChild
  <2>2. Elements' = Elements /\ a \in [Elements -> Elements \cup {Hole}] /\ Hole \notin Elements
    BY <1>1, <1>2, IntroSortAssumption DEF TypeOK, Elements
  <2>3. /\ a' \in [Elements -> Elements \cup {Hole}] /\ val' \in Elements
        /\ a'[i] = whole[pivot] /\ a'[pivot] = Hole
        /\ \A x \in Elements : x # i /\ x # pivot => a'[x] = whole[x]
    BY <1>3, <1>4, <1>9, <2>1, <2>2
  <2>4. \A x \in Elements : a'[x] = Hole <=> x = pivot
    BY <1>3, <1>4, <1>9, <2>2, <2>3
  <2>5. whole' = Swapped(whole, i, pivot)
    <3>1. \A x \in Elements : (IF a'[x] = Hole THEN val' ELSE a'[x]) = Swapped(whole, i, pivot)[x]
      BY <1>3, <1>4, <1>9, <2>1, <2>3, <2>4 DEF Swapped
    <3>2. Swapped(whole, i, pivot) = [x \in Elements |-> Swapped(whole, i, pivot)[x]]
      BY <1>4 DEF Swapped
    <3>3. whole' = [x \in Elements |-> IF a'[x] = Hole THEN val' ELSE a'[x]]
      BY <2>2 DEF whole
    <3>4. QED
      BY <3>1, <3>2, <3>3
  <2>6. keyAt' = Swapped(keyAt, i, pivot) /\ Permuted(whole)'
    BY <1>1, <1>3, <1>9, <2>5, SwappedWhole
  <2>7. HeldInv'
    <3>1. hole' = pivot /\ val' # Hole /\ pivot < n
      BY <1>2, <1>9, <2>1, <2>2, <2>3 DEF hole
    <3>2. QED
      BY <1>1, <2>1, <2>2, <2>4, <2>6, <3>1 DEF HeldInv
  <2>8. TypeOK'
    <3>1. i' \in 0 .. n /\ val' \in Elements \cup {Hole}
      BY <1>2, <1>9, <2>1, <2>3
    <3>2. QED
      BY <1>1, <2>1, <2>3, <3>1 DEF TypeOK, Frames, Elements, Sinks, Partitions, Insertions
  <2>9. BlockInv'
    <3>1. top.first <= i /\ i < top.last /\ top.first <= pivot /\ pivot < top.last
      <4>1. first <= i /\ i < top.last /\ first <= pivot /\ pivot < top.last
        BY <1>2, <1>5, <1>6, <1>8
      <4>2. QED
        BY <4>1 DEF first
    <3>2. pc \in Sinks \cup Partitions
      BY <1>3
    <3>3. QED
      BY <1>1, <1>3, <1>9, <2>6, <3>1, <3>2, BlocksSwapped
  <2>10. HeapInv'
    <3>1. keyAt[first + s] <= keyAt[first + g]
      BY <1>2, <1>3, <1>6, <1>8, <1>9, <1>10, <1>13
    <3>2. \A c \in 0 .. j - first - 1 : ChildOf(c, s) => keyAt[first + c] <= keyAt[first + g]
      BY <1>5, <1>8
    <3>3. /\ HeapExcept(keyAt', first, j, root, g) /\ BelowParent(keyAt', first, j, root, g)
      BY <1>2, <1>3, <1>5, <1>6, <1>8, <2>6, <3>1, <3>2, SinkOne
    <3>4. SortedTail(keyAt', first, j, top.last)
      <4>1. i \in first .. j - 1 /\ pivot \in first .. j - 1
        BY <1>2, <1>6, <1>8
      <4>2. QED
        BY <1>2, <1>3, <2>6, <4>1, SwapTail
    <3>5. pivot - first = g /\ first + root <= pivot /\ pivot < j
      BY <1>2, <1>5, <1>6, <1>8
    <3>6. Heaped("sift", keyAt', top, pivot, j, pivot, root)
      BY <1>2, <1>3, <3>3, <3>4, <3>5 DEF Heaped, first
    <3>7. QED
      BY <1>1, <1>3, <1>11, <2>1, <3>6 DEF HeapInv
  <2>11. (PartitionInv /\ InsertInv)'
    BY <2>1 DEF PartitionInv, InsertInv, Sinks, Partitions, Insertions
  <2>12. QED
    BY <1>11, <2>7, <2>8, <2>9, <2>10, <2>11 DEF IInv
<1>14. QED
  BY <1>12, <1>13
-----------------------------------------------------------------------------
(* The partition.                                                          *)

LEMMA PivotInBlock ==
  ASSUME NEW first \in Nat, NEW last \in Nat, last - first > threshold,
         threshold \in Int, threshold >= 2
  PROVE  choose_pivot(first, last) \in first .. last - 1
<1>1. last - first \in Nat
  BY SMT
<1>2. (last - first) \div 2 \in Nat /\ 2 * ((last - first) \div 2) <= last - first
  BY <1>1, Half
<1>3. first + (last - first) \div 2 \in first .. last - 1 /\ first \in first .. last - 1
      /\ last - 1 \in first .. last - 1
  BY <1>2
<1>4. QED
  BY <1>3 DEF choose_pivot

LEMMA PartitionStep == ASSUME IInv, Partition PROVE IInv'
<1> DEFINE first == top.first  last == top.last
<1>1. /\ TypeOK /\ HeldInv /\ StackInv /\ BlockInv
      /\ pc = "loop" /\ pc' = "up" /\ stack # <<>> /\ stack' = stack
      /\ last - first > threshold /\ top.limit # 0
      /\ n' = n /\ key' = key /\ a' = a /\ val' = val /\ val = Hole
      /\ i' = first /\ j' = last /\ pivot' = choose_pivot(first, last) /\ root' = root
  BY NothingHeld DEF IInv, Partition, input
<1>2. keyAt' = keyAt /\ HeldInv' /\ StackInv' /\ BlockInv' /\ top' = top
  BY <1>1, PlainStep, HeldPlain, StackKept, BlocksKept
<1>3. /\ first \in 0 .. n /\ last \in 0 .. n /\ n \in Nat /\ threshold \in Int /\ threshold >= 2
      /\ top.limit \in Nat /\ keyAt \in [0 .. n - 1 -> Int]
  BY <1>1, StackTop, Numbers, WholeType
<1>4. pivot' \in first .. last - 1
  <2>1. first \in Nat /\ last \in Nat
    BY <1>3
  <2>2. QED
    BY <1>1, <1>3, <2>1, PivotInBlock
<1>5. TypeOK'
  <2>1. i' \in 0 .. n /\ j' \in 0 .. n /\ pivot' \in 0 .. n - 1
    <3>1. \A f, g \in 0 .. n : \A x \in f .. g - 1 : x \in 0 .. n - 1
      BY <1>3
    <3>2. QED
      BY <1>1, <1>3, <1>4, <3>1
  <2>2. QED
    BY <1>1, <2>1 DEF TypeOK, Frames, Elements, Sinks, Partitions, Insertions
<1> HIDE DEF first, last
<1>6. PartitionInv'
  <2>1. /\ keyAt[pivot'] <= keyAt[pivot'] /\ first <= pivot' /\ pivot' < last /\ first < last
        /\ top.limit > 0
    BY <1>1, <1>3, <1>4
  <2>2. Partitioned("up", keyAt, top, first, last, pivot')
    <3>1. \E s \in first .. last - 1 : keyAt[pivot'] <= keyAt[s]
      BY <1>4, <2>1
    <3>2. \E s \in first .. last - 1 : keyAt[s] <= keyAt[pivot']
      BY <1>4, <2>1
    <3>3. /\ \A s \in first .. first - 1 : keyAt[s] <= keyAt[pivot']
          /\ \A s \in last + 1 .. last - 1 : keyAt[pivot'] <= keyAt[s]
      BY <1>3
    <3>4. first <= first /\ last <= last /\ first <= last /\ ~(last < last)
      BY <1>3, <2>1
    <3>5. QED
      BY <1>1, <2>1, <3>1, <3>2, <3>3, <3>4 DEF Partitioned, first, last
  <2>3. QED
    BY <1>1, <1>2, <2>2 DEF PartitionInv
<1>7. (HeapInv /\ InsertInv)'
  BY <1>1 DEF HeapInv, InsertInv, Sinks, Partitions, Insertions
<1>8. QED
  BY <1>2, <1>5, <1>6, <1>7 DEF IInv

(* What holds during a partition.                                          *)
LEMMA Scanning ==
  ASSUME TypeOK, HeldInv, StackInv, PartitionInv, pc \in Partitions
  PROVE  /\ stack # <<>> /\ Partitioned(pc, keyAt, top, i, j, pivot)
         /\ top.first \in 0 .. n /\ top.last \in 0 .. n /\ n \in Nat /\ Elements = 0 .. n - 1
         /\ keyAt \in [0 .. n - 1 -> Int]
         /\ i \in 0 .. n - 1 /\ j \in 0 .. n /\ pivot \in 0 .. n - 1
         /\ top.first <= i /\ i < top.last /\ top.first <= j /\ j <= top.last
         /\ top.first <= pivot /\ pivot < top.last
         /\ val = Hole /\ \A x \in Elements : a[x] # Hole
         /\ pc # "threw" /\ pc \in {"loop"} \cup Sinks \cup Partitions
         /\ pc \notin {"sift", "order", "first", "linear"}
<1>1. /\ pc # "threw" /\ pc \in {"loop"} \cup Sinks \cup Partitions
      /\ pc \notin {"sift", "order", "first", "linear"}
  BY DEF Partitions
<1>2. stack # <<>> /\ Partitioned(pc, keyAt, top, i, j, pivot)
  BY DEF PartitionInv
<1>3. /\ top.first \in 0 .. n /\ top.last \in 0 .. n /\ n \in Nat /\ Elements = 0 .. n - 1
      /\ keyAt \in [0 .. n - 1 -> Int]
  BY <1>1, <1>2, StackTop, Numbers, WholeType
<1>4. val = Hole /\ \A x \in Elements : a[x] # Hole
  BY <1>1, NothingHeld
<1>5. /\ top.first <= i /\ i < top.last /\ top.first <= j /\ j <= top.last
      /\ top.first <= pivot /\ pivot < top.last
  BY <1>2 DEF Partitioned
<1>6. i \in 0 .. n - 1 /\ j \in 0 .. n /\ pivot \in 0 .. n - 1
  <2>1. i \in 0 .. n /\ j \in 0 .. n /\ pivot \in 0 .. n - 1
    BY DEF TypeOK
  <2>2. QED
    BY <1>3, <1>5, <2>1
<1>7. QED
  BY <1>1, <1>2, <1>3, <1>4, <1>5, <1>6

LEMMA ScanUpStep == ASSUME IInv, ScanUp PROVE IInv'
<1> DEFINE first == top.first  last == top.last
<1>1. /\ TypeOK /\ HeldInv /\ StackInv /\ BlockInv /\ PartitionInv
      /\ pc = "up" /\ pc \in Partitions /\ stack' = stack
      /\ n' = n /\ key' = key /\ a' = a /\ val' = val /\ j' = j /\ pivot' = pivot /\ root' = root
      /\ \/ less(a[i], a[pivot]) /\ i' = i + 1 /\ pc' = "up"
         \/ ~less(a[i], a[pivot]) /\ i' = i /\ pc' = "down"
  BY DEF IInv, ScanUp, input, Partitions
<1>2. /\ first \in 0 .. n /\ last \in 0 .. n /\ n \in Nat /\ Elements = 0 .. n - 1
      /\ keyAt \in [0 .. n - 1 -> Int]
      /\ i \in 0 .. n - 1 /\ j \in 0 .. n /\ pivot \in 0 .. n - 1
      /\ first <= i /\ i < last /\ first <= j /\ j <= last /\ first <= pivot /\ pivot < last
  BY <1>1, Scanning
<1>3. /\ stack # <<>> /\ Partitioned("up", keyAt, top, i, j, pivot)
      /\ val = Hole /\ (\A x \in Elements : a[x] # Hole)
      /\ pc # "threw" /\ pc \in {"loop"} \cup Sinks \cup Partitions
  BY <1>1, Scanning
<1>4. keyAt' = keyAt /\ HeldInv' /\ StackInv' /\ BlockInv' /\ top' = top
  BY <1>1, <1>3, PlainStep, HeldPlain, StackKept, BlocksKept
<1>5. less(a[i], a[pivot]) <=> keyAt[i] < keyAt[pivot]
  BY <1>1, <1>2, <1>3, Compared
<1>6. /\ last - first > threshold /\ top.limit > 0
      /\ \A s \in first .. i - 1 : keyAt[s] <= keyAt[pivot]
      /\ \A s \in j + 1 .. last - 1 : keyAt[pivot] <= keyAt[s]
      /\ j < last => keyAt[pivot] <= keyAt[j]
      /\ \E s \in i .. last - 1 : keyAt[pivot] <= keyAt[s]
      /\ \E s \in first .. j - 1 : keyAt[s] <= keyAt[pivot]
  BY <1>3 DEF Partitioned
<1>7. keyAt[i] \in Int /\ keyAt[pivot] \in Int
  BY <1>2
<1> HIDE DEF first, last
<1>8. i' \in first .. last - 1 /\ Partitioned(pc', keyAt, top, i', j, pivot)
  <2>1. CASE keyAt[i] < keyAt[pivot]
    <3>1. i' = i + 1 /\ pc' = "up"
      BY <1>1, <1>5, <2>1
    <3>2. PICK s \in i .. last - 1 : keyAt[pivot] <= keyAt[s]
      BY <1>6
    <3>3. s # i
      BY <1>7, <2>1, <3>2
    <3>4. s \in i + 1 .. last - 1 /\ first <= i + 1 /\ i + 1 < last
      BY <1>2, <3>3
    <3>5. \A x \in first .. i : keyAt[x] <= keyAt[pivot]
      <4>1. \A x \in first .. i : x = i \/ x \in first .. i - 1
        BY <1>2
      <4>2. QED
        BY <1>6, <1>7, <2>1, <4>1
    <3>6. (i + 1) - 1 = i
      BY <1>2
    <3>7. \E x \in i + 1 .. last - 1 : keyAt[pivot] <= keyAt[x]
      BY <3>2, <3>4
    <3>8. \A x \in first .. (i + 1) - 1 : keyAt[x] <= keyAt[pivot]
      BY <3>5, <3>6
    <3>9. Partitioned("up", keyAt, top, i + 1, j, pivot)
      BY <1>2, <1>6, <3>4, <3>7, <3>8 DEF Partitioned, first, last
    <3>10. i + 1 \in first .. last - 1
      BY <1>2, <3>4
    <3>11. QED
      BY <3>1, <3>9, <3>10
  <2>2. CASE ~(keyAt[i] < keyAt[pivot])
    <3>1. i' = i /\ pc' = "down" /\ keyAt[pivot] <= keyAt[i]
      BY <1>1, <1>5, <1>7, <2>2
    <3>2. Partitioned("down", keyAt, top, i, j, pivot)
      BY <1>2, <1>6, <3>1 DEF Partitioned, first, last
    <3>3. i \in first .. last - 1
      BY <1>2
    <3>4. QED
      BY <3>1, <3>2, <3>3
  <2>3. QED
    BY <2>1, <2>2
<1>9. PartitionInv'
  BY <1>1, <1>3, <1>4, <1>8 DEF PartitionInv
<1>10. TypeOK'
  <2>1. i' \in 0 .. n
    BY <1>2, <1>8
  <2>2. QED
    BY <1>1, <2>1 DEF TypeOK, Frames, Elements, Sinks, Partitions, Insertions
<1>11. (HeapInv /\ InsertInv)'
  BY <1>1 DEF HeapInv, InsertInv, Sinks, Partitions, Insertions
<1>12. QED
  BY <1>4, <1>9, <1>10, <1>11 DEF IInv

LEMMA ScanDownStep == ASSUME IInv, ScanDown PROVE IInv'
<1> DEFINE first == top.first  last == top.last
<1>1. /\ TypeOK /\ HeldInv /\ StackInv /\ BlockInv /\ PartitionInv
      /\ pc = "down" /\ pc \in Partitions /\ stack' = stack
      /\ n' = n /\ key' = key /\ a' = a /\ val' = val /\ i' = i /\ pivot' = pivot /\ root' = root
      /\ j' = j - 1 /\ pc' = IF less(a[pivot], a[j - 1]) THEN "down" ELSE "meet"
  BY DEF IInv, ScanDown, input, Partitions
<1>2. /\ first \in 0 .. n /\ last \in 0 .. n /\ n \in Nat /\ Elements = 0 .. n - 1
      /\ keyAt \in [0 .. n - 1 -> Int]
      /\ i \in 0 .. n - 1 /\ j \in 0 .. n /\ pivot \in 0 .. n - 1
      /\ first <= i /\ i < last /\ first <= j /\ j <= last /\ first <= pivot /\ pivot < last
  BY <1>1, Scanning
<1>3. /\ stack # <<>> /\ Partitioned("down", keyAt, top, i, j, pivot)
      /\ val = Hole /\ (\A x \in Elements : a[x] # Hole)
      /\ pc # "threw" /\ pc \in {"loop"} \cup Sinks \cup Partitions
  BY <1>1, Scanning
<1>4. keyAt' = keyAt /\ HeldInv' /\ StackInv' /\ BlockInv' /\ top' = top
  BY <1>1, <1>3, PlainStep, HeldPlain, StackKept, BlocksKept
<1>6. /\ last - first > threshold /\ top.limit > 0
      /\ \A s \in first .. i - 1 : keyAt[s] <= keyAt[pivot]
      /\ \A s \in j + 1 .. last - 1 : keyAt[pivot] <= keyAt[s]
      /\ j < last => keyAt[pivot] <= keyAt[j]
      /\ keyAt[pivot] <= keyAt[i]
      /\ \E s \in first .. j - 1 : keyAt[s] <= keyAt[pivot]
  BY <1>3 DEF Partitioned
<1> HIDE DEF first, last
<1>7. PICK s \in first .. j - 1 : keyAt[s] <= keyAt[pivot]
  BY <1>6
<1>8. first <= j - 1 /\ j - 1 < last /\ j - 1 \in 0 .. n - 1 /\ s \in 0 .. n - 1
  BY <1>2
<1>9. less(a[pivot], a[j - 1]) <=> keyAt[pivot] < keyAt[j - 1]
  BY <1>1, <1>2, <1>3, <1>8, Compared
<1>10. keyAt[j - 1] \in Int /\ keyAt[pivot] \in Int /\ keyAt[s] \in Int
  BY <1>2, <1>8
<1>11. \A x \in (j - 1) + 1 .. last - 1 : keyAt[pivot] <= keyAt[x]
  <2>1. \A x \in (j - 1) + 1 .. last - 1 : (x = j /\ j < last) \/ x \in j + 1 .. last - 1
    BY <1>2
  <2>2. QED
    BY <1>6, <2>1
<1>12. Partitioned(pc', keyAt, top, i, j - 1, pivot)
  <2>1. CASE keyAt[pivot] < keyAt[j - 1]
    <3>1. pc' = "down" /\ keyAt[pivot] <= keyAt[j - 1]
      BY <1>1, <1>9, <1>10, <2>1
    <3>2. s # j - 1
      BY <1>7, <1>10, <2>1
    <3>3. s \in first .. (j - 1) - 1 /\ j - 1 <= last
      BY <1>2, <3>2
    <3>4. QED
      BY <1>2, <1>6, <1>7, <1>8, <1>11, <3>1, <3>3 DEF Partitioned, first, last
  <2>2. CASE ~(keyAt[pivot] < keyAt[j - 1])
    <3>1. pc' = "meet" /\ keyAt[j - 1] <= keyAt[pivot]
      BY <1>1, <1>9, <1>10, <2>2
    <3>2. j - 1 <= last
      BY <1>2
    <3>3. QED
      BY <1>2, <1>6, <1>8, <1>11, <3>1, <3>2 DEF Partitioned, first, last
  <2>3. QED
    BY <2>1, <2>2
<1>13. PartitionInv'
  BY <1>1, <1>3, <1>4, <1>12 DEF PartitionInv
<1>14. TypeOK'
  <2>1. j' \in 0 .. n
    BY <1>1, <1>2, <1>8
  <2>2. QED
    BY <1>1, <2>1 DEF TypeOK, Frames, Elements, Sinks, Partitions, Insertions
<1>15. (HeapInv /\ InsertInv)'
  BY <1>1 DEF HeapInv, InsertInv, Sinks, Partitions, Insertions
<1>16. QED
  BY <1>4, <1>13, <1>14, <1>15 DEF IInv

LEMMA ExchangeStep == ASSUME IInv, Exchange PROVE IInv'
<1> DEFINE first == top.first  last == top.last
<1>1. /\ TypeOK /\ HeldInv /\ StackInv /\ BlockInv /\ PartitionInv
      /\ pc = "meet" /\ pc' = "up" /\ pc \in Partitions /\ stack' = stack
      /\ n' = n /\ key' = key /\ a' = Swapped(a, i, j) /\ val' = val /\ j' = j /\ root' = root
      /\ i < j /\ i' = i + 1
      /\ pivot' = IF pivot = i THEN j ELSE IF pivot = j THEN i ELSE pivot
  BY DEF IInv, Exchange, input, Partitions, iter_swap, Swapped
<1>2. /\ first \in 0 .. n /\ last \in 0 .. n /\ n \in Nat /\ Elements = 0 .. n - 1
      /\ keyAt \in [0 .. n - 1 -> Int]
      /\ i \in 0 .. n - 1 /\ j \in 0 .. n /\ pivot \in 0 .. n - 1
      /\ first <= i /\ i < last /\ first <= j /\ j <= last /\ first <= pivot /\ pivot < last
  BY <1>1, Scanning
<1>3. /\ stack # <<>> /\ Partitioned("meet", keyAt, top, i, j, pivot)
      /\ pc # "threw" /\ pc \notin {"sift", "order", "first", "linear"}
  BY <1>1, Scanning
<1>4. /\ last - first > threshold /\ top.limit > 0
      /\ \A s \in first .. i - 1 : keyAt[s] <= keyAt[pivot]
      /\ \A s \in j + 1 .. last - 1 : keyAt[pivot] <= keyAt[s]
      /\ keyAt[pivot] <= keyAt[i]
      /\ j < last /\ keyAt[j] <= keyAt[pivot]
  BY <1>3 DEF Partitioned
<1>5. j \in 0 .. n - 1
  BY <1>2, <1>4
<1>6. HeldInv' /\ keyAt' = Swapped(keyAt, i, j) /\ a' \in [Elements -> Elements \cup {Hole}]
  BY <1>1, <1>2, <1>3, <1>5, SwapHeld
<1>7. StackInv' /\ top' = top
  BY <1>1, StackKept
<1>8. BlockInv'
  BY <1>1, <1>2, <1>3, <1>4, <1>5, <1>6, BlocksSwapped
<1> HIDE DEF first, last
<1>9. pivot' \in first .. last - 1
  <2>1. i \in first .. last - 1 /\ j \in first .. last - 1 /\ pivot \in first .. last - 1
    BY <1>2, <1>4
  <2>2. QED
    BY <1>1, <2>1
<1>10. PartitionInv'
  <2> DEFINE v == Swapped(keyAt, i, j)  p == keyAt[pivot]
  <2>1. v[i] = keyAt[j] /\ v[j] = keyAt[i]
        /\ \A x \in 0 .. n - 1 : x # i /\ x # j => v[x] = keyAt[x]
    BY <1>2, <1>5 DEF Swapped
  <2>2. v[pivot'] = p
    BY <1>1, <1>2, <2>1
  <2> HIDE DEF v, p
  <2>3. v[i] <= p /\ p <= v[j]
    BY <1>4, <2>1 DEF p
  <2>4. ASSUME NEW s \in first .. (i + 1) - 1 PROVE v[s] <= p
    <3>1. s = i \/ (s \in first .. i - 1 /\ s \in 0 .. n - 1 /\ s # i /\ s # j)
      BY <1>1, <1>2
    <3>2. QED
      BY <1>4, <2>1, <2>3, <3>1 DEF p
  <2>5. ASSUME NEW s \in j + 1 .. last - 1 PROVE p <= v[s]
    <3>1. s \in 0 .. n - 1 /\ s # i /\ s # j
      BY <1>1, <1>2
    <3>2. QED
      BY <1>4, <2>1, <3>1 DEF p
  <2>6. /\ first <= i + 1 /\ i + 1 < last /\ j \in i + 1 .. last - 1 /\ i \in first .. j - 1
        /\ first <= pivot' /\ pivot' < last
    BY <1>1, <1>2, <1>4, <1>9
  <2>7. /\ \E s \in i + 1 .. last - 1 : p <= v[s]
        /\ \E s \in first .. j - 1 : v[s] <= p
    BY <2>3, <2>6
  <2>8. Partitioned("up", v, top, i + 1, j, pivot')
    BY <1>2, <1>4, <2>2, <2>3, <2>4, <2>5, <2>6, <2>7 DEF Partitioned, first, last
  <2>9. QED
    BY <1>1, <1>3, <1>6, <1>7, <2>8 DEF PartitionInv, v
<1>11. TypeOK'
  <2>1. i' \in 0 .. n /\ pivot' \in 0 .. n - 1
    BY <1>1, <1>2, <1>9
  <2>2. QED
    BY <1>1, <1>6, <2>1 DEF TypeOK, Frames, Elements, Sinks, Partitions, Insertions
<1>12. (HeapInv /\ InsertInv)'
  BY <1>1 DEF HeapInv, InsertInv, Sinks, Partitions, Insertions
<1>13. QED
  BY <1>6, <1>7, <1>8, <1>10, <1>11, <1>12 DEF IInv

(* One frame is replaced by two that meet at c, of one charge more.        *)
LEMMA StackCut ==
  ASSUME TypeOK, StackInv, stack # <<>>, top.limit > 0, n' = n,
         NEW c \in top.first .. top.last,
         stack' = <<Frame(c, top.last, top.limit - 1), Frame(top.first, c, top.limit - 1)>>
                  \o Tail(stack)
  PROVE  /\ stack' \in Seq(Frames) /\ StackInv' /\ rest' = top.last
         /\ Len(stack') = Len(stack) + 1
         /\ stack'[1].first = c /\ stack'[1].last = top.last
         /\ stack'[2].first = top.first /\ stack'[2].last = c
         /\ \A f \in 3 .. Len(stack') : f - 1 \in 1 .. Len(stack) /\ stack'[f] = stack[f - 1]
<1> DEFINE F1 == Frame(c, top.last, top.limit - 1)
           F2 == Frame(top.first, c, top.limit - 1)
<1>1. /\ Len(stack) \in Nat \ {0} /\ top = stack[1]
      /\ top.first \in 0 .. n /\ top.last \in 0 .. n /\ top.limit \in Nat
      /\ Tail(stack) \in Seq(Frames) /\ Len(Tail(stack)) = Len(stack) - 1
      /\ \A f \in 1 .. Len(stack) - 1 : Tail(stack)[f] = stack[f + 1]
  BY StackTop
<1>2. /\ n \in Nat /\ c \in 0 .. n /\ top.first <= c /\ c <= top.last
      /\ top.limit \in Nat /\ top.limit - 1 \in Nat /\ top.first \in Nat /\ top.last \in Nat
  <2>1. n \in Nat
    BY Numbers
  <2>2. QED
    BY <1>1, <2>1
<1>3. F1 \in Frames /\ F2 \in Frames
  BY <1>1, <1>2 DEF Frame, Frames
<1>4. /\ F1.first = c /\ F1.last = top.last /\ F1.limit = top.limit - 1
      /\ F2.first = top.first /\ F2.last = c /\ F2.limit = top.limit - 1
  BY DEF Frame
<1> HIDE DEF F1, F2
<1>5. stack' = <<F1, F2>> \o Tail(stack)
  BY DEF F1, F2
<1>6. <<F1, F2>> \in Seq(Frames) /\ Len(<<F1, F2>>) = 2
  BY <1>3
<1>7. stack' \in Seq(Frames) /\ Len(stack') = Len(stack) + 1
  BY <1>1, <1>5, <1>6
<1>8. stack'[1] = F1 /\ stack'[2] = F2
  BY <1>1, <1>5, <1>6
<1>9. ASSUME NEW f \in 3 .. Len(stack') PROVE f - 1 \in 1 .. Len(stack) /\ stack'[f] = stack[f - 1]
  <2>1. f - 2 \in 1 .. Len(stack) - 1 /\ f - 1 \in 1 .. Len(stack) /\ (f - 2) + 1 = f - 1
    BY <1>1, <1>7
  <2>2. stack'[f] = Tail(stack)[f - 2]
    BY <1>1, <1>5, <1>6, <1>7, <2>1
  <2>3. QED
    BY <1>1, <2>1, <2>2
<1>10. rest' = top.last
  <2>1. stack' # <<>>
    BY <1>1, <1>7, EmptyLength
  <2>2. Head(stack') = F1
    BY <1>7, <1>8, <2>1
  <2>3. QED
    BY <1>4, <2>1, <2>2 DEF rest, top
<1>11. StackInv'
  <2> DEFINE limit == limit_factor * log2(n)  m == Len(stack)
  <2>1. \A f \in 1 .. m :
          /\ stack[f].first <= stack[f].last
          /\ stack[f].limit + m - f <= limit
          /\ f < m => stack[f + 1].last = stack[f].first
          /\ f = m => stack[f].first = 0
          /\ \A g \in 1 .. f - 1 : stack[f].last <= stack[g].first
    BY DEF StackInv
  <2>2. limit \in Int
    BY <1>2, LogType, IntroSortAssumption
  <2>3. m \in Nat \ {0} /\ Len(stack') = m + 1 /\ 1 \in 1 .. m
    BY <1>1, <1>7
  <2>4. \A f \in 1 .. m : stack[f].limit \in Nat /\ stack[f].first \in 0 .. n /\ stack[f].last \in 0 .. n
    BY StackTop DEF Frames
  <2> HIDE DEF limit, m
  <2>5. top.limit + m - 1 <= limit /\ top.first <= top.last
    BY <1>1, <2>1, <2>3
  <2>6. ASSUME NEW f \in 1 .. m + 1
        PROVE  /\ stack'[f].first <= stack'[f].last
               /\ stack'[f].limit + (m + 1) - f <= limit
    <3>1. CASE f = 1
      <4>1. /\ stack'[f].first = c /\ stack'[f].last = top.last
            /\ stack'[f].limit = top.limit - 1
        BY <1>4, <1>8, <3>1
      <4>2. top.limit - 1 + (m + 1) - 1 <= limit
        BY <1>2, <2>2, <2>3, <2>5
      <4>3. QED
        BY <1>2, <3>1, <4>1, <4>2
    <3>2. CASE f = 2
      <4>1. /\ stack'[f].first = top.first /\ stack'[f].last = c
            /\ stack'[f].limit = top.limit - 1
        BY <1>4, <1>8, <3>2
      <4>2. top.limit - 1 + (m + 1) - 2 <= limit
        BY <1>2, <2>2, <2>3, <2>5
      <4>3. QED
        BY <1>2, <3>2, <4>1, <4>2
    <3>3. CASE f \in 3 .. m + 1
      <4>1. f - 1 \in 1 .. m /\ stack'[f] = stack[f - 1]
        BY <1>9, <2>3, <3>3 DEF m
      <4>2. /\ stack[f - 1].limit \in Nat /\ stack[f - 1].limit + m - (f - 1) <= limit
            /\ stack[f - 1].first <= stack[f - 1].last
        BY <2>1, <2>4, <4>1
      <4>3. stack[f - 1].limit + (m + 1) - f = stack[f - 1].limit + m - (f - 1)
        BY <2>3, <4>2
      <4>4. QED
        BY <4>1, <4>2, <4>3
    <3>4. QED
      BY <2>3, <3>1, <3>2, <3>3
  <2>7. ASSUME NEW f \in 1 .. m + 1, f < m + 1 PROVE stack'[f + 1].last = stack'[f].first
    <3>1. CASE f = 1
      BY <1>4, <1>8, <3>1
    <3>2. CASE f = 2
      <4>1. 2 + 1 \in 3 .. m + 1 /\ 1 < m
        BY <2>3, <2>7, <3>2
      <4>2. stack'[2 + 1] = stack[1 + 1]
        BY <1>9, <2>3, <4>1 DEF m
      <4>3. QED
        BY <1>1, <1>4, <1>8, <2>1, <2>3, <3>2, <4>1, <4>2
    <3>3. CASE f \in 3 .. m + 1
      <4>1. f - 1 \in 1 .. m /\ stack'[f] = stack[f - 1]
        BY <1>9, <2>3, <3>3 DEF m
      <4>2. f + 1 \in 3 .. m + 1 /\ (f + 1) - 1 = f /\ (f - 1) + 1 = f /\ f - 1 < m
        BY <2>3, <2>7, <3>3
      <4>3. stack'[f + 1] = stack[f]
        BY <1>9, <2>3, <4>2 DEF m
      <4>4. QED
        BY <2>1, <4>1, <4>2, <4>3
    <3>4. f = 1 \/ f = 2 \/ f \in 3 .. m + 1
      BY <2>3
    <3>5. QED
      BY <3>1, <3>2, <3>3, <3>4
  <2>8. ASSUME NEW f \in 1 .. m + 1, f = m + 1 PROVE stack'[f].first = 0
    <3>1. CASE f = 2
      BY <1>1, <1>4, <1>8, <2>1, <2>3, <2>8, <3>1
    <3>2. CASE f \in 3 .. m + 1
      <4>1. f - 1 = m /\ m \in 1 .. m
        BY <2>3, <2>8, <3>2
      <4>2. stack'[f] = stack[m]
        BY <1>9, <2>3, <3>2, <4>1 DEF m
      <4>3. QED
        BY <2>1, <4>1, <4>2
    <3>3. QED
      BY <2>3, <2>8, <3>1, <3>2
  <2>9. ASSUME NEW f \in 1 .. m + 1, NEW g \in 1 .. f - 1 PROVE stack'[f].last <= stack'[g].first
    <3>1. CASE f = 2
      <4>1. g = 1
        BY <3>1
      <4>2. QED
        BY <1>2, <1>4, <1>8, <3>1, <4>1
    <3>2. CASE f \in 3 .. m + 1
      <4>1. f - 1 \in 1 .. m /\ stack'[f] = stack[f - 1]
        BY <1>9, <2>3, <3>2 DEF m
      <4>2. 1 \in 1 .. (f - 1) - 1
        BY <3>2
      <4>3. stack'[f].last <= top.first
        BY <1>1, <2>1, <4>1, <4>2
      <4>4. CASE g = 1
        <5>1. stack'[g].first = c
          BY <1>4, <1>8, <4>4
        <5>2. stack'[f].last \in 0 .. n
          BY <2>4, <4>1
        <5>3. \A x \in 0 .. n : x <= top.first => x <= c
          BY <1>2
        <5>4. QED
          BY <4>3, <5>1, <5>2, <5>3
      <4>5. CASE g = 2
        BY <1>4, <1>8, <4>3, <4>5
      <4>6. CASE g \in 3 .. f - 1
        <5>1. g \in 3 .. m + 1 /\ g - 1 \in 1 .. (f - 1) - 1
          BY <2>3, <3>2, <4>6
        <5>2. stack'[g] = stack[g - 1]
          BY <1>9, <2>3, <5>1 DEF m
        <5>3. QED
          BY <2>1, <4>1, <5>1, <5>2
      <4>7. g = 1 \/ g = 2 \/ g \in 3 .. f - 1
        BY <3>2
      <4>8. QED
        BY <4>4, <4>5, <4>6, <4>7
    <3>3. QED
      BY <2>3, <3>1, <3>2
  <2>10. limit_factor * log2(n') = limit
    BY DEF limit
  <2>11. QED
    BY <2>3, <2>6, <2>7, <2>8, <2>9, <2>10 DEF StackInv
<1>12. QED
  BY <1>4, <1>7, <1>8, <1>9, <1>10, <1>11

LEMMA CutStep == ASSUME IInv, Cut PROVE IInv'
<1> DEFINE first == top.first  last == top.last
<1>1. /\ TypeOK /\ HeldInv /\ StackInv /\ BlockInv /\ PartitionInv
      /\ pc = "meet" /\ pc' = "loop" /\ pc \in Partitions
      /\ stack' = <<Frame(i, last, top.limit - 1), Frame(first, i, top.limit - 1)>> \o Tail(stack)
      /\ n' = n /\ key' = key /\ a' = a /\ val' = val /\ ~(i < j)
      /\ i' = i /\ j' = j /\ pivot' = pivot /\ root' = root
  BY DEF IInv, Cut, input, Partitions
<1>2. /\ first \in 0 .. n /\ last \in 0 .. n /\ n \in Nat /\ Elements = 0 .. n - 1
      /\ keyAt \in [0 .. n - 1 -> Int]
      /\ i \in 0 .. n - 1 /\ j \in 0 .. n /\ pivot \in 0 .. n - 1
      /\ first <= i /\ i < last /\ first <= j /\ j <= last /\ first <= pivot /\ pivot < last
  BY <1>1, Scanning
<1>3. /\ stack # <<>> /\ Partitioned("meet", keyAt, top, i, j, pivot)
      /\ val = Hole /\ pc # "threw" /\ pc \in {"loop"} \cup Sinks \cup Partitions
  BY <1>1, Scanning
<1>4. /\ top.limit > 0
      /\ \A s \in first .. i - 1 : keyAt[s] <= keyAt[pivot]
      /\ \A s \in j + 1 .. last - 1 : keyAt[pivot] <= keyAt[s]
      /\ keyAt[pivot] <= keyAt[i]
  BY <1>3 DEF Partitioned
<1>5. keyAt' = keyAt /\ HeldInv'
  BY <1>1, <1>3, PlainStep, HeldPlain
<1>6. i \in first .. last
  BY <1>2
<1>7. /\ stack' \in Seq(Frames) /\ StackInv' /\ rest' = last
      /\ Len(stack') = Len(stack) + 1
      /\ stack'[1].first = i /\ stack'[1].last = last
      /\ stack'[2].first = first /\ stack'[2].last = i
      /\ \A f \in 3 .. Len(stack') : f - 1 \in 1 .. Len(stack) /\ stack'[f] = stack[f - 1]
  BY <1>1, <1>3, <1>4, <1>6, StackCut
<1>8. /\ \A f \in 1 .. Len(stack) : Boundary(keyAt, stack[f].first) /\ Boundary(keyAt, stack[f].last)
      /\ Settled(keyAt, last) /\ Boundary(keyAt, first) /\ Boundary(keyAt, last)
  <2>1. top = stack[1] /\ rest = last /\ 1 \in 1 .. Len(stack)
    BY <1>1, <1>3, StackTop
  <2>2. QED
    BY <1>3, <2>1, <1>1 DEF BlockInv
<1> HIDE DEF first, last
<1>9. Boundary(keyAt, i)
  <2> SUFFICES ASSUME NEW x \in 0 .. n - 1, NEW y \in 0 .. n - 1, x < i, i <= y
               PROVE  keyAt[x] <= keyAt[y]
    BY <1>2 DEF Boundary
  <2>1. CASE x < first
    BY <1>2, <1>8, <2>1 DEF Boundary
  <2>2. CASE last <= y
    BY <1>2, <1>8, <2>2 DEF Boundary
  <2>3. CASE first <= x /\ y < last
    <3>1. x \in first .. i - 1 /\ (y = i \/ y \in j + 1 .. last - 1)
      BY <1>1, <1>2, <2>3
    <3>2. keyAt[x] <= keyAt[pivot] /\ keyAt[pivot] <= keyAt[y]
      BY <1>4, <3>1
    <3>3. keyAt[x] \in Int /\ keyAt[y] \in Int /\ keyAt[pivot] \in Int
      BY <1>2
    <3>4. QED
      BY <3>2, <3>3
  <2>4. QED
    BY <1>2, <2>1, <2>2, <2>3
<1>10. BlockInv'
  <2>1. ASSUME NEW f \in 1 .. Len(stack')
        PROVE  Boundary(keyAt, stack'[f].first) /\ Boundary(keyAt, stack'[f].last)
    <3>1. f = 1 \/ f = 2 \/ f \in 3 .. Len(stack')
      BY <1>7
    <3>2. QED
      BY <1>7, <1>8, <1>9, <3>1
  <2>2. Settled(keyAt, rest')
    BY <1>7, <1>8
  <2>3. QED
    BY <1>5, <2>1, <2>2 DEF BlockInv, Boundary, Settled
<1>11. TypeOK'
  BY <1>1, <1>7 DEF TypeOK, Frames, Elements, Sinks, Partitions, Insertions
<1>12. (PartitionInv /\ HeapInv /\ InsertInv)'
  BY <1>1 DEF PartitionInv, HeapInv, InsertInv, Sinks, Partitions, Insertions
<1>13. QED
  BY <1>5, <1>7, <1>10, <1>11, <1>12 DEF IInv
-----------------------------------------------------------------------------
(* The insertion sort.                                                     *)

LEMMA BeginInsertionsStep == ASSUME IInv, BeginInsertions PROVE IInv'
<1>1. /\ TypeOK /\ HeldInv /\ StackInv /\ BlockInv
      /\ pc = "loop" /\ pc' = "insert" /\ stack = <<>> /\ stack' = stack
      /\ n' = n /\ key' = key /\ a' = a /\ val' = val /\ val = Hole
      /\ i' = 1 /\ j' = j /\ pivot' = pivot /\ root' = root
  BY NothingHeld DEF IInv, BeginInsertions, input
<1>2. keyAt' = keyAt /\ HeldInv' /\ StackInv'
  BY <1>1, PlainStep, HeldPlain, StackKept
<1>3. /\ n \in Nat /\ n > 0 /\ Elements = 0 .. n - 1 /\ threshold \in Int /\ threshold >= 2
      /\ keyAt \in [0 .. n - 1 -> Int]
  BY <1>1, Numbers, WholeType
<1>4. Settled(keyAt, 0)
  BY <1>1 DEF BlockInv, rest
<1>5. Inserted("insert", keyAt, 1, j)
  <2>1. \A s \in Elements : threshold <= s => keyAt[0] <= keyAt[s]
    BY <1>3, <1>4 DEF Settled
  <2>2. SortedTo(keyAt, 1)
    BY DEF SortedTo
  <2>3. QED
    BY <1>3, <1>4, <2>1, <2>2 DEF Inserted
<1>6. InsertInv'
  <2>1. Inserted("insert", keyAt, 1, j)'
    BY <1>1, <1>2, <1>5 DEF Inserted, Elements, Settled, SortedTo
  <2>2. QED
    BY <1>1, <2>1 DEF InsertInv
<1>7. TypeOK'
  BY <1>1, <1>3 DEF TypeOK, Frames, Elements, Sinks, Partitions, Insertions
<1>8. (BlockInv /\ PartitionInv /\ HeapInv)'
  BY <1>1 DEF BlockInv, PartitionInv, HeapInv, Sinks, Partitions
<1>9. QED
  BY <1>2, <1>6, <1>7, <1>8 DEF IInv

(* What holds during the insertions.                                       *)
LEMMA Inserting ==
  ASSUME TypeOK, HeldInv, InsertInv, pc \in Insertions
  PROVE  /\ stack = <<>> /\ Inserted(pc, keyAt, i, j)
         /\ n \in Nat /\ n > 0 /\ Elements = 0 .. n - 1 /\ threshold \in Int /\ threshold >= 2
         /\ keyAt \in [0 .. n - 1 -> Int] /\ i \in 1 .. n /\ j \in 0 .. n
         /\ \A s \in Elements : threshold <= s /\ i < s => keyAt[0] <= keyAt[s]
         /\ pc # "threw"
         /\ pc # "insert" => i < n /\ val # Hole /\ hole = j /\ j \in 1 .. i
<1>1. pc # "threw" /\ pc # "done"
  BY DEF Insertions
<1>2. stack = <<>> /\ Inserted(pc, keyAt, i, j)
  BY DEF InsertInv
<1>3. /\ n \in Nat /\ n > 0 /\ Elements = 0 .. n - 1 /\ threshold \in Int /\ threshold >= 2
      /\ keyAt \in [0 .. n - 1 -> Int] /\ i \in 0 .. n /\ j \in 0 .. n
  BY <1>1, Numbers, WholeType DEF TypeOK
<1>4. /\ 1 <= i /\ (pc # "insert" => i < n)
      /\ \A s \in Elements : threshold <= s /\ i < s => keyAt[0] <= keyAt[s]
  BY <1>2 DEF Inserted
<1>5. pc # "insert" => pc \in {"first", "linear"} /\ val # Hole /\ hole = j
  BY DEF Insertions, HeldInv, hole
<1>6. pc # "insert" => j \in 1 .. i
  BY <1>2, <1>3, <1>4, <1>5 DEF Inserted
<1>7. QED
  BY <1>1, <1>2, <1>3, <1>4, <1>5, <1>6

LEMMA BeginInsertionStep == ASSUME IInv, BeginInsertion PROVE IInv'
<1>1. /\ TypeOK /\ HeldInv /\ StackInv /\ InsertInv
      /\ pc = "insert" /\ pc \in Insertions /\ stack' = stack /\ i < n
      /\ n' = n /\ key' = key /\ a' = [a EXCEPT ![i] = Hole] /\ val' = a[i]
      /\ i' = i /\ j' = i /\ pivot' = pivot /\ root' = root
      /\ pc' = IF i < threshold THEN "first" ELSE "linear"
  BY DEF IInv, BeginInsertion, input, Insertions
<1>2. /\ stack = <<>> /\ Inserted("insert", keyAt, i, j)
      /\ n \in Nat /\ n > 0 /\ Elements = 0 .. n - 1 /\ threshold \in Int /\ threshold >= 2
      /\ keyAt \in [0 .. n - 1 -> Int] /\ i \in 1 .. n /\ j \in 0 .. n
      /\ \A s \in Elements : threshold <= s /\ i < s => keyAt[0] <= keyAt[s]
      /\ pc # "threw"
  BY <1>1, Inserting
<1>3. /\ val = Hole /\ whole = a /\ (\A x \in Elements : a[x] # Hole)
      /\ whole \in [Elements -> Elements] /\ Permuted(whole) /\ Hole \notin Elements
  <2>1. val = Hole
    BY <1>1 DEF HeldInv
  <2>2. whole = a /\ \A x \in Elements : a[x] # Hole
    BY <1>1, <1>2, <2>1, NoHole
  <2>3. whole \in [Elements -> Elements] /\ Permuted(whole)
    BY <1>1, <1>2, WholeType DEF HeldInv
  <2>4. Hole \notin Elements
    BY <1>2, IntroSortAssumption
  <2>5. QED
    BY <2>1, <2>2, <2>3, <2>4
<1>4. i \in Elements /\ Elements' = Elements
  BY <1>1, <1>2 DEF Elements
<1>5. /\ a' \in [Elements -> Elements \cup {Hole}] /\ val' \in Elements
      /\ \A x \in Elements : a'[x] = IF x = i THEN Hole ELSE a[x]
  BY <1>1, <1>3, <1>4
<1>6. whole' = whole
  <2>1. \A x \in Elements : (IF a'[x] = Hole THEN val' ELSE a'[x]) = whole[x]
    BY <1>1, <1>3, <1>5
  <2>2. whole' = [x \in Elements |-> IF a'[x] = Hole THEN val' ELSE a'[x]]
    BY <1>4 DEF whole
  <2>3. whole = [x \in Elements |-> whole[x]]
    BY <1>3
  <2>4. QED
    BY <2>1, <2>2, <2>3
<1>7. keyAt' = keyAt /\ Permuted(whole)'
  BY <1>1, <1>3, <1>6, SameWhole
<1>8. HeldInv'
  <2>1. hole' = i /\ val' # Hole /\ pc' \in {"first", "linear"}
    BY <1>1, <1>3, <1>5 DEF hole
  <2>2. QED
    BY <1>1, <1>3, <1>4, <1>5, <1>7, <2>1 DEF HeldInv
<1>9. StackInv'
  BY <1>1, StackKept
<1>10. TypeOK'
  BY <1>1, <1>2, <1>4, <1>5 DEF TypeOK, Frames, Elements, Sinks, Partitions, Insertions
<1>11. InsertInv'
  <2>1. SortedTo(keyAt, i) /\ (threshold <= i => keyAt[0] <= keyAt[i])
    BY <1>1, <1>2 DEF Inserted
  <2>2. Inserted(pc', keyAt, i, i)
    <3>1. CASE i < threshold
      BY <1>1, <1>2, <2>1, <3>1 DEF Inserted
    <3>2. CASE ~(i < threshold)
      <4>1. pc' = "linear" /\ keyAt[0] <= keyAt[i]
        BY <1>1, <1>2, <2>1, <3>2
      <4>2. \A s, t \in 0 .. i : s < t /\ s # i /\ t # i => keyAt[s] <= keyAt[t]
        <5>1. \A s \in 0 .. i : s # i => s \in 0 .. i - 1
          BY <1>2
        <5>2. QED
          BY <2>1, <5>1 DEF SortedTo
      <4>3. i + 1 .. i = {}
        BY <1>2
      <4>4. QED
        BY <1>1, <1>2, <4>1, <4>2, <4>3 DEF Inserted
    <3>3. QED
      BY <3>1, <3>2
  <2>3. Inserted(pc, keyAt, i, j)'
    BY <1>1, <1>4, <1>7, <2>2 DEF Inserted, Settled, SortedTo
  <2>4. QED
    BY <1>1, <1>2, <2>3 DEF InsertInv
<1>12. (BlockInv /\ PartitionInv /\ HeapInv)'
  BY <1>1 DEF BlockInv, PartitionInv, HeapInv, Sinks, Partitions
<1>13. QED
  BY <1>8, <1>9, <1>10, <1>11, <1>12 DEF IInv

(* The element that is held and those before it turn by one place.         *)
LEMMA TurnPermuted ==
  ASSUME n \in Nat, NEW w \in [Elements -> Elements], Permuted(w), NEW m \in Elements,
         NEW v \in [Elements -> Elements],
         \A x \in Elements : v[x] = IF x = 0 THEN w[m] ELSE IF x <= m THEN w[x - 1] ELSE w[x]
  PROVE  Permuted(v)
<1>1. Elements = 0 .. n - 1 /\ 0 \in Elements /\ m \in Int /\ 0 <= m /\ m < n
  BY DEF Elements
<1>2. /\ v[0] = w[m] /\ \A x \in 1 .. m : v[x] = w[x - 1]
      /\ \A x \in m + 1 .. n - 1 : v[x] = w[x]
  <2>1. ASSUME NEW x \in 1 .. m PROVE v[x] = w[x - 1]
    <3>1. x \in Elements /\ x # 0 /\ x <= m
      BY <1>1
    <3>2. QED
      BY <3>1
  <2>2. ASSUME NEW x \in m + 1 .. n - 1 PROVE v[x] = w[x]
    <3>1. x \in Elements /\ x # 0 /\ ~(x <= m)
      BY <1>1
    <3>2. QED
      BY <3>1
  <2>3. QED
    BY <1>1, <2>1, <2>2
<1>3. ASSUME NEW x \in Elements, NEW y \in Elements, v[x] = v[y] PROVE x = y
  <2>1. /\ x = 0 \/ x \in 1 .. m \/ x \in m + 1 .. n - 1
        /\ y = 0 \/ y \in 1 .. m \/ y \in m + 1 .. n - 1
    <3>1. \A s \in 0 .. n - 1 : s = 0 \/ s \in 1 .. m \/ s \in m + 1 .. n - 1
      BY <1>1
    <3>2. QED
      BY <1>1, <3>1
  <2>2. /\ m \in Elements
        /\ \A s \in 1 .. m : s - 1 \in Elements /\ s - 1 # m
        /\ \A s \in m + 1 .. n - 1 : s \in Elements /\ s # m
    <3>1. ASSUME NEW s \in 1 .. m PROVE s - 1 \in Elements /\ s - 1 # m
      <4>1. s - 1 \in 0 .. n - 1
        BY <1>1
      <4>2. QED
        BY <1>1, <4>1
    <3>2. ASSUME NEW s \in m + 1 .. n - 1 PROVE s \in Elements /\ s # m
      <4>1. s \in 0 .. n - 1
        BY <1>1
      <4>2. QED
        BY <1>1, <4>1
    <3>3. QED
      BY <1>1, <3>1, <3>2
  <2>3. \A s, t \in Elements : w[s] = w[t] => s = t
    BY DEF Permuted
  <2>4. CASE x = 0
    BY <1>2, <1>3, <2>1, <2>2, <2>3, <2>4
  <2>5. CASE x \in 1 .. m
    <3>1. CASE y = 0
      BY <1>2, <1>3, <2>2, <2>3, <2>5, <3>1
    <3>2. CASE y \in 1 .. m
      <4>1. x - 1 = y - 1
        BY <1>2, <1>3, <2>2, <2>3, <2>5, <3>2
      <4>2. QED
        BY <1>1, <4>1, <2>5, <3>2
    <3>3. CASE y \in m + 1 .. n - 1
      <4>1. x - 1 = y
        BY <1>2, <1>3, <2>2, <2>3, <2>5, <3>3
      <4>2. QED
        BY <1>1, <4>1, <2>5, <3>3
    <3>4. QED
      BY <2>1, <3>1, <3>2, <3>3
  <2>6. CASE x \in m + 1 .. n - 1
    <3>1. CASE y = 0
      BY <1>2, <1>3, <2>2, <2>3, <2>6, <3>1
    <3>2. CASE y \in 1 .. m
      <4>1. x = y - 1
        BY <1>2, <1>3, <2>2, <2>3, <2>6, <3>2
      <4>2. QED
        BY <1>1, <4>1, <2>6, <3>2
    <3>3. CASE y \in m + 1 .. n - 1
      BY <1>2, <1>3, <2>2, <2>3, <2>6, <3>3
    <3>4. QED
      BY <2>1, <3>1, <3>2, <3>3
  <2>7. QED
    BY <2>1, <2>4, <2>5, <2>6
<1>4. ASSUME NEW e \in Elements PROVE \E x \in Elements : v[x] = e
  <2>1. PICK y \in Elements : w[y] = e
    BY DEF Permuted
  <2>2. CASE y = m
    BY <1>1, <1>2, <2>1, <2>2
  <2>3. CASE y < m
    <3>1. y + 1 \in Elements /\ y + 1 \in 1 .. m /\ (y + 1) - 1 = y
      BY <1>1, <2>3
    <3>2. v[y + 1] = w[y]
      BY <1>2, <3>1
    <3>3. QED
      BY <2>1, <3>1, <3>2
  <2>4. CASE m < y
    <3>1. y \in m + 1 .. n - 1
      BY <1>1, <2>4
    <3>2. QED
      BY <1>2, <2>1, <3>1
  <2>5. QED
    BY <1>1, <2>2, <2>3, <2>4
<1>5. QED
  BY <1>3, <1>4 DEF Permuted

LEMMA InsertFirstStep == ASSUME IInv, InsertFirst PROVE IInv'
<1>1. /\ TypeOK /\ HeldInv /\ StackInv /\ InsertInv
      /\ pc = "first" /\ pc \in Insertions /\ stack' = stack
      /\ n' = n /\ key' = key /\ j' = j /\ pivot' = pivot /\ root' = root
  BY DEF IInv, InsertFirst, input, Insertions
<1>2. /\ stack = <<>> /\ Inserted("first", keyAt, i, j)
      /\ n \in Nat /\ n > 0 /\ Elements = 0 .. n - 1 /\ threshold \in Int /\ threshold >= 2
      /\ keyAt \in [0 .. n - 1 -> Int] /\ i \in 1 .. n /\ j \in 0 .. n
      /\ pc # "threw" /\ i < n /\ val # Hole /\ hole = j
  BY <1>1, Inserting
<1>3. \A s \in Elements : threshold <= s /\ i < s => keyAt[0] <= keyAt[s]
  BY <1>1, Inserting
<1>4. j = i /\ SortedTo(keyAt, i) /\ i \in Elements /\ 0 \in Elements /\ Elements' = Elements
  BY <1>1, <1>2 DEF Inserted, Elements
<1>5. /\ whole \in [Elements -> Elements] /\ Permuted(whole) /\ Hole \notin Elements
      /\ (\A x \in Elements : a[x] = Hole <=> x = i)
      /\ whole[i] = val /\ (\A x \in Elements : x # i => whole[x] = a[x])
  BY <1>1, <1>2, <1>4, WholeType, IntroSortAssumption DEF HeldInv, whole
<1>6. less(val, a[0]) <=> keyAt[i] < keyAt[0]
  <2>1. 0 # i
    BY <1>2
  <2>2. a[i] = Hole /\ a[0] # Hole
    BY <1>4, <1>5, <2>1
  <2>3. QED
    BY <1>1, <1>2, <1>4, <2>2, Compared
<1>7. StackInv'
  BY <1>1, StackKept
<1>8. CASE less(val, a[0])
  <2>1. /\ a' = [x \in Elements |-> IF x = 0 THEN val ELSE IF x <= i THEN a[x - 1] ELSE a[x]]
        /\ val' = Hole /\ i' = i + 1 /\ pc' = "insert"
    BY <1>8 DEF InsertFirst
  <2>2. ASSUME NEW x \in Elements
        PROVE  a'[x] = IF x = 0 THEN whole[i] ELSE IF x <= i THEN whole[x - 1] ELSE whole[x]
    <3>1. CASE x = 0
      BY <1>5, <2>1, <3>1
    <3>2. CASE x # 0 /\ x <= i
      <4>1. x - 1 \in Elements /\ x - 1 # i
        BY <1>2, <3>2
      <4>2. QED
        BY <1>5, <2>1, <3>2, <4>1
    <3>3. CASE x # 0 /\ ~(x <= i)
      <4>1. x # i
        BY <1>2, <3>3
      <4>2. QED
        BY <1>5, <2>1, <3>3, <4>1
    <3>4. QED
      BY <3>1, <3>2, <3>3
  <2>3. \A x \in Elements : a'[x] \in Elements
    <3>1. \A x \in Elements : x # 0 => x - 1 \in Elements
      BY <1>2
    <3>2. QED
      BY <1>4, <1>5, <2>2, <3>1
  <2>4. a' \in [Elements -> Elements]
    BY <2>1, <2>3
  <2>5. whole' = a'
    BY <1>4, <1>5, <2>3, <2>4 DEF whole
  <2>6. Permuted(whole)'
    <3>1. Permuted(a')
      BY <1>2, <1>4, <1>5, <2>2, <2>4, TurnPermuted
    <3>2. QED
      BY <1>4, <2>5, <3>1 DEF Permuted
  <2>7. HeldInv'
    BY <1>4, <1>5, <2>1, <2>3, <2>6 DEF HeldInv
  <2>8. TypeOK'
    <3>1. a' \in [Elements -> Elements \cup {Hole}]
      BY <2>4
    <3>2. i' \in 0 .. n
      BY <1>2, <2>1
    <3>3. QED
      BY <1>1, <1>4, <2>1, <3>1, <3>2 DEF TypeOK, Frames, Elements, Sinks, Partitions, Insertions
  <2> DEFINE v == keyAt'
  <2>9. \A x \in Elements : v[x] = IF x = 0 THEN keyAt[i] ELSE IF x <= i THEN keyAt[x - 1] ELSE keyAt[x]
    <3>1. \A x \in Elements : v[x] = key[a'[x]] /\ keyAt[x] = key[whole[x]]
      BY <1>1, <1>4, <2>5 DEF keyAt
    <3>2. \A x \in Elements : x # 0 => x - 1 \in Elements
      BY <1>2
    <3>3. QED
      BY <1>4, <2>2, <3>1, <3>2
  <2> HIDE DEF v
  <2>10. keyAt[i] < keyAt[0] /\ v[0] = keyAt[i] /\ keyAt[i] \in Int /\ keyAt[0] \in Int
    BY <1>2, <1>4, <1>6, <1>8, <2>9
  <2>11. SortedTo(v, i + 1)
    <3> SUFFICES ASSUME NEW x \in 0 .. i, NEW y \in 0 .. i, x < y PROVE v[x] <= v[y]
      BY <1>2 DEF SortedTo
    <3>1. /\ y - 1 \in 0 .. i - 1 /\ y - 1 \in Elements /\ y \in Elements /\ x \in Elements
          /\ y # 0 /\ y <= i
      BY <1>2
    <3>2. v[y] = keyAt[y - 1] /\ keyAt[y - 1] \in Int
      BY <1>2, <2>9, <3>1
    <3>3. CASE x = 0
      <4>1. keyAt[0] <= keyAt[y - 1]
        <5>1. CASE y - 1 = 0
          BY <2>10, <5>1
        <5>2. CASE y - 1 # 0
          BY <1>2, <1>4, <3>1, <5>2 DEF SortedTo
        <5>3. QED
          BY <5>1, <5>2
      <4>2. QED
        BY <2>10, <3>2, <3>3, <4>1
    <3>4. CASE x # 0
      <4>1. x - 1 \in 0 .. i - 1 /\ x - 1 < y - 1 /\ x <= i
        BY <1>2, <3>4
      <4>2. v[x] = keyAt[x - 1]
        BY <2>9, <3>1, <3>4, <4>1
      <4>3. QED
        BY <1>4, <3>1, <3>2, <4>1, <4>2 DEF SortedTo
    <3>5. QED
      BY <3>3, <3>4
  <2>12. \A s \in Elements : threshold <= s /\ i < s => v[0] <= v[s]
    <3> SUFFICES ASSUME NEW s \in Elements, threshold <= s, i < s PROVE v[0] <= v[s]
      OBVIOUS
    <3>1. s # 0 /\ ~(s <= i)
      BY <1>2
    <3>2. v[s] = keyAt[s] /\ keyAt[0] <= keyAt[s] /\ keyAt[s] \in Int
      BY <1>2, <1>3, <2>9, <3>1
    <3>3. QED
      BY <2>10, <3>2
  <2>13. InsertInv'
    <3>1. Inserted("insert", v, i + 1, j)
      <4>1. 1 <= i + 1 /\ i + 1 # 1
        BY <1>2
      <4>2. \A s \in Elements : threshold <= s /\ i + 1 < s => v[0] <= v[s]
        BY <1>2, <2>12
      <4>3. threshold <= i + 1 /\ i + 1 < n => v[0] <= v[i + 1]
        BY <1>2, <2>12
      <4>4. QED
        BY <2>11, <4>1, <4>2, <4>3 DEF Inserted
    <3>2. Inserted(pc, keyAt, i, j)'
      BY <1>1, <1>4, <2>1, <3>1 DEF Inserted, Settled, SortedTo, v
    <3>3. QED
      BY <1>1, <1>2, <2>1, <3>2 DEF InsertInv
  <2>14. (BlockInv /\ PartitionInv /\ HeapInv)'
    BY <2>1 DEF BlockInv, PartitionInv, HeapInv, Sinks, Partitions
  <2>15. QED
    BY <1>7, <2>7, <2>8, <2>13, <2>14 DEF IInv
<1>9. CASE ~less(val, a[0])
  <2>1. pc' = "linear" /\ a' = a /\ val' = val /\ i' = i
    BY <1>9 DEF InsertFirst
  <2>2. whole' = whole /\ keyAt' = keyAt
    BY <1>1, <2>1, PlainStep
  <2>3. HeldInv'
    BY <1>1, <1>2, <1>4, <1>5, <2>1, <2>2 DEF HeldInv, hole, Permuted
  <2>4. TypeOK'
    BY <1>1, <2>1 DEF TypeOK, Frames, Elements, Sinks, Partitions, Insertions
  <2>5. InsertInv'
    <3>1. keyAt[0] <= keyAt[i]
      BY <1>2, <1>4, <1>6, <1>9
    <3>2. \A s, t \in 0 .. i : s < t /\ s # i /\ t # i => keyAt[s] <= keyAt[t]
      <4>1. \A s \in 0 .. i : s # i => s \in 0 .. i - 1
        BY <1>2
      <4>2. QED
        BY <1>4, <4>1 DEF SortedTo
    <3>3. i + 1 .. i = {}
      BY <1>2
    <3>4. Inserted("linear", keyAt, i, i)
      BY <1>2, <1>3, <3>1, <3>2, <3>3 DEF Inserted
    <3>5. Inserted(pc, keyAt, i, j)'
      BY <1>1, <1>4, <2>1, <2>2, <3>4 DEF Inserted, Settled, SortedTo
    <3>6. QED
      BY <1>1, <1>2, <2>1, <3>5 DEF InsertInv
  <2>6. (BlockInv /\ PartitionInv /\ HeapInv)'
    BY <2>1 DEF BlockInv, PartitionInv, HeapInv, Sinks, Partitions
  <2>7. QED
    BY <1>7, <2>3, <2>4, <2>5, <2>6 DEF IInv
<1>10. QED
  BY <1>8, <1>9

LEMMA InsertLinearStep == ASSUME IInv, InsertLinear PROVE IInv'
<1>1. /\ TypeOK /\ HeldInv /\ StackInv /\ InsertInv
      /\ pc = "linear" /\ pc \in Insertions /\ stack' = stack
      /\ n' = n /\ key' = key /\ pivot' = pivot /\ root' = root
  BY DEF IInv, InsertLinear, input, Insertions
<1>2. /\ stack = <<>> /\ Inserted("linear", keyAt, i, j)
      /\ n \in Nat /\ n > 0 /\ Elements = 0 .. n - 1 /\ threshold \in Int /\ threshold >= 2
      /\ keyAt \in [0 .. n - 1 -> Int] /\ i \in 1 .. n /\ j \in 0 .. n
      /\ pc # "threw" /\ i < n /\ val # Hole /\ hole = j /\ j \in 1 .. i
  BY <1>1, Inserting
<1>3. \A s \in Elements : threshold <= s /\ i < s => keyAt[0] <= keyAt[s]
  BY <1>1, Inserting
<1>4. /\ \A s, t \in 0 .. i : s < t /\ s # j /\ t # j => keyAt[s] <= keyAt[t]
      /\ \A s \in j + 1 .. i : keyAt[j] < keyAt[s]
      /\ keyAt[0] <= keyAt[j]
  BY <1>2 DEF Inserted
<1>5. /\ j \in Elements /\ j - 1 \in Elements /\ 0 \in Elements /\ j # j - 1
      /\ j \in Int /\ Elements' = Elements
  BY <1>1, <1>2 DEF Elements
<1>6. /\ whole \in [Elements -> Elements] /\ Permuted(whole) /\ Hole \notin Elements
      /\ val \in Elements /\ a \in [Elements -> Elements \cup {Hole}]
      /\ \A x \in Elements : a[x] = Hole <=> x = j
  <2>1. whole \in [Elements -> Elements] /\ Permuted(whole)
    BY <1>1, <1>2, WholeType DEF HeldInv
  <2>2. Hole \notin Elements
    BY <1>2, IntroSortAssumption
  <2>3. /\ val \in Elements /\ a \in [Elements -> Elements \cup {Hole}]
        /\ \A x \in Elements : a[x] = Hole <=> x = j
    BY <1>1, <1>2, <1>5 DEF TypeOK, HeldInv
  <2>4. QED
    BY <2>1, <2>2, <2>3
<1>7. whole[j] = val /\ \A x \in Elements : x # j => whole[x] = a[x]
  BY <1>5, <1>6 DEF whole
<1>8. less(val, a[j - 1]) <=> keyAt[j] < keyAt[j - 1]
  <2>1. a[j] = Hole /\ a[j - 1] # Hole
    BY <1>5, <1>6
  <2>2. QED
    BY <1>1, <1>2, <1>5, <2>1, Compared
<1>9. StackInv'
  BY <1>1, StackKept
<1>10. keyAt[0] \in Int /\ keyAt[j] \in Int /\ keyAt[j - 1] \in Int
  BY <1>2, <1>5
<1>11. CASE less(val, a[j - 1])
  <2>1. /\ a' = [a EXCEPT ![j] = a[j - 1], ![j - 1] = Hole] /\ j' = j - 1
        /\ val' = val /\ i' = i /\ pc' = "linear" /\ pc' = pc
    BY <1>1, <1>11 DEF InsertLinear
  <2>2. keyAt[j] < keyAt[j - 1] /\ j - 1 # 0
    BY <1>4, <1>8, <1>10, <1>11
  <2>3. /\ a' \in [Elements -> Elements \cup {Hole}]
        /\ \A x \in Elements : a'[x] = IF x = j - 1 THEN Hole ELSE IF x = j THEN a[j - 1] ELSE a[x]
    BY <1>5, <1>6, <2>1
  <2>4. whole' = Swapped(whole, j, j - 1)
    <3>1. /\ Swapped(whole, j, j - 1) \in [Elements -> Elements]
          /\ Swapped(whole, j, j - 1)[j] = whole[j - 1]
          /\ Swapped(whole, j, j - 1)[j - 1] = whole[j]
          /\ \A x \in Elements : x # j /\ x # j - 1 => Swapped(whole, j, j - 1)[x] = whole[x]
      BY <1>5, <1>6 DEF Swapped
    <3>2. whole' = [x \in Elements |-> IF a'[x] = Hole THEN val ELSE a'[x]]
      BY <1>5, <2>1 DEF whole
    <3>3. ASSUME NEW x \in Elements
          PROVE (IF a'[x] = Hole THEN val ELSE a'[x]) = Swapped(whole, j, j - 1)[x]
      <4>1. CASE x = j - 1
        BY <1>7, <2>3, <3>1, <4>1
      <4>2. CASE x = j
        BY <1>5, <1>6, <1>7, <2>3, <3>1, <4>2
      <4>3. CASE x # j /\ x # j - 1
        BY <1>6, <1>7, <2>3, <3>1, <4>3
      <4>4. QED
        BY <4>1, <4>2, <4>3
    <3>4. QED
      BY <3>1, <3>2, <3>3
  <2>5. keyAt' = Swapped(keyAt, j, j - 1) /\ Permuted(whole)'
    BY <1>1, <1>2, <1>5, <2>4, SwappedWhole
  <2>6. hole' = j - 1
    BY <1>1, <2>1 DEF hole
  <2>7. \A x \in Elements : a'[x] = Hole <=> x = j - 1
    BY <1>5, <1>6, <2>3
  <2>8. HeldInv'
    <3>1. hole' < n
      BY <1>2, <2>6
    <3>2. QED
      BY <1>1, <1>2, <1>5, <2>1, <2>5, <2>6, <2>7, <3>1 DEF HeldInv
  <2>9. TypeOK'
    <3>1. j' \in 0 .. n
      BY <1>2, <2>1
    <3>2. QED
      BY <1>1, <2>1, <2>3, <3>1 DEF TypeOK, Frames, Elements, Sinks, Partitions, Insertions
  <2> DEFINE v == Swapped(keyAt, j, j - 1)
  <2>10. v[j] = keyAt[j - 1] /\ v[j - 1] = keyAt[j]
         /\ \A x \in 0 .. n - 1 : x # j /\ x # j - 1 => v[x] = keyAt[x]
    BY <1>2, <1>5 DEF Swapped
  <2> HIDE DEF v
  <2>11. \A s \in 0 .. i : s \in 0 .. n - 1
    BY <1>2
  <2>12. ASSUME NEW s \in 0 .. i, NEW t \in 0 .. i, s < t, s # j - 1, t # j - 1
         PROVE  v[s] <= v[t]
    <3>1. j \in 0 .. i /\ j - 1 \in 0 .. i /\ s \in Int /\ t \in Int
      BY <1>2
    <3>2. CASE s = j
      <4>1. j - 1 < t /\ j - 1 # j /\ t # j
        BY <1>5, <2>12, <3>1, <3>2
      <4>2. keyAt[j - 1] <= keyAt[t]
        BY <1>4, <3>1, <4>1
      <4>3. QED
        BY <2>10, <2>11, <2>12, <3>2, <4>1, <4>2
    <3>3. CASE t = j
      <4>1. s < j - 1 /\ j - 1 # j /\ s # j
        BY <1>5, <2>12, <3>1, <3>3
      <4>2. keyAt[s] <= keyAt[j - 1]
        BY <1>4, <3>1, <4>1
      <4>3. QED
        BY <2>10, <2>11, <2>12, <3>3, <4>1, <4>2
    <3>4. CASE s # j /\ t # j
      BY <1>4, <2>10, <2>11, <2>12, <3>4
    <3>5. QED
      BY <3>2, <3>3, <3>4
  <2>13. ASSUME NEW s \in (j - 1) + 1 .. i PROVE v[j - 1] < v[s]
    <3>1. s = j \/ (s \in j + 1 .. i /\ s \in 0 .. n - 1 /\ s # j /\ s # j - 1)
      BY <1>2
    <3>2. QED
      BY <1>4, <2>2, <2>10, <3>1
  <2>14. v[0] = keyAt[0] /\ v[0] <= v[j - 1]
    <3>1. 0 \in 0 .. n - 1 /\ 0 # j /\ 0 # j - 1
      BY <1>2, <2>2
    <3>2. QED
      BY <1>4, <2>10, <3>1
  <2>15. ASSUME NEW s \in Elements, threshold <= s, i < s PROVE v[0] <= v[s]
    <3>1. s \in 0 .. n - 1 /\ s # j /\ s # j - 1
      BY <1>2, <2>15
    <3>2. QED
      BY <1>3, <2>10, <2>14, <2>15, <3>1
  <2>16. 0 < j - 1 /\ j - 1 <= i /\ 1 <= i
    BY <1>2, <2>2
  <2>17. InsertInv'
    <3>1. Inserted("linear", v, i, j - 1)
      BY <1>2, <2>12, <2>13, <2>14, <2>15, <2>16 DEF Inserted
    <3>2. Inserted(pc, keyAt, i, j)'
      BY <1>1, <1>5, <2>1, <2>5, <3>1 DEF Inserted, Settled, SortedTo, v
    <3>3. QED
      BY <1>1, <1>2, <2>1, <3>2 DEF InsertInv
  <2>18. (BlockInv /\ PartitionInv /\ HeapInv)'
    BY <2>1 DEF BlockInv, PartitionInv, HeapInv, Sinks, Partitions
  <2>19. QED
    BY <1>9, <2>8, <2>9, <2>17, <2>18 DEF IInv
<1>12. CASE ~less(val, a[j - 1])
  <2>1. /\ a' = [a EXCEPT ![j] = val] /\ j' = j
        /\ val' = Hole /\ i' = i + 1 /\ pc' = "insert"
    BY <1>1, <1>12 DEF InsertLinear
  <2>2. /\ a' \in [Elements -> Elements]
        /\ \A x \in Elements : a'[x] = whole[x]
    BY <1>5, <1>6, <1>7, <2>1
  <2>3. whole' = whole
    <3>1. whole' = [x \in Elements |-> IF a'[x] = Hole THEN val' ELSE a'[x]]
      BY <1>5 DEF whole
    <3>2. QED
      BY <1>6, <2>2, <3>1
  <2>4. keyAt' = keyAt /\ Permuted(whole)'
    BY <1>1, <1>6, <2>3, SameWhole
  <2>5. HeldInv'
    BY <1>5, <1>6, <2>1, <2>2, <2>4 DEF HeldInv
  <2>6. TypeOK'
    <3>1. a' \in [Elements -> Elements \cup {Hole}]
      BY <2>2
    <3>2. i' \in 0 .. n
      BY <1>2, <2>1
    <3>3. QED
      BY <1>1, <1>5, <2>1, <3>1, <3>2 DEF TypeOK, Frames, Elements, Sinks, Partitions, Insertions
  <2>7. keyAt[j - 1] <= keyAt[j]
    BY <1>8, <1>10, <1>12
  <2>8. SortedTo(keyAt, i + 1)
    <3> SUFFICES ASSUME NEW x \in 0 .. i, NEW y \in 0 .. i, x < y PROVE keyAt[x] <= keyAt[y]
      BY <1>2 DEF SortedTo
    <3>1. j - 1 \in 0 .. i /\ x \in Int /\ y \in Int /\ x \in 0 .. n - 1 /\ y \in 0 .. n - 1
      BY <1>2
    <3>2. CASE x = j
      <4>1. y \in j + 1 .. i
        BY <1>5, <3>1, <3>2
      <4>2. keyAt[j] < keyAt[y] /\ keyAt[y] \in Int
        BY <1>2, <1>4, <3>1, <4>1
      <4>3. QED
        BY <1>10, <3>2, <4>2
    <3>3. CASE y = j
      <4>1. x = j - 1 \/ (x < j - 1 /\ x # j /\ j - 1 # j)
        BY <1>5, <3>1, <3>3
      <4>2. keyAt[x] <= keyAt[j - 1] /\ keyAt[x] \in Int
        BY <1>2, <1>4, <1>10, <3>1, <4>1
      <4>3. QED
        BY <1>10, <2>7, <3>3, <4>2
    <3>4. CASE x # j /\ y # j
      BY <1>4, <3>4
    <3>5. QED
      BY <3>2, <3>3, <3>4
  <2>9. InsertInv'
    <3>1. 1 <= i + 1 /\ i + 1 # 1
      BY <1>2
    <3>2. \A s \in Elements : threshold <= s /\ i + 1 < s => keyAt[0] <= keyAt[s]
      BY <1>2, <1>3
    <3>3. threshold <= i + 1 /\ i + 1 < n => keyAt[0] <= keyAt[i + 1]
      BY <1>2, <1>3
    <3>4. Inserted("insert", keyAt, i + 1, j)
      BY <2>8, <3>1, <3>2, <3>3 DEF Inserted
    <3>5. Inserted(pc, keyAt, i, j)'
      BY <1>1, <1>5, <2>1, <2>4, <3>4 DEF Inserted, Settled, SortedTo
    <3>6. QED
      BY <1>1, <1>2, <2>1, <3>5 DEF InsertInv
  <2>10. (BlockInv /\ PartitionInv /\ HeapInv)'
    BY <2>1 DEF BlockInv, PartitionInv, HeapInv, Sinks, Partitions
  <2>11. QED
    BY <1>9, <2>5, <2>6, <2>9, <2>10 DEF IInv
<1>13. QED
  BY <1>11, <1>12

LEMMA FinishStep == ASSUME IInv, Finish PROVE IInv'
<1>1. /\ TypeOK /\ HeldInv /\ StackInv /\ InsertInv
      /\ pc = "insert" /\ pc \in Insertions /\ pc' = "done" /\ stack' = stack /\ i >= n
      /\ n' = n /\ key' = key /\ a' = a /\ val' = val /\ val = Hole
      /\ i' = i /\ j' = j /\ pivot' = pivot /\ root' = root
  BY NothingHeld DEF IInv, Finish, input, Insertions
<1>2. i = n /\ Inserted("insert", keyAt, i, j)
  BY <1>1, Inserting
<1>3. SortedTo(keyAt, n)
  BY <1>2 DEF Inserted
<1>4. keyAt' = keyAt /\ HeldInv' /\ StackInv'
  BY <1>1, PlainStep, HeldPlain, StackKept
<1>5. InsertInv'
  BY <1>1, <1>3, <1>4 DEF InsertInv, Insertions, SortedTo
<1>6. TypeOK'
  BY <1>1 DEF TypeOK, Frames, Elements, Sinks, Partitions, Insertions
<1>7. (BlockInv /\ PartitionInv /\ HeapInv)'
  BY <1>1 DEF BlockInv, PartitionInv, HeapInv, Sinks, Partitions
<1>8. QED
  BY <1>4, <1>5, <1>6, <1>7 DEF IInv

-----------------------------------------------------------------------------
(* What leaves the loop by an exception keeps what is in the range.        *)
LEMMA ThrowStep == ASSUME IInv, Throw PROVE IInv'
<1>1. /\ TypeOK /\ HeldInv /\ StackInv
      /\ pc' = "threw" /\ val' = Hole /\ stack' = stack
      /\ n' = n /\ key' = key /\ a' = a
      /\ i' = i /\ j' = j /\ pivot' = pivot /\ root' = root
  BY DEF IInv, Throw, input
<1>2. pc # "threw"
  BY DEF Throw
<1>3. \A x, y \in Elements : a[x] = a[y] => x = y
  <2> SUFFICES ASSUME NEW x \in Elements, NEW y \in Elements, a[x] = a[y] PROVE x = y
    OBVIOUS
  <2>1. CASE a[x] = Hole
    BY <1>1, <1>2, <2>1 DEF HeldInv
  <2>2. CASE a[x] # Hole
    <3>1. whole[x] = whole[y]
      BY <2>2 DEF whole
    <3>2. QED
      BY <1>1, <1>2, <3>1 DEF HeldInv, Permuted
  <2>3. QED
    BY <2>1, <2>2
<1>4. HeldInv'
  BY <1>1, <1>3 DEF HeldInv, Elements
<1>5. StackInv'
  BY <1>1, StackKept
<1>6. TypeOK'
  BY <1>1 DEF TypeOK, Frames, Elements, Sinks, Partitions, Insertions
<1>7. (BlockInv /\ PartitionInv /\ HeapInv /\ InsertInv)'
  BY <1>1 DEF BlockInv, PartitionInv, HeapInv, InsertInv, Sinks, Partitions, Insertions
<1>8. QED
  BY <1>4, <1>5, <1>6, <1>7 DEF IInv

LEMMA Stutter == ASSUME IInv, UNCHANGED vars PROVE IInv'
<1>1. /\ n' = n /\ key' = key /\ a' = a /\ pc' = pc /\ stack' = stack
      /\ i' = i /\ j' = j /\ pivot' = pivot /\ root' = root /\ val' = val
  BY DEF vars
<1>2. whole' = whole /\ keyAt' = keyAt /\ Elements' = Elements /\ rest' = rest /\ top' = top
  BY <1>1, PlainStep DEF Elements, rest, top
<1>3. TypeOK' /\ StackInv'
  BY <1>1, <1>2 DEF IInv, TypeOK, StackInv, Frames
<1>4. HeldInv'
  BY <1>1, <1>2 DEF IInv, HeldInv, hole, Permuted
<1>5. (BlockInv /\ PartitionInv)'
  BY <1>1, <1>2 DEF IInv, BlockInv, Boundary, Settled, PartitionInv, Partitioned
<1>6. HeapInv'
  BY <1>1, <1>2 DEF IInv, HeapInv, Heaped, SortedTail, HeapExcept, BelowParent
<1>7. InsertInv'
  BY <1>1, <1>2 DEF IInv, InsertInv, Inserted, Settled, SortedTo
<1>8. QED
  BY <1>3, <1>4, <1>5, <1>6, <1>7 DEF IInv

LEMMA Inductive == IInv /\ [Next]_vars => IInv'
<1> SUFFICES ASSUME IInv, [Next]_vars PROVE IInv'
  OBVIOUS
<1>1. CASE Step
  BY <1>1, LeaveBlockStep, BeginHeapStep, SiftParentStep, PopHeapStep, HeapSortedStep,
     SiftLeafStep, GreaterChildStep, SiftChildStep, PartitionStep, ScanUpStep,
     ScanDownStep, ExchangeStep, CutStep, BeginInsertionsStep, BeginInsertionStep,
     InsertFirstStep, InsertLinearStep, FinishStep DEF Step
<1>2. CASE Throw
  BY <1>2, ThrowStep
<1>3. CASE UNCHANGED vars
  BY <1>3, Stutter
<1>4. QED
  BY <1>1, <1>2, <1>3 DEF Next

(* The inductive invariant holds for every length, keys, threshold and     *)
(* limit of the depth, and whichever comparison throws.                    *)
THEOREM Invariant == Spec => []IInv
<1>1. QED
  BY Start, Inductive, PTL DEF Spec

(* Every variable keeps its type: the iterators never leave the range and  *)
(* the frames of the recursion lie within it.                              *)
THEOREM TypeCorrect == Spec => []TypeOK
<1>1. IInv => TypeOK
  BY DEF IInv
<1>2. QED
  BY <1>1, Invariant, PTL

-----------------------------------------------------------------------------
(* The scans of unguarded_partition and unguarded_linear_insert, which     *)
(* test no bound, stay within the range, and sift_down_n within its heap;  *)
(* none of them compares a moved-from element.                             *)
THEOREM InBounds == Spec => []UnguardedInBounds
<1>1. ASSUME IInv PROVE UnguardedInBounds
  <2>1. TypeOK /\ HeldInv /\ StackInv /\ PartitionInv /\ HeapInv /\ InsertInv
    BY <1>1 DEF IInv
  <2>2. ASSUME pc = "up" PROVE i < top.last
    BY <2>1, <2>2 DEF PartitionInv, Partitioned, Partitions
  <2>3. ASSUME pc = "down" PROVE top.first < j
    <3>1. Partitioned("down", keyAt, top, i, j, pivot)
      BY <2>1, <2>3 DEF PartitionInv, Partitions
    <3>2. PICK s \in top.first .. j - 1 : keyAt[s] <= keyAt[pivot]
      BY <3>1 DEF Partitioned
    <3>3. top.first \in Int /\ j \in Int
      BY <2>1, <2>3, Scanning DEF Partitions
    <3>4. QED
      BY <3>2, <3>3
  <2>4. ASSUME pc = "order" PROVE pivot < j /\ a[pivot] # Hole
    <3>1. /\ pivot < j /\ ChildOf(pivot - top.first, i - top.first)
      BY <2>1, <2>4 DEF HeapInv, Heaped, Sinks
    <3>2. pivot \in Elements /\ top.first \in 0 .. n /\ i \in Int /\ n \in Nat /\ top.first <= i
      BY <2>1, <2>4, Sinking, Numbers, SMTT(30) DEF TypeOK, Elements, Sinks
    <3>3. pivot # i
      BY <3>1, <3>2, Numbers, <2>1 DEF ChildOf
    <3>4. QED
      BY <2>1, <2>4, <3>1, <3>2, <3>3 DEF HeldInv, hole
  <2>5. ASSUME pc = "linear" PROVE 0 < j /\ a[j - 1] # Hole
    <3>1. n \in Nat /\ i \in 1 .. n /\ i < n /\ j \in 1 .. i /\ hole = j /\ Elements = 0 .. n - 1
      BY <2>1, <2>5, Inserting DEF Insertions
    <3>2. j - 1 \in Elements /\ j - 1 # j /\ 0 < j
      BY <3>1
    <3>3. QED
      BY <2>1, <2>5, <3>1, <3>2 DEF HeldInv
  <2>6. ASSUME pc = "first" PROVE a[0] # Hole
    <3>1. n \in Nat /\ i \in 1 .. n /\ i < n /\ j \in 1 .. i /\ hole = j /\ Elements = 0 .. n - 1
      BY <2>1, <2>6, Inserting DEF Insertions
    <3>2. 0 \in Elements /\ 0 # j
      BY <3>1
    <3>3. QED
      BY <2>1, <2>6, <3>1, <3>2 DEF HeldInv
  <2>7. QED
    BY <2>2, <2>3, <2>4, <2>5, <2>6 DEF UnguardedInBounds
<1>2. QED
  BY <1>1, Invariant, PTL

(* sort() loses no element and duplicates none at any step: each is in the *)
(* range or held once; when the comparison throws, one at most is gone.    *)
THEOREM ElementsKept == Spec => []KeepsElements
<1>1. ASSUME IInv PROVE KeepsElements
  <2>1. TypeOK /\ HeldInv
    BY <1>1 DEF IInv
  <2>2. CASE pc = "threw"
    BY <2>1, <2>2 DEF HeldInv, KeepsElements
  <2>3. CASE pc # "threw"
    <3>1. /\ \A x \in Elements : a[x] = Hole <=> val # Hole /\ x = hole
          /\ Permuted(whole)
      BY <2>1, <2>3 DEF HeldInv
    <3>2. \A x \in Elements : whole[x] = IF a[x] = Hole THEN val ELSE a[x]
      BY DEF whole
    <3>3. ASSUME NEW x \in Elements, NEW y \in Elements, a[x] = a[y] PROVE x = y
      <4>1. CASE a[x] = Hole
        BY <3>1, <3>3, <4>1
      <4>2. CASE a[x] # Hole
        BY <3>1, <3>2, <3>3, <4>2 DEF Permuted
      <4>3. QED
        BY <4>1, <4>2
    <3>4. ASSUME NEW x \in Elements, a[x] = val, val # Hole PROVE FALSE
      <4>1. PICK h \in Elements : h = hole
        <5>1. hole \in Int /\ 0 <= hole /\ hole < n /\ n \in Nat
          BY <2>1, <2>3, <3>4, Numbers DEF HeldInv, hole, TypeOK
        <5>2. QED
          BY <5>1 DEF Elements
      <4>2. a[h] = Hole /\ a[x] # Hole
        BY <3>1, <3>4, <4>1
      <4>3. whole[h] = whole[x]
        BY <3>2, <3>4, <4>2
      <4>4. h = x
        BY <3>1, <4>3 DEF Permuted
      <4>5. QED
        BY <4>2, <4>4
    <3>5. ASSUME NEW x \in Elements PROVE x = val \/ \E k \in Elements : a[k] = x
      <4>1. PICK k \in Elements : whole[k] = x
        BY <3>1 DEF Permuted
      <4>2. QED
        BY <3>2, <4>1
    <3>6. QED
      BY <3>3, <3>4, <3>5 DEF KeepsElements
  <2>4. QED
    BY <2>2, <2>3
<1>2. QED
  BY <1>1, Invariant, PTL

(* Two elements of the range are in order as their keys are.               *)
LEMMA NotLess ==
  ASSUME TypeOK, HeldInv, pc # "threw", pc \notin {"sift", "order", "first", "linear"},
         NEW x \in Elements, NEW y \in Elements, keyAt[x] <= keyAt[y]
  PROVE  ~less(a[y], a[x])
<1>1. a[x] # Hole /\ a[y] # Hole
  BY NothingHeld
<1>2. keyAt[x] \in Int /\ keyAt[y] \in Int
  BY WholeType, Numbers
<1>3. less(a[y], a[x]) <=> keyAt[y] < keyAt[x]
  BY <1>1, Compared
<1>4. QED
  BY <1>2, <1>3

(* introsort_loop leaves elements that lie a threshold or more apart in    *)
(* order, which is what makes the unguarded insertions safe.               *)
THEOREM BlocksAreInOrder == Spec => []BlocksInOrder
<1>1. ASSUME IInv, pc = "insert", i = 1,
             NEW x \in Elements, NEW y \in Elements, y - x >= threshold
      PROVE  ~less(a[y], a[x])
  <2>1. TypeOK /\ HeldInv /\ InsertInv /\ pc \in Insertions
    BY <1>1 DEF IInv, Insertions
  <2>2. Settled(keyAt, 0) /\ Elements = 0 .. n - 1 /\ keyAt \in [0 .. n - 1 -> Int]
    BY <1>1, <2>1, Inserting DEF Inserted
  <2>3. keyAt[x] <= keyAt[y]
    BY <1>1, <2>2 DEF Settled
  <2>4. QED
    BY <1>1, <2>1, <2>3, NotLess
<1>2. IInv => BlocksInOrder
  BY <1>1 DEF BlocksInOrder
<1>3. QED
  BY <1>2, Invariant, PTL

(* When sort() returns, the range is sorted.                               *)
THEOREM Sorted == Spec => []Sorts
<1>1. ASSUME IInv, pc = "done", NEW x \in 1 .. n - 1 PROVE ~less(a[x], a[x - 1])
  <2>1. TypeOK /\ HeldInv /\ InsertInv
    BY <1>1 DEF IInv
  <2>2. n \in Nat /\ Elements = 0 .. n - 1
    BY <2>1, Numbers
  <2>3. x \in Elements /\ x - 1 \in Elements /\ x - 1 < x
    BY <2>2
  <2>4. keyAt[x - 1] <= keyAt[x]
    BY <1>1, <2>1, <2>2, <2>3 DEF InsertInv, SortedTo
  <2>5. QED
    BY <1>1, <2>1, <2>3, <2>4, NotLess
<1>2. IInv => Sorts
  BY <1>1 DEF Sorts
<1>3. QED
  BY <1>2, Invariant, PTL

(* The calls of introsort_loop never nest deeper than the limit that sort()*)
(* computes from the length, whatever the keys: no input makes it overflow *)
(* the stack.                                                              *)
THEOREM DepthIsBounded == Spec => []DepthBounded
<1>1. ASSUME IInv PROVE DepthBounded
  <2>1. TypeOK /\ StackInv
    BY <1>1 DEF IInv
  <2>2. n \in Nat /\ limit_factor \in Nat /\ log2(n) \in Nat
    BY <2>1, Numbers, LogType, IntroSortAssumption
  <2> DEFINE limit == limit_factor * log2(n)
  <2>3. limit \in Nat
    BY <2>2
  <2>4. CASE stack = <<>>
    <3>1. Len(stack) = 0
      BY <2>4, EmptyLength
    <3>2. QED
      BY <2>3, <3>1 DEF DepthBounded
  <2>5. CASE stack # <<>>
    <3>1. Len(stack) \in Nat \ {0} /\ top = stack[1] /\ top.limit \in Nat
      BY <2>1, <2>5, StackTop
    <3>2. top.limit + Len(stack) - 1 <= limit
      BY <2>1, <3>1 DEF StackInv
    <3> HIDE DEF limit
    <3>3. Len(stack) <= limit + 1
      BY <2>3, <3>1, <3>2
    <3>4. QED
      BY <3>3 DEF DepthBounded, limit
  <2>6. QED
    BY <2>4, <2>5
<1>2. QED
  BY <1>1, Invariant, PTL
=============================================================================
