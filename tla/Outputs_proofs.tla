--------------------------- MODULE Outputs_proofs ---------------------------
(***************************************************************************)
(* Proofs about the algorithms of Queries that write to an output: what a  *)
(* merge and the set operations write (CombinesHolds), and what the copies *)
(* write that filter, replace, reverse, rotate, sort, sample or shuffle    *)
(* (CopiesHolds).                                                          *)
(***************************************************************************)
EXTENDS Queries_proofs
-----------------------------------------------------------------------------
(* Loops that write.                                                       *)

(* What is written from d on: nothing more than last where the loop is     *)
(* done; an item, at some d; and what is written from the next d on.       *)
IsWriting(f, D, done, last, emits, item, next) ==
  f = [d \in D |-> IF d \in done THEN last[d]
                   ELSE IF d \in emits THEN <<item[d]>> \o f[next[d]] ELSE f[next[d]]]

(* Good holds of what is written where the loop is done, and of what is    *)
(* written before if it holds of the rest.                                 *)
StaysGood(Good, D, Set, done, last, emits, item, next) ==
  /\ \A d \in D : d \in done => <<d, last[d]>> \in Good
  /\ \A d \in D : \A s \in Seq(Set) :
       d \notin done /\ <<next[d], s>> \in Good =>
         <<d, IF d \in emits THEN <<item[d]>> \o s ELSE s>> \in Good

WritesGood(Good, D, Set, done, last, emits, item, next) ==
  /\ \E f : IsWriting(f, D, done, last, emits, item, next)
  /\ \A f : IsWriting(f, D, done, last, emits, item, next) =>
       \A d \in D : f[d] \in Seq(Set) /\ <<d, f[d]>> \in Good

LEMMA Writing ==
  ASSUME NEW D, NEW m \in [D -> Nat], NEW Set, NEW done, NEW emits,
         NEW last \in [D -> Seq(Set)], NEW item \in [D -> Set], NEW next \in [D -> D],
         \A d \in D : d \notin done => m[next[d]] < m[d],
         NEW Good,
         StaysGood(Good, D, Set, done, last, emits, item, next)
  PROVE  WritesGood(Good, D, Set, done, last, emits, item, next)
<1> DEFINE Vals == Seq(Set)
           G == [d \in D |-> [h \in [D -> Vals] |->
                   IF d \in done THEN last[d]
                   ELSE IF d \in emits THEN <<item[d]>> \o h[next[d]] ELSE h[next[d]]]]
<1>1. ASSUME NEW d \in D, NEW s \in Vals
      PROVE  (IF d \in emits THEN <<item[d]>> \o s ELSE s) \in Vals
  OBVIOUS
<1>2. G \in [D -> [[D -> Vals] -> Vals]]
  <2>1. ASSUME NEW d \in D, NEW h \in [D -> Vals]
        PROVE  (IF d \in done THEN last[d]
                ELSE IF d \in emits THEN <<item[d]>> \o h[next[d]] ELSE h[next[d]]) \in Vals
    <3>1. h[next[d]] \in Vals /\ last[d] \in Vals
      OBVIOUS
    <3> HIDE DEF Vals
    <3>2. QED
      BY <1>1, <3>1
  <2> HIDE DEF Vals
  <2>2. QED
    BY <2>1
<1>3. \A d \in D : \A h \in [D -> Vals] :
        G[d][h] = IF d \in done THEN last[d]
                  ELSE IF d \in emits THEN <<item[d]>> \o h[next[d]] ELSE h[next[d]]
  <2> HIDE DEF Vals
  <2>1. QED
    OBVIOUS
<1>4. Vals # {}
  <2>1. <<>> \in Vals
    OBVIOUS
  <2>2. QED
    BY <2>1
<1>5. \A d \in D : next[d] \in D /\ last[d] \in Vals
  OBVIOUS
<1> HIDE DEF G
<1>6. LocalIn(G, D, Vals, m)
  <2> HIDE DEF Vals
  <2>1. ASSUME NEW d \in D, NEW h1 \in [D -> Vals], NEW h2 \in [D -> Vals],
               \A e \in D : m[e] < m[d] => h1[e] = h2[e]
        PROVE  G[d][h1] = G[d][h2]
    <3>1. d \notin done => h1[next[d]] = h2[next[d]]
      BY <1>5, <2>1
    <3>2. G[d][h1] = IF d \in done THEN last[d]
                     ELSE IF d \in emits THEN <<item[d]>> \o h1[next[d]] ELSE h1[next[d]]
      BY <1>3
    <3>3. G[d][h2] = IF d \in done THEN last[d]
                     ELSE IF d \in emits THEN <<item[d]>> \o h2[next[d]] ELSE h2[next[d]]
      BY <1>3
    <3>4. QED
      BY <3>1, <3>2, <3>3
  <2>2. QED
    BY <2>1 DEF LocalIn
<1>7. \E f : IsWriting(f, D, done, last, emits, item, next)
  <2> HIDE DEF Vals
  <2>1. \E f \in [D -> Vals] : IsRecursive(f, D, G)
    BY <1>2, <1>4, <1>6, Recursion
  <2>2. PICK f \in [D -> Vals] : f = [d \in D |-> G[d][f]]
    BY <2>1 DEF IsRecursive
  <2>3. \A d \in D : G[d][f] = IF d \in done THEN last[d]
                               ELSE IF d \in emits THEN <<item[d]>> \o f[next[d]] ELSE f[next[d]]
    BY <1>3
  <2>4. f = [d \in D |-> IF d \in done THEN last[d]
                         ELSE IF d \in emits THEN <<item[d]>> \o f[next[d]] ELSE f[next[d]]]
    BY <2>2, <2>3
  <2>5. QED
    BY <2>4 DEF IsWriting
<1>8. ASSUME NEW f, IsWriting(f, D, done, last, emits, item, next)
      PROVE  \A d \in D : f[d] \in Vals /\ <<d, f[d]>> \in Good
  <2>0. /\ \A d \in D : d \in done => <<d, last[d]>> \in Good
        /\ \A d \in D : \A s \in Vals :
             d \notin done /\ <<next[d], s>> \in Good =>
               <<d, IF d \in emits THEN <<item[d]>> \o s ELSE s>> \in Good
    BY DEF StaysGood
  <2> DEFINE Done == {d \in D : f[d] \in Vals /\ <<d, f[d]>> \in Good}
  <2>1. \A d \in D : f[d] = IF d \in done THEN last[d]
                            ELSE IF d \in emits THEN <<item[d]>> \o f[next[d]] ELSE f[next[d]]
    BY <1>8 DEF IsWriting
  <2>2. ASSUME NEW d \in D, \A e \in D : m[e] < m[d] => e \in Done
        PROVE  d \in Done
    <3>1. CASE d \in done
      <4> HIDE DEF Vals
      <4>1. QED
        BY <1>5, <2>0, <2>1, <3>1
    <3>2. CASE d \notin done
      <4>1. next[d] \in Done
        BY <1>5, <2>2, <3>2
      <4>2. f[next[d]] \in Vals /\ <<next[d], f[next[d]]>> \in Good
        BY <4>1
      <4>3. f[d] = IF d \in emits THEN <<item[d]>> \o f[next[d]] ELSE f[next[d]]
        BY <2>1, <3>2
      <4>4. f[d] \in Vals
        BY <1>1, <4>2, <4>3
      <4>5. <<d, f[d]>> \in Good
        BY <2>0, <3>2, <4>2, <4>3
      <4>6. QED
        BY <4>4, <4>5
    <3>3. QED
      BY <3>1, <3>2
  <2>3. D \subseteq Done
    <3> HIDE DEF Done
    <3>1. QED
      BY <2>2, ByMeasure
  <2>4. QED
    BY <2>3
<1>9. QED
  BY <1>7, <1>8 DEF WritesGood

(* The same of a loop on two ranges, whose places are i and j.             *)
IsMerging(f, n, m, done, last, emits, item, next) ==
  f = [i \in 0 .. n |-> [j \in 0 .. m |->
         IF <<i, j>> \in done THEN last[<<i, j>>]
         ELSE IF <<i, j>> \in emits
              THEN <<item[<<i, j>>]>> \o f[next[<<i, j>>][1]][next[<<i, j>>][2]]
              ELSE f[next[<<i, j>>][1]][next[<<i, j>>][2]]]]

LEMMA Merging ==
  ASSUME NEW n \in Nat, NEW m \in Nat, NEW D, D = (0 .. n) \X (0 .. m),
         NEW Set, NEW done, NEW emits,
         NEW last \in [D -> Seq(Set)], NEW item \in [D -> Set], NEW next \in [D -> D],
         NEW left \in [D -> Nat], \A d \in D : d \notin done => left[next[d]] < left[d],
         NEW Good,
         StaysGood(Good, D, Set, done, last, emits, item, next)
  PROVE  /\ \E f : IsMerging(f, n, m, done, last, emits, item, next)
         /\ \A f : IsMerging(f, n, m, done, last, emits, item, next) =>
              f[0][0] \in Seq(Set) /\ <<<<0, 0>>, f[0][0]>> \in Good
<1> DEFINE body(f, d) == IF d \in done THEN last[d]
                         ELSE IF d \in emits THEN <<item[d]>> \o f[next[d][1]][next[d][2]]
                         ELSE f[next[d][1]][next[d][2]]
<1>1. \A d \in D : d = <<d[1], d[2]>> /\ d[1] \in 0 .. n /\ d[2] \in 0 .. m
  OBVIOUS
<1>2. /\ \E f : IsWriting(f, D, done, last, emits, item, next)
      /\ \A f : IsWriting(f, D, done, last, emits, item, next) =>
           \A d \in D : f[d] \in Seq(Set) /\ <<d, f[d]>> \in Good
  <2>1. WritesGood(Good, D, Set, done, last, emits, item, next)
    BY Writing
  <2>2. QED
    BY <2>1 DEF WritesGood
<1>3. \A d \in D : next[d] \in D
  OBVIOUS
<1>4. \E f : IsMerging(f, n, m, done, last, emits, item, next)
  <2>1. PICK h : IsWriting(h, D, done, last, emits, item, next)
    BY <1>2
  <2> DEFINE f == [i \in 0 .. n |-> [j \in 0 .. m |-> h[<<i, j>>]]]
  <2>2. \A d \in D : f[d[1]][d[2]] = h[d]
    BY <1>1
  <2>3. \A i \in 0 .. n, j \in 0 .. m : <<i, j>> \in D
    OBVIOUS
  <2>4. \A i \in 0 .. n, j \in 0 .. m : h[<<i, j>>] = body(f, <<i, j>>)
    <3> HIDE DEF f
    <3>1. \A d \in D : h[d] = IF d \in done THEN last[d]
                              ELSE IF d \in emits THEN <<item[d]>> \o h[next[d]] ELSE h[next[d]]
      BY <2>1 DEF IsWriting
    <3>2. \A d \in D : h[next[d]] = f[next[d][1]][next[d][2]]
      BY <1>3, <2>2
    <3>3. QED
      BY <2>3, <3>1, <3>2
  <2>5. f = [i \in 0 .. n |-> [j \in 0 .. m |-> body(f, <<i, j>>)]]
    <3> DEFINE g == [i \in 0 .. n |-> [j \in 0 .. m |-> body(f, <<i, j>>)]]
    <3> HIDE DEF body
    <3>1. f = g
      BY <2>4
    <3>2. QED
      BY <3>1
  <2>6. QED
    BY <2>5 DEF IsMerging
<1>5. ASSUME NEW f, IsMerging(f, n, m, done, last, emits, item, next)
      PROVE  f[0][0] \in Seq(Set) /\ <<<<0, 0>>, f[0][0]>> \in Good
  <2> DEFINE h == [d \in D |-> f[d[1]][d[2]]]
  <2>1. f = [i \in 0 .. n |-> [j \in 0 .. m |-> body(f, <<i, j>>)]]
    BY <1>5 DEF IsMerging
  <2> HIDE DEF body
  <2>2. \A i \in 0 .. n, j \in 0 .. m : f[i][j] = body(f, <<i, j>>)
    <3>1. \A i \in 0 .. n : f[i] = [j \in 0 .. m |-> body(f, <<i, j>>)]
      <4> DEFINE g == [i \in 0 .. n |-> [j \in 0 .. m |-> body(f, <<i, j>>)]]
      <4>1. \A i \in 0 .. n : g[i] = [j \in 0 .. m |-> body(f, <<i, j>>)]
        OBVIOUS
      <4>2. f = g
        BY <2>1
      <4>3. \A i \in 0 .. n : f[i] = g[i]
        <5> HIDE DEF g
        <5>1. QED
          BY <4>2
      <4> HIDE DEF g
      <4>4. ASSUME NEW i \in 0 .. n PROVE f[i] = [j \in 0 .. m |-> body(f, <<i, j>>)]
        <5>1. g[i] = [j \in 0 .. m |-> body(f, <<i, j>>)]
          BY <4>1
        <5>2. f[i] = g[i]
          BY <4>3
        <5>3. QED
          BY <5>1, <5>2
      <4>5. QED
        BY <4>4
    <3>2. ASSUME NEW i \in 0 .. n, NEW j \in 0 .. m PROVE f[i][j] = body(f, <<i, j>>)
      <4> DEFINE row == [k \in 0 .. m |-> body(f, <<i, k>>)]
      <4>1. row[j] = body(f, <<i, j>>)
        OBVIOUS
      <4>2. f[i] = row
        BY <3>1
      <4> HIDE DEF row
      <4>3. QED
        BY <4>1, <4>2
    <3>3. QED
      BY <3>2
  <2>3. \A d \in D : f[d[1]][d[2]] = body(f, d)
    BY <1>1, <2>2
  <2>4. \A d \in D : h[d] = IF d \in done THEN last[d]
                            ELSE IF d \in emits THEN <<item[d]>> \o h[next[d]] ELSE h[next[d]]
    BY <1>3, <2>3 DEF body
  <2>5. IsWriting(h, D, done, last, emits, item, next)
    <3>1. h = [d \in D |-> h[d]]
      OBVIOUS
    <3> HIDE DEF h
    <3>2. h = [d \in D |-> IF d \in done THEN last[d]
                            ELSE IF d \in emits THEN <<item[d]>> \o h[next[d]] ELSE h[next[d]]]
      BY <2>4, <3>1
    <3>3. QED
      BY <3>2 DEF IsWriting
  <2>6. <<0, 0>> \in D
    OBVIOUS
  <2>7. h[<<0, 0>>] = f[0][0]
    BY <2>6
  <2> HIDE DEF h
  <2>8. h[<<0, 0>>] \in Seq(Set) /\ <<<<0, 0>>, h[<<0, 0>>]>> \in Good
    BY <1>2, <2>5, <2>6
  <2>9. QED
    BY <2>7, <2>8
<1>6. QED
  BY <1>4, <1>5
-----------------------------------------------------------------------------
(* Elements that are written.                                              *)

(* What is written: elements of the first or of the second range.          *)
Items == {1, 2} \X Nat

(* The key of an element of the first range u or of the second range w.    *)
KeyOf(u, w, x) == IF x[1] = 1 THEN u[x[2]] ELSE w[x[2]]
KeysOf(u, w, out) == [p \in DOMAIN out |-> KeyOf(u, w, out[p])]
HowOften(u, w, out, v) == Copies(KeysOf(u, w, out), 1, Len(out) + 1, v)

Shifted(k, l, i, n, d) == \A p \in i .. n - 1 : k[p] = l[p + d]

LEMMA CopiesShift ==
  ASSUME NEW k, NEW l, NEW i \in Int, NEW n \in Int, NEW d \in Int,
         Shifted(k, l, i, n, d), NEW v
  PROVE  Copies(k, i, n, v) = Copies(l, i + d, n + d, v)
<1> DEFINE A == Places(k, i, n, {v})
           B == Places(l, i + d, n + d, {v})
           f == [p \in A |-> p + d]
<1>1. /\ \A p : p \in A <=> p \in i .. n - 1 /\ k[p] = v
      /\ \A p : p \in B <=> p \in i + d .. n + d - 1 /\ l[p] = v
      /\ \A p \in i .. n - 1 : k[p] = l[p + d]
  BY DEF Places, Shifted
<1> HIDE DEF A, B
<1>2. f \in [A -> B]
  BY <1>1
<1>3. \A p, q \in A : f[p] = f[q] => p = q
  BY <1>1
<1>4. \A q \in B : \E p \in A : f[p] = q
  <2>1. ASSUME NEW q \in B PROVE q - d \in A /\ f[q - d] = q
    <3>1. q \in Int /\ q - d \in i .. n - 1 /\ (q - d) + d = q
      BY <1>1
    <3>2. k[q - d] = v
      BY <1>1, <3>1
    <3>3. QED
      BY <1>1, <3>1, <3>2
  <2>2. QED
    BY <2>1
<1> HIDE DEF f
<1>5. ExistsBijection(A, B)
  <2>1. f \in Injection(A, B)
    BY <1>2, <1>3 DEF Injection, IsInjective
  <2>2. f \in Surjection(A, B)
    BY <1>2, <1>4 DEF Surjection
  <2>3. QED
    BY <2>1, <2>2 DEF ExistsBijection, Bijection
<1>6. IsFiniteSet(A)
  BY PlacesFinite DEF A
<1>7. Cardinality(A) = Cardinality(B)
  BY <1>5, <1>6, FS_Bijection
<1>8. QED
  BY <1>7 DEF A, B, Copies, HowMany

LEMMA OftenFirst ==
  ASSUME NEW u, NEW w, NEW Set, NEW x \in Set, NEW s \in Seq(Set), NEW v
  PROVE  HowOften(u, w, <<x>> \o s, v)
           = (IF KeyOf(u, w, x) = v THEN 1 ELSE 0) + HowOften(u, w, s, v)
<1> DEFINE out == <<x>> \o s
           k == KeysOf(u, w, out)
           l == KeysOf(u, w, s)
           len == Len(s)
<1>1. /\ out \in Seq(Set) /\ len \in Nat /\ Len(out) = len + 1 /\ out[1] = x
      /\ DOMAIN out = 1 .. len + 1 /\ DOMAIN s = 1 .. len
      /\ \A p \in 1 .. len : out[p + 1] = s[p]
  OBVIOUS
<1>2. k[1] = KeyOf(u, w, x)
  BY <1>1 DEF KeysOf
<1>3. Shifted(l, k, 1, len + 1, 1)
  <2>1. ASSUME NEW p \in 1 .. len + 1 - 1 PROVE l[p] = k[p + 1]
    <3>1. p \in 1 .. len /\ p + 1 \in 1 .. len + 1
      BY <1>1
    <3>2. l[p] = KeyOf(u, w, s[p]) /\ k[p + 1] = KeyOf(u, w, out[p + 1])
      BY <1>1, <3>1 DEF KeysOf
    <3>3. QED
      BY <1>1, <3>1, <3>2
  <2>2. QED
    BY <2>1 DEF Shifted
<1> HIDE DEF k, l, len, out
<1>4. len + 1 \in Int /\ 1 \in Int /\ 1 < len + 1 + 1 /\ len + 1 + 1 \in Int
  BY <1>1
<1>5. Copies(l, 1, len + 1, v) = Copies(k, 1 + 1, len + 1 + 1, v)
  BY <1>3, <1>4, CopiesShift
<1>6. /\ Copies(k, 1 + 1, len + 1 + 1, v) \in Nat
      /\ k[1] = v => Copies(k, 1, len + 1 + 1, v) = Copies(k, 1 + 1, len + 1 + 1, v) + 1
      /\ k[1] # v => Copies(k, 1, len + 1 + 1, v) = Copies(k, 1 + 1, len + 1 + 1, v)
  <2>1. 1 + 1 \in Int
    OBVIOUS
  <2>2. QED
    BY <1>4, <2>1, CopiesDown
<1>7. /\ HowOften(u, w, s, v) = Copies(l, 1, len + 1, v)
      /\ HowOften(u, w, out, v) = Copies(k, 1, len + 1 + 1, v)
  BY <1>1 DEF HowOften, k, l, len
<1>8. HowOften(u, w, out, v) = (IF KeyOf(u, w, x) = v THEN 1 ELSE 0) + HowOften(u, w, s, v)
  BY <1>2, <1>5, <1>6, <1>7
<1>9. QED
  BY <1>8 DEF out

(* What copy writes: all that is left of a range.                          *)
LEMMA OftenCopied ==
  ASSUME NEW u, NEW w, NEW i \in Nat, NEW n \in Nat, i <= n, NEW v
  PROVE  /\ HowOften(u, w, C!copy(1, i, n), v) = Copies(u, i, n, v)
         /\ HowOften(u, w, C!copy(2, i, n), v) = Copies(w, i, n, v)
<1>1. ASSUME NEW r \in {1, 2}, NEW y, y = IF r = 1 THEN u ELSE w
      PROVE  HowOften(u, w, C!copy(r, i, n), v) = Copies(y, i, n, v)
  <2> DEFINE out == C!copy(r, i, n)
             k == KeysOf(u, w, out)
             d == i - 1
  <2>1. out = [p \in 1 .. n - i |-> <<r, i + p - 1>>]
    BY DEF C!copy
  <2>2. n - i \in Nat
    OBVIOUS
  <2>3. Len(out) = n - i /\ DOMAIN out = 1 .. n - i
    BY <2>1, <2>2
  <2>4. ASSUME NEW p \in 1 .. n - i + 1 - 1 PROVE k[p] = y[p + d]
    <3>1. p \in 1 .. n - i /\ i + p - 1 = p + d
      OBVIOUS
    <3>2. out[p] = <<r, p + d>>
      BY <2>1, <3>1
    <3>3. k[p] = KeyOf(u, w, <<r, p + d>>)
      BY <2>3, <3>1, <3>2 DEF KeysOf
    <3>4. KeyOf(u, w, <<r, p + d>>) = y[p + d]
      BY <1>1 DEF KeyOf
    <3>5. QED
      BY <3>3, <3>4
  <2> DEFINE e == n - i + 1
  <2>5. e \in Int /\ d \in Int /\ 1 \in Int /\ 1 + d = i /\ e + d = n /\ Shifted(k, y, 1, e, d)
    BY <2>4 DEF Shifted
  <2>6. HowOften(u, w, out, v) = Copies(k, 1, e, v)
    BY <2>3 DEF HowOften
  <2> HIDE DEF k, d, e, out
  <2>7. Copies(k, 1, e, v) = Copies(y, 1 + d, e + d, v)
    BY <2>5, CopiesShift
  <2>8. HowOften(u, w, out, v) = Copies(y, i, n, v)
    BY <2>5, <2>6, <2>7
  <2>9. QED
    BY <2>8 DEF out
<1>2. QED
  BY <1>1

LEMMA OftenNone ==
  ASSUME NEW u, NEW w, NEW v
  PROVE  HowOften(u, w, <<>>, v) = 0
<1>1. \A p \in 1 .. Len(<<>>) + 1 - 1 : KeysOf(u, w, <<>>)[p] # v
  OBVIOUS
<1>2. QED
  BY <1>1, NoCopies DEF HowOften

(* No element that is left is equal to what is less than all of them.      *)
LEMMA Absent ==
  ASSUME NEW n \in Nat, NEW u \in [0 .. n - 1 -> Int], Sorted(u), NEW i \in 0 .. n,
         NEW v \in Int, i < n => v < u[i]
  PROVE  Copies(u, i, n, v) = 0
<1>1. ASSUME NEW k \in i .. n - 1 PROVE u[k] # v
  <2>1. i \in 0 .. n - 1 /\ k \in 0 .. n - 1 /\ u[i] \in Int /\ u[k] \in Int /\ v < u[i]
    OBVIOUS
  <2>2. u[i] <= u[k]
    <3>1. CASE i = k
      BY <2>1, <3>1
    <3>2. CASE i # k
      <4>1. i < k /\ i \in DOMAIN u /\ k \in DOMAIN u
        BY <2>1, <3>2
      <4>2. ~(u[k] < u[i])
        BY <4>1 DEF Sorted, less
      <4>3. QED
        BY <2>1, <4>2
    <3>3. QED
      BY <3>1, <3>2
  <2>3. QED
    BY <2>1, <2>2
<1>2. QED
  BY <1>1, NoCopies

(* What is left of two ranges from i and from j on; and the order in which *)
(* a merge writes it.                                                      *)
Left(i, n, j, m) == ({1} \X (i .. n - 1)) \cup ({2} \X (j .. m - 1))
Follow(u, w, x, y) ==
  ~less(KeyOf(u, w, y), KeyOf(u, w, x)) /\ (x[1] = y[1] => x[2] < y[2])
Ordered(u, w, out) == \A p, q \in DOMAIN out : p < q => Follow(u, w, out[p], out[q])
OfLeft(out, i, n, j, m) == \A p \in DOMAIN out : out[p] \in Left(i, n, j, m)

LEMMA LeftIs ==
  ASSUME NEW i, NEW n, NEW j, NEW m
  PROVE  /\ \A k \in i .. n - 1 : <<1, k>> \in Left(i, n, j, m)
         /\ \A k \in j .. m - 1 : <<2, k>> \in Left(i, n, j, m)
         /\ \A x \in Left(i, n, j, m) :
              \/ x[1] = 1 /\ x[2] \in i .. n - 1 /\ x = <<1, x[2]>>
              \/ x[1] = 2 /\ x[2] \in j .. m - 1 /\ x = <<2, x[2]>>
BY DEF Left

LEMMA LeftLess ==
  ASSUME NEW i \in Int, NEW n \in Int, NEW j \in Int, NEW m \in Int,
         NEW k \in Int, NEW l \in Int, i <= k, j <= l, NEW out, OfLeft(out, k, n, l, m)
  PROVE  OfLeft(out, i, n, j, m)
<1>1. k .. n - 1 \subseteq i .. n - 1 /\ l .. m - 1 \subseteq j .. m - 1
  OBVIOUS
<1>2. Left(k, n, l, m) \subseteq Left(i, n, j, m)
  BY <1>1 DEF Left
<1>3. QED
  BY <1>2 DEF OfLeft

LEMMA SortedUp ==
  ASSUME NEW n \in Nat, NEW u \in [0 .. n - 1 -> Int], Sorted(u),
         NEW i \in 0 .. n - 1, NEW k \in i .. n - 1
  PROVE  u[i] <= u[k] /\ u[i] \in Int /\ u[k] \in Int
<1>1. k \in 0 .. n - 1 /\ u[i] \in Int /\ u[k] \in Int /\ DOMAIN u = 0 .. n - 1
  OBVIOUS
<1>2. CASE i = k
  BY <1>1, <1>2
<1>3. CASE i # k
  <2>1. i < k
    BY <1>3
  <2>2. ~(u[k] < u[i])
    BY <1>1, <2>1 DEF Sorted, less
  <2>3. QED
    BY <1>1, <2>2
<1>4. QED
  BY <1>2, <1>3

LEMMA OrderedFirst ==
  ASSUME NEW u, NEW w, NEW Set, NEW x \in Set, NEW s \in Seq(Set), Ordered(u, w, s),
         \A p \in DOMAIN s : Follow(u, w, x, s[p])
  PROVE  Ordered(u, w, <<x>> \o s)
<1> DEFINE out == <<x>> \o s
           len == Len(s)
<1>1. /\ len \in Nat /\ DOMAIN out = 1 .. len + 1 /\ DOMAIN s = 1 .. len /\ out[1] = x
      /\ \A p \in 1 .. len : out[p + 1] = s[p]
  OBVIOUS
<1> HIDE DEF out, len
<1>2. ASSUME NEW p \in DOMAIN out, NEW q \in DOMAIN out, p < q
      PROVE  Follow(u, w, out[p], out[q])
  <2>1. q - 1 \in 1 .. len /\ out[q] = s[q - 1] /\ q - 1 \in DOMAIN s
    <3>1. q \in Int /\ p \in Int /\ q - 1 \in 1 .. len /\ (q - 1) + 1 = q
      BY <1>1, <1>2
    <3>2. QED
      BY <1>1, <3>1
  <2>2. CASE p = 1
    BY <1>1, <2>1, <2>2
  <2>3. CASE p # 1
    <3>1. p \in Int /\ p - 1 \in 1 .. len /\ (p - 1) + 1 = p /\ p - 1 < q - 1
      BY <1>1, <1>2, <2>3
    <3>2. out[p] = s[p - 1] /\ p - 1 \in DOMAIN s
      BY <1>1, <3>1
    <3>3. QED
      BY <2>1, <3>1, <3>2 DEF Ordered
  <2>4. QED
    BY <2>2, <2>3
<1>3. Ordered(u, w, out)
  BY <1>2 DEF Ordered
<1>4. QED
  BY <1>3 DEF out

LEMMA LeftFirst ==
  ASSUME NEW Set, NEW x \in Set, NEW s \in Seq(Set), NEW i, NEW n, NEW j, NEW m,
         x \in Left(i, n, j, m), OfLeft(s, i, n, j, m)
  PROVE  OfLeft(<<x>> \o s, i, n, j, m)
<1> DEFINE out == <<x>> \o s
           len == Len(s)
<1>1. /\ len \in Nat /\ DOMAIN out = 1 .. len + 1 /\ DOMAIN s = 1 .. len /\ out[1] = x
      /\ \A p \in 1 .. len : out[p + 1] = s[p]
  OBVIOUS
<1> HIDE DEF out, len
<1>2. ASSUME NEW p \in DOMAIN out PROVE out[p] \in Left(i, n, j, m)
  <2>1. CASE p = 1
    BY <1>1, <2>1
  <2>2. CASE p # 1
    <3>1. p - 1 \in 1 .. len /\ (p - 1) + 1 = p
      BY <1>1, <2>2
    <3>2. out[p] = s[p - 1] /\ p - 1 \in DOMAIN s
      BY <1>1, <3>1
    <3>3. QED
      BY <3>2 DEF OfLeft
  <2>3. QED
    BY <2>1, <2>2
<1>3. OfLeft(out, i, n, j, m)
  BY <1>2 DEF OfLeft
<1>4. QED
  BY <1>3 DEF out

(* The least element left, in front of others that are left.               *)
InPlace(u, w, n, m, i, j, out) == OfLeft(out, i, n, j, m) /\ Ordered(u, w, out)

LEMMA TakeFirst ==
  ASSUME NEW n \in Nat, NEW m \in Nat, NEW u \in [0 .. n - 1 -> Int],
         NEW w \in [0 .. m - 1 -> Int], Sorted(u), Sorted(w),
         NEW i \in 0 .. n - 1, NEW j \in 0 .. m - 1, ~(w[j] < u[i]),
         NEW s \in Seq(Items), InPlace(u, w, n, m, i + 1, j, s)
  PROVE  InPlace(u, w, n, m, i, j, <<<<1, i>>>> \o s)
<1> DEFINE x == <<1, i>>
           Set == Items
<1>1. x \in Set /\ x \in Left(i, n, j, m)
  <2>1. i \in Nat /\ i \in i .. n - 1
    OBVIOUS
  <2>2. QED
    BY <2>1, LeftIs DEF Items
<1> DEFINE Up(z, k, l) == z[k] <= z[l] /\ z[k] \in Int /\ z[l] \in Int
<1>0. (\A k \in i .. n - 1 : Up(u, i, k)) /\ \A k \in j .. m - 1 : Up(w, j, k)
  BY SortedUp
<1>2. OfLeft(s, i + 1, n, j, m) /\ Ordered(u, w, s)
  BY DEF InPlace
<1>3. OfLeft(s, i, n, j, m)
  <2>1. i \in Int /\ n \in Int /\ j \in Int /\ m \in Int /\ i + 1 \in Int /\ i <= i + 1 /\ j <= j
    OBVIOUS
  <2>2. QED
    BY <1>2, <2>1, LeftLess
<1>4. ASSUME NEW p \in DOMAIN s PROVE Follow(u, w, x, s[p])
  <2> DEFINE y == s[p]
  <2>1. y \in Left(i + 1, n, j, m)
    BY <1>2 DEF OfLeft
  <2> SUFFICES Follow(u, w, x, y)
    OBVIOUS
  <2> HIDE DEF y
  <2>2. \/ y[1] = 1 /\ y[2] \in i + 1 .. n - 1
        \/ y[1] = 2 /\ y[2] \in j .. m - 1
    BY <2>1, LeftIs
  <2>3. KeyOf(u, w, x) = u[i] /\ x[1] = 1 /\ x[2] = i /\ u[i] \in Int /\ w[j] \in Int
    BY DEF KeyOf
  <2> HIDE DEF x
  <2>4. CASE y[1] = 1 /\ y[2] \in i + 1 .. n - 1
    <3>1. y[2] \in i .. n - 1 /\ i < y[2]
      <4>1. i \in Int /\ n \in Int /\ y[2] \in i + 1 .. n - 1
        BY <2>4
      <4>2. \A k \in i + 1 .. n - 1 : k \in i .. n - 1 /\ i < k
        BY <4>1
      <4>3. QED
        BY <4>1, <4>2
    <3>2. u[i] <= u[y[2]] /\ u[y[2]] \in Int
      BY <1>0, <3>1
    <3>3. KeyOf(u, w, y) = u[y[2]]
      BY <2>4 DEF KeyOf
    <3>4. ~(u[y[2]] < u[i])
      BY <2>3, <3>2
    <3>5. ~less(KeyOf(u, w, y), KeyOf(u, w, x))
      BY <2>3, <3>3, <3>4 DEF less
    <3>6. x[2] < y[2]
      BY <2>3, <3>1
    <3>7. QED
      BY <3>5, <3>6 DEF Follow
  <2>5. CASE y[1] = 2 /\ y[2] \in j .. m - 1
    <3>1. w[j] <= w[y[2]] /\ w[y[2]] \in Int
      BY <1>0, <2>5
    <3>2. KeyOf(u, w, y) = w[y[2]]
      BY <2>5 DEF KeyOf
    <3>3. QED
      BY <2>3, <2>5, <3>1, <3>2 DEF Follow, less
  <2>6. QED
    BY <2>2, <2>4, <2>5
<1> HIDE DEF x, Set
<1>5. s \in Seq(Set)
  BY DEF Set
<1>6. Ordered(u, w, <<x>> \o s) /\ OfLeft(<<x>> \o s, i, n, j, m)
  BY <1>1, <1>2, <1>3, <1>4, <1>5, OrderedFirst, LeftFirst
<1>7. QED
  BY <1>6 DEF InPlace, x

LEMMA TakeSecond ==
  ASSUME NEW n \in Nat, NEW m \in Nat, NEW u \in [0 .. n - 1 -> Int],
         NEW w \in [0 .. m - 1 -> Int], Sorted(u), Sorted(w),
         NEW i \in 0 .. n - 1, NEW j \in 0 .. m - 1, ~(u[i] < w[j]),
         NEW s \in Seq(Items), InPlace(u, w, n, m, i, j + 1, s)
  PROVE  InPlace(u, w, n, m, i, j, <<<<2, j>>>> \o s)
<1> DEFINE x == <<2, j>>
           Set == Items
<1>1. x \in Set /\ x \in Left(i, n, j, m)
  <2>1. j \in Nat /\ j \in j .. m - 1
    OBVIOUS
  <2>2. QED
    BY <2>1, LeftIs DEF Items
<1> DEFINE Up(z, k, l) == z[k] <= z[l] /\ z[k] \in Int /\ z[l] \in Int
<1>0. (\A k \in i .. n - 1 : Up(u, i, k)) /\ \A k \in j .. m - 1 : Up(w, j, k)
  BY SortedUp
<1>2. OfLeft(s, i, n, j + 1, m) /\ Ordered(u, w, s)
  BY DEF InPlace
<1>3. OfLeft(s, i, n, j, m)
  <2>1. i \in Int /\ n \in Int /\ j \in Int /\ m \in Int /\ j + 1 \in Int /\ j <= j + 1 /\ i <= i
    OBVIOUS
  <2>2. QED
    BY <1>2, <2>1, LeftLess
<1>4. ASSUME NEW p \in DOMAIN s PROVE Follow(u, w, x, s[p])
  <2> DEFINE y == s[p]
  <2>1. y \in Left(i, n, j + 1, m)
    BY <1>2 DEF OfLeft
  <2> SUFFICES Follow(u, w, x, y)
    OBVIOUS
  <2> HIDE DEF y
  <2>2. \/ y[1] = 1 /\ y[2] \in i .. n - 1
        \/ y[1] = 2 /\ y[2] \in j + 1 .. m - 1
    BY <2>1, LeftIs
  <2>3. KeyOf(u, w, x) = w[j] /\ x[1] = 2 /\ x[2] = j /\ u[i] \in Int /\ w[j] \in Int
    BY DEF KeyOf
  <2> HIDE DEF x
  <2>4. CASE y[1] = 1 /\ y[2] \in i .. n - 1
    <3>1. u[i] <= u[y[2]] /\ u[y[2]] \in Int
      BY <1>0, <2>4
    <3>2. KeyOf(u, w, y) = u[y[2]]
      BY <2>4 DEF KeyOf
    <3>3. QED
      BY <2>3, <2>4, <3>1, <3>2 DEF Follow, less
  <2>5. CASE y[1] = 2 /\ y[2] \in j + 1 .. m - 1
    <3>1. y[2] \in j .. m - 1 /\ j < y[2]
      <4>1. j \in Int /\ m \in Int /\ y[2] \in j + 1 .. m - 1
        BY <2>5
      <4>2. \A k \in j + 1 .. m - 1 : k \in j .. m - 1 /\ j < k
        BY <4>1
      <4>3. QED
        BY <4>1, <4>2
    <3>2. w[j] <= w[y[2]] /\ w[y[2]] \in Int
      BY <1>0, <3>1
    <3>3. KeyOf(u, w, y) = w[y[2]]
      BY <2>5 DEF KeyOf
    <3>4. ~(w[y[2]] < w[j])
      BY <2>3, <3>2
    <3>5. ~less(KeyOf(u, w, y), KeyOf(u, w, x))
      BY <2>3, <3>3, <3>4 DEF less
    <3>6. x[2] < y[2]
      BY <2>3, <3>1
    <3>7. QED
      BY <3>5, <3>6 DEF Follow
  <2>6. QED
    BY <2>2, <2>4, <2>5
<1> HIDE DEF x, Set
<1>5. s \in Seq(Set)
  BY DEF Set
<1>6. Ordered(u, w, <<x>> \o s) /\ OfLeft(<<x>> \o s, i, n, j, m)
  BY <1>1, <1>2, <1>3, <1>4, <1>5, OrderedFirst, LeftFirst
<1>7. QED
  BY <1>6 DEF InPlace, x

(* How often a key is in the output of an operation on multisets.          *)
LEMMA TimesIs ==
  ASSUME NEW c1 \in Nat, NEW c2 \in Nat
  PROVE  /\ Times("merge", c1, c2) = c1 + c2
         /\ Times("set_union", c1, c2) = IF c1 <= c2 THEN c2 ELSE c1
         /\ Times("set_intersection", c1, c2) = IF c1 <= c2 THEN c1 ELSE c2
         /\ Times("set_difference", c1, c2) = IF c1 <= c2 THEN 0 ELSE c1 - c2
         /\ Times("set_symmetric_difference", c1, c2) = IF c1 <= c2 THEN c2 - c1 ELSE c1 - c2
<1>1. ASSUME NEW x \in Int, NEW y \in Int
      PROVE  Max({x, y}) = (IF x <= y THEN y ELSE x) /\ Min({x, y}) = IF x <= y THEN x ELSE y
  <2> DEFINE T == {x, y}
  <2>1. CASE x <= y
    <3>1. /\ T \in SUBSET Int /\ x \in T /\ y \in T
          /\ (\A z \in T : z <= y) /\ \A z \in T : x <= z
      BY <2>1
    <3> HIDE DEF T
    <3>2. Max(T) = y /\ Min(T) = x
      BY <3>1, MaxIs, MinIs
    <3>3. QED
      BY <2>1, <3>2 DEF T
  <2>2. CASE ~(x <= y)
    <3>1. /\ T \in SUBSET Int /\ x \in T /\ y \in T
          /\ (\A z \in T : z <= x) /\ \A z \in T : y <= z
      BY <2>2
    <3> HIDE DEF T
    <3>2. Max(T) = x /\ Min(T) = y
      BY <3>1, MaxIs, MinIs
    <3>3. QED
      BY <2>2, <3>2 DEF T
  <2>3. QED
    BY <2>1, <2>2
<1>2. Times("merge", c1, c2) = c1 + c2
  BY DEF Times
<1>3. Times("set_union", c1, c2) = IF c1 <= c2 THEN c2 ELSE c1
  <2>1. Times("set_union", c1, c2) = Max({c1, c2})
    BY DEF Times
  <2>2. QED
    BY <1>1, <2>1
<1>4. Times("set_intersection", c1, c2) = IF c1 <= c2 THEN c1 ELSE c2
  <2>1. Times("set_intersection", c1, c2) = Min({c1, c2})
    BY DEF Times
  <2>2. QED
    BY <1>1, <2>1
<1>5. Times("set_difference", c1, c2) = IF c1 <= c2 THEN 0 ELSE c1 - c2
  <2>1. Times("set_difference", c1, c2) = Max({c1 - c2, 0})
    BY DEF Times
  <2>2. c1 - c2 \in Int /\ 0 \in Int
    OBVIOUS
  <2>3. Max({c1 - c2, 0}) = IF c1 - c2 <= 0 THEN 0 ELSE c1 - c2
    BY <1>1, <2>2
  <2>4. QED
    BY <2>1, <2>3
<1>6. Times("set_symmetric_difference", c1, c2) = IF c1 <= c2 THEN c2 - c1 ELSE c1 - c2
  <2>1. Times("set_symmetric_difference", c1, c2) = Max({c1 - c2, c2 - c1})
    BY DEF Times
  <2>2. c1 - c2 \in Int /\ c2 - c1 \in Int
    OBVIOUS
  <2>3. Max({c1 - c2, c2 - c1}) = IF c1 - c2 <= c2 - c1 THEN c2 - c1 ELSE c1 - c2
    BY <1>1, <2>2
  <2>4. QED
    BY <2>1, <2>3
<1>7. QED
  BY <1>2, <1>3, <1>4, <1>5, <1>6

(* What one more in the first, in the second, or in both makes.            *)
TimesOf(k, l) == /\ Times("merge", k, l) = k + l
                 /\ Times("set_union", k, l) = IF k <= l THEN l ELSE k
                 /\ Times("set_intersection", k, l) = IF k <= l THEN k ELSE l
                 /\ Times("set_difference", k, l) = IF k <= l THEN 0 ELSE k - l
                 /\ Times("set_symmetric_difference", k, l) = IF k <= l THEN l - k ELSE k - l

LEMMA TimesFirst ==
  ASSUME NEW call \in Combines, NEW k \in Nat, NEW l \in Nat, NEW e \in {0, 1}, e = 1 => l = 0
  PROVE  Times(call, k + e, l)
           = (IF call \notin {"set_intersection"} THEN e ELSE 0) + Times(call, k, l)
<1> DEFINE c == k + e
           d == l
<1>1. c \in Nat /\ c = k + e /\ d \in Nat /\ d = l
  OBVIOUS
<1> HIDE DEF c, d
<1>2. TimesOf(c, d) /\ TimesOf(k, l)
  BY <1>1, TimesIs DEF TimesOf
<1>3. Times("merge", c, d) = e + Times("merge", k, l)
  <2>1. CASE e = 0
    BY <1>1, <1>2, <2>1 DEF TimesOf
  <2>2. CASE e = 1
    BY <1>1, <1>2, <2>2 DEF TimesOf
  <2>3. QED
    BY <2>1, <2>2
<1>4. Times("set_union", c, d) = e + Times("set_union", k, l)
  <2>1. CASE e = 0
    BY <1>1, <1>2, <2>1 DEF TimesOf
  <2>2. CASE e = 1
    BY <1>1, <1>2, <2>2 DEF TimesOf
  <2>3. QED
    BY <2>1, <2>2
<1>5. Times("set_intersection", c, d) = 0 + Times("set_intersection", k, l)
  <2>1. CASE e = 0
    BY <1>1, <1>2, <2>1 DEF TimesOf
  <2>2. CASE e = 1
    BY <1>1, <1>2, <2>2 DEF TimesOf
  <2>3. QED
    BY <2>1, <2>2
<1>6. Times("set_difference", c, d) = e + Times("set_difference", k, l)
  <2>1. CASE e = 0
    BY <1>1, <1>2, <2>1 DEF TimesOf
  <2>2. CASE e = 1
    BY <1>1, <1>2, <2>2 DEF TimesOf
  <2>3. QED
    BY <2>1, <2>2
<1>7. Times("set_symmetric_difference", c, d) = e + Times("set_symmetric_difference", k, l)
  <2>1. CASE e = 0
    BY <1>1, <1>2, <2>1 DEF TimesOf
  <2>2. CASE e = 1
    BY <1>1, <1>2, <2>2 DEF TimesOf
  <2>3. QED
    BY <2>1, <2>2
<1>8. QED
  BY <1>1, <1>3, <1>4, <1>5, <1>6, <1>7 DEF Combines

LEMMA TimesSecond ==
  ASSUME NEW call \in Combines, NEW k \in Nat, NEW l \in Nat, NEW e \in {0, 1}, e = 1 => k = 0
  PROVE  Times(call, k, l + e)
           = (IF call \notin {"set_intersection", "set_difference"} THEN e ELSE 0) + Times(call, k, l)
<1> DEFINE c == k
           d == l + e
<1>1. c \in Nat /\ c = k /\ d \in Nat /\ d = l + e
  OBVIOUS
<1> HIDE DEF c, d
<1>2. TimesOf(c, d) /\ TimesOf(k, l)
  BY <1>1, TimesIs DEF TimesOf
<1>3. Times("merge", c, d) = e + Times("merge", k, l)
  <2>1. CASE e = 0
    BY <1>1, <1>2, <2>1 DEF TimesOf
  <2>2. CASE e = 1
    BY <1>1, <1>2, <2>2 DEF TimesOf
  <2>3. QED
    BY <2>1, <2>2
<1>4. Times("set_union", c, d) = e + Times("set_union", k, l)
  <2>1. CASE e = 0
    BY <1>1, <1>2, <2>1 DEF TimesOf
  <2>2. CASE e = 1
    BY <1>1, <1>2, <2>2 DEF TimesOf
  <2>3. QED
    BY <2>1, <2>2
<1>5. Times("set_intersection", c, d) = 0 + Times("set_intersection", k, l)
  <2>1. CASE e = 0
    BY <1>1, <1>2, <2>1 DEF TimesOf
  <2>2. CASE e = 1
    BY <1>1, <1>2, <2>2 DEF TimesOf
  <2>3. QED
    BY <2>1, <2>2
<1>6. Times("set_difference", c, d) = 0 + Times("set_difference", k, l)
  <2>1. CASE e = 0
    BY <1>1, <1>2, <2>1 DEF TimesOf
  <2>2. CASE e = 1
    BY <1>1, <1>2, <2>2 DEF TimesOf
  <2>3. QED
    BY <2>1, <2>2
<1>7. Times("set_symmetric_difference", c, d) = e + Times("set_symmetric_difference", k, l)
  <2>1. CASE e = 0
    BY <1>1, <1>2, <2>1 DEF TimesOf
  <2>2. CASE e = 1
    BY <1>1, <1>2, <2>2 DEF TimesOf
  <2>3. QED
    BY <2>1, <2>2
<1>8. QED
  BY <1>1, <1>3, <1>4, <1>5, <1>6, <1>7 DEF Combines

LEMMA TimesBoth ==
  ASSUME NEW call \in Combines, call # "merge", NEW k \in Nat, NEW l \in Nat, NEW e \in {0, 1}
  PROVE  Times(call, k + e, l + e)
           = (IF call \notin {"set_difference", "set_symmetric_difference"} THEN e ELSE 0) + Times(call, k, l)
<1> DEFINE c == k + e
           d == l + e
<1>1. c \in Nat /\ c = k + e /\ d \in Nat /\ d = l + e
  OBVIOUS
<1> HIDE DEF c, d
<1>2. TimesOf(c, d) /\ TimesOf(k, l)
  BY <1>1, TimesIs DEF TimesOf
<1>3. Times("set_union", c, d) = e + Times("set_union", k, l)
  <2>1. CASE e = 0
    BY <1>1, <1>2, <2>1 DEF TimesOf
  <2>2. CASE e = 1
    BY <1>1, <1>2, <2>2 DEF TimesOf
  <2>3. QED
    BY <2>1, <2>2
<1>4. Times("set_intersection", c, d) = e + Times("set_intersection", k, l)
  <2>1. CASE e = 0
    BY <1>1, <1>2, <2>1 DEF TimesOf
  <2>2. CASE e = 1
    BY <1>1, <1>2, <2>2 DEF TimesOf
  <2>3. QED
    BY <2>1, <2>2
<1>5. Times("set_difference", c, d) = 0 + Times("set_difference", k, l)
  <2>1. CASE e = 0
    BY <1>1, <1>2, <2>1 DEF TimesOf
  <2>2. CASE e = 1
    BY <1>1, <1>2, <2>2 DEF TimesOf
  <2>3. QED
    BY <2>1, <2>2
<1>6. Times("set_symmetric_difference", c, d) = 0 + Times("set_symmetric_difference", k, l)
  <2>1. CASE e = 0
    BY <1>1, <1>2, <2>1 DEF TimesOf
  <2>2. CASE e = 1
    BY <1>1, <1>2, <2>2 DEF TimesOf
  <2>3. QED
    BY <2>1, <2>2
<1>7. QED
  BY <1>1, <1>3, <1>4, <1>5, <1>6 DEF Combines

(* One step of each loop: which element it writes, and what it passes.     *)
NextPlace(call, u, w, i, j) ==
  IF u[i] < w[j] THEN <<i + 1, j>>
  ELSE IF w[j] < u[i] \/ call = "merge" THEN <<i, j + 1>> ELSE <<i + 1, j + 1>>
Element(call, u, w, i, j) ==
  IF u[i] < w[j] \/ (~(w[j] < u[i]) /\ call = "set_intersection") THEN <<1, i>> ELSE <<2, j>>
IsWritten(call, u, w, i, j) ==
  IF u[i] < w[j] THEN call # "set_intersection"
  ELSE IF w[j] < u[i] THEN call \notin {"set_intersection", "set_difference"}
  ELSE call \notin {"set_difference", "set_symmetric_difference"}
AtEnd(call, n, m, i, j) ==
  IF i = n THEN IF call \in {"set_intersection", "set_difference"} THEN <<>> ELSE C!copy(2, j, m)
  ELSE IF call = "set_intersection" THEN <<>> ELSE C!copy(1, i, n)

TimesLeft(call, u, n, w, m, i, j, v) == Times(call, Copies(u, i, n, v), Copies(w, j, m, v))

TimesFrom(call, u, n, w, m, i, j, next, x, v) ==
  TimesLeft(call, u, n, w, m, i, j, v)
    = (IF IsWritten(call, u, w, i, j) /\ KeyOf(u, w, x) = v THEN 1 ELSE 0)
      + TimesLeft(call, u, n, w, m, next[1], next[2], v)

LEMMA TimesStep ==
  ASSUME NEW n \in Nat, NEW m \in Nat, NEW u \in [0 .. n - 1 -> Int],
         NEW w \in [0 .. m - 1 -> Int], Sorted(u), Sorted(w),
         NEW call \in Combines, NEW i \in 0 .. n - 1, NEW j \in 0 .. m - 1, NEW v \in Int,
         NEW next, next = NextPlace(call, u, w, i, j),
         NEW x, x = Element(call, u, w, i, j)
  PROVE  TimesFrom(call, u, n, w, m, i, j, next, x, v)
<1> DEFINE c1 == Copies(u, i, n, v)
           c2 == Copies(w, j, m, v)
           d1 == Copies(u, i + 1, n, v)
           d2 == Copies(w, j + 1, m, v)
<1>1. /\ u[i] \in Int /\ w[j] \in Int /\ i \in Int /\ n \in Int /\ j \in Int /\ m \in Int
      /\ i < n /\ j < m /\ i + 1 \in Int /\ j + 1 \in Int /\ i \in 0 .. n /\ j \in 0 .. m
  OBVIOUS
<1>2. c1 \in Nat /\ c2 \in Nat /\ d1 \in Nat /\ d2 \in Nat
  BY <1>1, CopiesDown
<1>3. c1 = d1 + (IF u[i] = v THEN 1 ELSE 0)
  <2>1. (u[i] = v => c1 = d1 + 1) /\ (u[i] # v => c1 = d1)
    BY <1>1, CopiesDown, SMTT(30)
  <2> HIDE DEF c1, d1
  <2>2. QED
    BY <1>2, <2>1, SMTT(30)
<1>4. c2 = d2 + (IF w[j] = v THEN 1 ELSE 0)
  <2>1. (w[j] = v => c2 = d2 + 1) /\ (w[j] # v => c2 = d2)
    BY <1>1, CopiesDown, SMTT(30)
  <2> HIDE DEF c2, d2
  <2>2. QED
    BY <1>2, <2>1, SMTT(30)
<1>5. ASSUME v < w[j] PROVE c2 = 0
  <2>1. j < m => v < w[j]
    BY <1>5
  <2>2. QED
    BY <1>1, <2>1, Absent
<1>6. ASSUME v < u[i] PROVE c1 = 0
  <2>1. i < n => v < u[i]
    BY <1>6
  <2>2. QED
    BY <1>1, <2>1, Absent
<1>7. /\ KeyOf(u, w, <<1, i>>) = u[i] /\ KeyOf(u, w, <<2, j>>) = w[j]
  BY DEF KeyOf
<1>8. /\ TimesLeft(call, u, n, w, m, i, j, v) = Times(call, c1, c2)
      /\ TimesLeft(call, u, n, w, m, i + 1, j, v) = Times(call, d1, c2)
      /\ TimesLeft(call, u, n, w, m, i, j + 1, v) = Times(call, c1, d2)
      /\ TimesLeft(call, u, n, w, m, i + 1, j + 1, v) = Times(call, d1, d2)
  BY DEF TimesLeft
<1> HIDE DEF c1, c2, d1, d2
<1>9. /\ call \in Combines
      /\ u[i] = v => c1 = d1 + 1
      /\ u[i] # v => c1 = d1 + 0 /\ c1 = d1
      /\ w[j] = v => c2 = d2 + 1
      /\ w[j] # v => c2 = d2 + 0 /\ c2 = d2
  BY <1>2, <1>3, <1>4
<1>11. CASE u[i] < w[j]
  <2>1. next[1] = i + 1 /\ next[2] = j /\ x = <<1, i>>
    BY <1>11 DEF NextPlace, Element
  <2>2. IsWritten(call, u, w, i, j) <=> call # "set_intersection"
    BY <1>11 DEF IsWritten
  <2>3. u[i] = v => c2 = 0
    BY <1>5, <1>11
  <2> DEFINE e == IF u[i] = v THEN 1 ELSE 0
  <2>4. Times(call, c1, c2) = (IF call # "set_intersection" /\ u[i] = v THEN 1 ELSE 0) + Times(call, d1, c2)
    <3>1. e \in {0, 1} /\ (e = 1 => c2 = 0) /\ c1 = d1 + e
      BY <1>9, <2>3
    <3>2. (IF call \notin {"set_intersection"} THEN e ELSE 0)
          = IF call # "set_intersection" /\ u[i] = v THEN 1 ELSE 0
      OBVIOUS
    <3> HIDE DEF e
    <3>3. Times(call, d1 + e, c2) = (IF call \notin {"set_intersection"} THEN e ELSE 0) + Times(call, d1, c2)
      BY ONLY <1>2, <1>9, <3>1, TimesFirst, ZenonT(40)
    <3>4. QED
      BY <3>1, <3>2, <3>3
  <2>5. QED
    BY <1>7, <1>8, <2>1, <2>2, <2>4 DEF TimesFrom
<1>12. CASE w[j] < u[i]
  <2>1. ~(u[i] < w[j])
    BY <1>1, <1>12
  <2>2. next[1] = i /\ next[2] = j + 1 /\ x = <<2, j>>
    BY <1>12, <2>1 DEF NextPlace, Element
  <2>3. IsWritten(call, u, w, i, j) <=> call \notin {"set_intersection", "set_difference"}
    BY <1>12, <2>1 DEF IsWritten
  <2>4. w[j] = v => c1 = 0
    BY <1>6, <1>12
  <2> DEFINE e == IF w[j] = v THEN 1 ELSE 0
  <2>5. Times(call, c1, c2)
        = (IF call \notin {"set_intersection", "set_difference"} /\ w[j] = v THEN 1 ELSE 0)
          + Times(call, c1, d2)
    <3>1. e \in {0, 1} /\ (e = 1 => c1 = 0) /\ c2 = d2 + e
      BY <1>9, <2>4
    <3>2. (IF call \notin {"set_intersection", "set_difference"} THEN e ELSE 0)
          = IF call \notin {"set_intersection", "set_difference"} /\ w[j] = v THEN 1 ELSE 0
      OBVIOUS
    <3> HIDE DEF e
    <3>3. Times(call, c1, d2 + e)
          = (IF call \notin {"set_intersection", "set_difference"} THEN e ELSE 0) + Times(call, c1, d2)
      BY ONLY <1>2, <1>9, <3>1, TimesSecond, ZenonT(40)
    <3>4. QED
      BY <3>1, <3>2, <3>3
  <2>6. QED
    BY <1>7, <1>8, <2>2, <2>3, <2>5 DEF TimesFrom
<1>13. CASE u[i] = w[j]
  <2>1. ~(u[i] < w[j]) /\ ~(w[j] < u[i])
    BY <1>1, <1>13
  <2>2. KeyOf(u, w, x) = u[i]
    BY <1>7, <1>13 DEF Element
  <2>3. IsWritten(call, u, w, i, j) <=> call \notin {"set_difference", "set_symmetric_difference"}
    BY <2>1 DEF IsWritten
  <2>4. CASE call = "merge"
    <3>1. next[1] = i /\ next[2] = j + 1
      BY <2>1, <2>4 DEF NextPlace
    <3>2. Times(call, c1, c2) = (IF u[i] = v THEN 1 ELSE 0) + Times(call, c1, d2)
      <4>1. Times("merge", c1, c2) = c1 + c2 /\ Times("merge", c1, d2) = c1 + d2
        BY <1>2, TimesIs
      <4>2. QED
        BY <1>2, <1>4, <1>13, <2>4, <4>1
    <3>3. IsWritten(call, u, w, i, j)
      BY <2>3, <2>4
    <3>4. QED
      BY <1>8, <2>2, <3>1, <3>2, <3>3 DEF TimesFrom
  <2>5. CASE call # "merge"
    <3>1. next[1] = i + 1 /\ next[2] = j + 1
      BY <2>1, <2>5 DEF NextPlace
    <3> DEFINE e == IF u[i] = v THEN 1 ELSE 0
    <3>2. Times(call, c1, c2)
          = (IF call \notin {"set_difference", "set_symmetric_difference"} /\ u[i] = v THEN 1 ELSE 0)
            + Times(call, d1, d2)
      <4>1. e \in {0, 1} /\ c1 = d1 + e /\ c2 = d2 + e
        BY <1>9, <1>13
      <4>2. (IF call \notin {"set_difference", "set_symmetric_difference"} THEN e ELSE 0)
            = IF call \notin {"set_difference", "set_symmetric_difference"} /\ u[i] = v THEN 1 ELSE 0
        OBVIOUS
      <4> HIDE DEF e
      <4>3. Times(call, d1 + e, d2 + e)
            = (IF call \notin {"set_difference", "set_symmetric_difference"} THEN e ELSE 0)
              + Times(call, d1, d2)
        BY ONLY <1>2, <1>9, <2>5, <4>1, TimesBoth, ZenonT(40)
      <4>4. QED
        BY <4>1, <4>2, <4>3
    <3>3. QED
      BY <1>8, <2>2, <2>3, <3>1, <3>2 DEF TimesFrom
  <2>6. QED
    BY <2>4, <2>5
<1>14. QED
  BY <1>1, <1>11, <1>12, <1>13

LEMMA CopyOneInPlace ==
  ASSUME NEW u, NEW w, NEW n, NEW m, NEW i, NEW j, NEW r, r = 1 \/ r = 2,
         NEW z, z = IF r = 1 THEN u ELSE w, NEW k \in Nat, NEW l \in Nat,
         k <= l, z \in [0 .. l - 1 -> Int], Sorted(z),
         \A p \in k .. l - 1 : <<r, p>> \in Left(i, n, j, m)
  PROVE  InPlace(u, w, n, m, i, j, C!copy(r, k, l)) /\ C!copy(r, k, l) \in Seq(Items)
<1> DEFINE out == C!copy(r, k, l)
           len == l - k
<1>1. len \in Nat /\ out = [p \in 1 .. len |-> <<r, k + p - 1>>]
  BY DEF C!copy
<1>2. \A p \in 1 .. len : /\ out[p] = <<r, k + p - 1>> /\ k + p - 1 \in k .. l - 1
                          /\ k + p - 1 \in 0 .. l - 1 /\ k + p - 1 \in Nat
  BY <1>1
<1>3. out \in Seq(Items) /\ DOMAIN out = 1 .. len
  <2>1. \A p \in 1 .. len : <<r, k + p - 1>> \in Items
    BY <1>2 DEF Items
  <2> DEFINE T == Items
             at == [p \in 1 .. len |-> <<r, k + p - 1>>]
  <2>2. \A p \in 1 .. len : <<r, k + p - 1>> \in T
    BY <2>1
  <2> HIDE DEF len, T
  <2>3. at \in Seq(T) /\ DOMAIN at = 1 .. len
    <3>1. at \in [1 .. len -> T]
      BY <2>2
    <3>2. len \in Nat
      BY <1>1
    <3> HIDE DEF at
    <3>3. QED
      BY <3>1, <3>2
  <2>4. QED
    BY <1>1, <2>3 DEF T
<1> HIDE DEF out, len
<1>4. OfLeft(out, i, n, j, m)
  <2>1. \A p \in 1 .. len : out[p] \in Left(i, n, j, m)
    BY <1>2
  <2>2. QED
    BY <1>3, <2>1 DEF OfLeft
<1>5. ASSUME NEW p \in 1 .. len, NEW q \in 1 .. len, p < q PROVE Follow(u, w, out[p], out[q])
  <2> DEFINE x == k + p - 1
             y == k + q - 1
  <2>1. out[p] = <<r, x>> /\ out[q] = <<r, y>> /\ x \in 0 .. l - 1 /\ y \in 0 .. l - 1
    BY <1>2
  <2>2. y \in x .. l - 1 /\ x < y
    BY <1>1, <1>5, <2>1
  <2> HIDE DEF x, y
  <2>3. z[x] <= z[y] /\ z[x] \in Int /\ z[y] \in Int
    BY <2>1, <2>2, SortedUp
  <2>4. KeyOf(u, w, <<r, x>>) = z[x] /\ KeyOf(u, w, <<r, y>>) = z[y]
    BY DEF KeyOf
  <2>5. ~(z[y] < z[x])
    BY <2>3
  <2>6. QED
    BY <2>1, <2>2, <2>4, <2>5 DEF Follow, less
<1>6. Ordered(u, w, out)
  BY <1>3, <1>5 DEF Ordered
<1>7. InPlace(u, w, n, m, i, j, out) /\ out \in Seq(Items)
  BY <1>3, <1>4, <1>6 DEF InPlace
<1>8. QED
  BY <1>7 DEF out

LEMMA CopyInPlace ==
  ASSUME NEW u, NEW w, NEW n \in Nat, NEW m \in Nat, NEW i \in 0 .. n, NEW j \in 0 .. m,
         u \in [0 .. n - 1 -> Int], w \in [0 .. m - 1 -> Int], Sorted(u), Sorted(w)
  PROVE  /\ InPlace(u, w, n, m, i, j, C!copy(1, i, n)) /\ C!copy(1, i, n) \in Seq(Items)
         /\ InPlace(u, w, n, m, i, j, C!copy(2, j, m)) /\ C!copy(2, j, m) \in Seq(Items)
         /\ InPlace(u, w, n, m, i, j, <<>>) /\ <<>> \in Seq(Items)
<1>1. i \in Nat /\ i <= n /\ j \in Nat /\ j <= m
  OBVIOUS
<1>2. /\ \A p \in i .. n - 1 : <<1, p>> \in Left(i, n, j, m)
      /\ \A p \in j .. m - 1 : <<2, p>> \in Left(i, n, j, m)
  BY LeftIs
<1>3. InPlace(u, w, n, m, i, j, C!copy(1, i, n)) /\ C!copy(1, i, n) \in Seq(Items)
  <2>1. ASSUME NEW r, r = 1
        PROVE  InPlace(u, w, n, m, i, j, C!copy(r, i, n)) /\ C!copy(r, i, n) \in Seq(Items)
    <3>1. u = (IF r = 1 THEN u ELSE w) /\ (r = 1 \/ r = 2)
      BY <2>1
    <3>2. \A p \in i .. n - 1 : <<r, p>> \in Left(i, n, j, m)
      BY <1>2, <2>1
    <3>3. QED
      BY <1>1, <3>1, <3>2, CopyOneInPlace
  <2>2. QED
    BY <2>1
<1>4. InPlace(u, w, n, m, i, j, C!copy(2, j, m)) /\ C!copy(2, j, m) \in Seq(Items)
  <2>1. ASSUME NEW r, r = 2
        PROVE  InPlace(u, w, n, m, i, j, C!copy(r, j, m)) /\ C!copy(r, j, m) \in Seq(Items)
    <3>1. w = (IF r = 1 THEN u ELSE w) /\ (r = 1 \/ r = 2)
      BY <2>1
    <3>2. \A p \in j .. m - 1 : <<r, p>> \in Left(i, n, j, m)
      BY <1>2, <2>1
    <3>3. QED
      BY <1>1, <3>1, <3>2, CopyOneInPlace
  <2>2. QED
    BY <2>1
<1>5. InPlace(u, w, n, m, i, j, <<>>) /\ <<>> \in Seq(Items)
  BY DEF InPlace, OfLeft, Ordered
<1>6. QED
  BY <1>3, <1>4, <1>5

LEMMA PlaceStep ==
  ASSUME NEW n \in Nat, NEW m \in Nat, NEW u \in [0 .. n - 1 -> Int],
         NEW w \in [0 .. m - 1 -> Int], Sorted(u), Sorted(w),
         NEW call, NEW i \in 0 .. n - 1, NEW j \in 0 .. m - 1, NEW s \in Seq(Items),
         NEW next, next = NextPlace(call, u, w, i, j), InPlace(u, w, n, m, next[1], next[2], s),
         NEW x, x = Element(call, u, w, i, j)
  PROVE  /\ InPlace(u, w, n, m, i, j, <<x>> \o s)
         /\ InPlace(u, w, n, m, i, j, s)
<1>1. /\ u[i] \in Int /\ w[j] \in Int /\ i \in Int /\ n \in Int /\ j \in Int /\ m \in Int
      /\ i + 1 \in Int /\ j + 1 \in Int /\ i <= i + 1 /\ j <= j + 1 /\ i <= i /\ j <= j
      /\ i + 1 <= i + 1 /\ j + 1 <= j + 1
  OBVIOUS
<1>2. ASSUME NEW k \in Int, NEW l \in Int, NEW k1 \in Int, NEW l1 \in Int, k <= k1, l <= l1,
             InPlace(u, w, n, m, k1, l1, s)
      PROVE  InPlace(u, w, n, m, k, l, s)
  BY <1>1, <1>2, LeftLess DEF InPlace
<1>3. CASE u[i] < w[j]
  <2>1. next[1] = i + 1 /\ next[2] = j /\ x = <<1, i>> /\ ~(w[j] < u[i])
    BY <1>1, <1>3 DEF NextPlace, Element
  <2>2. InPlace(u, w, n, m, i + 1, j, s)
    BY <2>1
  <2>3. InPlace(u, w, n, m, i, j, <<<<1, i>>>> \o s)
    BY <2>1, <2>2, TakeFirst
  <2>4. InPlace(u, w, n, m, i, j, s)
    BY <1>1, <1>2, <2>2
  <2>5. QED
    BY <2>1, <2>3, <2>4
<1>4. CASE w[j] < u[i]
  <2>1. next[1] = i /\ next[2] = j + 1 /\ x = <<2, j>> /\ ~(u[i] < w[j])
    BY <1>1, <1>4 DEF NextPlace, Element
  <2>2. InPlace(u, w, n, m, i, j + 1, s)
    BY <2>1
  <2>3. InPlace(u, w, n, m, i, j, <<<<2, j>>>> \o s)
    BY <2>1, <2>2, TakeSecond
  <2>4. InPlace(u, w, n, m, i, j, s)
    BY <1>1, <1>2, <2>2
  <2>5. QED
    BY <2>1, <2>3, <2>4
<1>5. CASE u[i] = w[j]
  <2>1. ~(u[i] < w[j]) /\ ~(w[j] < u[i])
    BY <1>1, <1>5
  <2>2. next[1] \in {i, i + 1} /\ next[2] = j + 1
    BY <2>1 DEF NextPlace
  <2>3. InPlace(u, w, n, m, i, j + 1, s)
    <3>1. CASE next[1] = i
      BY <2>2, <3>1
    <3>2. CASE next[1] = i + 1
      <4>1. InPlace(u, w, n, m, i + 1, j + 1, s)
        BY <2>2, <3>2
      <4>2. QED
        BY <1>1, <1>2, <4>1
    <3>3. QED
      BY <2>2, <3>1, <3>2
  <2>4. InPlace(u, w, n, m, i, j, s)
    BY <1>1, <1>2, <2>3
  <2>5. CASE call = "set_intersection"
    <3>1. next[1] = i + 1 /\ x = <<1, i>>
      BY <2>1, <2>5 DEF NextPlace, Element
    <3>2. InPlace(u, w, n, m, i + 1, j, s)
      <4>1. InPlace(u, w, n, m, i + 1, j + 1, s)
        BY <2>2, <3>1
      <4>2. QED
        BY <1>1, <1>2, <4>1
    <3>3. InPlace(u, w, n, m, i, j, <<<<1, i>>>> \o s)
      BY <2>1, <3>2, TakeFirst
    <3>4. QED
      BY <2>4, <3>1, <3>3
  <2>6. CASE call # "set_intersection"
    <3>1. x = <<2, j>>
      BY <2>1, <2>6 DEF Element
    <3>2. InPlace(u, w, n, m, i, j, <<<<2, j>>>> \o s)
      BY <2>1, <2>3, TakeSecond
    <3>3. QED
      BY <2>4, <3>1, <3>2
  <2>7. QED
    BY <2>5, <2>6
<1>6. QED
  BY <1>1, <1>3, <1>4, <1>5

(* The loop of a merge or a set operation, from i and j on.                *)
Stepped(f, call, u, n, w, m, i, j) ==
  IF i = n \/ j = m THEN AtEnd(call, n, m, i, j)
  ELSE IF IsWritten(call, u, w, i, j)
       THEN <<Element(call, u, w, i, j)>>
            \o f[NextPlace(call, u, w, i, j)[1]][NextPlace(call, u, w, i, j)[2]]
       ELSE f[NextPlace(call, u, w, i, j)[1]][NextPlace(call, u, w, i, j)[2]]
IsCombining(f, call, u, n, w, m) ==
  f = [i \in 0 .. n |-> [j \in 0 .. m |-> Stepped(f, call, u, n, w, m, i, j)]]

(* What is written from i and j on is what is left, combined.              *)
Combined(call, u, n, w, m, i, j, out) ==
  /\ InPlace(u, w, n, m, i, j, out)
  /\ \A v \in Int : HowOften(u, w, out, v) = TimesLeft(call, u, n, w, m, i, j, v)

LEMMA CombinedAtEnd ==
  ASSUME NEW n \in Nat, NEW m \in Nat, NEW u \in [0 .. n - 1 -> Int],
         NEW w \in [0 .. m - 1 -> Int], Sorted(u), Sorted(w),
         NEW call \in Combines, NEW i \in 0 .. n, NEW j \in 0 .. m, i = n \/ j = m,
         NEW out, out = AtEnd(call, n, m, i, j)
  PROVE  Combined(call, u, n, w, m, i, j, out) /\ out \in Seq(Items)
<1>1. /\ InPlace(u, w, n, m, i, j, C!copy(1, i, n)) /\ C!copy(1, i, n) \in Seq(Items)
      /\ InPlace(u, w, n, m, i, j, C!copy(2, j, m)) /\ C!copy(2, j, m) \in Seq(Items)
      /\ InPlace(u, w, n, m, i, j, <<>>) /\ <<>> \in Seq(Items)
  BY CopyInPlace
<1>2. i \in Nat /\ i <= n /\ j \in Nat /\ j <= m /\ i \in Int /\ j \in Int /\ n \in Int /\ m \in Int
  OBVIOUS
<1>3. InPlace(u, w, n, m, i, j, out) /\ out \in Seq(Items)
  BY <1>1 DEF AtEnd
<1>4. ASSUME NEW v \in Int PROVE HowOften(u, w, out, v) = TimesLeft(call, u, n, w, m, i, j, v)
  <2> DEFINE c1 == Copies(u, i, n, v)
             c2 == Copies(w, j, m, v)
  <2>1. /\ HowOften(u, w, C!copy(1, i, n), v) = c1 /\ HowOften(u, w, C!copy(2, j, m), v) = c2
        /\ HowOften(u, w, <<>>, v) = 0
    BY <1>2, OftenCopied, OftenNone
  <2>2. c1 \in Nat /\ c2 \in Nat
    BY <1>2, CopiesDown
  <2>3. i = n => c1 = 0
    <3>1. i = n => \A k \in i .. n - 1 : u[k] # v
      BY <1>2
    <3>2. QED
      BY <3>1, NoCopies
  <2>4. j = m => c2 = 0
    <3>1. j = m => \A k \in j .. m - 1 : w[k] # v
      BY <1>2
    <3>2. QED
      BY <3>1, NoCopies
  <2>5. TimesLeft(call, u, n, w, m, i, j, v) = Times(call, c1, c2)
    BY DEF TimesLeft
  <2> HIDE DEF c1, c2
  <2>6. /\ Times("merge", c1, c2) = c1 + c2
        /\ Times("set_union", c1, c2) = IF c1 <= c2 THEN c2 ELSE c1
        /\ Times("set_intersection", c1, c2) = IF c1 <= c2 THEN c1 ELSE c2
        /\ Times("set_difference", c1, c2) = IF c1 <= c2 THEN 0 ELSE c1 - c2
        /\ Times("set_symmetric_difference", c1, c2) = IF c1 <= c2 THEN c2 - c1 ELSE c1 - c2
    BY <2>2, TimesIs
  <2>7. call \in {"merge", "set_union", "set_intersection", "set_difference", "set_symmetric_difference"}
    BY DEF Combines
  <2>8. CASE i = n
    <3>1. c1 = 0 /\ c1 <= c2
      BY <2>2, <2>3, <2>8
    <3>2. CASE call \in {"set_intersection", "set_difference"}
      <4>1. out = <<>>
        BY <2>8, <3>2 DEF AtEnd
      <4>2. Times(call, c1, c2) = 0
        BY <2>6, <3>1, <3>2
      <4>3. QED
        BY <2>1, <2>5, <4>1, <4>2
    <3>3. CASE call \notin {"set_intersection", "set_difference"}
      <4>1. out = C!copy(2, j, m)
        BY <2>8, <3>3 DEF AtEnd
      <4>2. Times(call, c1, c2) = c2
        BY <2>2, <2>6, <2>7, <3>1, <3>3
      <4>3. QED
        BY <2>1, <2>5, <4>1, <4>2
    <3>4. QED
      BY <3>2, <3>3
  <2>9. CASE i # n
    <3>1. c2 = 0 /\ (c1 <= c2 => c1 = 0)
      BY <2>2, <2>4, <2>9
    <3>2. CASE call = "set_intersection"
      <4>1. out = <<>>
        BY <2>9, <3>2 DEF AtEnd
      <4>2. Times(call, c1, c2) = 0
        BY <2>2, <2>6, <3>1, <3>2
      <4>3. QED
        BY <2>1, <2>5, <4>1, <4>2
    <3>3. CASE call # "set_intersection"
      <4>1. out = C!copy(1, i, n)
        BY <2>9, <3>3 DEF AtEnd
      <4>2. Times(call, c1, c2) = c1
        BY <2>2, <2>6, <2>7, <3>1, <3>3
      <4>3. QED
        BY <2>1, <2>5, <4>1, <4>2
    <3>4. QED
      BY <3>2, <3>3
  <2>10. QED
    BY <2>8, <2>9
<1>5. QED
  BY <1>3, <1>4 DEF Combined

LEMMA CombinedStep ==
  ASSUME NEW n \in Nat, NEW m \in Nat, NEW u \in [0 .. n - 1 -> Int],
         NEW w \in [0 .. m - 1 -> Int], Sorted(u), Sorted(w),
         NEW call \in Combines, NEW i \in 0 .. n - 1, NEW j \in 0 .. m - 1,
         NEW s \in Seq(Items),
         NEW next, next = NextPlace(call, u, w, i, j),
         NEW x \in Items, x = Element(call, u, w, i, j),
         Combined(call, u, n, w, m, next[1], next[2], s)
  PROVE  Combined(call, u, n, w, m, i, j,
                  IF IsWritten(call, u, w, i, j) THEN <<x>> \o s ELSE s)
<1>1. /\ InPlace(u, w, n, m, next[1], next[2], s)
      /\ \A v \in Int : HowOften(u, w, s, v) = TimesLeft(call, u, n, w, m, next[1], next[2], v)
  BY DEF Combined
<1>2. InPlace(u, w, n, m, i, j, <<x>> \o s) /\ InPlace(u, w, n, m, i, j, s)
  <2>1. InPlace(u, w, n, m, next[1], next[2], s)
    BY <1>1
  <2>2. QED
    BY <2>1, PlaceStep
<1>3. \A v \in Int : TimesLeft(call, u, n, w, m, i, j, v)
        = (IF IsWritten(call, u, w, i, j) /\ KeyOf(u, w, x) = v THEN 1 ELSE 0)
          + TimesLeft(call, u, n, w, m, next[1], next[2], v)
  <2>1. \A v \in Int : TimesFrom(call, u, n, w, m, i, j, next, x, v)
    BY TimesStep
  <2>2. QED
    BY <2>1 DEF TimesFrom
<1>4. \A v : HowOften(u, w, <<x>> \o s, v)
               = (IF KeyOf(u, w, x) = v THEN 1 ELSE 0) + HowOften(u, w, s, v)
  <2> DEFINE Set == Items
  <2>1. x \in Set /\ s \in Seq(Set)
    OBVIOUS
  <2> HIDE DEF Set
  <2>2. QED
    BY <2>1, OftenFirst
<1>5. CASE IsWritten(call, u, w, i, j)
  BY <1>1, <1>2, <1>3, <1>4, <1>5 DEF Combined
<1>6. CASE ~IsWritten(call, u, w, i, j)
  <2>1. \A v \in Int : HowOften(u, w, s, v) \in Nat
    <3>1. ASSUME NEW v \in Int PROVE HowOften(u, w, s, v) \in Nat
      <4>1. 1 \in Int /\ Len(s) + 1 \in Int
        OBVIOUS
      <4>2. QED
        BY <4>1, CopiesDown DEF HowOften
    <3>2. QED
      BY <3>1
  <2>2. \A v \in Int : HowOften(u, w, s, v) = TimesLeft(call, u, n, w, m, i, j, v)
    <3>1. ASSUME NEW v \in Int PROVE HowOften(u, w, s, v) = TimesLeft(call, u, n, w, m, i, j, v)
      <4> DEFINE t == TimesLeft(call, u, n, w, m, next[1], next[2], v)
      <4>1. HowOften(u, w, s, v) = t /\ t \in Nat
        BY <1>1, <2>1
      <4>2. TimesLeft(call, u, n, w, m, i, j, v) = 0 + t
        BY <1>3, <1>6
      <4> HIDE DEF t
      <4>3. QED
        BY <4>1, <4>2
    <3>2. QED
      BY <3>1
  <2>3. QED
    BY <1>2, <1>6, <2>2 DEF Combined
<1>7. QED
  BY <1>5, <1>6

LEMMA NextPlaceIs ==
  ASSUME NEW n \in Nat, NEW m \in Nat, NEW u, NEW w, NEW call,
         NEW i \in 0 .. n, NEW j \in 0 .. m, ~(i = n \/ j = m)
  PROVE  /\ i \in 0 .. n - 1 /\ j \in 0 .. m - 1
         /\ NextPlace(call, u, w, i, j) \in (0 .. n) \X (0 .. m)
         /\ i + j < NextPlace(call, u, w, i, j)[1] + NextPlace(call, u, w, i, j)[2]
         /\ Element(call, u, w, i, j) \in Items
<1>1. i \in 0 .. n - 1 /\ j \in 0 .. m - 1 /\ i \in Nat /\ j \in Nat
  OBVIOUS
<1>2. NextPlace(call, u, w, i, j) \in {<<i + 1, j>>, <<i, j + 1>>, <<i + 1, j + 1>>}
  BY DEF NextPlace
<1>3. \A d \in {<<i + 1, j>>, <<i, j + 1>>, <<i + 1, j + 1>>} :
        d \in (0 .. n) \X (0 .. m) /\ i + j < d[1] + d[2]
  BY <1>1
<1>4. Element(call, u, w, i, j) \in {<<1, i>>, <<2, j>>}
  BY DEF Element
<1>5. <<1, i>> \in Items /\ <<2, j>> \in Items
  BY <1>1 DEF Items
<1>6. QED
  BY <1>1, <1>2, <1>3, <1>4, <1>5

LEMMA Combining ==
  ASSUME NEW n \in Nat, NEW m \in Nat, NEW u \in [0 .. n - 1 -> Int],
         NEW w \in [0 .. m - 1 -> Int], Sorted(u), Sorted(w), NEW call \in Combines
  PROVE  /\ \E f : IsCombining(f, call, u, n, w, m)
         /\ \A f : IsCombining(f, call, u, n, w, m) =>
              Combined(call, u, n, w, m, 0, 0, f[0][0]) /\ f[0][0] \in Seq(Items)
<1> DEFINE D == (0 .. n) \X (0 .. m)
           Set == Items
           done == {d \in D : d[1] = n \/ d[2] = m}
           emits == {d \in D : IsWritten(call, u, w, d[1], d[2])}
           last == [d \in D |-> IF d \in done THEN AtEnd(call, n, m, d[1], d[2]) ELSE <<>>]
           item == [d \in D |-> IF d \in done THEN <<1, 0>> ELSE Element(call, u, w, d[1], d[2])]
           next == [d \in D |-> IF d \in done THEN d ELSE NextPlace(call, u, w, d[1], d[2])]
           left == [d \in D |-> n + m - (d[1] + d[2])]
           Good == {g \in D \X Seq(Set) : Combined(call, u, n, w, m, g[1][1], g[1][2], g[2])}
<1>1. \A d \in D : d = <<d[1], d[2]>> /\ d[1] \in 0 .. n /\ d[2] \in 0 .. m
  OBVIOUS
<1>2. \A d \in D : d \in done => /\ Combined(call, u, n, w, m, d[1], d[2], last[d])
                                 /\ last[d] \in Seq(Set)
  <2>1. ASSUME NEW d \in D, d \in done
        PROVE  Combined(call, u, n, w, m, d[1], d[2], last[d]) /\ last[d] \in Seq(Set)
    <3> DEFINE i == d[1]
               j == d[2]
               out == last[d]
    <3>1. i \in 0 .. n /\ j \in 0 .. m /\ (i = n \/ j = m) /\ out = AtEnd(call, n, m, i, j)
      BY <1>1, <2>1
    <3> HIDE DEF i, j, out, Set
    <3>2. Combined(call, u, n, w, m, i, j, out) /\ out \in Seq(Items)
      BY <3>1, CombinedAtEnd
    <3>3. QED
      BY <3>2 DEF i, j, out, Set
  <2>2. QED
    BY <2>1
<1>3. last \in [D -> Seq(Set)]
  <2>1. \A d \in D : last[d] \in Seq(Set)
    <3>1. \A d \in D : d \notin done => last[d] = <<>>
      OBVIOUS
    <3>2. <<>> \in Seq(Set)
      OBVIOUS
    <3> HIDE DEF last, done, Set
    <3>3. QED
      BY <1>2, <3>1, <3>2
  <2>2. last = [d \in D |-> last[d]]
    OBVIOUS
  <2> HIDE DEF last, Set
  <2>3. QED
    BY <2>1, <2>2
<1>4. \A d \in D : d \notin done =>
        /\ d[1] \in 0 .. n - 1 /\ d[2] \in 0 .. m - 1
        /\ next[d] = NextPlace(call, u, w, d[1], d[2]) /\ next[d] \in D
        /\ d[1] + d[2] < next[d][1] + next[d][2]
        /\ item[d] = Element(call, u, w, d[1], d[2]) /\ item[d] \in Set
  <2>1. ASSUME NEW d \in D, d \notin done
        PROVE  /\ d[1] \in 0 .. n - 1 /\ d[2] \in 0 .. m - 1
               /\ next[d] = NextPlace(call, u, w, d[1], d[2]) /\ next[d] \in D
               /\ d[1] + d[2] < next[d][1] + next[d][2]
               /\ item[d] = Element(call, u, w, d[1], d[2]) /\ item[d] \in Set
    <3> DEFINE i == d[1]
               j == d[2]
    <3>1. i \in 0 .. n /\ j \in 0 .. m /\ ~(i = n \/ j = m)
      BY <1>1, <2>1
    <3>2. next[d] = NextPlace(call, u, w, i, j) /\ item[d] = Element(call, u, w, i, j)
      BY <2>1
    <3> HIDE DEF i, j
    <3>3. /\ i \in 0 .. n - 1 /\ j \in 0 .. m - 1
          /\ NextPlace(call, u, w, i, j) \in (0 .. n) \X (0 .. m)
          /\ i + j < NextPlace(call, u, w, i, j)[1] + NextPlace(call, u, w, i, j)[2]
          /\ Element(call, u, w, i, j) \in Items
      BY <3>1, NextPlaceIs
    <3> HIDE DEF next, item
    <3>4. QED
      BY <3>2, <3>3 DEF i, j
  <2>2. QED
    BY <2>1
<1>5. next \in [D -> D] /\ item \in [D -> Set]
  <2>1. \A d \in D : d \in done => next[d] = d /\ item[d] = <<1, 0>>
    OBVIOUS
  <2>2. <<1, 0>> \in Set
    BY DEF Items
  <2>3. next = [d \in D |-> next[d]] /\ item = [d \in D |-> item[d]]
    OBVIOUS
  <2> HIDE DEF next, item, done, D, Set
  <2>4. \A d \in D : next[d] \in D /\ item[d] \in Set
    BY <1>4, <2>1, <2>2
  <2>5. QED
    BY <2>3, <2>4
<1>6. StaysGood(Good, D, Set, done, last, emits, item, next)
  <2>1. \A d \in D : \A s \in Seq(Set) :
          <<d, s>> \in Good <=> Combined(call, u, n, w, m, d[1], d[2], s)
    <3> HIDE DEF D, Set
    <3>1. QED
      OBVIOUS
  <2> HIDE DEF Good
  <2>2. \A d \in D : d \in done => <<d, last[d]>> \in Good
    <3> HIDE DEF last, D, done, Set
    <3>1. QED
      BY <1>2, <2>1
  <2>3. ASSUME NEW d \in D, NEW s \in Seq(Set), d \notin done, <<next[d], s>> \in Good
        PROVE  <<d, IF d \in emits THEN <<item[d]>> \o s ELSE s>> \in Good
    <3> DEFINE i == d[1]
               j == d[2]
               e == next[d]
               x == item[d]
               out == IF IsWritten(call, u, w, i, j) THEN <<x>> \o s ELSE s
    <3>1. /\ i \in 0 .. n - 1 /\ j \in 0 .. m - 1 /\ e = NextPlace(call, u, w, i, j)
          /\ e \in D /\ x = Element(call, u, w, i, j) /\ x \in Set
      <4> HIDE DEF next, item, done, D, Set
      <4>1. QED
        BY <1>4, <2>3
    <3>2. d \in emits <=> IsWritten(call, u, w, i, j)
      OBVIOUS
    <3>3. out \in Seq(Set)
      BY <3>1
    <3>4. Combined(call, u, n, w, m, e[1], e[2], s)
      <4>1. <<e, s>> \in Good
        BY <2>3
      <4> HIDE DEF e, D, Set
      <4>2. QED
        BY <2>1, <3>1, <4>1
    <3> HIDE DEF i, j, e, x
    <3>5. Combined(call, u, n, w, m, i, j, IF IsWritten(call, u, w, i, j) THEN <<x>> \o s ELSE s)
      BY <3>1, <3>4, CombinedStep
    <3>6. <<d, out>> \in Good
      <4>1. Combined(call, u, n, w, m, d[1], d[2], out)
        BY <3>5 DEF i, j
      <4> HIDE DEF out, D, Set
      <4>2. QED
        BY <2>1, <3>3, <4>1
    <3>7. out = (IF d \in emits THEN <<item[d]>> \o s ELSE s)
      <4> HIDE DEF emits
      <4>1. QED
        BY <3>2 DEF x
    <3> HIDE DEF out
    <3>8. QED
      BY <3>6, <3>7
  <2> HIDE DEF D, Set, done, last, emits, item, next
  <2>4. QED
    BY <2>2, <2>3 DEF StaysGood
<1>7. \A d \in D : d \notin done => d[1] + d[2] < next[d][1] + next[d][2]
  BY <1>4
<1>8. left \in [D -> Nat] /\ \A d \in D : d \notin done => left[next[d]] < left[d]
  <2>1. \A d \in D : n + m - (d[1] + d[2]) \in Nat
    BY <1>1
  <2>2. left \in [D -> Nat]
    BY <2>1
  <2>3. ASSUME NEW d \in D, NEW e \in D, d[1] + d[2] < e[1] + e[2] PROVE left[e] < left[d]
    <3>1. d[1] \in Int /\ d[2] \in Int /\ e[1] \in Int /\ e[2] \in Int
      BY <1>1
    <3>2. QED
      BY <2>3, <3>1
  <2>4. \A d \in D : next[d] \in D
    BY <1>5
  <2> HIDE DEF left, next, done, D
  <2>5. QED
    BY <1>7, <2>2, <2>3, <2>4
<1>9. \A f : IsMerging(f, n, m, done, last, emits, item, next) <=> IsCombining(f, call, u, n, w, m)
  <2>1. ASSUME NEW f, NEW i \in 0 .. n, NEW j \in 0 .. m
        PROVE  Stepped(f, call, u, n, w, m, i, j)
               = IF <<i, j>> \in done THEN last[<<i, j>>]
                 ELSE IF <<i, j>> \in emits
                      THEN <<item[<<i, j>>]>> \o f[next[<<i, j>>][1]][next[<<i, j>>][2]]
                      ELSE f[next[<<i, j>>][1]][next[<<i, j>>][2]]
    <3> DEFINE d == <<i, j>>
    <3>1. d \in D /\ d[1] = i /\ d[2] = j
      OBVIOUS
    <3>2. /\ d \in done <=> i = n \/ j = m
          /\ d \in emits <=> IsWritten(call, u, w, i, j)
          /\ d \in done => last[d] = AtEnd(call, n, m, i, j)
          /\ d \notin done => item[d] = Element(call, u, w, i, j) /\ next[d] = NextPlace(call, u, w, i, j)
      BY <3>1
    <3> HIDE DEF d, done, last, emits, item, next
    <3>3. Stepped(f, call, u, n, w, m, i, j)
               = IF d \in done THEN last[d]
                 ELSE IF d \in emits THEN <<item[d]>> \o f[next[d][1]][next[d][2]]
                 ELSE f[next[d][1]][next[d][2]]
      BY <3>2 DEF Stepped
    <3>4. QED
      BY <3>3 DEF d
  <2> HIDE DEF done, last, emits, item, next
  <2>2. ASSUME NEW f
        PROVE  IsMerging(f, n, m, done, last, emits, item, next) <=> IsCombining(f, call, u, n, w, m)
    <3> DEFINE body(i, j) == IF <<i, j>> \in done THEN last[<<i, j>>]
                             ELSE IF <<i, j>> \in emits
                             THEN <<item[<<i, j>>]>> \o f[next[<<i, j>>][1]][next[<<i, j>>][2]]
                             ELSE f[next[<<i, j>>][1]][next[<<i, j>>][2]]
               g == [i \in 0 .. n |-> [j \in 0 .. m |-> Stepped(f, call, u, n, w, m, i, j)]]
               h == [i \in 0 .. n |-> [j \in 0 .. m |-> body(i, j)]]
    <3>1. g = h
      <4>1. \A i \in 0 .. n, j \in 0 .. m : Stepped(f, call, u, n, w, m, i, j) = body(i, j)
        BY <2>1
      <4> HIDE DEF body
      <4>2. QED
        BY <4>1
    <3>2. IsMerging(f, n, m, done, last, emits, item, next) <=> f = h
      BY DEF IsMerging
    <3>3. IsCombining(f, call, u, n, w, m) <=> f = g
      BY DEF IsCombining
    <3> HIDE DEF g, h
    <3>4. QED
      BY <3>1, <3>2, <3>3
  <2>3. QED
    BY <2>2
<1>10. /\ \E f : IsMerging(f, n, m, done, last, emits, item, next)
      /\ \A f : IsMerging(f, n, m, done, last, emits, item, next) =>
              f[0][0] \in Seq(Set) /\ <<<<0, 0>>, f[0][0]>> \in Good
  <2>1. D = (0 .. n) \X (0 .. m)
    OBVIOUS
  <2> HIDE DEF D, Set, done, last, emits, item, next, left, Good
  <2>2. QED
    BY <1>3, <1>5, <1>6, <1>8, <2>1, Merging
<1>11. \A s : <<<<0, 0>>, s>> \in Good => Combined(call, u, n, w, m, 0, 0, s)
  OBVIOUS
<1> HIDE DEF D, done, last, emits, item, next, Good
<1>12. QED
  BY <1>9, <1>10, <1>11

(* Each of the five operations is that loop.                               *)
LEMMA MergeIs ==
  ASSUME NEW n \in Nat, NEW m \in Nat, NEW u \in [0 .. n - 1 -> Int],
         NEW w \in [0 .. m - 1 -> Int], Sorted(u), Sorted(w), NEW call, call = "merge",
         NEW out, out = C!merge(u, n, w, m)
  PROVE  Combined(call, u, n, w, m, 0, 0, out) /\ out \in Seq(Items)
<1> DEFINE body(i, j, h) == IF i = n THEN C!copy(2, j, m)
                            ELSE IF j = m THEN C!copy(1, i, n)
                            ELSE IF u[i] < w[j] THEN <<<<1, i>>>> \o h[i + 1][j]
                            ELSE <<<<2, j>>>> \o h[i][j + 1]
           from[i \in 0 .. n] ==
             [j \in 0 .. m |->
                IF i = n THEN C!copy(2, j, m)
                ELSE IF j = m THEN C!copy(1, i, n)
                ELSE IF u[i] < w[j] THEN <<<<1, i>>>> \o from[i + 1][j]
                ELSE <<<<2, j>>>> \o from[i][j + 1]]
<1>1. C!merge(u, n, w, m) = from[0][0]
  BY DEF C!merge, less
<1>2. from = CHOOSE h : h = [i \in 0 .. n |-> [j \in 0 .. m |-> body(i, j, h)]]
  OBVIOUS
<1> HIDE DEF from
<1>3. ASSUME NEW h, NEW i \in 0 .. n, NEW j \in 0 .. m
      PROVE  Stepped(h, call, u, n, w, m, i, j) = body(i, j, h)
  <2>1. CASE i = n \/ j = m
    <3>1. C!copy(1, n, n) = <<>>
      BY DEF C!copy
    <3>2. body(i, j, h) = AtEnd(call, n, m, i, j)
      BY <2>1, <3>1 DEF AtEnd
    <3>3. QED
      BY <2>1, <3>2 DEF Stepped
  <2>2. CASE ~(i = n \/ j = m) /\ u[i] < w[j]
    <3>1. u[i] \in Int /\ w[j] \in Int
      BY <2>2
    <3>2. ~(w[j] < u[i])
      BY <2>2, <3>1
    <3>3. QED
      BY <2>2, <3>2 DEF Stepped, NextPlace, Element, IsWritten
  <2>3. CASE ~(i = n \/ j = m) /\ ~(u[i] < w[j]) /\ w[j] < u[i]
    BY <2>3 DEF Stepped, NextPlace, Element, IsWritten
  <2>4. CASE ~(i = n \/ j = m) /\ ~(u[i] < w[j]) /\ ~(w[j] < u[i])
    BY <2>4 DEF Stepped, NextPlace, Element, IsWritten
  <2>5. QED
    BY <2>1, <2>2, <2>3, <2>4
<1> HIDE DEF body
<1>4. ASSUME NEW h
      PROVE  IsCombining(h, call, u, n, w, m)
             <=> h = [i \in 0 .. n |-> [j \in 0 .. m |-> body(i, j, h)]]
  <2>1. [i \in 0 .. n |-> [j \in 0 .. m |-> Stepped(h, call, u, n, w, m, i, j)]]
        = [i \in 0 .. n |-> [j \in 0 .. m |-> body(i, j, h)]]
    BY <1>3
  <2>2. QED
    BY <2>1 DEF IsCombining
<1>5. call \in Combines
  BY DEF Combines
<1>6. /\ \E f : IsCombining(f, call, u, n, w, m)
      /\ \A f : IsCombining(f, call, u, n, w, m) =>
           Combined(call, u, n, w, m, 0, 0, f[0][0]) /\ f[0][0] \in Seq(Items)
  BY <1>5, Combining
<1>7. from = [i \in 0 .. n |-> [j \in 0 .. m |-> body(i, j, from)]]
  BY <1>2, <1>4, <1>6
<1>8. IsCombining(from, call, u, n, w, m)
  BY <1>4, <1>7
<1>9. QED
  BY <1>1, <1>6, <1>8

LEMMA SetUnionIs ==
  ASSUME NEW n \in Nat, NEW m \in Nat, NEW u \in [0 .. n - 1 -> Int],
         NEW w \in [0 .. m - 1 -> Int], Sorted(u), Sorted(w), NEW call, call = "set_union",
         NEW out, out = C!set_union(u, n, w, m)
  PROVE  Combined(call, u, n, w, m, 0, 0, out) /\ out \in Seq(Items)
<1> DEFINE body(i, j, h) == IF i = n THEN C!copy(2, j, m)
                            ELSE IF j = m THEN C!copy(1, i, n)
                            ELSE IF u[i] < w[j] THEN <<<<1, i>>>> \o h[i + 1][j]
                            ELSE <<<<2, j>>>> \o h[IF w[j] < u[i] THEN i ELSE i + 1][j + 1]
           from[i \in 0 .. n] ==
             [j \in 0 .. m |->
                IF i = n THEN C!copy(2, j, m)
                ELSE IF j = m THEN C!copy(1, i, n)
                ELSE IF u[i] < w[j] THEN <<<<1, i>>>> \o from[i + 1][j]
                ELSE <<<<2, j>>>> \o from[IF w[j] < u[i] THEN i ELSE i + 1][j + 1]]
<1>1. C!set_union(u, n, w, m) = from[0][0]
  BY DEF C!set_union, less
<1>2. from = CHOOSE h : h = [i \in 0 .. n |-> [j \in 0 .. m |-> body(i, j, h)]]
  OBVIOUS
<1> HIDE DEF from
<1>3. ASSUME NEW h, NEW i \in 0 .. n, NEW j \in 0 .. m
      PROVE  Stepped(h, call, u, n, w, m, i, j) = body(i, j, h)
  <2>1. CASE i = n \/ j = m
    <3>1. C!copy(1, n, n) = <<>>
      BY DEF C!copy
    <3>2. body(i, j, h) = AtEnd(call, n, m, i, j)
      BY <2>1, <3>1 DEF AtEnd
    <3>3. QED
      BY <2>1, <3>2 DEF Stepped
  <2>2. CASE ~(i = n \/ j = m) /\ u[i] < w[j]
    <3>1. u[i] \in Int /\ w[j] \in Int
      BY <2>2
    <3>2. ~(w[j] < u[i])
      BY <2>2, <3>1
    <3>3. QED
      BY <2>2, <3>2 DEF Stepped, NextPlace, Element, IsWritten
  <2>3. CASE ~(i = n \/ j = m) /\ ~(u[i] < w[j]) /\ w[j] < u[i]
    BY <2>3 DEF Stepped, NextPlace, Element, IsWritten
  <2>4. CASE ~(i = n \/ j = m) /\ ~(u[i] < w[j]) /\ ~(w[j] < u[i])
    BY <2>4 DEF Stepped, NextPlace, Element, IsWritten
  <2>5. QED
    BY <2>1, <2>2, <2>3, <2>4
<1> HIDE DEF body
<1>4. ASSUME NEW h
      PROVE  IsCombining(h, call, u, n, w, m)
             <=> h = [i \in 0 .. n |-> [j \in 0 .. m |-> body(i, j, h)]]
  <2>1. [i \in 0 .. n |-> [j \in 0 .. m |-> Stepped(h, call, u, n, w, m, i, j)]]
        = [i \in 0 .. n |-> [j \in 0 .. m |-> body(i, j, h)]]
    BY <1>3
  <2>2. QED
    BY <2>1 DEF IsCombining
<1>5. call \in Combines
  BY DEF Combines
<1>6. /\ \E f : IsCombining(f, call, u, n, w, m)
      /\ \A f : IsCombining(f, call, u, n, w, m) =>
           Combined(call, u, n, w, m, 0, 0, f[0][0]) /\ f[0][0] \in Seq(Items)
  BY <1>5, Combining
<1>7. from = [i \in 0 .. n |-> [j \in 0 .. m |-> body(i, j, from)]]
  BY <1>2, <1>4, <1>6
<1>8. IsCombining(from, call, u, n, w, m)
  BY <1>4, <1>7
<1>9. QED
  BY <1>1, <1>6, <1>8

LEMMA SetIntersectionIs ==
  ASSUME NEW n \in Nat, NEW m \in Nat, NEW u \in [0 .. n - 1 -> Int],
         NEW w \in [0 .. m - 1 -> Int], Sorted(u), Sorted(w), NEW call, call = "set_intersection",
         NEW out, out = C!set_intersection(u, n, w, m)
  PROVE  Combined(call, u, n, w, m, 0, 0, out) /\ out \in Seq(Items)
<1> DEFINE body(i, j, h) == IF i = n \/ j = m THEN <<>>
                            ELSE IF u[i] < w[j] THEN h[i + 1][j]
                            ELSE IF w[j] < u[i] THEN h[i][j + 1]
                            ELSE <<<<1, i>>>> \o h[i + 1][j + 1]
           from[i \in 0 .. n] ==
             [j \in 0 .. m |->
                IF i = n \/ j = m THEN <<>>
                ELSE IF u[i] < w[j] THEN from[i + 1][j]
                ELSE IF w[j] < u[i] THEN from[i][j + 1]
                ELSE <<<<1, i>>>> \o from[i + 1][j + 1]]
<1>1. C!set_intersection(u, n, w, m) = from[0][0]
  BY DEF C!set_intersection, less
<1>2. from = CHOOSE h : h = [i \in 0 .. n |-> [j \in 0 .. m |-> body(i, j, h)]]
  OBVIOUS
<1> HIDE DEF from
<1>3. ASSUME NEW h, NEW i \in 0 .. n, NEW j \in 0 .. m
      PROVE  Stepped(h, call, u, n, w, m, i, j) = body(i, j, h)
  <2>1. CASE i = n \/ j = m
    <3>1. C!copy(1, n, n) = <<>>
      BY DEF C!copy
    <3>2. body(i, j, h) = AtEnd(call, n, m, i, j)
      BY <2>1, <3>1 DEF AtEnd
    <3>3. QED
      BY <2>1, <3>2 DEF Stepped
  <2>2. CASE ~(i = n \/ j = m) /\ u[i] < w[j]
    <3>1. u[i] \in Int /\ w[j] \in Int
      BY <2>2
    <3>2. ~(w[j] < u[i])
      BY <2>2, <3>1
    <3>3. QED
      BY <2>2, <3>2 DEF Stepped, NextPlace, Element, IsWritten
  <2>3. CASE ~(i = n \/ j = m) /\ ~(u[i] < w[j]) /\ w[j] < u[i]
    BY <2>3 DEF Stepped, NextPlace, Element, IsWritten
  <2>4. CASE ~(i = n \/ j = m) /\ ~(u[i] < w[j]) /\ ~(w[j] < u[i])
    BY <2>4 DEF Stepped, NextPlace, Element, IsWritten
  <2>5. QED
    BY <2>1, <2>2, <2>3, <2>4
<1> HIDE DEF body
<1>4. ASSUME NEW h
      PROVE  IsCombining(h, call, u, n, w, m)
             <=> h = [i \in 0 .. n |-> [j \in 0 .. m |-> body(i, j, h)]]
  <2>1. [i \in 0 .. n |-> [j \in 0 .. m |-> Stepped(h, call, u, n, w, m, i, j)]]
        = [i \in 0 .. n |-> [j \in 0 .. m |-> body(i, j, h)]]
    BY <1>3
  <2>2. QED
    BY <2>1 DEF IsCombining
<1>5. call \in Combines
  BY DEF Combines
<1>6. /\ \E f : IsCombining(f, call, u, n, w, m)
      /\ \A f : IsCombining(f, call, u, n, w, m) =>
           Combined(call, u, n, w, m, 0, 0, f[0][0]) /\ f[0][0] \in Seq(Items)
  BY <1>5, Combining
<1>7. from = [i \in 0 .. n |-> [j \in 0 .. m |-> body(i, j, from)]]
  BY <1>2, <1>4, <1>6
<1>8. IsCombining(from, call, u, n, w, m)
  BY <1>4, <1>7
<1>9. QED
  BY <1>1, <1>6, <1>8

LEMMA SetDifferenceIs ==
  ASSUME NEW n \in Nat, NEW m \in Nat, NEW u \in [0 .. n - 1 -> Int],
         NEW w \in [0 .. m - 1 -> Int], Sorted(u), Sorted(w), NEW call, call = "set_difference",
         NEW out, out = C!set_difference(u, n, w, m)
  PROVE  Combined(call, u, n, w, m, 0, 0, out) /\ out \in Seq(Items)
<1> DEFINE body(i, j, h) == IF i = n \/ j = m THEN C!copy(1, i, n)
                            ELSE IF u[i] < w[j] THEN <<<<1, i>>>> \o h[i + 1][j]
                            ELSE h[IF w[j] < u[i] THEN i ELSE i + 1][j + 1]
           from[i \in 0 .. n] ==
             [j \in 0 .. m |->
                IF i = n \/ j = m THEN C!copy(1, i, n)
                ELSE IF u[i] < w[j] THEN <<<<1, i>>>> \o from[i + 1][j]
                ELSE from[IF w[j] < u[i] THEN i ELSE i + 1][j + 1]]
<1>1. C!set_difference(u, n, w, m) = from[0][0]
  BY DEF C!set_difference, less
<1>2. from = CHOOSE h : h = [i \in 0 .. n |-> [j \in 0 .. m |-> body(i, j, h)]]
  OBVIOUS
<1> HIDE DEF from
<1>3. ASSUME NEW h, NEW i \in 0 .. n, NEW j \in 0 .. m
      PROVE  Stepped(h, call, u, n, w, m, i, j) = body(i, j, h)
  <2>1. CASE i = n \/ j = m
    <3>1. C!copy(1, n, n) = <<>>
      BY DEF C!copy
    <3>2. body(i, j, h) = AtEnd(call, n, m, i, j)
      BY <2>1, <3>1 DEF AtEnd
    <3>3. QED
      BY <2>1, <3>2 DEF Stepped
  <2>2. CASE ~(i = n \/ j = m) /\ u[i] < w[j]
    <3>1. u[i] \in Int /\ w[j] \in Int
      BY <2>2
    <3>2. ~(w[j] < u[i])
      BY <2>2, <3>1
    <3>3. QED
      BY <2>2, <3>2 DEF Stepped, NextPlace, Element, IsWritten
  <2>3. CASE ~(i = n \/ j = m) /\ ~(u[i] < w[j]) /\ w[j] < u[i]
    BY <2>3 DEF Stepped, NextPlace, Element, IsWritten
  <2>4. CASE ~(i = n \/ j = m) /\ ~(u[i] < w[j]) /\ ~(w[j] < u[i])
    BY <2>4 DEF Stepped, NextPlace, Element, IsWritten
  <2>5. QED
    BY <2>1, <2>2, <2>3, <2>4
<1> HIDE DEF body
<1>4. ASSUME NEW h
      PROVE  IsCombining(h, call, u, n, w, m)
             <=> h = [i \in 0 .. n |-> [j \in 0 .. m |-> body(i, j, h)]]
  <2>1. [i \in 0 .. n |-> [j \in 0 .. m |-> Stepped(h, call, u, n, w, m, i, j)]]
        = [i \in 0 .. n |-> [j \in 0 .. m |-> body(i, j, h)]]
    BY <1>3
  <2>2. QED
    BY <2>1 DEF IsCombining
<1>5. call \in Combines
  BY DEF Combines
<1>6. /\ \E f : IsCombining(f, call, u, n, w, m)
      /\ \A f : IsCombining(f, call, u, n, w, m) =>
           Combined(call, u, n, w, m, 0, 0, f[0][0]) /\ f[0][0] \in Seq(Items)
  BY <1>5, Combining
<1>7. from = [i \in 0 .. n |-> [j \in 0 .. m |-> body(i, j, from)]]
  BY <1>2, <1>4, <1>6
<1>8. IsCombining(from, call, u, n, w, m)
  BY <1>4, <1>7
<1>9. QED
  BY <1>1, <1>6, <1>8

LEMMA SetSymmetricDifferenceIs ==
  ASSUME NEW n \in Nat, NEW m \in Nat, NEW u \in [0 .. n - 1 -> Int],
         NEW w \in [0 .. m - 1 -> Int], Sorted(u), Sorted(w), NEW call, call = "set_symmetric_difference",
         NEW out, out = C!set_symmetric_difference(u, n, w, m)
  PROVE  Combined(call, u, n, w, m, 0, 0, out) /\ out \in Seq(Items)
<1> DEFINE body(i, j, h) == IF i = n THEN C!copy(2, j, m)
                            ELSE IF j = m THEN C!copy(1, i, n)
                            ELSE IF u[i] < w[j] THEN <<<<1, i>>>> \o h[i + 1][j]
                            ELSE IF w[j] < u[i] THEN <<<<2, j>>>> \o h[i][j + 1]
                            ELSE h[i + 1][j + 1]
           from[i \in 0 .. n] ==
             [j \in 0 .. m |->
                IF i = n THEN C!copy(2, j, m)
                ELSE IF j = m THEN C!copy(1, i, n)
                ELSE IF u[i] < w[j] THEN <<<<1, i>>>> \o from[i + 1][j]
                ELSE IF w[j] < u[i] THEN <<<<2, j>>>> \o from[i][j + 1]
                ELSE from[i + 1][j + 1]]
<1>1. C!set_symmetric_difference(u, n, w, m) = from[0][0]
  BY DEF C!set_symmetric_difference, less
<1>2. from = CHOOSE h : h = [i \in 0 .. n |-> [j \in 0 .. m |-> body(i, j, h)]]
  OBVIOUS
<1> HIDE DEF from
<1>3. ASSUME NEW h, NEW i \in 0 .. n, NEW j \in 0 .. m
      PROVE  Stepped(h, call, u, n, w, m, i, j) = body(i, j, h)
  <2>1. CASE i = n \/ j = m
    <3>1. C!copy(1, n, n) = <<>>
      BY DEF C!copy
    <3>2. body(i, j, h) = AtEnd(call, n, m, i, j)
      BY <2>1, <3>1 DEF AtEnd
    <3>3. QED
      BY <2>1, <3>2 DEF Stepped
  <2>2. CASE ~(i = n \/ j = m) /\ u[i] < w[j]
    <3>1. u[i] \in Int /\ w[j] \in Int
      BY <2>2
    <3>2. ~(w[j] < u[i])
      BY <2>2, <3>1
    <3>3. QED
      BY <2>2, <3>2 DEF Stepped, NextPlace, Element, IsWritten
  <2>3. CASE ~(i = n \/ j = m) /\ ~(u[i] < w[j]) /\ w[j] < u[i]
    BY <2>3 DEF Stepped, NextPlace, Element, IsWritten
  <2>4. CASE ~(i = n \/ j = m) /\ ~(u[i] < w[j]) /\ ~(w[j] < u[i])
    BY <2>4 DEF Stepped, NextPlace, Element, IsWritten
  <2>5. QED
    BY <2>1, <2>2, <2>3, <2>4
<1> HIDE DEF body
<1>4. ASSUME NEW h
      PROVE  IsCombining(h, call, u, n, w, m)
             <=> h = [i \in 0 .. n |-> [j \in 0 .. m |-> body(i, j, h)]]
  <2>1. [i \in 0 .. n |-> [j \in 0 .. m |-> Stepped(h, call, u, n, w, m, i, j)]]
        = [i \in 0 .. n |-> [j \in 0 .. m |-> body(i, j, h)]]
    BY <1>3
  <2>2. QED
    BY <2>1 DEF IsCombining
<1>5. call \in Combines
  BY DEF Combines
<1>6. /\ \E f : IsCombining(f, call, u, n, w, m)
      /\ \A f : IsCombining(f, call, u, n, w, m) =>
           Combined(call, u, n, w, m, 0, 0, f[0][0]) /\ f[0][0] \in Seq(Items)
  BY <1>5, Combining
<1>7. from = [i \in 0 .. n |-> [j \in 0 .. m |-> body(i, j, from)]]
  BY <1>2, <1>4, <1>6
<1>8. IsCombining(from, call, u, n, w, m)
  BY <1>4, <1>7
<1>9. QED
  BY <1>1, <1>6, <1>8
-----------------------------------------------------------------------------
(* What the answers to those calls are.                                    *)

CombinedBy(u, w, call, results) ==
  call \in Combines => \A out \in results :
    /\ Ordered(u, w, out)
    /\ \A v \in Keys :
         Cardinality({p \in DOMAIN out : KeyOf(u, w, out[p]) = v}) = Times(call, Count(u, v), Count(w, v))

LEMMA CombinedByAnswer ==
  CombinesSets <=> CombinedBy(a, b, answer.call, answer.results)
<1>1. \A s : KeyAt(s) = KeyOf(a, b, s)
  BY DEF KeyAt, KeyOf
<1>2. ASSUME NEW out
      PROVE  /\ Ordered(a, b, out) <=> \A i, j \in DOMAIN out : i < j =>
                   /\ ~less(KeyAt(out[j]), KeyAt(out[i]))
                   /\ out[i][1] = out[j][1] => out[i][2] < out[j][2]
             /\ \A v : {i \in DOMAIN out : KeyAt(out[i]) = v} = {p \in DOMAIN out : KeyOf(a, b, out[p]) = v}
  <2>1. ASSUME NEW i, NEW j
        PROVE  Follow(a, b, out[i], out[j])
               <=> /\ ~less(KeyAt(out[j]), KeyAt(out[i]))
                   /\ out[i][1] = out[j][1] => out[i][2] < out[j][2]
    BY <1>1 DEF Follow
  <2>2. Ordered(a, b, out) <=> \A i, j \in DOMAIN out : i < j =>
                   /\ ~less(KeyAt(out[j]), KeyAt(out[i]))
                   /\ out[i][1] = out[j][1] => out[i][2] < out[j][2]
    BY <2>1 DEF Ordered
  <2>3. \A v : {i \in DOMAIN out : KeyAt(out[i]) = v} = {p \in DOMAIN out : KeyOf(a, b, out[p]) = v}
    BY <1>1
  <2>4. QED
    BY <2>2, <2>3
<1> DEFINE often(out, v) == {i \in DOMAIN out : KeyAt(out[i]) = v}
           written(out, v) == {p \in DOMAIN out : KeyOf(a, b, out[p]) = v}
<1>3. \A out, v : often(out, v) = written(out, v)
  BY <1>2
<1>4. CombinesSets <=> (answer.call \in Combines => \A out \in answer.results :
         /\ Ordered(a, b, out)
         /\ \A v \in Keys :
              Cardinality(often(out, v)) = Times(answer.call, Count(a, v), Count(b, v)))
  BY <1>2 DEF CombinesSets
<1>5. CombinedBy(a, b, answer.call, answer.results) <=>
        (answer.call \in Combines => \A out \in answer.results :
         /\ Ordered(a, b, out)
         /\ \A v \in Keys :
              Cardinality(written(out, v)) = Times(answer.call, Count(a, v), Count(b, v)))
  BY DEF CombinedBy
<1> HIDE DEF often, written
<1>6. QED
  BY <1>3, <1>4, <1>5

LEMMA CombinesNext ==
  ASSUME NEW call, NEW arg, NEW results, Answer(call, arg, results),
         CombinedBy(a, b, call, results)
  PROVE  CombinesSets'
<1>1. /\ answer'.call = call /\ answer'.arg = arg /\ answer'.results = results
      /\ a' = a /\ b' = b
  BY DEF Answer
<1>2. CombinedBy(a, b, answer.call, answer.results)'
  BY <1>1
<1>3. (CombinesSets <=> CombinedBy(a, b, answer.call, answer.results))'
  BY CombinedByAnswer, PTL
<1>4. QED
  BY <1>2, <1>3

(* All that is left of two whole ranges, combined.                         *)
LEMMA WholeCombined ==
  ASSUME InArrays, NEW call \in Combines, NEW out \in Seq(Items),
         Combined(call, a, n1, b, n2, 0, 0, out), Answer(call, 0, {out})
  PROVE  CombinesSets'
<1>1. /\ n1 \in Nat /\ n2 \in Nat /\ a \in [0 .. n1 - 1 -> Int] /\ b \in [0 .. n2 - 1 -> Int]
      /\ Keys \subseteq Int
  BY Lengths, QueriesAssumption
<1>2. Ordered(a, b, out)
  BY DEF Combined, InPlace
<1>3. ASSUME NEW v \in Keys
      PROVE  Cardinality({p \in DOMAIN out : KeyOf(a, b, out[p]) = v}) = Times(call, Count(a, v), Count(b, v))
  <2>1. v \in Int
    BY <1>1
  <2>2. HowOften(a, b, out, v) = Times(call, Copies(a, 0, n1, v), Copies(b, 0, n2, v))
    BY <2>1 DEF Combined, TimesLeft
  <2>3. Copies(a, 0, n1, v) = Count(a, v) /\ Copies(b, 0, n2, v) = Count(b, v)
    BY <1>1, CountIs
  <2>4. {p \in DOMAIN out : KeyOf(a, b, out[p]) = v} = Places(KeysOf(a, b, out), 1, Len(out) + 1, {v})
    <3> DEFINE len == Len(out)
               k == KeysOf(a, b, out)
    <3>1. DOMAIN out = 1 .. len /\ len \in Nat
      OBVIOUS
    <3>2. 1 .. len = 1 .. len + 1 - 1
      BY <3>1
    <3> HIDE DEF len
    <3>3. \A p \in 1 .. len : k[p] = KeyOf(a, b, out[p])
      BY <3>1 DEF KeysOf
    <3> HIDE DEF k
    <3>4. {p \in DOMAIN out : KeyOf(a, b, out[p]) = v} = Places(k, 1, len + 1, {v})
      BY <3>1, <3>2, <3>3 DEF Places
    <3>5. QED
      BY <3>4 DEF k, len
  <2>5. QED
    BY <2>2, <2>3, <2>4 DEF HowOften, Copies, HowMany
<1>4. CombinedBy(a, b, call, {out})
  BY <1>2, <1>3 DEF CombinedBy
<1>5. QED
  BY <1>4, CombinesNext

LEMMA CombinesSorted ==
  ASSUME InArrays,
         merge \/ set_union \/ set_intersection \/ set_difference \/ set_symmetric_difference
  PROVE  CombinesSets'
<1>1. /\ n1 \in Nat /\ n2 \in Nat /\ a \in [0 .. n1 - 1 -> Int] /\ b \in [0 .. n2 - 1 -> Int]
  BY Lengths
<1>2. Combines = {"merge", "set_union", "set_intersection", "set_difference", "set_symmetric_difference"}
  BY DEF Combines
<1>3. PICK call \in Combines : \E out :
         /\ Sorted(a) /\ Sorted(b) /\ Answer(call, 0, {out})
         /\ \/ call = "merge" /\ out = C!merge(a, n1, b, n2)
            \/ call = "set_union" /\ out = C!set_union(a, n1, b, n2)
            \/ call = "set_intersection" /\ out = C!set_intersection(a, n1, b, n2)
            \/ call = "set_difference" /\ out = C!set_difference(a, n1, b, n2)
            \/ call = "set_symmetric_difference" /\ out = C!set_symmetric_difference(a, n1, b, n2)
  BY <1>2 DEF merge, set_union, set_intersection, set_difference, set_symmetric_difference, Combine
<1>4. PICK out :
         /\ Sorted(a) /\ Sorted(b) /\ Answer(call, 0, {out})
         /\ \/ call = "merge" /\ out = C!merge(a, n1, b, n2)
            \/ call = "set_union" /\ out = C!set_union(a, n1, b, n2)
            \/ call = "set_intersection" /\ out = C!set_intersection(a, n1, b, n2)
            \/ call = "set_difference" /\ out = C!set_difference(a, n1, b, n2)
            \/ call = "set_symmetric_difference" /\ out = C!set_symmetric_difference(a, n1, b, n2)
  BY <1>3
<1>5. Combined(call, a, n1, b, n2, 0, 0, out) /\ out \in Seq(Items)
  <2>1. CASE call = "merge" /\ out = C!merge(a, n1, b, n2)
    BY <1>1, <1>4, <2>1, MergeIs
  <2>2. CASE call = "set_union" /\ out = C!set_union(a, n1, b, n2)
    BY <1>1, <1>4, <2>2, SetUnionIs
  <2>3. CASE call = "set_intersection" /\ out = C!set_intersection(a, n1, b, n2)
    BY <1>1, <1>4, <2>3, SetIntersectionIs
  <2>4. CASE call = "set_difference" /\ out = C!set_difference(a, n1, b, n2)
    BY <1>1, <1>4, <2>4, SetDifferenceIs
  <2>5. CASE call = "set_symmetric_difference" /\ out = C!set_symmetric_difference(a, n1, b, n2)
    BY <1>1, <1>4, <2>5, SetSymmetricDifferenceIs
  <2>6. QED
    BY <1>4, <2>1, <2>2, <2>3, <2>4, <2>5
<1>6. QED
  BY <1>4, <1>5, WholeCombined

(* The other calls do not combine two sorted ranges.                       *)
LEMMA CombinesOther ==
  ASSUME NEW Calls, Calls \cap Combines = {}, CallIn(Calls)
  PROVE  CombinesSets'
<1>1. PICK call \in Calls : \E arg, results : Answer(call, arg, results)
  BY DEF CallIn
<1>2. PICK arg, results : Answer(call, arg, results)
  BY <1>1
<1>3. CombinedBy(a, b, call, results)
  BY DEF CombinedBy
<1>4. QED
  BY <1>2, <1>3, CombinesNext

LEMMA CombinesStep ==
  ASSUME InArrays, Next
  PROVE  CombinesSets'
<1>1. CASE merge \/ set_union \/ set_intersection \/ set_difference \/ set_symmetric_difference
  BY <1>1, CombinesSorted
<1>2. CASE search \/ find_end \/ search_n \/ adjacent_find \/ find_first_of \/ mismatch \/ equal
           \/ lexicographical_compare \/ is_permutation \/ includes
  <2>1. PICK Calls : CallIn(Calls) /\ Calls \cap Combines = {}
    BY <1>2, CallOf DEF Combines
  <2>2. QED
    BY <2>1, CombinesOther
<1>3. CASE is_heap_until \/ is_heap \/ is_sorted \/ min_element \/ max_element \/ minmax_element
           \/ extremes \/ inspect \/ binary_search \/ equal_range
  <2>1. PICK Calls : CallIn(Calls) /\ Calls \cap Combines = {}
    BY <1>3, CallOf DEF Combines
  <2>2. QED
    BY <2>1, CombinesOther
<1>4. CASE unique_copy \/ partial_sort_copy \/ shuffle \/ copy_some \/ copy_all \/ sample
  <2>1. PICK Calls : CallIn(Calls) /\ Calls \cap Combines = {}
    BY <1>4, CallOf DEF Combines
  <2>2. QED
    BY <2>1, CombinesOther
<1>5. QED
  BY <1>1, <1>2, <1>3, <1>4 DEF Next

(* Whatever two sorted arrays of integers they are called with, merge and  *)
(* the four set operations write a sorted output, take the elements of     *)
(* each range in their order and none of them twice, and write each key as *)
(* often as the operation on multisets says.                               *)
THEOREM CombinesHolds == Spec => []CombinesSets
<1> DEFINE Inv == InArrays /\ CombinesSets
<1>1. Init => Inv
  <2>1. ASSUME Init PROVE CombinedBy(a, b, answer.call, answer.results)
    BY <2>1 DEF Init, CombinedBy
  <2>2. QED
    BY <2>1, CombinedByAnswer DEF Init, InArrays
<1>2. Inv /\ [Next]_vars => Inv'
  <2> SUFFICES ASSUME Inv, [Next]_vars PROVE Inv'
    OBVIOUS
  <2>1. UNCHANGED <<a, b>>
    BY CallsChangeNothing DEF vars
  <2>2. CASE UNCHANGED vars
    <3>1. a' = a /\ b' = b /\ answer' = answer
      BY <2>2 DEF vars
    <3>2. CombinedBy(a, b, answer.call, answer.results)
      BY CombinedByAnswer
    <3>3. CombinedBy(a, b, answer.call, answer.results)'
      BY <3>1, <3>2
    <3>4. (CombinesSets <=> CombinedBy(a, b, answer.call, answer.results))'
      BY CombinedByAnswer, PTL
    <3>5. QED
      BY <2>1, <3>3, <3>4, ArraysStay
  <2>3. CASE Next
    BY <2>1, <2>3, ArraysStay, CombinesStep
  <2>4. QED
    BY <2>2, <2>3
<1>3. QED
  BY <1>1, <1>2, PTL DEF Spec
-----------------------------------------------------------------------------
(* One range to an output.                                                 *)

LEMMA InOrderFirst ==
  ASSUME NEW T, NEW x \in Int, NEW s \in Seq(Int), InOrder(T, s), \A y \in T : x < y
  PROVE  InOrder({x} \cup T, <<x>> \o s)
<1> DEFINE out == <<x>> \o s
           len == Len(s)
<1>1. /\ len \in Nat /\ DOMAIN out = 1 .. len + 1 /\ DOMAIN s = 1 .. len /\ out[1] = x
      /\ \A p \in 1 .. len : out[p + 1] = s[p]
  OBVIOUS
<1>2. /\ \A p \in 1 .. len : s[p] \in T
      /\ \A y \in T : \E p \in 1 .. len : s[p] = y
      /\ \A p, q \in 1 .. len : p < q => s[p] < s[q]
  BY <1>1 DEF InOrder
<1> HIDE DEF out, len
<1>3. ASSUME NEW q \in DOMAIN out, q # 1
      PROVE  q - 1 \in 1 .. len /\ out[q] = s[q - 1] /\ q - 1 \in Int
  <2>1. q \in Int /\ q - 1 \in 1 .. len /\ (q - 1) + 1 = q
    BY <1>1, <1>3
  <2>2. QED
    BY <1>1, <2>1
<1>4. ASSUME NEW p \in DOMAIN out PROVE out[p] \in {x} \cup T
  <2>1. CASE p = 1
    BY <1>1, <2>1
  <2>2. CASE p # 1
    BY <1>2, <1>3, <2>2
  <2>3. QED
    BY <2>1, <2>2
<1>5. ASSUME NEW y \in {x} \cup T PROVE \E p \in DOMAIN out : out[p] = y
  <2>1. CASE y = x
    <3>1. 1 \in DOMAIN out
      BY <1>1
    <3>2. QED
      BY <1>1, <2>1, <3>1
  <2>2. CASE y \in T
    <3>1. PICK p \in 1 .. len : s[p] = y
      BY <1>2, <2>2
    <3>2. p + 1 \in DOMAIN out /\ out[p + 1] = y
      BY <1>1, <3>1
    <3>3. QED
      BY <3>2
  <2>3. QED
    BY <2>1, <2>2
<1>6. ASSUME NEW p \in DOMAIN out, NEW q \in DOMAIN out, p < q PROVE out[p] < out[q]
  <2>1. q # 1 /\ p \in Int /\ q \in Int
    BY <1>1, <1>6
  <2>2. CASE p = 1
    BY <1>1, <1>2, <1>3, <2>1, <2>2
  <2>3. CASE p # 1
    <3>1. p - 1 < q - 1
      BY <1>6, <2>1
    <3>2. QED
      BY <1>2, <1>3, <2>1, <2>3, <3>1
  <2>4. QED
    BY <2>2, <2>3
<1>7. {out[p] : p \in DOMAIN out} = {x} \cup T
  BY <1>4, <1>5
<1>8. InOrder({x} \cup T, out)
  BY <1>6, <1>7 DEF InOrder
<1>9. QED
  BY <1>8 DEF out

(* A loop that writes the numbers it comes to that are in a set.           *)
IsFiltering(f, n, T) ==
  f = [i \in 0 .. n |-> IF i = n THEN <<>> ELSE IF i \in T THEN <<i>> \o f[i + 1] ELSE f[i + 1]]

LEMMA Filtering ==
  ASSUME NEW n \in Nat, NEW T, T \subseteq 0 .. n - 1
  PROVE  /\ \E f : IsFiltering(f, n, T)
         /\ \A f : IsFiltering(f, n, T) => InOrder(T, f[0]) /\ f[0] \in Seq(Int)
<1> DEFINE D == 0 .. n
           Set == Int
           left == [i \in D |-> n - i]
           last == [i \in D |-> <<>>]
           item == [i \in D |-> i]
           next == [i \in D |-> IF i = n THEN i ELSE i + 1]
           Rest(i) == {k \in T : i <= k}
           Good == {g \in D \X Seq(Set) : InOrder(Rest(g[1]), g[2])}
<1>0. \A k \in T : k \in Int /\ 0 <= k /\ k <= n - 1
  OBVIOUS
<1>1. left \in [D -> Nat] /\ last \in [D -> Seq(Set)] /\ item \in [D -> Set] /\ next \in [D -> D]
  <2>1. \A i \in D : n - i \in Nat /\ i \in Int /\ (IF i = n THEN i ELSE i + 1) \in D
    OBVIOUS
  <2>2. <<>> \in Seq(Set)
    OBVIOUS
  <2>3. left \in [D -> Nat]
    BY <2>1
  <2>4. next \in [D -> D]
    <3> DEFINE to(i) == IF i = n THEN i ELSE i + 1
    <3>1. \A i \in D : to(i) \in D
      BY <2>1
    <3>2. next = [i \in D |-> to(i)]
      OBVIOUS
    <3> HIDE DEF D, to, next
    <3>3. QED
      BY <3>1, <3>2
  <2>5. last \in [D -> Seq(Set)] /\ item \in [D -> Set]
    <3> HIDE DEF D
    <3>1. item \in [D -> Set]
      BY <2>1
    <3> HIDE DEF Set
    <3>2. last \in [D -> Seq(Set)]
      BY <2>2
    <3>3. QED
      BY <3>1, <3>2
  <2>6. QED
    BY <2>3, <2>4, <2>5
<1>2. \A i \in D : i \notin {n} => left[next[i]] < left[i]
  OBVIOUS
<1>3. StaysGood(Good, D, Set, {n}, last, T, item, next)
  <2>1. \A i \in D : \A s \in Seq(Set) : <<i, s>> \in Good <=> InOrder(Rest(i), s)
    <3> HIDE DEF D, Set, Rest
    <3>1. QED
      OBVIOUS
  <2> HIDE DEF Good
  <2>2. \A i \in D : i \in {n} => <<i, last[i]>> \in Good
    <3>1. Rest(n) = {}
      <4>1. \A k \in T : ~(n <= k)
        BY <1>0
      <4>2. QED
        BY <4>1
    <3>2. InOrder({}, <<>>) /\ <<>> \in Seq(Set)
      BY DEF InOrder
    <3>3. n \in D /\ last[n] = <<>>
      OBVIOUS
    <3> HIDE DEF D, Set, Rest, last
    <3>4. QED
      BY <2>1, <3>1, <3>2, <3>3
  <2>3. ASSUME NEW i \in D, NEW s \in Seq(Set), i \notin {n}, <<next[i], s>> \in Good
        PROVE  <<i, IF i \in T THEN <<item[i]>> \o s ELSE s>> \in Good
    <3>1. next[i] = i + 1 /\ i + 1 \in D /\ item[i] = i /\ i \in Int
      BY <2>3
    <3>2. InOrder(Rest(i + 1), s)
      <4> HIDE DEF D, Set, Rest, next
      <4>1. QED
        BY <2>1, <2>3, <3>1
    <3>3. CASE i \in T
      <4>1. Rest(i) = {i} \cup Rest(i + 1) /\ \A y \in Rest(i + 1) : i < y
        <5>1. \A k \in T : i <= k <=> k = i \/ i + 1 <= k
          BY <1>0, <3>1
        <5>2. \A k \in T : i + 1 <= k => i < k
          BY <1>0, <3>1
        <5>3. i <= i
          BY <3>1
        <5>4. \A k : k \in Rest(i) <=> k \in {i} \cup Rest(i + 1)
          BY <3>3, <5>1, <5>3
        <5> HIDE DEF Rest
        <5>5. Rest(i) = {i} \cup Rest(i + 1)
          BY <5>4
        <5>6. QED
          BY <5>2, <5>5 DEF Rest
      <4> HIDE DEF Rest
      <4>2. InOrder(Rest(i), <<i>> \o s) /\ <<i>> \o s \in Seq(Set)
        BY <3>1, <3>2, <4>1, InOrderFirst
      <4> HIDE DEF D, Set, item
      <4>3. QED
        BY <2>1, <3>1, <3>3, <4>2
    <3>4. CASE i \notin T
      <4>1. Rest(i) = Rest(i + 1)
        <5>1. \A k \in T : i <= k <=> i + 1 <= k
          BY <1>0, <3>1, <3>4
        <5>2. QED
          BY <5>1
      <4> HIDE DEF Rest, D, Set, item
      <4>2. QED
        BY <2>1, <3>2, <3>4, <4>1
    <3>5. QED
      BY <3>3, <3>4
  <2> HIDE DEF D, Set, last, item, next
  <2>4. QED
    BY <2>2, <2>3 DEF StaysGood
<1>4. \A f : IsWriting(f, D, {n}, last, T, item, next) <=> IsFiltering(f, n, T)
  <2>1. ASSUME NEW f
        PROVE  [i \in D |-> IF i \in {n} THEN last[i]
                            ELSE IF i \in T THEN <<item[i]>> \o f[next[i]] ELSE f[next[i]]]
               = [i \in 0 .. n |-> IF i = n THEN <<>>
                                   ELSE IF i \in T THEN <<i>> \o f[i + 1] ELSE f[i + 1]]
    OBVIOUS
  <2> HIDE DEF D, last, item, next
  <2>2. QED
    BY <2>1 DEF IsWriting, IsFiltering
<1>5. WritesGood(Good, D, Set, {n}, last, T, item, next)
  <2> HIDE DEF D, Set, left, last, item, next, Good
  <2>1. QED
    BY <1>1, <1>2, <1>3, Writing
<1>6. ASSUME NEW s, <<0, s>> \in Good PROVE InOrder(T, s)
  <2>1. Rest(0) = T
    BY <1>0
  <2>2. InOrder(Rest(0), s)
    BY <1>6
  <2>3. QED
    BY <2>1, <2>2
<1>7. 0 \in D
  OBVIOUS
<1>8. QED
  <2> HIDE DEF D, last, item, next, Good
  <2>1. QED
    BY <1>4, <1>5, <1>6, <1>7 DEF WritesGood

(* A sequence is known by its elements.                                    *)
LEMMA SameSequence ==
  ASSUME NEW Set, NEW s \in Seq(Set), NEW t \in Seq(Set), Len(s) = Len(t),
         \A k \in 1 .. Len(s) : s[k] = t[k]
  PROVE  s = t
OBVIOUS

LEMMA ListFirst ==
  ASSUME NEW Set, NEW x \in Set, NEW l \in Nat, NEW s \in Seq(Set), Len(s) = l,
         NEW t \in Seq(Set), Len(t) = l + 1, t[1] = x, \A k \in 1 .. l : t[k + 1] = s[k]
  PROVE  <<x>> \o s = t
<1> DEFINE out == <<x>> \o s
<1>1. /\ out \in Seq(Set) /\ Len(out) = l + 1 /\ out[1] = x
      /\ \A p \in 1 .. l : out[p + 1] = s[p]
  OBVIOUS
<1> HIDE DEF out
<1>2. ASSUME NEW k \in 1 .. l + 1 PROVE out[k] = t[k]
  <2>1. CASE k = 1
    BY <1>1, <2>1
  <2>2. CASE k # 1
    <3>1. k - 1 \in 1 .. l /\ (k - 1) + 1 = k
      BY <2>2
    <3>2. QED
      BY <1>1, <3>1
  <2>3. QED
    BY <2>1, <2>2
<1>3. out = t
  BY <1>1, <1>2, SameSequence
<1>4. QED
  BY <1>3 DEF out

(* A loop that writes an item for each number it comes to.                 *)
IsListing(f, n, stop, item) ==
  f = [i \in 0 .. n |-> IF i = n \/ i = stop THEN <<>> ELSE <<item[i]>> \o f[i + 1]]
Lists(n, stop, len, item) ==
  /\ \E f : IsListing(f, n, stop, item)
  /\ \A f : IsListing(f, n, stop, item) => f[0] = [k \in 1 .. len |-> item[k - 1]]
ListFrom(item, i, len) == [k \in 1 .. len - i |-> item[i + k - 1]]

LEMMA Listing ==
  ASSUME NEW n \in Nat, NEW stop, NEW len \in 0 .. n, len = n \/ len = stop,
         stop \in 0 .. n => len = stop, NEW Set, NEW item \in [0 .. n -> Set]
  PROVE  Lists(n, stop, len, item)
<1> DEFINE D == 0 .. n
           done == {n, stop}
           left == [i \in D |-> n - i]
           last == [i \in D |-> <<>>]
           to(i) == IF i = n THEN i ELSE i + 1
           next == [i \in D |-> to(i)]
           Good == {g \in D \X Seq(Set) : g[1] <= len => g[2] = ListFrom(item, g[1], len)}
<1>1. \A i \in D : n - i \in Nat /\ i \in Int /\ to(i) \in D
  OBVIOUS
<1>2. left \in [D -> Nat] /\ last \in [D -> Seq(Set)] /\ next \in [D -> D]
  <2>1. left \in [D -> Nat]
    BY <1>1
  <2>2. <<>> \in Seq(Set)
    OBVIOUS
  <2> HIDE DEF D, to, left
  <2>3. last \in [D -> Seq(Set)]
    BY <2>2
  <2>4. next \in [D -> D]
    BY <1>1
  <2>5. QED
    BY <2>1, <2>3, <2>4
<1>3. \A i \in D : i \notin done => left[next[i]] < left[i] /\ next[i] = i + 1
  OBVIOUS
<1>4. ASSUME NEW i \in D, i <= len
      PROVE  /\ ListFrom(item, i, len) \in Seq(Set) /\ Len(ListFrom(item, i, len)) = len - i
             /\ \A k \in 1 .. len - i : ListFrom(item, i, len)[k] = item[i + k - 1]
  <2> DEFINE t == [k \in 1 .. len - i |-> item[i + k - 1]]
  <2>1. len - i \in Nat /\ \A k \in 1 .. len - i : i + k - 1 \in 0 .. n
    BY <1>4
  <2>2. \A k \in 1 .. len - i : item[i + k - 1] \in Set
    BY <2>1
  <2>3. t \in [1 .. len - i -> Set]
    BY <2>2
  <2> HIDE DEF t
  <2>4. t \in Seq(Set) /\ Len(t) = len - i
    BY <2>1, <2>3
  <2>5. QED
    BY <2>4 DEF t, ListFrom
<1>5. StaysGood(Good, D, Set, done, last, D, item, next)
  <2>1. \A i \in D : \A s \in Seq(Set) :
          <<i, s>> \in Good <=> (i <= len => s = ListFrom(item, i, len))
    <3> HIDE DEF D
    <3>1. QED
      OBVIOUS
  <2> HIDE DEF Good
  <2>2. ASSUME NEW i \in D, i \in done PROVE <<i, last[i]>> \in Good
    <3>1. i <= len => len - i = 0
      BY <2>2
    <3>2. i <= len => <<>> = ListFrom(item, i, len)
      BY <3>1 DEF ListFrom
    <3>3. <<>> \in Seq(Set) /\ last[i] = <<>>
      OBVIOUS
    <3>4. QED
      BY <2>1, <3>2, <3>3
  <2>3. ASSUME NEW i \in D, NEW s \in Seq(Set), i \notin done, <<next[i], s>> \in Good
        PROVE  <<i, IF i \in D THEN <<item[i]>> \o s ELSE s>> \in Good
    <3>1. next[i] = i + 1 /\ i + 1 \in D /\ item[i] \in Set
      BY <1>3, <2>3
    <3>2. i + 1 <= len => s = ListFrom(item, i + 1, len)
      <4> HIDE DEF D, next
      <4>1. QED
        BY <2>1, <2>3, <3>1
    <3>3. i <= len => <<item[i]>> \o s = ListFrom(item, i, len)
      <4> SUFFICES ASSUME i <= len PROVE <<item[i]>> \o s = ListFrom(item, i, len)
        OBVIOUS
      <4> DEFINE t == ListFrom(item, i, len)
                 r == ListFrom(item, i + 1, len)
                 l == len - (i + 1)
                 x == item[i]
      <4>1. i + 1 <= len /\ l \in Nat /\ len - i = l + 1
        BY <2>3
      <4>2. t \in Seq(Set) /\ Len(t) = l + 1 /\ \A k \in 1 .. l + 1 : t[k] = item[i + k - 1]
        BY <1>4, <4>1
      <4>3. r \in Seq(Set) /\ Len(r) = l /\ \A k \in 1 .. l : r[k] = item[i + 1 + k - 1]
        BY <1>4, <3>1, <4>1
      <4> HIDE DEF t, r, l
      <4>4. t[1] = x /\ \A k \in 1 .. l : t[k + 1] = r[k]
        <5>1. 1 \in 1 .. l + 1 /\ i + 1 - 1 = i
          BY <4>1
        <5>2. \A k \in 1 .. l : k + 1 \in 1 .. l + 1 /\ i + (k + 1) - 1 = i + 1 + k - 1
          BY <4>1
        <5>3. QED
          BY <4>2, <4>3, <5>1, <5>2
      <4>5. s = r
        BY <3>2, <4>1 DEF r
      <4> HIDE DEF x
      <4>6. <<x>> \o s = t
        <5>1. x \in Set
          BY <3>1 DEF x
        <5>2. QED
          BY <4>1, <4>2, <4>3, <4>4, <4>5, <5>1, ListFirst
      <4>7. QED
        BY <4>6 DEF x, t
    <3>4. <<item[i]>> \o s \in Seq(Set)
      BY <3>1
    <3> HIDE DEF D
    <3>5. QED
      BY <2>1, <3>3, <3>4
  <2> HIDE DEF D, done, last, next
  <2>4. QED
    BY <2>2, <2>3 DEF StaysGood
<1>6. \A f : IsWriting(f, D, done, last, D, item, next) <=> IsListing(f, n, stop, item)
  <2>1. ASSUME NEW f
        PROVE  [i \in D |-> IF i \in done THEN last[i]
                            ELSE IF i \in D THEN <<item[i]>> \o f[next[i]] ELSE f[next[i]]]
               = [i \in 0 .. n |-> IF i = n \/ i = stop THEN <<>> ELSE <<item[i]>> \o f[i + 1]]
    OBVIOUS
  <2> HIDE DEF D, done, last, next
  <2>2. QED
    BY <2>1 DEF IsWriting, IsListing
<1>7. WritesGood(Good, D, Set, done, last, D, item, next)
  <2>1. \A i \in D : i \notin done => left[next[i]] < left[i]
    BY <1>3
  <2>2. item \in [D -> Set]
    OBVIOUS
  <2> HIDE DEF D, done, left, last, next, Good
  <2>3. QED
    BY <1>2, <1>5, <2>1, <2>2, Writing
<1>8. ASSUME NEW s, <<0, s>> \in Good PROVE s = [k \in 1 .. len |-> item[k - 1]]
  <2>1. s = ListFrom(item, 0, len)
    BY <1>8
  <2>2. len - 0 = len /\ \A k \in 1 .. len : 0 + k - 1 = k - 1
    OBVIOUS
  <2>3. QED
    BY <2>1, <2>2 DEF ListFrom
<1>9. 0 \in D
  OBVIOUS
<1>10. QED
  <2> HIDE DEF D, done, last, next, Good
  <2>1. QED
    BY <1>6, <1>7, <1>8, <1>9 DEF WritesGood, Lists

(* A loop that writes the numbers of a range backwards.                    *)
IsReversing(f, n) ==
  f = [m \in 0 .. n |-> IF m = 0 THEN <<>> ELSE <<m - 1>> \o f[m - 1]]

LEMMA Reversing ==
  ASSUME NEW n \in Nat
  PROVE  /\ \E f : IsReversing(f, n)
         /\ \A f : IsReversing(f, n) => f[n] = [k \in 1 .. n |-> n - k]
<1> DEFINE D == 0 .. n
           Set == Int
           left == [m \in D |-> m]
           last == [m \in D |-> <<>>]
           item == [m \in D |-> m - 1]
           to(m) == IF m = 0 THEN m ELSE m - 1
           next == [m \in D |-> to(m)]
           Back(m) == [k \in 1 .. m |-> m - k]
           Good == {g \in D \X Seq(Set) : g[2] = Back(g[1])}
<1>1. \A m \in D : m \in Nat /\ m - 1 \in Set /\ to(m) \in D
  OBVIOUS
<1>2. /\ left \in [D -> Nat] /\ last \in [D -> Seq(Set)] /\ next \in [D -> D]
      /\ item \in [D -> Set]
  <2>1. <<>> \in Seq(Set)
    OBVIOUS
  <2> HIDE DEF D, to, Set
  <2>2. last \in [D -> Seq(Set)]
    BY <2>1
  <2>3. next \in [D -> D]
    BY <1>1
  <2>4. item \in [D -> Set]
    BY <1>1
  <2>5. left \in [D -> Nat]
    BY <1>1
  <2>6. QED
    BY <2>2, <2>3, <2>4, <2>5
<1>3. \A m \in D : m \notin {0} => left[next[m]] < left[m] /\ next[m] = m - 1 /\ item[m] = m - 1
  OBVIOUS
<1>4. ASSUME NEW m \in D
      PROVE  /\ Back(m) \in Seq(Set) /\ Len(Back(m)) = m
             /\ \A k \in 1 .. m : Back(m)[k] = m - k
  OBVIOUS
<1> HIDE DEF Back
<1>5. StaysGood(Good, D, Set, {0}, last, D, item, next)
  <2>1. \A m \in D : \A s \in Seq(Set) : <<m, s>> \in Good <=> s = Back(m)
    <3> HIDE DEF D, Set
    <3>1. QED
      OBVIOUS
  <2> HIDE DEF Good
  <2>2. ASSUME NEW m \in D, m \in {0} PROVE <<m, last[m]>> \in Good
    <3>1. <<>> = Back(m)
      <4>1. Back(0) = <<>>
        BY DEF Back
      <4>2. QED
        BY <2>2, <4>1
    <3>2. <<>> \in Seq(Set) /\ last[m] = <<>>
      OBVIOUS
    <3>3. QED
      BY <2>1, <3>1, <3>2
  <2>3. ASSUME NEW m \in D, NEW s \in Seq(Set), m \notin {0}, <<next[m], s>> \in Good
        PROVE  <<m, IF m \in D THEN <<item[m]>> \o s ELSE s>> \in Good
    <3> DEFINE l == m - 1
               t == Back(m)
    <3>1. l \in D /\ l \in Nat /\ m = l + 1 /\ next[m] = l /\ item[m] = l
      BY <1>3, <2>3
    <3>2. s = Back(l)
      <4> HIDE DEF D, next, l
      <4>1. QED
        BY <2>1, <2>3, <3>1
    <3>3. /\ t \in Seq(Set) /\ Len(t) = l + 1 /\ \A k \in 1 .. m : t[k] = m - k
          /\ s \in Seq(Set) /\ Len(s) = l /\ \A k \in 1 .. l : s[k] = l - k
      BY <1>4, <3>1, <3>2
    <3> HIDE DEF t, l
    <3>4. t[1] = l /\ \A k \in 1 .. l : t[k + 1] = s[k]
      BY <3>1, <3>3
    <3>5. <<l>> \o s = t
      <4>1. l \in Set
        BY <3>1
      <4> HIDE DEF Set
      <4>2. QED
        BY <3>1, <3>3, <3>4, <4>1, ListFirst
    <3>6. <<item[m]>> \o s = Back(m) /\ Back(m) \in Seq(Set)
      BY <3>1, <3>3, <3>5 DEF t
    <3> HIDE DEF D, item
    <3>7. QED
      BY <2>1, <3>6
  <2> HIDE DEF D, Set, last, item, next
  <2>4. QED
    BY <2>2, <2>3 DEF StaysGood
<1>6. \A f : IsWriting(f, D, {0}, last, D, item, next) <=> IsReversing(f, n)
  <2>1. ASSUME NEW f
        PROVE  [m \in D |-> IF m \in {0} THEN last[m]
                            ELSE IF m \in D THEN <<item[m]>> \o f[next[m]] ELSE f[next[m]]]
               = [m \in 0 .. n |-> IF m = 0 THEN <<>> ELSE <<m - 1>> \o f[m - 1]]
    OBVIOUS
  <2> HIDE DEF D, last, item, next
  <2>2. QED
    BY <2>1 DEF IsWriting, IsReversing
<1>7. WritesGood(Good, D, Set, {0}, last, D, item, next)
  <2>1. \A m \in D : m \notin {0} => left[next[m]] < left[m]
    BY <1>3
  <2> HIDE DEF D, Set, left, last, item, next, Good
  <2>2. QED
    BY <1>2, <1>5, <2>1, Writing
<1>8. ASSUME NEW s, <<n, s>> \in Good PROVE s = [k \in 1 .. n |-> n - k]
  BY <1>8 DEF Back
<1>9. n \in D
  OBVIOUS
<1>10. QED
  <2> HIDE DEF D, Set, last, item, next, Good
  <2>1. QED
    BY <1>6, <1>7, <1>8, <1>9 DEF WritesGood

LEMMA CopyIf ==
  ASSUME NEW n \in Nat, NEW u, NEW T
  PROVE  InOrder({i \in 0 .. n - 1 : u[i] \in T}, O!copy_if(u, n, T))
<1> DEFINE W == {i \in 0 .. n - 1 : u[i] \in T}
           from[i \in 0 .. n] ==
             IF i = n THEN <<>> ELSE IF u[i] \in T THEN <<i>> \o from[i + 1] ELSE from[i + 1]
<1>1. O!copy_if(u, n, T) = from[0]
  BY DEF O!copy_if
<1>2. from = CHOOSE f : f = [i \in 0 .. n |-> IF i = n THEN <<>> ELSE IF u[i] \in T THEN <<i>> \o f[i + 1] ELSE f[i + 1]]
  OBVIOUS
<1> HIDE DEF from
<1>3. ASSUME NEW f
      PROVE  IsFiltering(f, n, W)
             <=> f = [i \in 0 .. n |-> IF i = n THEN <<>> ELSE IF u[i] \in T THEN <<i>> \o f[i + 1] ELSE f[i + 1]]
  <2>1. \A i \in 0 .. n : i = n \/ (i \in W <=> u[i] \in T)
    OBVIOUS
  <2> HIDE DEF W
  <2>2. [i \in 0 .. n |-> IF i = n THEN <<>> ELSE IF i \in W THEN <<i>> \o f[i + 1] ELSE f[i + 1]]
        = [i \in 0 .. n |-> IF i = n THEN <<>> ELSE IF u[i] \in T THEN <<i>> \o f[i + 1] ELSE f[i + 1]]
    BY <2>1
  <2>3. QED
    BY <2>2 DEF IsFiltering
<1>4. W \subseteq 0 .. n - 1
  OBVIOUS
<1> HIDE DEF W
<1>5. /\ \E f : IsFiltering(f, n, W)
      /\ \A f : IsFiltering(f, n, W) => InOrder(W, f[0])
  BY <1>4, Filtering
<1>6. IsFiltering(from, n, W)
  BY <1>2, <1>3, <1>5
<1>7. QED
  BY <1>1, <1>5, <1>6 DEF W

LEMMA RemoveCopyIf ==
  ASSUME NEW n \in Nat, NEW u, NEW T
  PROVE  InOrder({i \in 0 .. n - 1 : u[i] \notin T}, O!remove_copy_if(u, n, T))
<1> DEFINE W == {i \in 0 .. n - 1 : u[i] \notin T}
           from[i \in 0 .. n] ==
             IF i = n THEN <<>> ELSE IF u[i] \in T THEN from[i + 1] ELSE <<i>> \o from[i + 1]
<1>1. O!remove_copy_if(u, n, T) = from[0]
  BY DEF O!remove_copy_if
<1>2. from = CHOOSE f : f = [i \in 0 .. n |-> IF i = n THEN <<>> ELSE IF u[i] \in T THEN f[i + 1] ELSE <<i>> \o f[i + 1]]
  OBVIOUS
<1> HIDE DEF from
<1>3. ASSUME NEW f
      PROVE  IsFiltering(f, n, W)
             <=> f = [i \in 0 .. n |-> IF i = n THEN <<>> ELSE IF u[i] \in T THEN f[i + 1] ELSE <<i>> \o f[i + 1]]
  <2>1. \A i \in 0 .. n : i = n \/ (i \in W <=> u[i] \notin T)
    OBVIOUS
  <2> HIDE DEF W
  <2>2. [i \in 0 .. n |-> IF i = n THEN <<>> ELSE IF i \in W THEN <<i>> \o f[i + 1] ELSE f[i + 1]]
        = [i \in 0 .. n |-> IF i = n THEN <<>> ELSE IF u[i] \in T THEN f[i + 1] ELSE <<i>> \o f[i + 1]]
    BY <2>1
  <2>3. QED
    BY <2>2 DEF IsFiltering
<1>4. W \subseteq 0 .. n - 1
  OBVIOUS
<1> HIDE DEF W
<1>5. /\ \E f : IsFiltering(f, n, W)
      /\ \A f : IsFiltering(f, n, W) => InOrder(W, f[0])
  BY <1>4, Filtering
<1>6. IsFiltering(from, n, W)
  BY <1>2, <1>3, <1>5
<1>7. QED
  BY <1>1, <1>5, <1>6 DEF W

LEMMA ReplaceCopyIf ==
  ASSUME NEW n \in Nat, NEW u, NEW T
  PROVE  O!replace_copy_if(u, n, T) = [k \in 1 .. n |-> IF u[k - 1] \in T THEN n ELSE k - 1]
<1> DEFINE D == 0 .. n
           item == [i \in D |-> IF u[i] \in T THEN n ELSE i]
           len == n
           Set == {item[i] : i \in D}
           from[i \in 0 .. n] ==
             IF i = n THEN <<>> ELSE <<IF u[i] \in T THEN n ELSE i>> \o from[i + 1]
<1>1. O!replace_copy_if(u, n, T) = from[0]
  BY DEF O!replace_copy_if
<1>2. from = CHOOSE f : f = [i \in 0 .. n |-> IF i = n THEN <<>> ELSE <<IF u[i] \in T THEN n ELSE i>> \o f[i + 1]]
  OBVIOUS
<1> HIDE DEF from
<1>3. ASSUME NEW f
      PROVE  IsListing(f, n, n, item)
             <=> f = [i \in 0 .. n |-> IF i = n THEN <<>> ELSE <<IF u[i] \in T THEN n ELSE i>> \o f[i + 1]]
  <2>1. [i \in 0 .. n |-> IF i = n \/ i = n THEN <<>> ELSE <<item[i]>> \o f[i + 1]]
        = [i \in 0 .. n |-> IF i = n THEN <<>> ELSE <<IF u[i] \in T THEN n ELSE i>> \o f[i + 1]]
    OBVIOUS
  <2>2. QED
    BY <2>1 DEF IsListing
<1>4. item \in [0 .. n -> Set]
  OBVIOUS
<1>5. len \in 0 .. n /\ (len = n \/ len = n) /\ (n \in 0 .. n => len = n)
  OBVIOUS
<1>6. \A k \in 1 .. len : k - 1 \in D /\ k - 1 \in 0 .. n
  BY <1>5
<1> HIDE DEF Set, len, item
<1>7. Lists(n, n, len, item)
  BY <1>4, <1>5, Listing
<1>8. IsListing(from, n, n, item)
  BY <1>2, <1>3, <1>7 DEF Lists
<1>9. from[0] = [k \in 1 .. len |-> item[k - 1]]
  BY <1>7, <1>8 DEF Lists
<1> HIDE DEF D
<1>10. [k \in 1 .. len |-> item[k - 1]] = [k \in 1 .. len |-> IF u[k - 1] \in T THEN n ELSE k - 1]
  BY <1>6 DEF item
<1>11. QED
  BY <1>1, <1>9, <1>10 DEF len

LEMMA TransformPairs ==
  ASSUME NEW n \in Nat, NEW m \in Nat
  PROVE  O!transform_pairs(n, m) = [k \in 1 .. (IF m <= n THEN m ELSE n) |-> <<k - 1, k - 1>>]
<1> DEFINE D == 0 .. n
           item == [i \in D |-> <<i, i>>]
           len == IF m <= n THEN m ELSE n
           Set == {item[i] : i \in D}
           from[i \in 0 .. n] ==
             IF i = n \/ i = m THEN <<>> ELSE <<<<i, i>>>> \o from[i + 1]
<1>1. O!transform_pairs(n, m) = from[0]
  BY DEF O!transform_pairs
<1>2. from = CHOOSE f : f = [i \in 0 .. n |-> IF i = n \/ i = m THEN <<>> ELSE <<<<i, i>>>> \o f[i + 1]]
  OBVIOUS
<1> HIDE DEF from
<1>3. ASSUME NEW f
      PROVE  IsListing(f, n, m, item)
             <=> f = [i \in 0 .. n |-> IF i = n \/ i = m THEN <<>> ELSE <<<<i, i>>>> \o f[i + 1]]
  <2>1. [i \in 0 .. n |-> IF i = n \/ i = m THEN <<>> ELSE <<item[i]>> \o f[i + 1]]
        = [i \in 0 .. n |-> IF i = n \/ i = m THEN <<>> ELSE <<<<i, i>>>> \o f[i + 1]]
    OBVIOUS
  <2>2. QED
    BY <2>1 DEF IsListing
<1>4. item \in [0 .. n -> Set]
  OBVIOUS
<1>5. len \in 0 .. n /\ (len = n \/ len = m) /\ (m \in 0 .. n => len = m)
  OBVIOUS
<1>6. \A k \in 1 .. len : k - 1 \in D /\ k - 1 \in 0 .. n
  BY <1>5
<1> HIDE DEF Set, len, item
<1>7. Lists(n, m, len, item)
  BY <1>4, <1>5, Listing
<1>8. IsListing(from, n, m, item)
  BY <1>2, <1>3, <1>7 DEF Lists
<1>9. from[0] = [k \in 1 .. len |-> item[k - 1]]
  BY <1>7, <1>8 DEF Lists
<1> HIDE DEF D
<1>10. [k \in 1 .. len |-> item[k - 1]] = [k \in 1 .. len |-> <<k - 1, k - 1>>]
  BY <1>6 DEF item
<1>11. QED
  BY <1>1, <1>9, <1>10 DEF len

LEMMA ReverseCopy ==
  ASSUME NEW n \in Nat
  PROVE  O!reverse_copy(n) = [k \in 1 .. n |-> n - k]
<1> DEFINE back[m \in 0 .. n] == IF m = 0 THEN <<>> ELSE <<m - 1>> \o back[m - 1]
<1>1. O!reverse_copy(n) = back[n]
  BY DEF O!reverse_copy
<1>2. back = CHOOSE f : f = [m \in 0 .. n |-> IF m = 0 THEN <<>> ELSE <<m - 1>> \o f[m - 1]]
  OBVIOUS
<1> HIDE DEF back
<1>3. /\ \E f : IsReversing(f, n)
      /\ \A f : IsReversing(f, n) => f[n] = [k \in 1 .. n |-> n - k]
  BY Reversing
<1>4. IsReversing(back, n)
  BY <1>2, <1>3 DEF IsReversing
<1>5. QED
  BY <1>1, <1>3, <1>4

LEMMA RotateCopy ==
  ASSUME NEW n \in Nat, NEW middle \in 0 .. n
  PROVE  O!rotate_copy(n, middle) = [k \in 1 .. n |-> (k - 1 + middle) % n]
<1> DEFINE s == O!copy(middle, n)
           t == O!copy(0, middle)
           out == [k \in 1 .. n |-> (k - 1 + middle) % n]
           l == n - middle
<1>1. middle \in Nat /\ l \in Nat /\ l + middle = n
  OBVIOUS
<1>2. /\ s \in Seq(Int) /\ Len(s) = l /\ \A k \in 1 .. l : s[k] = middle + k - 1
      /\ t \in Seq(Int) /\ Len(t) = middle /\ \A k \in 1 .. middle : t[k] = k - 1
  BY <1>1 DEF O!copy
<1>3. ASSUME NEW k \in 1 .. n
      PROVE  (k - 1 + middle) % n = IF k <= l THEN middle + k - 1 ELSE k - 1 - l
  <2>1. n > 0 /\ k \in Int /\ 1 <= k /\ k <= n
    OBVIOUS
  <2>2. CASE k <= l
    <3>1. k - 1 + middle \in 0 .. n - 1
      BY <1>1, <2>1, <2>2
    <3>2. \A x \in 0 .. n - 1 : x % n = x
      BY <2>1
    <3>3. QED
      BY <2>1, <2>2, <3>1, <3>2
  <2>3. CASE ~(k <= l)
    <3>1. k - 1 - l \in 0 .. n - 1 /\ k - 1 + middle = (k - 1 - l) + n
      BY <1>1, <2>1, <2>3
    <3>2. \A x \in 0 .. n - 1 : (x + n) % n = x
      BY <2>1
    <3>3. QED
      BY <2>3, <3>1, <3>2
  <2>4. QED
    BY <2>2, <2>3
<1>4. out \in Seq(Int) /\ Len(out) = n /\ \A k \in 1 .. n : out[k] = (k - 1 + middle) % n
  <2>1. \A k \in 1 .. n : (k - 1 + middle) % n \in Int
    BY <1>1, <1>3
  <2>2. QED
    BY <2>1
<1> HIDE DEF s, t, out, l
<1>5. /\ s \o t \in Seq(Int) /\ Len(s \o t) = n
      /\ \A k \in 1 .. n : (s \o t)[k] = IF k <= l THEN s[k] ELSE t[k - l]
  <2>1. /\ s \o t \in Seq(Int) /\ Len(s \o t) = Len(s) + Len(t)
        /\ \A k \in 1 .. Len(s) + Len(t) : (s \o t)[k] = IF k <= Len(s) THEN s[k] ELSE t[k - Len(s)]
    <3>1. s \in Seq(Int) /\ t \in Seq(Int)
      BY <1>2
    <3>2. QED
      BY <3>1
  <2>2. Len(s) = l /\ Len(s) + Len(t) = n
    BY <1>1, <1>2
  <2>3. QED
    BY <2>1, <2>2
<1>6. ASSUME NEW k \in 1 .. n PROVE (s \o t)[k] = out[k]
  <2>1. CASE k <= l
    BY <1>1, <1>2, <1>3, <1>4, <1>5, <2>1
  <2>2. CASE ~(k <= l)
    <3>1. k - l \in 1 .. middle
      BY <1>1, <2>2
    <3>2. (s \o t)[k] = k - l - 1
      BY <1>2, <1>5, <2>2, <3>1
    <3>3. QED
      BY <1>1, <1>3, <1>4, <2>2, <3>2
  <2>3. QED
    BY <2>1, <2>2
<1>7. s \o t = out
  <2> DEFINE r == s \o t
  <2>1. r \in Seq(Int) /\ Len(r) = n /\ \A k \in 1 .. n : r[k] = out[k]
    BY <1>5, <1>6
  <2> HIDE DEF r
  <2>2. r = out
    BY <1>4, <2>1, SameSequence
  <2>3. QED
    BY <2>2 DEF r
<1>8. QED
  BY <1>7 DEF O!rotate_copy, s, t, out

(* The calls that write every element in its place.                        *)
LEMMA CopyAll ==
  ASSUME NEW n \in Nat
  PROVE  /\ InOrder(0 .. n - 1, O!copy(0, n))
         /\ O!for_each(n) = O!copy(0, n) /\ O!transform(n) = O!copy(0, n)
<1> DEFINE out == [k \in 1 .. n |-> k - 1]
<1>1. O!copy(0, n) = out
  <2>1. n - 0 = n /\ \A k \in 1 .. n : 0 + k - 1 = k - 1
    OBVIOUS
  <2>2. QED
    BY <2>1 DEF O!copy
<1>2. DOMAIN out = 1 .. n /\ \A k \in 1 .. n : out[k] = k - 1
  OBVIOUS
<1>3. \A x \in 0 .. n - 1 : x + 1 \in 1 .. n /\ (x + 1) - 1 = x
  OBVIOUS
<1> HIDE DEF out
<1>4. {out[k] : k \in DOMAIN out} = 0 .. n - 1
  <2>1. \A k \in DOMAIN out : out[k] \in 0 .. n - 1
    BY <1>2
  <2>2. \A x \in 0 .. n - 1 : \E k \in DOMAIN out : out[k] = x
    BY <1>2, <1>3
  <2>3. QED
    BY <2>1, <2>2
<1>5. InOrder(0 .. n - 1, out)
  BY <1>2, <1>4 DEF InOrder
<1>6. QED
  BY <1>1, <1>5 DEF out, O!for_each, O!transform

(* A number is passed that is in the set, or is not.                       *)
PassesOn(T, i) ==
  /\ i \in T => From(T, i) = {i} \cup From(T, i + 1)
  /\ i \notin T => From(T, i) = From(T, i + 1)
  /\ \A y \in From(T, i + 1) : i < y

LEMMA FromIs ==
  ASSUME NEW n \in Nat, NEW T, T \subseteq 0 .. n - 1, NEW i \in 0 .. n
  PROVE  From(T, 0) = T /\ From(T, n) = {} /\ PassesOn(T, i)
<1>0. \A k \in T : k \in Int /\ 0 <= k /\ k <= n - 1
  OBVIOUS
<1>1. From(T, 0) = T
  BY <1>0 DEF From
<1>2. From(T, n) = {}
  <2>1. \A k \in T : ~(n <= k)
    BY <1>0
  <2>2. QED
    BY <2>1 DEF From
<1>3. \A k \in T : i <= k <=> k = i \/ i + 1 <= k
  BY <1>0
<1>4. \A y \in From(T, i + 1) : i < y
  BY <1>0 DEF From
<1>5. ASSUME i \in T PROVE From(T, i) = {i} \cup From(T, i + 1)
  BY <1>3, <1>5 DEF From
<1>6. ASSUME i \notin T PROVE From(T, i) = From(T, i + 1)
  BY <1>3, <1>6 DEF From
<1>7. QED
  BY <1>1, <1>2, <1>4, <1>5, <1>6 DEF PassesOn

(* The numbers of the elements that were written.                          *)
Numbers(out) == [p \in DOMAIN out |-> out[p][2]]

LEMMA NumbersFirst ==
  ASSUME NEW x \in Items, NEW s \in Seq(Items)
  PROVE  /\ Numbers(<<x>> \o s) = <<x[2]>> \o Numbers(s) /\ Numbers(s) \in Seq(Int)
         /\ x[2] \in Int /\ Numbers(<<>>) = <<>>
<1> DEFINE Set == Items
           out == <<x>> \o s
           len == Len(s)
           t == Numbers(out)
           r == Numbers(s)
<1>1. \A y \in Set : y[2] \in Int
  BY DEF Items
<1>2. x \in Set /\ s \in Seq(Set)
  OBVIOUS
<1> HIDE DEF Set
<1>3. /\ out \in Seq(Set) /\ len \in Nat /\ Len(out) = len + 1 /\ out[1] = x
      /\ DOMAIN out = 1 .. len + 1 /\ DOMAIN s = 1 .. len
      /\ \A p \in 1 .. len : out[p + 1] = s[p]
  BY <1>2
<1>4. (\A p \in 1 .. len + 1 : out[p] \in Set) /\ \A p \in 1 .. len : s[p] \in Set
  BY <1>2, <1>3
<1> HIDE DEF out, len
<1>5. r \in Seq(Int) /\ Len(r) = len /\ \A p \in 1 .. len : r[p] = s[p][2]
  BY <1>1, <1>3, <1>4 DEF Numbers
<1>6. t \in Seq(Int) /\ Len(t) = len + 1 /\ \A p \in 1 .. len + 1 : t[p] = out[p][2]
  BY <1>1, <1>3, <1>4 DEF Numbers
<1> HIDE DEF t, r
<1> DEFINE z == x[2]
<1>7. t[1] = z /\ z \in Int
  BY <1>1, <1>2, <1>3, <1>6
<1>8. \A k \in 1 .. len : t[k + 1] = r[k]
  <2>1. ASSUME NEW k \in 1 .. len PROVE t[k + 1] = r[k]
    <3>1. k + 1 \in 1 .. len + 1
      BY <1>3
    <3>2. t[k + 1] = out[k + 1][2] /\ r[k] = s[k][2] /\ out[k + 1] = s[k]
      BY <1>3, <1>5, <1>6, <3>1
    <3>3. QED
      BY <3>2
  <2>2. QED
    BY <2>1
<1> HIDE DEF z
<1>9. <<z>> \o r = t
  BY <1>3, <1>5, <1>6, <1>7, <1>8, ListFirst
<1>10. Numbers(<<>>) = <<>>
  BY DEF Numbers
<1>11. QED
  BY <1>5, <1>7, <1>9, <1>10 DEF t, r, z, out

LEMMA UniqueCopy ==
  ASSUME NEW n \in Nat, NEW u, NEW T, T = {i \in 0 .. n - 1 : i = 0 \/ u[i - 1] # u[i]},
         NEW out, out = C!unique_copy(u, n)
  PROVE  InOrder(T, Numbers(out)) /\ out \in Seq(Items)
<1> DEFINE D == (0 .. n) \X (0 .. n)
           Set == Items
           done == {d \in D : d[1] = n}
           emits == {d \in D : ~(d[1] > 0 /\ u[d[1]] = u[d[2]])}
           last == [d \in D |-> <<>>]
           item == [d \in D |-> <<1, d[1]>>]
           to(d) == IF d \in done THEN d
                    ELSE IF d \in emits THEN <<d[1] + 1, d[1]>> ELSE <<d[1] + 1, d[2]>>
           next == [d \in D |-> to(d)]
           left == [d \in D |-> n - d[1]]
           Good == {g \in D \X Seq(Set) : (g[1][1] = 0 \/ u[g[1][2]] = u[g[1][1] - 1])
                                            => InOrder(From(T, g[1][1]), Numbers(g[2]))}
           body(i, m, f) == IF i = n THEN <<>>
                            ELSE IF i > 0 /\ u[i] = u[m] THEN f[i + 1][m]
                            ELSE <<<<1, i>>>> \o f[i + 1][i]
           from[i \in 0 .. n] ==
             [m \in 0 .. n |-> IF i = n THEN <<>>
                               ELSE IF i > 0 /\ u[i] = u[m] THEN from[i + 1][m]
                               ELSE <<<<1, i>>>> \o from[i + 1][i]]
<1>1. C!unique_copy(u, n) = from[0][0]
  BY DEF C!unique_copy, equal_to
<1>2. from = CHOOSE f : f = [i \in 0 .. n |-> [m \in 0 .. n |-> body(i, m, f)]]
  OBVIOUS
<1> HIDE DEF from
<1>3. \A d \in D : d = <<d[1], d[2]>> /\ d[1] \in 0 .. n /\ d[2] \in 0 .. n
  OBVIOUS
<1>4. T \subseteq 0 .. n - 1
  OBVIOUS
<1>5. ASSUME NEW d \in D
      PROVE  /\ n - d[1] \in Nat /\ <<1, d[1]>> \in Set /\ to(d) \in D
             /\ d \notin done => d[1] + 1 \in 0 .. n /\ d[1] < n
  <2>1. d[1] \in 0 .. n /\ d[2] \in 0 .. n /\ d[1] \in Nat
    BY <1>3
  <2>2. <<1, d[1]>> \in Set
    BY <2>1 DEF Items
  <2>3. d \notin done => d[1] + 1 \in 0 .. n /\ d[1] < n
    BY <2>1
  <2>4. to(d) \in D
    <3>1. CASE d \in done
      BY <3>1
    <3>2. CASE d \notin done
      <4>1. to(d) \in {<<d[1] + 1, d[1]>>, <<d[1] + 1, d[2]>>}
        BY <3>2
      <4>2. QED
        BY <2>1, <2>3, <3>2, <4>1
    <3>3. QED
      BY <3>1, <3>2
  <2>5. n - d[1] \in Nat
    BY <2>1
  <2>6. QED
    BY <2>2, <2>3, <2>4, <2>5
<1>6. /\ left \in [D -> Nat] /\ last \in [D -> Seq(Set)] /\ next \in [D -> D]
      /\ item \in [D -> Set]
  <2>1. <<>> \in Seq(Set)
    OBVIOUS
  <2> HIDE DEF D, to, Set
  <2>2. last \in [D -> Seq(Set)]
    BY <2>1
  <2>3. next \in [D -> D]
    BY <1>5
  <2>4. item \in [D -> Set]
    BY <1>5
  <2>5. left \in [D -> Nat]
    BY <1>5
  <2>6. QED
    BY <2>2, <2>3, <2>4, <2>5
<1>7. ASSUME NEW d \in D, d \notin done
      PROVE  /\ next[d] \in D /\ next[d][1] = d[1] + 1 /\ item[d] = <<1, d[1]>>
             /\ d \in emits => next[d][2] = d[1]
             /\ d \notin emits => next[d][2] = d[2]
  BY <1>5, <1>7
<1>8. \A d \in D : d \notin done => left[next[d]] < left[d]
  <2>1. ASSUME NEW d \in D, NEW e \in D, e[1] = d[1] + 1 PROVE left[e] < left[d]
    BY <1>3, <2>1
  <2> HIDE DEF D, done, left, next, emits, item
  <2>2. QED
    BY <1>7, <2>1
<1>9. StaysGood(Good, D, Set, done, last, emits, item, next)
  <2>1. \A d \in D : \A s \in Seq(Set) :
          <<d, s>> \in Good <=> (d[1] = 0 \/ u[d[2]] = u[d[1] - 1] => InOrder(From(T, d[1]), Numbers(s)))
    <3> HIDE DEF D, Set
    <3>1. QED
      OBVIOUS
  <2> HIDE DEF Good
  <2>2. ASSUME NEW d \in D, d \in done PROVE <<d, last[d]>> \in Good
    <3>1. From(T, d[1]) = {}
      <4>1. n \in 0 .. n
        OBVIOUS
      <4>2. From(T, n) = {}
        BY <1>4, <4>1, FromIs
      <4>3. QED
        BY <2>2, <4>2
    <3>2. InOrder({}, Numbers(<<>>)) /\ <<>> \in Seq(Set)
      BY DEF InOrder, Numbers
    <3>3. last[d] = <<>>
      OBVIOUS
    <3> HIDE DEF D, Set, last
    <3>4. QED
      BY <2>1, <3>1, <3>2, <3>3
  <2>3. ASSUME NEW d \in D, NEW s \in Seq(Set), d \notin done, <<next[d], s>> \in Good
        PROVE  <<d, IF d \in emits THEN <<item[d]>> \o s ELSE s>> \in Good
    <3> DEFINE i == d[1]
               m == d[2]
               e == next[d]
    <3>1. /\ e \in D /\ e[1] = i + 1 /\ item[d] = <<1, i>> /\ <<1, i>> \in Set /\ i \in 0 .. n - 1
          /\ (d \in emits => e[2] = i) /\ (d \notin emits => e[2] = m)
          /\ (d \in emits <=> ~(i > 0 /\ u[i] = u[m])) /\ i + 1 - 1 = i /\ i \in 0 .. n
      BY <1>3, <1>5, <1>7, <2>3
    <3>2. e[1] = 0 \/ u[e[2]] = u[e[1] - 1] => InOrder(From(T, e[1]), Numbers(s))
      <4> HIDE DEF D, Set, done, next
      <4>1. QED
        BY <2>1, <2>3, <3>1
    <3> HIDE DEF e
    <3>3. /\ i \in T => From(T, i) = {i} \cup From(T, i + 1)
          /\ i \notin T => From(T, i) = From(T, i + 1)
          /\ \A y \in From(T, i + 1) : i < y
      <4>1. i \in 0 .. n
        BY <3>1
      <4> HIDE DEF i, m, e, D, emits, item
      <4>2. PassesOn(T, i)
        BY <1>4, <4>1, FromIs
      <4>3. QED
        BY <4>2 DEF PassesOn
    <3>4. ASSUME i = 0 \/ u[m] = u[i - 1]
          PROVE  InOrder(From(T, i), Numbers(IF d \in emits THEN <<item[d]>> \o s ELSE s))
      <4>1. i \in T <=> d \in emits
        <5>1. i \in T <=> i = 0 \/ u[i - 1] # u[i]
          BY <3>1
        <5>2. i # 0 <=> i > 0
          BY <3>1
        <5> HIDE DEF i, m, emits
        <5>3. QED
          BY <3>1, <3>4, <5>1, <5>2
      <4>2. InOrder(From(T, i + 1), Numbers(s))
        <5> HIDE DEF i, m, emits, D
        <5>1. u[e[2]] = u[i]
          BY <3>1
        <5>2. QED
          BY <3>1, <3>2, <5>1
      <4>3. CASE d \in emits
        <5> DEFINE x == <<1, i>>
                   R == From(T, i + 1)
        <5>1. x \in Items /\ x[2] = i /\ s \in Seq(Items) /\ i \in Int
          BY <3>1
        <5> HIDE DEF x, i, R
        <5>2. Numbers(<<x>> \o s) = <<x[2]>> \o Numbers(s) /\ Numbers(s) \in Seq(Int)
          BY <5>1, NumbersFirst
        <5>3. InOrder({i} \cup R, <<i>> \o Numbers(s))
          BY <3>3, <4>2, <5>1, <5>2, InOrderFirst DEF R
        <5> HIDE DEF emits, item
        <5>4. QED
          BY <3>1, <3>3, <4>1, <4>3, <5>1, <5>2, <5>3 DEF R, x
      <4>4. CASE d \notin emits
        BY <3>3, <4>1, <4>2, <4>4
      <4>5. QED
        BY <4>3, <4>4
    <3>5. (IF d \in emits THEN <<item[d]>> \o s ELSE s) \in Seq(Set)
      <4>1. item[d] \in Set
        BY <3>1
      <4> HIDE DEF Set, item, emits
      <4>2. QED
        BY <4>1
    <3> HIDE DEF D, Set, emits, item, next
    <3>6. QED
      BY <2>1, <3>4, <3>5
  <2> HIDE DEF D, Set, done, last, emits, item, next
  <2>4. QED
    BY <2>2, <2>3 DEF StaysGood
<1>10. \A f : IsMerging(f, n, n, done, last, emits, item, next)
              <=> f = [i \in 0 .. n |-> [m \in 0 .. n |-> body(i, m, f)]]
  <2>1. ASSUME NEW f, NEW i \in 0 .. n, NEW j \in 0 .. n
        PROVE  body(i, j, f) = IF <<i, j>> \in done THEN last[<<i, j>>]
                 ELSE IF <<i, j>> \in emits
                      THEN <<item[<<i, j>>]>> \o f[next[<<i, j>>][1]][next[<<i, j>>][2]]
                      ELSE f[next[<<i, j>>][1]][next[<<i, j>>][2]]
    <3> DEFINE d == <<i, j>>
    <3>1. d \in D /\ d[1] = i /\ d[2] = j
      OBVIOUS
    <3>2. /\ d \in done <=> i = n
          /\ d \in emits <=> ~(i > 0 /\ u[i] = u[j])
          /\ last[d] = <<>>
          /\ d \notin done => item[d] = <<1, i>> /\ next[d][1] = i + 1
          /\ d \notin done /\ d \in emits => next[d][2] = i
          /\ d \notin done /\ d \notin emits => next[d][2] = j
      BY <1>7, <3>1
    <3> HIDE DEF d, done, last, emits, item, next
    <3>3. body(i, j, f) = IF d \in done THEN last[d]
                 ELSE IF d \in emits THEN <<item[d]>> \o f[next[d][1]][next[d][2]]
                 ELSE f[next[d][1]][next[d][2]]
      BY <3>2
    <3>4. QED
      BY <3>3 DEF d
  <2> HIDE DEF done, last, emits, item, next, body
  <2>2. ASSUME NEW f
        PROVE  IsMerging(f, n, n, done, last, emits, item, next)
               <=> f = [i \in 0 .. n |-> [m \in 0 .. n |-> body(i, m, f)]]
    <3> DEFINE c(i, j) == IF <<i, j>> \in done THEN last[<<i, j>>]
                 ELSE IF <<i, j>> \in emits
                      THEN <<item[<<i, j>>]>> \o f[next[<<i, j>>][1]][next[<<i, j>>][2]]
                      ELSE f[next[<<i, j>>][1]][next[<<i, j>>][2]]
               g == [i \in 0 .. n |-> [j \in 0 .. n |-> body(i, j, f)]]
               h == [i \in 0 .. n |-> [j \in 0 .. n |-> c(i, j)]]
    <3>1. g = h
      <4> HIDE DEF body
      <4>1. \A i \in 0 .. n, j \in 0 .. n : body(i, j, f) = c(i, j)
        BY <2>1
      <4> HIDE DEF c
      <4>2. QED
        BY <4>1
    <3>2. IsMerging(f, n, n, done, last, emits, item, next) <=> f = h
      BY DEF IsMerging
    <3>3. f = g <=> f = [i \in 0 .. n |-> [m \in 0 .. n |-> body(i, m, f)]]
      OBVIOUS
    <3> HIDE DEF g, h
    <3>4. QED
      BY <3>1, <3>2, <3>3
  <2>3. QED
    BY <2>2
<1>11. /\ \E f : IsMerging(f, n, n, done, last, emits, item, next)
       /\ \A f : IsMerging(f, n, n, done, last, emits, item, next) =>
              f[0][0] \in Seq(Set) /\ <<<<0, 0>>, f[0][0]>> \in Good
  <2>1. D = (0 .. n) \X (0 .. n)
    OBVIOUS
  <2> HIDE DEF D, Set, done, last, emits, item, next, left, Good
  <2>2. QED
    BY <1>6, <1>8, <1>9, <2>1, Merging
<1>12. \A s : <<<<0, 0>>, s>> \in Good => InOrder(From(T, 0), Numbers(s))
  OBVIOUS
<1>13. From(T, 0) = T
  <2>1. 0 \in 0 .. n
    OBVIOUS
  <2>2. QED
    BY <1>4, <2>1, FromIs
<1> HIDE DEF D, done, last, emits, item, next, Good, body
<1>14. IsMerging(from, n, n, done, last, emits, item, next)
  BY <1>2, <1>10, <1>11
<1>15. QED
  BY <1>1, <1>11, <1>12, <1>13, <1>14
-----------------------------------------------------------------------------
(* Loops that make any kind of value.                                      *)

(* What is made from d on: base where the loop is done, and before that    *)
(* what step makes of the value from the next d on.                        *)
IsLoop(f, D, done, base, next, step) ==
  f = [d \in D |-> IF d \in done THEN base[d] ELSE step[d][f[next[d]]]]
Loops(f, D, Vals, done, base, next, step) ==
  \A d \in D : /\ d \in done => f[d] = base[d]
               /\ d \notin done /\ f[next[d]] \in Vals => f[d] = step[d][f[next[d]]]
KeepsGood(Good, D, Vals, done, base, next, step) ==
  /\ \A d \in D : d \in done => <<d, base[d]>> \in Good
  /\ \A d \in D : \A x \in Vals :
       d \notin done /\ <<next[d], x>> \in Good => <<d, step[d][x]>> \in Good
LoopsGood(Good, D, Vals, done, base, next, step) ==
  /\ \E f \in [D -> Vals] : IsLoop(f, D, done, base, next, step)
  /\ \A f : Loops(f, D, Vals, done, base, next, step) =>
       \A d \in D : f[d] \in Vals /\ <<d, f[d]>> \in Good

LEMMA Looping ==
  ASSUME NEW D, NEW Vals, Vals # {}, NEW m \in [D -> Nat], NEW done,
         NEW base \in [D -> Vals], NEW next \in [D -> D], NEW step \in [D -> [Vals -> Vals]],
         \A d \in D : d \notin done => m[next[d]] < m[d],
         NEW Good,
         KeepsGood(Good, D, Vals, done, base, next, step)
  PROVE  LoopsGood(Good, D, Vals, done, base, next, step)
<1> DEFINE G == [d \in D |-> [h \in [D -> Vals] |-> IF d \in done THEN base[d] ELSE step[d][h[next[d]]]]]
<1>1. \A d \in D : next[d] \in D /\ base[d] \in Vals
  OBVIOUS
<1>2. \A d \in D : \A x \in Vals : step[d][x] \in Vals
  OBVIOUS
<1>3. G \in [D -> [[D -> Vals] -> Vals]]
  <2>1. ASSUME NEW d \in D, NEW h \in [D -> Vals]
        PROVE  (IF d \in done THEN base[d] ELSE step[d][h[next[d]]]) \in Vals
    <3>1. h[next[d]] \in Vals
      BY <1>1
    <3>2. QED
      BY <1>1, <1>2, <3>1
  <2>2. QED
    BY <2>1
<1>4. \A d \in D : \A h \in [D -> Vals] : G[d][h] = IF d \in done THEN base[d] ELSE step[d][h[next[d]]]
  OBVIOUS
<1> HIDE DEF G
<1>5. LocalIn(G, D, Vals, m)
  <2>1. ASSUME NEW d \in D, NEW h1 \in [D -> Vals], NEW h2 \in [D -> Vals],
               \A e \in D : m[e] < m[d] => h1[e] = h2[e]
        PROVE  G[d][h1] = G[d][h2]
    <3>1. d \notin done => h1[next[d]] = h2[next[d]]
      BY <1>1, <2>1
    <3>2. /\ G[d][h1] = IF d \in done THEN base[d] ELSE step[d][h1[next[d]]]
          /\ G[d][h2] = IF d \in done THEN base[d] ELSE step[d][h2[next[d]]]
      BY <1>4
    <3>3. QED
      BY <3>1, <3>2
  <2>2. QED
    BY <2>1 DEF LocalIn
<1>6. \E f \in [D -> Vals] : IsLoop(f, D, done, base, next, step)
  <2>0. \E f \in [D -> Vals] : IsRecursive(f, D, G)
    BY <1>3, <1>5, Recursion
  <2>1. PICK f \in [D -> Vals] : f = [d \in D |-> G[d][f]]
    BY <2>0 DEF IsRecursive
  <2>2. \A d \in D : G[d][f] = IF d \in done THEN base[d] ELSE step[d][f[next[d]]]
    BY <1>4
  <2>3. f = [d \in D |-> IF d \in done THEN base[d] ELSE step[d][f[next[d]]]]
    BY <2>1, <2>2
  <2>4. QED
    BY <2>3 DEF IsLoop
<1>7. ASSUME NEW f, Loops(f, D, Vals, done, base, next, step)
      PROVE  \A d \in D : f[d] \in Vals /\ <<d, f[d]>> \in Good
  <2> DEFINE Done == {d \in D : f[d] \in Vals /\ <<d, f[d]>> \in Good}
  <2>1. ASSUME NEW d \in D, \A e \in D : m[e] < m[d] => e \in Done
        PROVE  d \in Done
    <3>1. CASE d \in done
      <4>1. f[d] = base[d] /\ <<d, base[d]>> \in Good
        BY <1>7, <3>1 DEF Loops, KeepsGood
      <4>2. QED
        BY <1>1, <4>1
    <3>2. CASE d \notin done
      <4>1. next[d] \in Done
        BY <1>1, <2>1, <3>2
      <4>2. f[d] = step[d][f[next[d]]]
        BY <1>7, <3>2, <4>1 DEF Loops
      <4>3. <<d, step[d][f[next[d]]]>> \in Good
        BY <3>2, <4>1 DEF KeepsGood
      <4>4. QED
        BY <1>2, <4>1, <4>2, <4>3
    <3>3. QED
      BY <3>1, <3>2
  <2>2. D \subseteq Done
    <3> HIDE DEF Done
    <3>1. QED
      BY <2>1, ByMeasure
  <2>3. QED
    BY <2>2
<1>8. QED
  BY <1>6, <1>7 DEF LoopsGood
-----------------------------------------------------------------------------
(* Samples.                                                                *)

LEMMA ChoiceIs ==
  ASSUME NEW i \in Int, NEW n \in Int, NEW k, NEW U \in kSubset(k, i .. n - 1)
  PROVE  IsFiniteSet(U) /\ Cardinality(U) = k /\ k \in Nat /\ U \subseteq i .. n - 1 /\ U \subseteq Int
<1>1. U \in SUBSET (i .. n - 1) /\ Cardinality(U) = k
  BY DEF kSubset
<1>2. IsFiniteSet(i .. n - 1)
  BY FS_Interval
<1>3. IsFiniteSet(U)
  BY <1>1, <1>2, FS_Subset
<1>4. Cardinality(U) \in Nat
  BY <1>3, FS_CardinalityType
<1>5. QED
  BY <1>1, <1>3, <1>4

(* All the numbers from i on are chosen, if there are only so many.        *)
LEMMA ChosenAll ==
  ASSUME NEW i \in Int, NEW n \in Int, i < n, NEW k \in Int, n - i - 1 < k,
         NEW U \in kSubset(k, i .. n - 1)
  PROVE  i \in U
<1>1. SUFFICES ASSUME i \notin U PROVE FALSE
  OBVIOUS
<1>2. IsFiniteSet(U) /\ Cardinality(U) = k /\ k \in Nat /\ U \subseteq i .. n - 1 /\ U \subseteq Int
  BY ChoiceIs
<1>3. U \in SUBSET (i + 1 .. n - 1)
  BY <1>1, <1>2
<1>4. IsFiniteSet(i + 1 .. n - 1) /\ Cardinality(i + 1 .. n - 1) = n - i - 1
  <2>1. i + 1 \in Int /\ n - 1 \in Int
    OBVIOUS
  <2>2. /\ IsFiniteSet(i + 1 .. n - 1)
        /\ Cardinality(i + 1 .. n - 1) = IF i + 1 > n - 1 THEN 0 ELSE n - 1 - (i + 1) + 1
    BY <2>1, FS_Interval
  <2>3. QED
    BY <2>2
<1>5. Cardinality(U) <= Cardinality(i + 1 .. n - 1)
  BY <1>3, <1>4, FS_Subset
<1>6. QED
  BY <1>2, <1>4, <1>5

(* A number that is chosen first, and the others.                          *)
LEMMA ChoiceFirst ==
  ASSUME NEW i \in Int, NEW n \in Int, NEW k \in Int, NEW U \in kSubset(k, i .. n - 1)
  PROVE  /\ i \in U => U \ {i} \in kSubset(k - 1, i + 1 .. n - 1) /\ U = {i} \cup (U \ {i})
         /\ i \notin U => U \in kSubset(k, i + 1 .. n - 1)
<1>1. IsFiniteSet(U) /\ Cardinality(U) = k /\ k \in Nat /\ U \subseteq i .. n - 1 /\ U \subseteq Int
  BY ChoiceIs
<1>2. U \ {i} \subseteq i + 1 .. n - 1
  BY <1>1
<1>3. Cardinality(U \ {i}) = IF i \in U THEN k - 1 ELSE k
  BY <1>1, FS_RemoveElement
<1>4. i \notin U => U \ {i} = U
  OBVIOUS
<1> DEFINE V == U \ {i}
<1>5. i \in U => U = {i} \cup V
  OBVIOUS
<1>6. V \subseteq i + 1 .. n - 1 /\ Cardinality(V) = (IF i \in U THEN k - 1 ELSE k)
      /\ (i \notin U => V = U)
  BY <1>2, <1>3, <1>4
<1> HIDE DEF V
<1>7. i \in U => V \in kSubset(k - 1, i + 1 .. n - 1)
  BY <1>6 DEF kSubset
<1>8. i \notin U => U \in kSubset(k, i + 1 .. n - 1)
  BY <1>6 DEF kSubset
<1>9. QED
  BY <1>5, <1>7, <1>8 DEF V

LEMMA NoChoice ==
  ASSUME NEW i \in Int, NEW n \in Int, NEW U \in kSubset(0, i .. n - 1)
  PROVE  U = {}
<1> DEFINE k == 0
<1>1. U \in kSubset(k, i .. n - 1)
  OBVIOUS
<1> HIDE DEF k
<1>2. IsFiniteSet(U) /\ Cardinality(U) = k /\ k \in Nat /\ U \subseteq i .. n - 1 /\ U \subseteq Int
  BY <1>1, ChoiceIs
<1>3. QED
  BY <1>2, FS_EmptySet DEF k

(* What is chosen is what the numbers are that were written.               *)
LEMMA ChosenIs ==
  ASSUME NEW s \in Seq(Items)
  PROVE  Chosen(s) = {Numbers(s)[k] : k \in DOMAIN Numbers(s)} /\ Chosen(s) \subseteq Nat
<1>1. /\ DOMAIN Numbers(s) = DOMAIN s /\ \A k \in DOMAIN s : Numbers(s)[k] = s[k][2]
      /\ \A k \in DOMAIN s : s[k][2] \in Nat
  <2>1. \A k \in DOMAIN s : s[k] \in Items
    OBVIOUS
  <2>2. \A x \in Items : x[2] \in Nat
    BY DEF Items
  <2>3. QED
    BY <2>1, <2>2 DEF Numbers
<1>2. QED
  BY <1>1 DEF Chosen

LEMMA ChosenFirst ==
  ASSUME NEW i \in Nat, NEW s \in Seq(Items), InOrder(Chosen(s), Numbers(s)),
         \A y \in Chosen(s) : i < y, NEW t, t = <<<<1, i>>>> \o s
  PROVE  /\ t \in Seq(Items) /\ Len(t) = Len(s) + 1 /\ Chosen(t) = {i} \cup Chosen(s)
         /\ InOrder(Chosen(t), Numbers(t))
<1> DEFINE x == <<1, i>>
<1>1. x \in Items /\ x[2] = i /\ i \in Int
  BY DEF Items
<1> HIDE DEF x
<1>2. t = <<x>> \o s
  BY DEF x
<1>3. Numbers(<<x>> \o s) = <<x[2]>> \o Numbers(s) /\ Numbers(s) \in Seq(Int)
  BY <1>1, NumbersFirst
<1>4. InOrder({i} \cup Chosen(s), <<i>> \o Numbers(s))
  BY <1>1, <1>3, InOrderFirst
<1>5. t \in Seq(Items) /\ Len(t) = Len(s) + 1
  <2> HIDE DEF Items
  <2> DEFINE Set == Items
  <2>1. x \in Set /\ s \in Seq(Set)
    BY <1>1
  <2> HIDE DEF Set
  <2>2. <<x>> \o s \in Seq(Set) /\ Len(<<x>> \o s) = Len(s) + 1
    BY <2>1
  <2>3. QED
    BY <1>2, <2>2 DEF Set
<1>6. Chosen(t) = {i} \cup Chosen(s)
  <2>1. Chosen(t) = {Numbers(t)[k] : k \in DOMAIN Numbers(t)}
    BY <1>5, ChosenIs
  <2>2. QED
    BY <1>1, <1>2, <1>3, <1>4, <2>1 DEF InOrder
<1>7. QED
  BY <1>1, <1>2, <1>3, <1>4, <1>5, <1>6

LEMMA ChosenNone ==
  /\ <<>> \in Seq(Items) /\ Len(<<>>) = 0 /\ Chosen(<<>>) = {}
  /\ InOrder(Chosen(<<>>), Numbers(<<>>))
BY DEF Chosen, InOrder, Numbers

(* The numbers of different elements are as many as were written.          *)
Different(s) == \A j, k \in DOMAIN s : j # k => s[j][2] # s[k][2]

LEMMA DifferentMany ==
  ASSUME NEW s \in Seq(Items), Different(s)
  PROVE  IsFiniteSet(Chosen(s)) /\ Cardinality(Chosen(s)) = Len(s)
<1> DEFINE T == Chosen(s)
           len == Len(s)
           f == [k \in 1 .. len |-> s[k][2]]
<1>1. len \in Nat /\ DOMAIN s = 1 .. len
  OBVIOUS
<1>2. T = {s[k][2] : k \in 1 .. len}
  BY <1>1 DEF Chosen
<1>3. \A j, k \in 1 .. len : j # k => s[j][2] # s[k][2]
  BY <1>1 DEF Different
<1> HIDE DEF len, T
<1>4. f \in Bijection(1 .. len, T)
  <2>1. f \in [1 .. len -> T] /\ \A k \in 1 .. len : f[k] = s[k][2]
    BY <1>2
  <2> HIDE DEF f
  <2>2. \A j, k \in 1 .. len : f[j] = f[k] => j = k
    BY <1>3, <2>1
  <2>3. \A y \in T : \E k \in 1 .. len : f[k] = y
    BY <1>2, <2>1
  <2>4. QED
    BY <2>1, <2>2, <2>3 DEF Bijection, Injection, Surjection, IsInjective
<1>5. IsFiniteSet(1 .. len) /\ Cardinality(1 .. len) = len
  BY <1>1, FS_Interval
<1>6. ExistsBijection(1 .. len, T)
  BY <1>4 DEF ExistsBijection
<1>7. IsFiniteSet(T) /\ Cardinality(T) = Cardinality(1 .. len)
  BY <1>5, <1>6, FS_Bijection
<1>8. QED
  BY <1>5, <1>7 DEF T, len

(* One step of the sample of a range whose length is known: what may be    *)
(* written from i on when so many are wanted, if F says it from i + 1 on.  *)
Drawn(n, i, wanted, F) ==
  IF i = n \/ wanted = 0 THEN {<<>>}
  ELSE UNION {IF drawn < wanted THEN {<<<<1, i>>>> \o s : s \in F[wanted - 1]}
                                ELSE F[wanted] : drawn \in 0 .. n - i - 1}

TakenOrNot(n, i, wanted, F) ==
  {<<<<1, i>>>> \o s : s \in F[wanted - 1]} \cup (IF wanted <= n - i - 1 THEN F[wanted] ELSE {})

(* The outcomes F are the samples of so many of the elements from i on,    *)
(* in their order.                                                         *)
Samples(n, i, wanted, F) ==
  /\ \A s \in F : /\ s \in Seq(Items) /\ Len(s) = wanted /\ Chosen(s) \subseteq i .. n - 1
                  /\ InOrder(Chosen(s), Numbers(s))
  /\ \A U \in kSubset(wanted, i .. n - 1) : \E s \in F : Chosen(s) = U

LEMMA DrawnIs ==
  ASSUME NEW n \in Nat, NEW i \in 0 .. n - 1, NEW wanted \in Nat, wanted # 0, NEW F
  PROVE  Drawn(n, i, wanted, F) = TakenOrNot(n, i, wanted, F)
<1> DEFINE more == {<<<<1, i>>>> \o s : s \in F[wanted - 1]}
           rest == F[wanted]
<1>1. Drawn(n, i, wanted, F) = UNION {IF drawn < wanted THEN more ELSE rest : drawn \in 0 .. n - i - 1}
  <2>1. i # n
    OBVIOUS
  <2>2. QED
    BY <2>1 DEF Drawn
<1>2. 0 \in 0 .. n - i - 1 /\ 0 < wanted
  OBVIOUS
<1>3. wanted <= n - i - 1 => wanted \in 0 .. n - i - 1 /\ ~(wanted < wanted)
  OBVIOUS
<1>4. \A drawn \in 0 .. n - i - 1 : ~(drawn < wanted) => wanted <= n - i - 1
  OBVIOUS
<1> HIDE DEF more, rest
<1>5. UNION {IF drawn < wanted THEN more ELSE rest : drawn \in 0 .. n - i - 1}
        = more \cup (IF wanted <= n - i - 1 THEN rest ELSE {})
  BY <1>2, <1>3, <1>4
<1>6. QED
  BY <1>1, <1>5 DEF more, rest, TakenOrNot

LEMMA SamplesNone ==
  ASSUME NEW n \in Nat, NEW i \in 0 .. n
  PROVE  Samples(n, i, 0, {<<>>})
<1>1. \A U \in kSubset(0, i .. n - 1) : U = {}
  BY NoChoice
<1>2. QED
  BY <1>1, ChosenNone DEF Samples

LEMMA SamplesStep ==
  ASSUME NEW n \in Nat, NEW i \in 0 .. n - 1, NEW wanted \in 0 .. n - i, NEW F,
         \A k \in 0 .. n - (i + 1) : Samples(n, i + 1, k, F[k])
  PROVE  Samples(n, i, wanted, Drawn(n, i, wanted, F))
<1>1. CASE wanted = 0
  <2>1. Drawn(n, i, wanted, F) = {<<>>} /\ i \in 0 .. n
    BY <1>1 DEF Drawn
  <2>2. QED
    BY <1>1, <2>1, SamplesNone
<1>2. CASE wanted # 0
  <2> DEFINE G == Drawn(n, i, wanted, F)
             few == wanted <= n - i - 1
  <2>1. G = {<<<<1, i>>>> \o s : s \in F[wanted - 1]} \cup (IF few THEN F[wanted] ELSE {})
    <3>1. wanted \in Nat
      OBVIOUS
    <3>2. G = TakenOrNot(n, i, wanted, F)
      BY <1>2, <3>1, DrawnIs
    <3>3. QED
      BY <3>2 DEF TakenOrNot
  <2>2. Samples(n, i + 1, wanted - 1, F[wanted - 1])
    <3>1. wanted - 1 \in 0 .. n - (i + 1)
      BY <1>2
    <3>2. QED
      BY <3>1
  <2>3. few => Samples(n, i + 1, wanted, F[wanted])
    <3>1. few => wanted \in 0 .. n - (i + 1)
      OBVIOUS
    <3>2. QED
      BY <3>1
  <2>4. /\ i \in Nat /\ i \in Int /\ n \in Int /\ wanted \in Int /\ wanted \in Nat /\ wanted - 1 + 1 = wanted
        /\ \A V : V \subseteq i + 1 .. n - 1 => V \subseteq i .. n - 1 /\ \A y \in V : i < y
        /\ i \in i .. n - 1 /\ i < n /\ (~few => n - i - 1 < wanted)
    OBVIOUS
  <2> HIDE DEF G, few
  <2>5. ASSUME NEW s \in F[wanted - 1]
        PROVE  /\ <<<<1, i>>>> \o s \in Seq(Items) /\ Len(<<<<1, i>>>> \o s) = wanted
               /\ Chosen(<<<<1, i>>>> \o s) = {i} \cup Chosen(s)
               /\ Chosen(<<<<1, i>>>> \o s) \subseteq i .. n - 1
               /\ InOrder(Chosen(<<<<1, i>>>> \o s), Numbers(<<<<1, i>>>> \o s))
    <3>1. /\ s \in Seq(Items) /\ Len(s) = wanted - 1 /\ Chosen(s) \subseteq i + 1 .. n - 1
          /\ InOrder(Chosen(s), Numbers(s))
      BY <2>2, <2>5 DEF Samples
    <3> DEFINE t == <<<<1, i>>>> \o s
    <3>2. \A y \in Chosen(s) : i < y
      BY <2>4, <3>1
    <3> HIDE DEF t
    <3>3. t = <<<<1, i>>>> \o s
      BY DEF t
    <3>4. /\ t \in Seq(Items) /\ Len(t) = Len(s) + 1 /\ Chosen(t) = {i} \cup Chosen(s)
          /\ InOrder(Chosen(t), Numbers(t))
      BY <2>4, <3>1, <3>2, <3>3, ChosenFirst
    <3>5. Len(t) = wanted /\ Chosen(t) \subseteq i .. n - 1
      BY <2>4, <3>1, <3>4
    <3>6. QED
      BY <3>4, <3>5 DEF t
  <2>6. ASSUME NEW s \in G
        PROVE  /\ s \in Seq(Items) /\ Len(s) = wanted /\ Chosen(s) \subseteq i .. n - 1
               /\ InOrder(Chosen(s), Numbers(s))
    <3>1. CASE \E r \in F[wanted - 1] : s = <<<<1, i>>>> \o r
      BY <2>5, <3>1
    <3>2. CASE few /\ s \in F[wanted]
      <4>1. /\ s \in Seq(Items) /\ Len(s) = wanted /\ Chosen(s) \subseteq i + 1 .. n - 1
            /\ InOrder(Chosen(s), Numbers(s))
        BY <2>3, <3>2 DEF Samples
      <4>2. QED
        BY <2>4, <4>1
    <3>3. QED
      BY <2>1, <2>6, <3>1, <3>2
  <2>7. ASSUME NEW U \in kSubset(wanted, i .. n - 1)
        PROVE  \E s \in G : Chosen(s) = U
    <3>1. CASE i \in U
      <4> DEFINE V == U \ {i}
      <4>1. V \in kSubset(wanted - 1, i + 1 .. n - 1) /\ U = {i} \cup V
        BY <2>4, <3>1, ChoiceFirst
      <4>2. PICK s \in F[wanted - 1] : Chosen(s) = V
        BY <2>2, <4>1 DEF Samples
      <4> HIDE DEF V
      <4>3. <<<<1, i>>>> \o s \in G /\ Chosen(<<<<1, i>>>> \o s) = U
        BY <2>1, <2>5, <4>1, <4>2
      <4>4. QED
        BY <4>3
    <3>2. CASE i \notin U
      <4>1. few
        BY <2>4, <3>2, ChosenAll
      <4>2. U \in kSubset(wanted, i + 1 .. n - 1)
        BY <2>4, <3>2, ChoiceFirst
      <4>3. PICK s \in F[wanted] : Chosen(s) = U
        BY <2>3, <4>1, <4>2 DEF Samples
      <4>4. s \in G
        BY <2>1, <4>1
      <4>5. QED
        BY <4>3, <4>4
    <3>3. QED
      BY <3>1, <3>2
  <2>8. QED
    BY <2>6, <2>7 DEF Samples, G
<1>3. QED
  BY <1>1, <1>2

LEMMA DrawnType ==
  ASSUME NEW n \in Nat, NEW i \in 0 .. n, NEW F \in [0 .. n -> SUBSET Seq(Items)], NEW w \in 0 .. n
  PROVE  Drawn(n, i, w, F) \in SUBSET Seq(Items)
<1> DEFINE Set == Items
<1>1. \A s \in Seq(Set) : <<<<1, i>>>> \o s \in Seq(Set)
  <2>1. <<1, i>> \in Set
    BY DEF Items
  <2> HIDE DEF Set
  <2>2. QED
    BY <2>1
<1>2. <<>> \in Seq(Set)
  OBVIOUS
<1>3. F \in [0 .. n -> SUBSET Seq(Set)]
  OBVIOUS
<1> HIDE DEF Set
<1>4. CASE i = n \/ w = 0
  BY <1>2, <1>4 DEF Drawn, Set
<1>5. CASE ~(i = n \/ w = 0)
  <2>1. w - 1 \in 0 .. n /\ i \in 0 .. n - 1 /\ w \in Nat /\ w # 0
    BY <1>5
  <2>2. F[w - 1] \in SUBSET Seq(Set) /\ F[w] \in SUBSET Seq(Set)
    BY <1>3, <2>1
  <2>3. Drawn(n, i, w, F) = TakenOrNot(n, i, w, F)
    BY <2>1, DrawnIs
  <2>4. TakenOrNot(n, i, w, F) \in SUBSET Seq(Set)
    BY <1>1, <2>2 DEF TakenOrNot
  <2>5. QED
    BY <2>3, <2>4 DEF Set
<1>6. QED
  BY <1>4, <1>5

LEMMA SampleSized ==
  ASSUME NEW n \in Nat, NEW count \in Nat, NEW wanted, wanted = IF count > n THEN n ELSE count
  PROVE  Samples(n, 0, wanted, C!sample_sized(n, count))
<1> DEFINE D == 0 .. n
           Vals == [D -> SUBSET Seq(Items)]
           body(i, f) == [w \in D |-> Drawn(n, i, w, f[i + 1])]
           left == [i \in D |-> n - i]
           done == {n}
           base == [i \in D |-> [w \in D |-> {<<>>}]]
           next == [i \in D |-> IF i = n THEN i ELSE i + 1]
           step == [i \in D |-> [F \in Vals |-> [w \in D |-> Drawn(n, i, w, F)]]]
           Good == {p \in D \X Vals : \A k \in 0 .. n - p[1] : Samples(n, p[1], k, p[2][k])}
           from[i \in 0 .. n] ==
             [w \in 0 .. n |->
                IF i = n \/ w = 0 THEN {<<>>}
                ELSE UNION {IF drawn < w THEN {<<<<1, i>>>> \o s : s \in from[i + 1][w - 1]}
                                         ELSE from[i + 1][w] : drawn \in 0 .. n - i - 1}]
<1>1. C!sample_sized(n, count) = from[0][wanted]
  BY DEF C!sample_sized
<1>2. from = CHOOSE f : f = [i \in D |-> body(i, f)]
  BY DEF Drawn
<1> HIDE DEF from
<1>3. /\ left \in [D -> Nat] /\ next \in [D -> D]
      /\ \A i \in D : i # n => left[next[i]] < left[i] /\ next[i] = i + 1 /\ i \in 0 .. n - 1
  <2>1. \A i \in D : n - i \in Nat /\ (IF i = n THEN i ELSE i + 1) \in D
    OBVIOUS
  <2>2. left \in [D -> Nat] /\ next \in [D -> D]
    <3> HIDE DEF D
    <3>1. QED
      BY <2>1
  <2>3. \A i \in D : i # n => left[next[i]] < left[i] /\ next[i] = i + 1 /\ i \in 0 .. n - 1
    OBVIOUS
  <2>4. QED
    BY <2>2, <2>3
<1>4. base \in [D -> Vals] /\ step \in [D -> [Vals -> Vals]]
  <2>1. {<<>>} \in SUBSET Seq(Items)
    BY ChosenNone
  <2>2. \A i \in D : \A F \in Vals : \A w \in D : Drawn(n, i, w, F) \in SUBSET Seq(Items)
    BY DrawnType
  <2> DEFINE Outs == SUBSET Seq(Items)
  <2>3. Vals = [D -> Outs]
    OBVIOUS
  <2> HIDE DEF D, Outs
  <2>4. base \in [D -> Vals]
    BY <2>1 DEF Outs
  <2>5. \A i \in D : \A F \in Vals : [w \in D |-> Drawn(n, i, w, F)] \in Vals
    BY <2>2, <2>3 DEF Outs
  <2> HIDE DEF Vals
  <2>6. step \in [D -> [Vals -> Vals]]
    BY <2>5
  <2>7. QED
    BY <2>4, <2>6
<1>5. \A i \in D : \A F : <<i, F>> \in Good <=> F \in Vals /\ \A k \in 0 .. n - i : Samples(n, i, k, F[k])
  OBVIOUS
<1>6. /\ \A i \in D : base[i] = [w \in D |-> {<<>>}]
      /\ \A i \in D : \A F \in Vals : step[i][F] = [w \in D |-> Drawn(n, i, w, F)]
      /\ \A F : \A w : Drawn(n, n, w, F) = {<<>>}
      /\ n \in D /\ 0 \in D
  BY DEF Drawn
<1>7. KeepsGood(Good, D, Vals, done, base, next, step)
  <2>1. <<n, base[n]>> \in Good
    <3>1. \A k \in 0 .. n - n : Samples(n, n, k, base[n][k])
      <4>1. \A k \in 0 .. n - n : k = 0 /\ k \in D /\ base[n][k] = {<<>>}
        BY <1>6
      <4>2. Samples(n, n, 0, {<<>>})
        BY <1>6, SamplesNone
      <4>3. QED
        BY <4>1, <4>2
    <3> HIDE DEF D, Vals, Good, base
    <3>2. base[n] \in Vals
      BY <1>4, <1>6
    <3>3. QED
      BY <1>5, <1>6, <3>1, <3>2
  <2>2. ASSUME NEW i \in D, NEW F \in Vals, i \notin done, <<next[i], F>> \in Good
        PROVE  <<i, step[i][F]>> \in Good
    <3>1. i # n /\ next[i] = i + 1 /\ i \in 0 .. n - 1 /\ next[i] \in D
      BY <1>3, <2>2
    <3>2. \A k \in 0 .. n - (i + 1) : Samples(n, i + 1, k, F[k])
      BY <1>5, <2>2, <3>1
    <3>3. ASSUME NEW k \in 0 .. n - i PROVE Samples(n, i, k, step[i][F][k])
      <4>1. k \in D
        BY <3>1
      <4>2. step[i][F][k] = Drawn(n, i, k, F)
        BY <1>6, <4>1
      <4>3. Samples(n, i, k, Drawn(n, i, k, F))
        BY <3>1, <3>2, SamplesStep
      <4>4. QED
        BY <4>2, <4>3
    <3> HIDE DEF D, Vals, Good, step
    <3>4. step[i][F] \in Vals
      BY <1>4
    <3>5. QED
      BY <1>5, <3>3, <3>4
  <2> HIDE DEF D, Vals, Good, step, base, next
  <2>3. QED
    BY <2>1, <2>2 DEF KeepsGood
<1>8. LoopsGood(Good, D, Vals, done, base, next, step)
  <2>1. \A i \in D : i \notin done => left[next[i]] < left[i]
    BY <1>3
  <2>2. Vals # {}
    BY <1>4, <1>6
  <2> HIDE DEF D, Vals, Good, step, base, next, left, done
  <2>3. QED
    BY <1>3, <1>4, <1>7, <2>1, <2>2, Looping
<1>9. \E f : f = [i \in D |-> body(i, f)]
  <2>1. PICK f \in [D -> Vals] : f = [i \in D |-> IF i \in done THEN base[i] ELSE step[i][f[next[i]]]]
    BY <1>8 DEF LoopsGood, IsLoop
  <2>2. ASSUME NEW i \in D PROVE (IF i \in done THEN base[i] ELSE step[i][f[next[i]]]) = body(i, f)
    <3>1. CASE i = n
      BY <1>6, <3>1
    <3>2. CASE i # n
      <4>1. next[i] = i + 1 /\ next[i] \in D
        BY <1>3, <3>2
      <4>2. f[i + 1] \in Vals
        BY <4>1
      <4> HIDE DEF D, Vals, step, next, base
      <4>3. step[i][f[i + 1]] = body(i, f)
        BY <1>6, <4>2
      <4> HIDE DEF body
      <4>4. i \notin done
        BY <3>2
      <4>5. QED
        BY <4>1, <4>3, <4>4
    <3>3. QED
      BY <3>1, <3>2
  <2> HIDE DEF done, base, step, next, body, D, Vals
  <2>3. QED
    BY <2>1, <2>2
<1>10. from = [i \in D |-> body(i, from)]
  <2> HIDE DEF body, D
  <2>1. QED
    BY <1>2, <1>9
<1>11. Loops(from, D, Vals, done, base, next, step)
  <2>1. ASSUME NEW i \in D
        PROVE  /\ i \in done => from[i] = base[i]
               /\ i \notin done /\ from[next[i]] \in Vals => from[i] = step[i][from[next[i]]]
    <3>1. from[i] = body(i, from)
      <4> HIDE DEF body
      <4>1. QED
        BY <1>10
    <3>2. CASE i = n
      BY <1>6, <3>1, <3>2
    <3>3. CASE i # n
      <4>1. next[i] = i + 1 /\ next[i] \in D
        BY <1>3, <3>3
      <4> HIDE DEF D, Vals, step, next, base
      <4>2. from[i + 1] \in Vals => step[i][from[i + 1]] = body(i, from)
        BY <1>6
      <4> HIDE DEF body
      <4>3. i \notin done
        BY <3>3
      <4>4. QED
        BY <3>1, <4>1, <4>2, <4>3
    <3>4. QED
      BY <3>2, <3>3
  <2> HIDE DEF D, Vals, done, base, next, step
  <2>2. QED
    BY <2>1 DEF Loops
<1>12. wanted \in 0 .. n
  OBVIOUS
<1>13. <<0, from[0]>> \in Good
  <2> HIDE DEF D, Vals, Good, done, base, next, step
  <2>1. QED
    BY <1>6, <1>8, <1>11 DEF LoopsGood
<1>14. Samples(n, 0, wanted, from[0][wanted])
  <2>1. wanted \in 0 .. n - 0
    BY <1>12
  <2> HIDE DEF D, Vals, Good
  <2>2. QED
    BY <1>5, <1>6, <1>13, <2>1
<1>15. QED
  BY <1>1, <1>14

(* An element that takes the place of another one.                         *)
PutAt(s, t, p, i) ==
  /\ t \in Seq(Items) /\ Len(t) = Len(s) /\ Chosen(t) = (Chosen(s) \ {s[p][2]}) \cup {i}
  /\ Different(t)

LEMMA ReplaceOne ==
  ASSUME NEW i \in Nat, NEW s \in Seq(Items), Different(s), Chosen(s) \subseteq 0 .. i - 1,
         NEW p \in 1 .. Len(s), NEW t, t = [s EXCEPT ![p] = <<1, i>>]
  PROVE  PutAt(s, t, p, i)
<1> DEFINE Set == Items
           x == <<1, i>>
           len == Len(s)
<1>1. x \in Set /\ s \in Seq(Set) /\ x[2] = i
  BY DEF Items
<1> HIDE DEF Set, x
<1>2. t = [s EXCEPT ![p] = x]
  BY DEF x
<1>3. /\ t \in Seq(Set) /\ Len(t) = len /\ len \in Nat /\ DOMAIN s = 1 .. len /\ DOMAIN t = 1 .. len
      /\ t[p] = x /\ \A q \in 1 .. len : q # p => t[q] = s[q]
  BY <1>1, <1>2
<1>4. \A q \in 1 .. len : s[q][2] # i /\ s[q][2] \in Chosen(s)
  <2>1. \A q \in 1 .. len : s[q][2] \in Chosen(s)
    BY <1>3 DEF Chosen
  <2>2. \A y \in Chosen(s) : y # i
    OBVIOUS
  <2>3. QED
    BY <2>1, <2>2
<1>5. Chosen(s) = {s[q][2] : q \in 1 .. len} /\ Chosen(t) = {t[q][2] : q \in 1 .. len}
  BY <1>3 DEF Chosen
<1>6. \A j, k \in 1 .. len : j # k => s[j][2] # s[k][2]
  BY <1>3 DEF Different
<1> HIDE DEF len
<1>7. t[p][2] = i /\ \A q \in 1 .. len : q # p => t[q][2] = s[q][2]
  BY <1>1, <1>3
<1>8. p \in 1 .. len
  BY DEF len
<1>9. Chosen(t) = (Chosen(s) \ {s[p][2]}) \cup {i}
  <2>1. ASSUME NEW y \in Chosen(t) PROVE y \in (Chosen(s) \ {s[p][2]}) \cup {i}
    <3>1. PICK q \in 1 .. len : y = t[q][2]
      BY <1>5
    <3>2. QED
      BY <1>4, <1>6, <1>7, <1>8, <3>1
  <2>2. ASSUME NEW y \in (Chosen(s) \ {s[p][2]}) \cup {i} PROVE y \in Chosen(t)
    <3>1. CASE y = i
      BY <1>5, <1>7, <1>8, <3>1
    <3>2. CASE y # i
      <4>1. PICK q \in 1 .. len : y = s[q][2]
        BY <1>5, <3>2
      <4>2. q # p
        BY <3>2, <4>1
      <4>3. QED
        BY <1>5, <1>7, <4>1, <4>2
    <3>3. QED
      BY <3>1, <3>2
  <2>3. QED
    BY <2>1, <2>2
<1>10. Different(t)
  <2>1. ASSUME NEW j \in 1 .. len, NEW k \in 1 .. len, j # k PROVE t[j][2] # t[k][2]
    BY <1>4, <1>6, <1>7, <2>1
  <2>2. QED
    BY <1>3, <2>1 DEF Different
<1>11. QED
  BY <1>3, <1>9, <1>10 DEF Set, len, PutAt

(* One step of the sample of a range whose length is not known: what may   *)
(* be there after i elements, if F says it for one less.                   *)
Replaced(count, i, F) ==
  IF i <= count THEN {C!copy(1, 0, i)}
  ELSE UNION {IF drawn < count THEN {[s EXCEPT ![drawn + 1] = <<1, i - 1>>] : s \in F}
                               ELSE F : drawn \in 0 .. i - 1}
Fewer(i, j) == IF j < i THEN j ELSE i

Reservoir(count, i, F) ==
  /\ \A s \in F : /\ s \in Seq(Items) /\ Len(s) = Fewer(i, count) /\ Chosen(s) \subseteq 0 .. i - 1
                  /\ Different(s)
  /\ \A U \in kSubset(Fewer(i, count), 0 .. i - 1) : \E s \in F : Chosen(s) = U

(* The first elements are all there.                                       *)
LEMMA ReservoirFirst ==
  ASSUME NEW count \in Nat, NEW i \in 0 .. count
  PROVE  Reservoir(count, i, {C!copy(1, 0, i)}) /\ C!copy(1, 0, i) \in Seq(Items)
<1> DEFINE s == C!copy(1, 0, i)
<1>1. s = [k \in 1 .. i |-> <<1, k - 1>>] /\ i \in Nat
  <2>1. \A k \in 1 .. i : 0 + k - 1 = k - 1
    OBVIOUS
  <2>2. i - 0 = i /\ i \in Nat
    OBVIOUS
  <2>3. QED
    BY <2>1, <2>2 DEF C!copy
<1>2. \A k \in 1 .. i : <<1, k - 1>> \in Items
  BY DEF Items
<1> HIDE DEF s
<1>3. s \in Seq(Items) /\ Len(s) = i /\ DOMAIN s = 1 .. i /\ \A k \in 1 .. i : s[k][2] = k - 1
  <2> DEFINE Set == Items
  <2>1. \A k \in 1 .. i : <<1, k - 1>> \in Set
    BY <1>2
  <2> HIDE DEF Set
  <2>2. s \in Seq(Set) /\ Len(s) = i /\ DOMAIN s = 1 .. i
    BY <1>1, <2>1
  <2>3. \A k \in 1 .. i : s[k][2] = k - 1
    BY <1>1
  <2>4. QED
    BY <2>2, <2>3 DEF Set
<1>4. Chosen(s) = 0 .. i - 1
  <2>1. Chosen(s) = {k - 1 : k \in 1 .. i}
    BY <1>3 DEF Chosen
  <2>2. \A y \in 0 .. i - 1 : y + 1 \in 1 .. i /\ y = (y + 1) - 1
    BY <1>1
  <2>3. \A k \in 1 .. i : k - 1 \in 0 .. i - 1
    BY <1>1
  <2>4. QED
    BY <2>1, <2>2, <2>3
<1>5. Different(s)
  <2>1. \A j, k \in 1 .. i : j # k => j - 1 # k - 1
    BY <1>1
  <2>2. QED
    BY <1>3, <2>1 DEF Different
<1>6. Fewer(i, count) = i
  BY DEF Fewer
<1>7. ASSUME NEW U \in kSubset(i, 0 .. i - 1) PROVE U = 0 .. i - 1
  <2>1. U \in SUBSET (0 .. i - 1) /\ Cardinality(U) = i
    BY <1>7 DEF kSubset
  <2>2. IsFiniteSet(0 .. i - 1) /\ Cardinality(0 .. i - 1) = i
    <3>1. 0 \in Int /\ i - 1 \in Int
      BY <1>1
    <3>2. IsFiniteSet(0 .. i - 1) /\ Cardinality(0 .. i - 1) = IF 0 > i - 1 THEN 0 ELSE i - 1 - 0 + 1
      BY <3>1, FS_Interval
    <3>3. QED
      BY <1>1, <3>2
  <2>3. Cardinality(0 .. i - 1) = Cardinality(U) => 0 .. i - 1 = U
    BY <2>1, <2>2, FS_Subset
  <2>4. QED
    BY <2>1, <2>2, <2>3
<1>8. QED
  BY <1>3, <1>4, <1>5, <1>6, <1>7 DEF Reservoir, s

InPlaceOf(t, count, i, F) == \E s \in F, p \in 1 .. count : t = [s EXCEPT ![p] = <<1, i - 1>>]

LEMMA ReplacedIs ==
  ASSUME NEW count \in Nat, count # 0, NEW i \in Nat, count < i, NEW F
  PROVE  \A t : t \in Replaced(count, i, F) <=> t \in F \/ InPlaceOf(t, count, i, F)
<1> DEFINE put(drawn) == {[s EXCEPT ![drawn + 1] = <<1, i - 1>>] : s \in F}
<1>1. Replaced(count, i, F) = UNION {IF drawn < count THEN put(drawn) ELSE F : drawn \in 0 .. i - 1}
  <2>1. ~(i <= count)
    OBVIOUS
  <2>2. QED
    BY <2>1 DEF Replaced
<1>2. /\ count \in 0 .. i - 1 /\ ~(count < count)
      /\ \A drawn \in 0 .. i - 1 : drawn < count => drawn + 1 \in 1 .. count
      /\ \A p \in 1 .. count : p - 1 \in 0 .. i - 1 /\ p - 1 < count /\ p - 1 + 1 = p
  OBVIOUS
<1>3. \A drawn, t : t \in put(drawn) <=> \E s \in F : t = [s EXCEPT ![drawn + 1] = <<1, i - 1>>]
  OBVIOUS
<1> HIDE DEF put
<1>4. ASSUME NEW t, t \in Replaced(count, i, F) PROVE t \in F \/ InPlaceOf(t, count, i, F)
  <2>1. PICK drawn \in 0 .. i - 1 : t \in IF drawn < count THEN put(drawn) ELSE F
    BY <1>1, <1>4
  <2>2. CASE drawn < count
    <3>1. PICK s \in F : t = [s EXCEPT ![drawn + 1] = <<1, i - 1>>]
      BY <1>3, <2>1, <2>2
    <3>2. QED
      BY <1>2, <2>2, <3>1 DEF InPlaceOf
  <2>3. QED
    BY <2>1, <2>2
<1>5. ASSUME NEW t, t \in F PROVE t \in Replaced(count, i, F)
  BY <1>1, <1>2, <1>5
<1>6. ASSUME NEW t, InPlaceOf(t, count, i, F) PROVE t \in Replaced(count, i, F)
  <2>1. PICK s \in F, p \in 1 .. count : t = [s EXCEPT ![p] = <<1, i - 1>>]
    BY <1>6 DEF InPlaceOf
  <2> DEFINE drawn == p - 1
  <2>2. drawn \in 0 .. i - 1 /\ drawn < count /\ drawn + 1 = p
    BY <1>2
  <2> HIDE DEF drawn
  <2>3. t \in put(drawn)
    BY <1>3, <2>1, <2>2
  <2>4. QED
    BY <1>1, <2>2, <2>3
<1>7. QED
  BY <1>4, <1>5, <1>6

LEMMA ReservoirStep ==
  ASSUME NEW count \in Nat, count # 0, NEW i \in Nat, count < i, NEW F, Reservoir(count, i - 1, F)
  PROVE  Reservoir(count, i, Replaced(count, i, F))
<1> DEFINE G == Replaced(count, i, F)
           j == i - 1
<1>1. /\ Fewer(i, count) = count /\ Fewer(j, count) = count /\ j \in Nat /\ count <= j
      /\ 0 .. i - 1 = 0 .. j /\ i \in Int /\ j \in Int /\ i = j + 1
  BY DEF Fewer
<1>2. \A t : t \in G <=> t \in F \/ InPlaceOf(t, count, i, F)
  BY ReplacedIs
<1> HIDE DEF G
<1>3. /\ \A s \in F : /\ s \in Seq(Items) /\ Len(s) = count /\ Chosen(s) \subseteq 0 .. j - 1
                      /\ Different(s)
      /\ \A U \in kSubset(count, 0 .. j - 1) : \E s \in F : Chosen(s) = U
  <2> HIDE DEF j
  <2>1. Reservoir(count, j, F)
    BY DEF j
  <2>2. QED
    BY <1>1, <2>1 DEF Reservoir
<1>4. 0 .. j - 1 \subseteq 0 .. j /\ j \in 0 .. j /\ j \notin 0 .. j - 1 /\ \A y \in 0 .. j : y # j => y \in 0 .. j - 1
  BY <1>1
<1>5. ASSUME NEW s \in F, NEW p \in 1 .. count, NEW t, t = [s EXCEPT ![p] = <<1, i - 1>>]
      PROVE  /\ t \in Seq(Items) /\ Len(t) = count /\ Chosen(t) = (Chosen(s) \ {s[p][2]}) \cup {j}
             /\ Different(t)
  <2>1. p \in 1 .. Len(s) /\ Different(s) /\ Chosen(s) \subseteq 0 .. j - 1 /\ s \in Seq(Items)
        /\ t = [s EXCEPT ![p] = <<1, j>>]
    BY <1>3, <1>5
  <2> HIDE DEF j
  <2>2. PutAt(s, t, p, j)
    BY <1>1, <2>1, ReplaceOne
  <2>3. QED
    BY <1>3, <2>2 DEF PutAt
<1>6. ASSUME NEW t \in G
      PROVE  /\ t \in Seq(Items) /\ Len(t) = count /\ Chosen(t) \subseteq 0 .. j
             /\ Different(t)
  <2> HIDE DEF j
  <2>1. CASE t \in F
    BY <1>3, <1>4, <2>1
  <2>2. CASE InPlaceOf(t, count, i, F)
    <3>1. PICK s \in F, p \in 1 .. count : t = [s EXCEPT ![p] = <<1, i - 1>>]
      BY <2>2 DEF InPlaceOf
    <3>2. /\ t \in Seq(Items) /\ Len(t) = count /\ Chosen(t) = (Chosen(s) \ {s[p][2]}) \cup {j}
          /\ Different(t)
      BY <1>5, <3>1
    <3>3. QED
      BY <1>3, <1>4, <3>2
  <2>3. QED
    BY <1>2, <2>1, <2>2
<1>7. ASSUME NEW U \in kSubset(count, 0 .. j)
      PROVE  \E t \in G : Chosen(t) = U
  <2> HIDE DEF j
  <2>1. U \in SUBSET (0 .. j) /\ Cardinality(U) = count
    BY <1>7 DEF kSubset
  <2>2. IsFiniteSet(U)
    <3>1. IsFiniteSet(0 .. j)
      BY <1>1, FS_Interval
    <3>2. QED
      BY <2>1, <3>1, FS_Subset
  <2>3. CASE j \notin U
    <3>1. U \in kSubset(count, 0 .. j - 1)
      BY <1>4, <2>1, <2>3 DEF kSubset
    <3>2. PICK s \in F : Chosen(s) = U
      BY <1>3, <3>1
    <3>3. QED
      BY <1>2, <3>2
  <2>4. CASE j \in U
    <3> DEFINE V == U \ {j}
    <3>1. IsFiniteSet(V) /\ Cardinality(V) = count - 1 /\ V \subseteq 0 .. j - 1
      <4>1. IsFiniteSet(V) /\ Cardinality(V) = IF j \in U THEN Cardinality(U) - 1 ELSE Cardinality(U)
        BY <2>2, FS_RemoveElement
      <4>2. QED
        BY <1>4, <2>1, <2>4, <4>1
    <3>2. PICK y \in 0 .. j - 1 : y \notin V
      <4>1. Cardinality(0 .. j - 1) = j
        <5>1. 0 \in Int /\ j - 1 \in Int
          BY <1>1
        <5>2. Cardinality(0 .. j - 1) = IF 0 > j - 1 THEN 0 ELSE j - 1 - 0 + 1
          BY <5>1, FS_Interval
        <5>3. QED
          BY <1>1, <5>2
      <4>2. V # 0 .. j - 1
        <5>1. V = 0 .. j - 1 => count - 1 = j
          BY <3>1, <4>1
        <5>2. count - 1 # j
          BY <1>1
        <5>3. QED
          BY <5>1, <5>2
      <4>3. QED
        BY <3>1, <4>2
    <3> DEFINE W == V \cup {y}
    <3>3. Cardinality(W) = count /\ W \subseteq 0 .. j - 1
      <4>1. Cardinality(W) = IF y \in V THEN Cardinality(V) ELSE Cardinality(V) + 1
        BY <3>1, FS_AddElement
      <4>2. QED
        BY <3>1, <3>2, <4>1
    <3>4. U = V \cup {j} /\ W \ {y} = V
      BY <2>4, <3>2
    <3> HIDE DEF V, W
    <3>5. PICK s \in F : Chosen(s) = W
      <4>1. W \in kSubset(count, 0 .. j - 1)
        BY <3>3 DEF kSubset
      <4>2. QED
        BY <1>3, <4>1
    <3>6. PICK p \in 1 .. count : s[p][2] = y
      <4>1. y \in Chosen(s)
        BY <3>5 DEF W
      <4>2. s \in Seq(Items) /\ Len(s) = count
        BY <1>3
      <4>3. DOMAIN s = 1 .. count
        BY <4>2
      <4>4. QED
        BY <4>1, <4>3 DEF Chosen
    <3> DEFINE t == [s EXCEPT ![p] = <<1, i - 1>>]
    <3>7. Chosen(t) = (Chosen(s) \ {s[p][2]}) \cup {j}
      BY <1>5
    <3>8. t \in G
      <4>1. InPlaceOf(t, count, i, F)
        BY DEF InPlaceOf
      <4> HIDE DEF t
      <4>2. QED
        BY <1>2, <4>1
    <3> HIDE DEF t
    <3>9. Chosen(t) = U
      BY <3>4, <3>5, <3>6, <3>7
    <3>10. QED
      BY <3>8, <3>9
  <2>5. QED
    BY <2>3, <2>4
<1>8. QED
  <2> HIDE DEF j
  <2>1. QED
    BY <1>1, <1>6, <1>7 DEF Reservoir, G

LEMMA ReplacedType ==
  ASSUME NEW count \in Nat, NEW i \in Nat, count < i, count # 0, NEW F \in SUBSET Seq(Items)
  PROVE  Replaced(count, i, F) \in SUBSET Seq(Items)
<1>1. \A t : t \in Replaced(count, i, F) <=> t \in F \/ InPlaceOf(t, count, i, F)
  BY ReplacedIs
<1>2. ASSUME NEW s \in F, NEW p \in 1 .. count, NEW t, t = [s EXCEPT ![p] = <<1, i - 1>>]
      PROVE  t \in Seq(Items)
  <2> DEFINE Set == Items
             x == <<1, i - 1>>
  <2>1. x \in Set /\ s \in Seq(Set)
    BY DEF Items
  <2> HIDE DEF Set, x
  <2>2. t = [s EXCEPT ![p] = x]
    BY <1>2 DEF x
  <2> DEFINE len == Len(s)
  <2>3. len \in Nat /\ s \in [1 .. len -> Set]
    BY <2>1
  <2> HIDE DEF len
  <2>4. t \in [1 .. len -> Set]
    BY <2>1, <2>2, <2>3
  <2>5. t \in Seq(Set)
    BY <2>3, <2>4
  <2>6. QED
    BY <2>5 DEF Set
<1>3. QED
  BY <1>1, <1>2 DEF InPlaceOf

LEMMA SampleUnsized ==
  ASSUME NEW n \in Nat, NEW count \in Nat
  PROVE  Reservoir(count, n, C!sample_unsized(n, count))
<1> DEFINE D == 0 .. n
           Vals == SUBSET Seq(Items)
           body(i, f) == Replaced(count, i, f[i - 1])
           left == [i \in D |-> i]
           done == {i \in D : i <= count}
           base == [i \in D |-> IF i \in done THEN {C!copy(1, 0, i)} ELSE {}]
           next == [i \in D |-> IF i = 0 THEN 0 ELSE i - 1]
           step == [i \in D |-> [F \in Vals |-> IF i \in done THEN {} ELSE Replaced(count, i, F)]]
           Good == {p \in D \X Vals : Reservoir(count, p[1], p[2])}
           after[i \in 0 .. n] ==
             IF i <= count THEN {C!copy(1, 0, i)}
             ELSE UNION {IF drawn < count THEN {[s EXCEPT ![drawn + 1] = <<1, i - 1>>] : s \in after[i - 1]}
                                          ELSE after[i - 1] : drawn \in 0 .. i - 1}
<1>1. C!sample_unsized(n, count) = IF count <= 0 THEN {<<>>} ELSE after[n]
  BY DEF C!sample_unsized
<1>2. after = CHOOSE f : f = [i \in D |-> body(i, f)]
  BY DEF Replaced
<1> HIDE DEF after
<1>3. CASE count = 0
  <2>1. C!copy(1, 0, 0) = <<>> /\ C!sample_unsized(n, count) = {<<>>}
    BY <1>1, <1>3 DEF C!copy
  <2>2. Chosen(<<>>) = {} /\ <<>> \in Seq(Items) /\ Len(<<>>) = 0 /\ Different(<<>>)
    BY ChosenNone DEF Different
  <2>3. Fewer(n, count) = 0
    BY <1>3 DEF Fewer
  <2>4. \A U \in kSubset(0, 0 .. n - 1) : U = {}
    BY NoChoice
  <2>5. QED
    BY <2>1, <2>2, <2>3, <2>4 DEF Reservoir
<1>4. CASE count # 0
  <2>1. /\ left \in [D -> Nat] /\ next \in [D -> D]
        /\ \A i \in D : i \notin done => /\ left[next[i]] < left[i] /\ next[i] = i - 1 /\ i \in Nat
                                         /\ count < i /\ ~(i <= count)
    <3>1. \A i \in D : i \in Nat /\ (IF i = 0 THEN 0 ELSE i - 1) \in D
      OBVIOUS
    <3>2. left \in [D -> Nat] /\ next \in [D -> D]
      <4> HIDE DEF D
      <4>1. QED
        BY <3>1
    <3>3. \A i \in D : i \notin done => /\ left[next[i]] < left[i] /\ next[i] = i - 1 /\ i \in Nat
                                        /\ count < i /\ ~(i <= count)
      OBVIOUS
    <3>4. QED
      BY <3>2, <3>3
  <2>2. \A i \in D : i \in done => i \in 0 .. count /\ i <= count
    OBVIOUS
  <2>3. \A i \in D : i \in done => base[i] = {C!copy(1, 0, i)} /\ Reservoir(count, i, base[i]) /\ base[i] \in Vals
    <3>1. \A i \in D : i \in done => base[i] = {C!copy(1, 0, i)}
      OBVIOUS
    <3> HIDE DEF base
    <3>2. \A i \in 0 .. count : Reservoir(count, i, {C!copy(1, 0, i)}) /\ C!copy(1, 0, i) \in Seq(Items)
      BY ReservoirFirst
    <3> HIDE DEF done, D
    <3>3. QED
      BY <2>2, <3>1, <3>2
  <2>4. \A i \in D : \A F \in Vals : i \notin done =>
          step[i][F] = Replaced(count, i, F) /\ Replaced(count, i, F) \in Vals
    <3>1. \A i \in D : \A F \in Vals : i \notin done => Replaced(count, i, F) \in Vals
      BY <1>4, <2>1, ReplacedType
    <3> HIDE DEF Vals, D, done
    <3>2. QED
      BY <3>1
  <2>5. base \in [D -> Vals] /\ step \in [D -> [Vals -> Vals]]
    <3>1. {} \in Vals
      OBVIOUS
    <3> HIDE DEF Vals, D, done
    <3>2. base \in [D -> Vals]
      <4>1. \A i \in D : (IF i \in done THEN {C!copy(1, 0, i)} ELSE {}) \in Vals
        BY <2>3, <3>1
      <4>2. QED
        BY <4>1
    <3>3. step \in [D -> [Vals -> Vals]]
      <4>1. \A i \in D : \A F \in Vals : (IF i \in done THEN {} ELSE Replaced(count, i, F)) \in Vals
        BY <2>4, <3>1
      <4>2. QED
        BY <4>1
    <3>4. QED
      BY <3>2, <3>3
  <2>6. \A i \in D : \A F : <<i, F>> \in Good <=> F \in Vals /\ Reservoir(count, i, F)
    OBVIOUS
  <2>7. n \in D
    OBVIOUS
  <2>8. KeepsGood(Good, D, Vals, done, base, next, step)
    <3>1. ASSUME NEW i \in D, i \in done PROVE <<i, base[i]>> \in Good
      <4> HIDE DEF Good, D, Vals, done, base
      <4>1. QED
        BY <2>3, <2>6, <3>1
    <3>2. ASSUME NEW i \in D, NEW F \in Vals, i \notin done, <<next[i], F>> \in Good
          PROVE  <<i, step[i][F]>> \in Good
      <4>1. next[i] = i - 1 /\ next[i] \in D /\ i \in Nat /\ count < i
        BY <2>1, <3>2
      <4> HIDE DEF Good, D, Vals, done, step, next
      <4>2. Reservoir(count, i - 1, F)
        BY <2>6, <3>2, <4>1
      <4>3. Reservoir(count, i, Replaced(count, i, F))
        BY <1>4, <4>1, <4>2, ReservoirStep
      <4>4. QED
        BY <2>4, <2>6, <3>2, <4>3
    <3> HIDE DEF Good, D, Vals, done, step, next, base
    <3>3. QED
      BY <3>1, <3>2 DEF KeepsGood
  <2>9. LoopsGood(Good, D, Vals, done, base, next, step)
    <3>1. Vals # {}
      BY ChosenNone
    <3>2. \A i \in D : i \notin done => left[next[i]] < left[i]
      BY <2>1
    <3> HIDE DEF Good, D, Vals, done, step, next, base, left
    <3>3. QED
      BY <2>1, <2>5, <2>8, <3>1, <3>2, Looping
  <2>10. \A i \in D : \A f : i \in done => base[i] = body(i, f)
    BY <2>2, <2>3 DEF Replaced
  <2>11. \E f : f = [i \in D |-> body(i, f)]
    <3>1. PICK f \in [D -> Vals] : f = [i \in D |-> IF i \in done THEN base[i] ELSE step[i][f[next[i]]]]
      BY <2>9 DEF LoopsGood, IsLoop
    <3>2. ASSUME NEW i \in D PROVE (IF i \in done THEN base[i] ELSE step[i][f[next[i]]]) = body(i, f)
      <4>1. CASE i \in done
        <5> HIDE DEF body, base, done, step, next
        <5>1. QED
          BY <2>10, <4>1
      <4>2. CASE i \notin done
        <5>1. next[i] = i - 1 /\ next[i] \in D
          BY <2>1, <4>2
        <5> HIDE DEF D, Vals, step, next, base, done
        <5>2. f[i - 1] \in Vals
          BY <5>1
        <5>3. step[i][f[i - 1]] = body(i, f)
          BY <2>4, <4>2, <5>2
        <5> HIDE DEF body
        <5>4. QED
          BY <4>2, <5>1, <5>3
      <4>3. QED
        BY <4>1, <4>2
    <3> HIDE DEF done, base, step, next, body, D, Vals
    <3>3. QED
      BY <3>1, <3>2
  <2>12. after = [i \in D |-> body(i, after)]
    <3> HIDE DEF body, D
    <3>1. QED
      BY <1>2, <2>11
  <2>13. Loops(after, D, Vals, done, base, next, step)
    <3>1. ASSUME NEW i \in D
          PROVE  /\ i \in done => after[i] = base[i]
                 /\ i \notin done /\ after[next[i]] \in Vals => after[i] = step[i][after[next[i]]]
      <4>1. after[i] = body(i, after)
        <5> HIDE DEF body, D
        <5>1. QED
          BY <2>12
      <4>2. CASE i \in done
        <5> HIDE DEF body, base, done, step, next
        <5>1. QED
          BY <2>10, <4>1, <4>2
      <4>3. CASE i \notin done
        <5>1. next[i] = i - 1
          BY <2>1, <4>3
        <5> HIDE DEF D, Vals, step, next, base, done
        <5>2. after[i - 1] \in Vals => step[i][after[i - 1]] = body(i, after)
          BY <2>4, <4>3
        <5> HIDE DEF body
        <5>3. QED
          BY <4>1, <4>3, <5>1, <5>2
      <4>4. QED
        BY <4>2, <4>3
    <3> HIDE DEF D, Vals, done, base, next, step
    <3>2. QED
      BY <3>1 DEF Loops
  <2>14. Reservoir(count, n, after[n])
    <3> HIDE DEF D, Vals, Good, done, base, next, step
    <3>1. <<n, after[n]>> \in Good
      BY <2>7, <2>9, <2>13 DEF LoopsGood
    <3>2. QED
      BY <2>6, <2>7, <3>1
  <2>15. QED
    BY <1>1, <1>4, <2>14
<1>5. QED
  BY <1>3, <1>4

(* What the answers to the calls of sample are.                            *)
Sampled(n, wanted, outs) ==
  /\ {Chosen(out) : out \in outs} = {T \in SUBSET (0 .. n - 1) : Cardinality(T) = wanted}
  /\ \A out \in outs : Len(out) = wanted
Rising(out) == \A i, j \in DOMAIN out : i < j => out[i][2] < out[j][2]

LEMMA InOrderRising ==
  ASSUME NEW s \in Seq(Items), NEW T, InOrder(T, Numbers(s))
  PROVE  Rising(s) /\ Different(s) /\ Chosen(s) = T
<1>1. /\ DOMAIN Numbers(s) = DOMAIN s /\ \A k \in DOMAIN s : Numbers(s)[k] = s[k][2] /\ k \in Int
  BY DEF Numbers
<1>2. Chosen(s) = T
  BY ChosenIs DEF InOrder
<1>3. \A j, k \in DOMAIN s : j < k => s[j][2] < s[k][2]
  BY <1>1 DEF InOrder
<1>4. \A k \in DOMAIN s : s[k][2] \in Int
  <2>1. \A k \in DOMAIN s : s[k] \in Items
    OBVIOUS
  <2>2. \A x \in Items : x[2] \in Int
    BY DEF Items
  <2>3. QED
    BY <2>1, <2>2
<1>5. Different(s)
  <2>1. ASSUME NEW j \in DOMAIN s, NEW k \in DOMAIN s, j # k PROVE s[j][2] # s[k][2]
    <3>1. j < k \/ k < j
      BY <1>1, <2>1
    <3>2. s[j][2] < s[k][2] \/ s[k][2] < s[j][2]
      BY <1>3, <3>1
    <3>3. QED
      BY <1>4, <3>2
  <2>2. QED
    BY <2>1 DEF Different
<1>6. QED
  BY <1>2, <1>3, <1>5 DEF Rising

LEMMA SampledIs ==
  ASSUME NEW n \in Nat, NEW wanted, NEW outs,
         \A s \in outs : /\ s \in Seq(Items) /\ Len(s) = wanted /\ Chosen(s) \subseteq 0 .. n - 1
                         /\ Different(s),
         \A U \in kSubset(wanted, 0 .. n - 1) : \E s \in outs : Chosen(s) = U
  PROVE  Sampled(n, wanted, outs)
<1>1. kSubset(wanted, 0 .. n - 1) = {T \in SUBSET (0 .. n - 1) : Cardinality(T) = wanted}
  BY DEF kSubset
<1>2. \A s \in outs : Chosen(s) \in kSubset(wanted, 0 .. n - 1)
  BY <1>1, DifferentMany
<1>3. {Chosen(out) : out \in outs} = kSubset(wanted, 0 .. n - 1)
  BY <1>2
<1>4. QED
  BY <1>1, <1>3 DEF Sampled

LEMMA SampleIs ==
  ASSUME NEW n \in Nat, NEW count \in Nat
  PROVE  /\ Sampled(n, Fewer(n, count), C!sample_sized(n, count))
         /\ \A out \in C!sample_sized(n, count) : Rising(out)
         /\ Sampled(n, Fewer(n, count), C!sample_unsized(n, count))
<1> DEFINE wanted == Fewer(n, count)
           F == C!sample_sized(n, count)
           G == C!sample_unsized(n, count)
<1>1. Samples(n, 0, wanted, F)
  <2>1. wanted = IF count > n THEN n ELSE count
    BY DEF Fewer
  <2> HIDE DEF wanted
  <2>2. QED
    BY <2>1, SampleSized
<1>2. Reservoir(count, n, G)
  BY SampleUnsized
<1> HIDE DEF F, G
<1>3. /\ \A s \in F : /\ s \in Seq(Items) /\ Len(s) = wanted /\ Chosen(s) \subseteq 0 .. n - 1
                      /\ Different(s) /\ Rising(s)
      /\ \A U \in kSubset(wanted, 0 .. n - 1) : \E s \in F : Chosen(s) = U
  <2> HIDE DEF wanted
  <2>1. /\ \A s \in F : /\ s \in Seq(Items) /\ Len(s) = wanted /\ Chosen(s) \subseteq 0 .. n - 1
                        /\ InOrder(Chosen(s), Numbers(s))
        /\ \A U \in kSubset(wanted, 0 .. n - 1) : \E s \in F : Chosen(s) = U
    BY <1>1 DEF Samples
  <2>2. QED
    BY <2>1, InOrderRising
<1>4. /\ \A s \in G : /\ s \in Seq(Items) /\ Len(s) = wanted /\ Chosen(s) \subseteq 0 .. n - 1
                      /\ Different(s)
      /\ \A U \in kSubset(wanted, 0 .. n - 1) : \E s \in G : Chosen(s) = U
  BY <1>2 DEF Reservoir
<1> HIDE DEF wanted
<1>5. Sampled(n, wanted, F) /\ Sampled(n, wanted, G)
  BY <1>3, <1>4, SampledIs
<1>6. QED
  BY <1>3, <1>5 DEF wanted, F, G
-----------------------------------------------------------------------------
(* Shuffles.                                                               *)

(* An arrangement of n elements, of which those after mid are where they   *)
(* were.                                                                   *)
Mixed(n, mid, h) ==
  /\ h \in [0 .. n - 1 -> 0 .. n - 1]
  /\ \A i, j \in 0 .. n - 1 : h[i] = h[j] => i = j
  /\ \A y \in 0 .. n - 1 : \E i \in 0 .. n - 1 : h[i] = y
  /\ \A i \in mid + 1 .. n - 1 : h[i] = i
Exchanged(h, i, j) == [h EXCEPT ![i] = h[j], ![j] = h[i]]

LEMMA MixedFirst ==
  ASSUME NEW n \in Nat, NEW h, h = [i \in 0 .. n - 1 |-> i]
  PROVE  Mixed(n, 0, h)
BY DEF Mixed

(* The element at mid is exchanged with one before it, or stays; where it  *)
(* is afterwards tells which.                                              *)
LEMMA MixedNext ==
  ASSUME NEW n \in Nat, NEW mid \in 1 .. n - 1, NEW h, Mixed(n, mid - 1, h), NEW p \in 0 .. mid,
         NEW g, g = Exchanged(h, p, mid)
  PROVE  Mixed(n, mid, g) /\ g[p] = mid /\ h = Exchanged(g, p, mid)
<1> DEFINE D == 0 .. n - 1
<1>1. /\ p \in D /\ mid \in D /\ (\A i \in mid + 1 .. n - 1 : i # mid /\ i # p /\ i \in D)
      /\ mid - 1 + 1 = mid /\ mid \in mid .. n - 1
      /\ \A i \in mid + 1 .. n - 1 : i \in mid .. n - 1
  OBVIOUS
<1>2. /\ h \in [D -> D]
      /\ \A i, j \in D : h[i] = h[j] => i = j
      /\ \A y \in D : \E i \in D : h[i] = y
      /\ \A i \in mid .. n - 1 : h[i] = i
  BY <1>1 DEF Mixed
<1> HIDE DEF D
<1>3. /\ g \in [D -> D] /\ g[p] = h[mid] /\ g[mid] = h[p]
      /\ \A i \in D : i # p /\ i # mid => g[i] = h[i]
  BY <1>1, <1>2 DEF Exchanged
<1>4. \A i, j \in D : g[i] = g[j] => i = j
  BY <1>1, <1>2, <1>3
<1>5. ASSUME NEW y \in D PROVE \E i \in D : g[i] = y
  <2>1. PICK i \in D : h[i] = y
    BY <1>2
  <2>2. CASE i = p
    BY <1>1, <1>3, <2>1, <2>2
  <2>3. CASE i = mid
    BY <1>1, <1>3, <2>1, <2>3
  <2>4. CASE i # p /\ i # mid
    BY <1>3, <2>1, <2>4
  <2>5. QED
    BY <2>2, <2>3, <2>4
<1>6. \A i \in mid + 1 .. n - 1 : g[i] = i
  BY <1>1, <1>2, <1>3
<1>7. g[p] = mid
  BY <1>1, <1>2, <1>3
<1>8. h = Exchanged(g, p, mid)
  <2>1. Exchanged(g, p, mid) \in [D -> D] /\ \A i \in D : Exchanged(g, p, mid)[i] = h[i]
    BY <1>1, <1>2, <1>3 DEF Exchanged
  <2>2. QED
    BY <1>2, <2>1
<1>9. QED
  BY <1>3, <1>4, <1>5, <1>6, <1>7, <1>8 DEF Mixed, D

(* The loop of shuffle.                                                    *)
Shuffled(n, draws, mid, h) ==
  IF mid = 0 THEN [i \in 0 .. n - 1 |-> i]
  ELSE IF draws[mid] = 0 THEN h ELSE O!H!iter_swap(h, mid - draws[mid], mid)
IsShuffling(f, n, draws) == f = [mid \in 0 .. n - 1 |-> Shuffled(n, draws, mid, f[mid - 1])]

LEMMA ShuffledIs ==
  ASSUME NEW n \in Nat, NEW draws \in O!Draws(n), NEW mid \in 1 .. n - 1,
         NEW h \in [0 .. n - 1 -> 0 .. n - 1]
  PROVE  /\ mid - draws[mid] \in 0 .. mid
         /\ Shuffled(n, draws, mid, h) = Exchanged(h, mid - draws[mid], mid)
         /\ Shuffled(n, draws, mid, h) \in [0 .. n - 1 -> 0 .. n - 1]
<1> DEFINE D == 0 .. n - 1
           p == mid - draws[mid]
<1>1. draws[mid] \in D /\ draws[mid] <= mid
  BY DEF O!Draws
<1>2. p \in 0 .. mid /\ p \in D /\ mid \in D /\ mid # 0 /\ (draws[mid] = 0 => p = mid)
  <2> DEFINE k == draws[mid]
  <2>1. k \in 0 .. n - 1 /\ k <= mid
    BY <1>1
  <2> HIDE DEF k
  <2>2. /\ mid - k \in 0 .. mid /\ mid - k \in 0 .. n - 1 /\ mid \in 0 .. n - 1 /\ mid # 0
        /\ (k = 0 => mid - k = mid)
    BY <2>1
  <2>3. QED
    BY <2>2 DEF k
<1> HIDE DEF D, p
<1>3. h \in [D -> D]
  BY DEF D
<1>4. Exchanged(h, p, mid) \in [D -> D]
  BY <1>2, <1>3 DEF Exchanged
<1>5. p = mid => Exchanged(h, p, mid) = h
  <2>1. SUFFICES ASSUME p = mid PROVE Exchanged(h, p, mid) = h
    OBVIOUS
  <2>2. \A i \in D : Exchanged(h, p, mid)[i] = h[i]
    BY <1>3, <2>1 DEF Exchanged
  <2> DEFINE g == Exchanged(h, p, mid)
  <2> HIDE DEF g
  <2>3. g \in [D -> D] /\ \A i \in D : g[i] = h[i]
    BY <1>4, <2>2 DEF g
  <2>4. g = h
    BY <1>3, <2>3
  <2>5. QED
    BY <2>4 DEF g
<1>6. Shuffled(n, draws, mid, h) = Exchanged(h, p, mid)
  <2>1. CASE draws[mid] = 0
    BY <1>2, <1>5, <2>1 DEF Shuffled
  <2>2. CASE draws[mid] # 0
    BY <1>2, <2>2 DEF Shuffled, Exchanged, O!H!iter_swap, p
  <2>3. QED
    BY <2>1, <2>2
<1>7. QED
  BY <1>2, <1>4, <1>6 DEF p, D

LEMMA Shuffling ==
  ASSUME NEW n \in Nat, n # 0, NEW draws \in O!Draws(n)
  PROVE  /\ \E f : IsShuffling(f, n, draws)
         /\ \A f : IsShuffling(f, n, draws) =>
              \A mid \in 0 .. n - 1 :
                /\ Mixed(n, mid, f[mid])
                /\ mid # 0 => f[mid] = Exchanged(f[mid - 1], mid - draws[mid], mid)
<1> DEFINE D == 0 .. n - 1
           Vals == [D -> D]
           body(mid, f) == Shuffled(n, draws, mid, f[mid - 1])
           left == [mid \in D |-> mid]
           done == {0}
           base == [mid \in D |-> [i \in D |-> i]]
           next == [mid \in D |-> IF mid = 0 THEN 0 ELSE mid - 1]
           moved(mid, h) == Exchanged(h, mid - draws[mid], mid)
           step == [mid \in D |-> [h \in Vals |-> IF mid = 0 THEN h ELSE moved(mid, h)]]
           Good == {p \in D \X Vals : Mixed(n, p[1], p[2])}
<1>1. /\ 0 \in D
      /\ \A mid \in D : mid # 0 => /\ left[next[mid]] < left[mid] /\ next[mid] = mid - 1
                                   /\ mid \in 1 .. n - 1
      /\ \A mid \in D : mid \in Nat /\ (IF mid = 0 THEN 0 ELSE mid - 1) \in D
  OBVIOUS
<1>2. left \in [D -> Nat] /\ next \in [D -> D]
  <2> HIDE DEF D
  <2>1. QED
    BY <1>1
<1>3. \A mid \in D : \A h \in Vals : mid # 0 => moved(mid, h) \in Vals /\ Shuffled(n, draws, mid, h) = moved(mid, h)
  <2>1. ASSUME NEW mid \in D, NEW h \in Vals, mid # 0
        PROVE  moved(mid, h) \in Vals /\ Shuffled(n, draws, mid, h) = moved(mid, h)
    <3>1. mid \in 1 .. n - 1 /\ h \in [0 .. n - 1 -> 0 .. n - 1]
      BY <1>1, <2>1
    <3>2. /\ Shuffled(n, draws, mid, h) = Exchanged(h, mid - draws[mid], mid)
          /\ Shuffled(n, draws, mid, h) \in [0 .. n - 1 -> 0 .. n - 1]
      BY <3>1, ShuffledIs
    <3>3. QED
      BY <3>2
  <2>2. QED
    BY <2>1
<1>4. \A mid, h : mid = 0 => Shuffled(n, draws, mid, h) = [i \in D |-> i]
  BY DEF Shuffled
<1>5. [i \in D |-> i] \in Vals /\ Mixed(n, 0, [i \in D |-> i])
  BY MixedFirst
<1>6. \A mid \in D : \A h : <<mid, h>> \in Good <=> h \in Vals /\ Mixed(n, mid, h)
  OBVIOUS
<1>7. ASSUME NEW mid \in D, mid # 0, NEW h, Mixed(n, mid - 1, h)
      PROVE  Mixed(n, mid, moved(mid, h))
  <2>1. mid \in 1 .. n - 1 /\ h \in [0 .. n - 1 -> 0 .. n - 1]
    BY <1>1, <1>7 DEF Mixed
  <2> DEFINE p == mid - draws[mid]
             g == Exchanged(h, p, mid)
  <2>2. p \in 0 .. mid
    BY <2>1, ShuffledIs
  <2> HIDE DEF p, g
  <2>3. g = Exchanged(h, p, mid)
    BY DEF g
  <2>4. Mixed(n, mid, g)
    BY <1>7, <2>1, <2>2, <2>3, MixedNext
  <2>5. QED
    BY <2>4 DEF g, p
<1> HIDE DEF moved
<1>8. base \in [D -> Vals] /\ step \in [D -> [Vals -> Vals]]
  <2> HIDE DEF D, Vals
  <2>1. base \in [D -> Vals]
    BY <1>5
  <2>2. \A mid \in D : \A h \in Vals : (IF mid = 0 THEN h ELSE moved(mid, h)) \in Vals
    BY <1>3
  <2>3. step \in [D -> [Vals -> Vals]]
    BY <2>2
  <2>4. QED
    BY <2>1, <2>3
<1>9. /\ \A mid \in D : base[mid] = [i \in D |-> i]
      /\ \A mid \in D : \A h \in Vals : mid # 0 => step[mid][h] = moved(mid, h)
  <2> HIDE DEF D, Vals
  <2>1. QED
    OBVIOUS
<1> HIDE DEF base, step, Good
<1>10. KeepsGood(Good, D, Vals, done, base, next, step)
  <2>1. ASSUME NEW mid \in D, mid \in done PROVE <<mid, base[mid]>> \in Good
    <3>1. mid = 0
      BY <2>1
    <3> HIDE DEF D, Vals
    <3>2. QED
      BY <1>5, <1>6, <1>9, <3>1
  <2>2. ASSUME NEW mid \in D, NEW h \in Vals, mid \notin done, <<next[mid], h>> \in Good
        PROVE  <<mid, step[mid][h]>> \in Good
    <3>1. next[mid] = mid - 1 /\ next[mid] \in D /\ mid # 0
      BY <1>1, <1>2, <2>2
    <3> HIDE DEF D, Vals, next
    <3>2. Mixed(n, mid - 1, h)
      BY <1>6, <2>2, <3>1
    <3>3. Mixed(n, mid, moved(mid, h)) /\ moved(mid, h) \in Vals /\ step[mid][h] = moved(mid, h)
      BY <1>3, <1>7, <1>9, <3>1, <3>2
    <3>4. QED
      BY <1>6, <3>3
  <2> HIDE DEF D, Vals, done, next
  <2>3. QED
    BY <2>1, <2>2 DEF KeepsGood
<1>11. LoopsGood(Good, D, Vals, done, base, next, step)
  <2>1. Vals # {}
    BY <1>5
  <2>2. \A mid \in D : mid \notin done => left[next[mid]] < left[mid]
    BY <1>1
  <2> HIDE DEF D, Vals, done, next, left
  <2>3. QED
    BY <1>2, <1>8, <1>10, <2>1, <2>2, Looping
<1>12. \A mid \in D : mid # 0 => mid \notin done /\ next[mid] = mid - 1 /\ mid - 1 \in D
  BY <1>1
<1>13. \E f : IsShuffling(f, n, draws)
  <2>1. PICK f \in [D -> Vals] : f = [mid \in D |-> IF mid \in done THEN base[mid] ELSE step[mid][f[next[mid]]]]
    BY <1>11 DEF LoopsGood, IsLoop
  <2>2. ASSUME NEW mid \in D PROVE (IF mid \in done THEN base[mid] ELSE step[mid][f[next[mid]]]) = body(mid, f)
    <3>1. CASE mid = 0
      <4>1. mid \in done
        BY <3>1
      <4> HIDE DEF D, Vals, done, next
      <4>2. QED
        BY <1>4, <1>9, <3>1, <4>1
    <3>2. CASE mid # 0
      <4> HIDE DEF D, Vals, done, next
      <4>1. mid \notin done /\ next[mid] = mid - 1 /\ f[mid - 1] \in Vals
        BY <1>12, <3>2
      <4>2. step[mid][f[mid - 1]] = body(mid, f)
        BY <1>3, <1>9, <3>2, <4>1
      <4> HIDE DEF body
      <4>3. QED
        BY <4>1, <4>2
    <3>3. QED
      BY <3>1, <3>2
  <2>3. f = [mid \in D |-> body(mid, f)]
    <3> HIDE DEF D, Vals, done, next, body
    <3>1. QED
      BY <2>1, <2>2
  <2>4. QED
    BY <2>3 DEF IsShuffling
<1>14. ASSUME NEW f, IsShuffling(f, n, draws)
       PROVE  \A mid \in D : Mixed(n, mid, f[mid]) /\ (mid # 0 => f[mid] = moved(mid, f[mid - 1]))
  <2>1. \A mid \in D : f[mid] = Shuffled(n, draws, mid, f[mid - 1])
    BY <1>14 DEF IsShuffling
  <2> HIDE DEF D, Vals, done, next
  <2>2. Loops(f, D, Vals, done, base, next, step)
    <3>1. ASSUME NEW mid \in D
          PROVE  /\ mid \in done => f[mid] = base[mid]
                 /\ mid \notin done /\ f[next[mid]] \in Vals => f[mid] = step[mid][f[next[mid]]]
      <4>1. CASE mid = 0
        <5>1. mid \in done
          BY <4>1 DEF done
        <5>2. QED
          BY <1>4, <1>9, <2>1, <4>1, <5>1
      <4>2. CASE mid # 0
        BY <1>3, <1>9, <1>12, <2>1, <4>2
      <4>3. QED
        BY <4>1, <4>2
    <3>2. QED
      BY <3>1 DEF Loops
  <2>3. \A mid \in D : f[mid] \in Vals /\ <<mid, f[mid]>> \in Good
    BY <1>11, <2>2 DEF LoopsGood
  <2>4. \A mid \in D : Mixed(n, mid, f[mid])
    BY <1>6, <2>3
  <2>5. \A mid \in D : mid # 0 => f[mid] = moved(mid, f[mid - 1])
    BY <1>3, <1>12, <2>1, <2>3
  <2>6. QED
    BY <2>4, <2>5
<1>15. QED
  BY <1>13, <1>14 DEF moved

(* Different draws give different arrangements.                            *)
LEMMA ShuffleOne ==
  ASSUME NEW n \in Nat, n # 0, NEW f, NEW d \in O!Draws(n), IsShuffling(f, n, d),
         NEW g, NEW e \in O!Draws(n), IsShuffling(g, n, e), f[n - 1] = g[n - 1]
  PROVE  d = e
<1> DEFINE D == 0 .. n - 1
           left == [k \in D |-> n - 1 - k]
           Same == {k \in D : f[k] = g[k]}
<1>1. \A mid \in D : /\ Mixed(n, mid, f[mid]) /\ Mixed(n, mid, g[mid])
                     /\ mid # 0 => /\ f[mid] = Exchanged(f[mid - 1], mid - d[mid], mid)
                                   /\ g[mid] = Exchanged(g[mid - 1], mid - e[mid], mid)
  BY Shuffling
<1>2. /\ left \in [D -> Nat]
      /\ \A k \in D : k # n - 1 => k + 1 \in D /\ k + 1 \in 1 .. n - 1 /\ left[k + 1] < left[k] /\ k + 1 - 1 = k /\ k + 1 # 0
  OBVIOUS
<1>3. ASSUME NEW mid \in 1 .. n - 1, f[mid] = g[mid]
      PROVE  f[mid - 1] = g[mid - 1] /\ d[mid] = e[mid]
  <2> DEFINE p == mid - d[mid]
             q == mid - e[mid]
             h == f[mid]
  <2>1. mid \in D /\ mid # 0 /\ mid - 1 \in D /\ mid \in 0 .. n - 1
    OBVIOUS
  <2>2. f[mid - 1] \in [D -> D] /\ g[mid - 1] \in [D -> D]
    BY <1>1, <2>1 DEF Mixed
  <2>3. p \in 0 .. mid /\ q \in 0 .. mid
    BY <2>2, ShuffledIs
  <2>4. h[p] = mid /\ f[mid - 1] = Exchanged(h, p, mid)
    <3>1. Mixed(n, mid - 1, f[mid - 1]) /\ h = Exchanged(f[mid - 1], p, mid)
      BY <1>1, <2>1
    <3> HIDE DEF h, p
    <3>2. QED
      BY <2>3, <3>1, MixedNext
  <2>5. h[q] = mid /\ g[mid - 1] = Exchanged(h, q, mid)
    <3>1. Mixed(n, mid - 1, g[mid - 1]) /\ h = Exchanged(g[mid - 1], q, mid)
      BY <1>1, <1>3, <2>1
    <3> HIDE DEF h, q
    <3>2. QED
      BY <2>3, <3>1, MixedNext
  <2>6. p = q
    <3>1. p \in 0 .. n - 1 /\ q \in 0 .. n - 1
      BY <2>3
    <3>2. Mixed(n, mid, h)
      BY <1>1, <2>1
    <3> HIDE DEF h, p, q
    <3>3. QED
      BY <2>4, <2>5, <3>1, <3>2 DEF Mixed
  <2>7. d[mid] = e[mid]
    <3>1. d[mid] \in Int /\ e[mid] \in Int
      BY DEF O!Draws
    <3>2. QED
      BY <2>6, <3>1
  <2>8. QED
    <3> HIDE DEF h, p, q
    <3>1. QED
      BY <2>4, <2>5, <2>6, <2>7
<1>4. ASSUME NEW k \in D, \A j \in D : left[j] < left[k] => j \in Same PROVE k \in Same
  <2>1. CASE k = n - 1
    BY <2>1
  <2>2. CASE k # n - 1
    <3>1. k + 1 \in 1 .. n - 1 /\ f[k + 1] = g[k + 1] /\ k + 1 - 1 = k
      BY <1>2, <1>4, <2>2
    <3>2. f[k + 1 - 1] = g[k + 1 - 1]
      BY <1>3, <3>1
    <3>3. QED
      BY <3>1, <3>2
  <2>3. QED
    BY <2>1, <2>2
<1>5. D \subseteq Same
  <2> HIDE DEF D, Same, left
  <2>1. QED
    BY <1>2, <1>4, ByMeasure
<1>6. \A mid \in 1 .. n - 1 : d[mid] = e[mid]
  <2>1. \A mid \in 1 .. n - 1 : mid \in D
    OBVIOUS
  <2>2. QED
    BY <1>3, <1>5, <2>1
<1>7. d \in [1 .. n - 1 -> D] /\ e \in [1 .. n - 1 -> D]
  BY DEF O!Draws
<1>8. QED
  BY <1>6, <1>7

LEMMA ShuffleIs ==
  ASSUME NEW n \in Nat, n # 0, NEW draws \in O!Draws(n)
  PROVE  \E f : IsShuffling(f, n, draws) /\ O!shuffle(n, draws) = f[n - 1]
<1> DEFINE body(mid, f) == Shuffled(n, draws, mid, f[mid - 1])
           upto[mid \in 0 .. n - 1] ==
             IF mid = 0 THEN [i \in 0 .. n - 1 |-> i]
             ELSE IF draws[mid] = 0 THEN upto[mid - 1]
             ELSE O!H!iter_swap(upto[mid - 1], mid - draws[mid], mid)
<1>1. O!shuffle(n, draws) = upto[n - 1]
  BY DEF O!shuffle
<1>2. upto = CHOOSE f : f = [mid \in 0 .. n - 1 |-> body(mid, f)]
  BY DEF Shuffled
<1> HIDE DEF upto
<1>3. \E f : f = [mid \in 0 .. n - 1 |-> body(mid, f)]
  BY Shuffling DEF IsShuffling
<1>4. upto = [mid \in 0 .. n - 1 |-> body(mid, upto)]
  <2> HIDE DEF body
  <2>1. QED
    BY <1>2, <1>3
<1>5. QED
  BY <1>1, <1>4 DEF IsShuffling

LEMMA DrawsFinite ==
  ASSUME NEW n \in Nat
  PROVE  IsFiniteSet(O!Draws(n))
<1> DEFINE K == 1 .. n - 1
           V == 0 .. n - 1
           P == SUBSET (K \X V)
           graph(d) == {<<k, d[k]>> : k \in K}
           F == [d \in O!Draws(n) |-> graph(d)]
<1>1. IsFiniteSet(K) /\ IsFiniteSet(V)
  BY FS_Interval
<1>2. \A d \in O!Draws(n) : d \in [K -> V]
  BY DEF O!Draws
<1> HIDE DEF K, V
<1>3. IsFiniteSet(P)
  <2>1. IsFiniteSet(K \X V)
    BY <1>1, FS_Product
  <2>2. QED
    BY <2>1, FS_SUBSET
<1>4. \A d \in O!Draws(n) : graph(d) \in P
  BY <1>2
<1>5. \A d, e \in O!Draws(n) : graph(d) = graph(e) => d = e
  <2>1. ASSUME NEW d \in O!Draws(n), NEW e \in O!Draws(n), graph(d) = graph(e) PROVE d = e
    <3>1. ASSUME NEW k \in K PROVE d[k] = e[k]
      <4>1. <<k, d[k]>> \in graph(e)
        BY <2>1
      <4>2. PICK l \in K : <<k, d[k]>> = <<l, e[l]>>
        BY <4>1
      <4>3. QED
        BY <4>2
    <3>2. QED
      BY <1>2, <3>1
  <2>2. QED
    BY <2>1
<1> DEFINE Ds == O!Draws(n)
<1> HIDE DEF graph, P, Ds
<1>6. F \in Injection(Ds, P)
  <2>1. F \in [Ds -> P] /\ \A d \in Ds : F[d] = graph(d)
    BY <1>4 DEF Ds
  <2> HIDE DEF F
  <2>2. \A d, e \in Ds : F[d] = F[e] => d = e
    BY <1>5, <2>1 DEF Ds
  <2>3. QED
    BY <2>1, <2>2 DEF Injection, IsInjective
<1>7. IsFiniteSet(Ds)
  <2> HIDE DEF F
  <2>1. QED
    BY <1>3, <1>6, FS_Injection
<1>8. QED
  BY <1>7 DEF Ds

LEMMA ShuffleAll ==
  ASSUME NEW n \in Nat, NEW outs, outs = {O!shuffle(n, draws) : draws \in O!Draws(n)}
  PROVE  /\ \A out \in outs : Range(out) = 0 .. n - 1
         /\ Cardinality(outs) = Cardinality(O!Draws(n))
<1> DEFINE Ds == O!Draws(n)
           F == [d \in Ds |-> O!shuffle(n, d)]
<1>1. ASSUME NEW d \in Ds PROVE Range(O!shuffle(n, d)) = 0 .. n - 1
  <2>1. CASE n = 0
    <3>1. O!shuffle(n, d) = [i \in {} |-> 0] /\ 0 .. n - 1 = {}
      BY <2>1 DEF O!shuffle
    <3>2. QED
      BY <3>1 DEF Range
  <2>2. CASE n # 0
    <3>1. PICK f : IsShuffling(f, n, d) /\ O!shuffle(n, d) = f[n - 1]
      BY <2>2, ShuffleIs
    <3>2. Mixed(n, n - 1, f[n - 1])
      <4>1. n - 1 \in 0 .. n - 1
        BY <2>2
      <4>2. QED
        BY <2>2, <3>1, <4>1, Shuffling
    <3> DEFINE h == f[n - 1]
               D == 0 .. n - 1
    <3>3. h \in [D -> D] /\ \A y \in D : \E i \in D : h[i] = y
      BY <3>2 DEF Mixed
    <3> HIDE DEF h, D
    <3>4. Range(h) = D
      BY <3>3 DEF Range
    <3>5. QED
      BY <3>1, <3>4 DEF h, D
  <2>3. QED
    BY <2>1, <2>2
<1>2. ASSUME NEW d \in Ds, NEW e \in Ds, O!shuffle(n, d) = O!shuffle(n, e) PROVE d = e
  <2>1. CASE n = 0
    <3>1. 1 .. n - 1 = {}
      BY <2>1
    <3>2. d \in [{} -> 0 .. n - 1] /\ e \in [{} -> 0 .. n - 1]
      BY <3>1 DEF O!Draws
    <3>3. QED
      BY <3>2
  <2>2. CASE n # 0
    <3>1. PICK f : IsShuffling(f, n, d) /\ O!shuffle(n, d) = f[n - 1]
      BY <2>2, ShuffleIs
    <3>2. PICK g : IsShuffling(g, n, e) /\ O!shuffle(n, e) = g[n - 1]
      BY <2>2, ShuffleIs
    <3>3. f[n - 1] = g[n - 1]
      BY <1>2, <3>1, <3>2
    <3>4. QED
      BY <2>2, <3>1, <3>2, <3>3, ShuffleOne
  <2>3. QED
    BY <2>1, <2>2
<1>3. IsFiniteSet(Ds)
  BY DrawsFinite
<1>4. outs = {O!shuffle(n, d) : d \in Ds}
  OBVIOUS
<1> HIDE DEF Ds
<1>5. F \in Bijection(Ds, outs)
  <2>1. F \in [Ds -> outs] /\ \A d \in Ds : F[d] = O!shuffle(n, d)
    BY <1>4
  <2> HIDE DEF F
  <2>2. \A d, e \in Ds : F[d] = F[e] => d = e
    BY <1>2, <2>1
  <2>3. \A y \in outs : \E d \in Ds : F[d] = y
    BY <1>4, <2>1
  <2>4. QED
    BY <2>1, <2>2, <2>3 DEF Bijection, Injection, Surjection, IsInjective
<1>6. Cardinality(outs) = Cardinality(Ds)
  <2>1. ExistsBijection(Ds, outs)
    BY <1>5 DEF ExistsBijection
  <2>2. IsFiniteSet(outs) /\ Cardinality(outs) = Cardinality(Ds)
    BY <1>3, <2>1, FS_Bijection
  <2>3. QED
    BY <2>2
<1>7. QED
  BY <1>1, <1>4, <1>6 DEF Ds
-----------------------------------------------------------------------------
(* partial_sort_copy: its heap, from index 0 up, in an array of len        *)
(* different elements.                                                     *)

(* What sifting leaves: the elements of the first n places, in some order, *)
(* and those of the other places where they were.                          *)
IsArray(h, len, Elements) ==
  /\ h \in [0 .. len - 1 -> Elements]
  /\ \A i, j \in 0 .. len - 1 : h[i] = h[j] => i = j
Holds(h, n, x) == \E i \in 0 .. n - 1 : h[i] = x
Keeps(h, r, len, n) ==
  /\ \A x : Holds(h, n, x) <=> Holds(r, n, x)
  /\ \A i \in n .. len - 1 : r[i] = h[i]
(* The children of the elements from s on are not greater.                 *)
HeapFrom(h, n, s) ==
  \A i \in s .. n - 1 : \A c \in {2 * i + 1, 2 * i + 2} : c < n => h[c].key <= h[i].key
GreaterChild(h, n, i) ==
  IF 2 * i + 2 < n /\ h[2 * i + 1].key < h[2 * i + 2].key THEN 2 * i + 2 ELSE 2 * i + 1
Sinks(h, n, s, i) == 2 * i + 1 < n /\ ~(h[GreaterChild(h, n, i)].key < h[s].key)

(* A cyclic shift along a path.                                            *)
After(p, k) == p[IF k = Len(p) THEN 1 ELSE k + 1]
IsShift(h, r, len, p) ==
  /\ \A k \in 1 .. Len(p) : r[p[k]] = h[After(p, k)]
  /\ \A i \in 0 .. len - 1 : (\A k \in 1 .. Len(p) : p[k] # i) => r[i] = h[i]
Upward(p) == \A j, k \in 1 .. Len(p) : j < k => p[j] < p[k]

LEMMA MoveAlongIs ==
  ASSUME NEW len \in Nat, NEW Elements, NEW h \in [0 .. len - 1 -> Elements],
         NEW p \in Seq(0 .. len - 1), Upward(p), NEW r, r = O!H!MoveAlong(h, p)
  PROVE  r \in [0 .. len - 1 -> Elements] /\ IsShift(h, r, len, p)
<1> DEFINE D == 0 .. len - 1
           at(i) == CHOOSE k \in DOMAIN p : p[k] = i
           next(k) == IF k = Len(p) THEN 1 ELSE k + 1
           body(i) == IF i \in O!H!Range(p) THEN h[p[next(at(i))]] ELSE h[i]
<1>1. DOMAIN h = D /\ DOMAIN p = 1 .. Len(p) /\ Len(p) \in Nat
  OBVIOUS
<1>2. r = [i \in D |-> body(i)]
  BY <1>1 DEF O!H!MoveAlong
<1>3. \A i : i \in O!H!Range(p) <=> \E k \in 1 .. Len(p) : p[k] = i
  BY <1>1 DEF O!H!Range
<1>4. \A k \in 1 .. Len(p) : p[k] \in D /\ next(k) \in 1 .. Len(p)
  OBVIOUS
<1>5. \A j, k \in 1 .. Len(p) : p[j] = p[k] => j = k
  <2>1. ASSUME NEW j \in 1 .. Len(p), NEW k \in 1 .. Len(p), j < k PROVE p[j] # p[k]
    <3>1. p[j] < p[k] /\ p[j] \in Int
      BY <1>4, <2>1 DEF Upward
    <3>2. QED
      BY <3>1
  <2>2. \A j, k \in 1 .. Len(p) : j < k \/ k < j \/ j = k
    OBVIOUS
  <2>3. QED
    BY <2>1, <2>2
<1>6. \A k \in 1 .. Len(p) : at(p[k]) = k
  <2>1. ASSUME NEW k \in 1 .. Len(p) PROVE at(p[k]) = k
    <3>1. \E l \in DOMAIN p : p[l] = p[k]
      BY <1>1
    <3>2. at(p[k]) \in 1 .. Len(p) /\ p[at(p[k])] = p[k]
      BY <1>1, <3>1
    <3>3. QED
      BY <1>5, <3>2
  <2>2. QED
    BY <2>1
<1>7. \A k \in 1 .. Len(p) : body(p[k]) = h[After(p, k)]
  <2> HIDE DEF at
  <2>1. QED
    BY <1>3, <1>6 DEF After
<1>8. \A i \in D : (\A k \in 1 .. Len(p) : p[k] # i) => body(i) = h[i]
  BY <1>3
<1>9. \A i \in D : body(i) \in Elements
  <2>1. ASSUME NEW i \in D PROVE body(i) \in Elements
    <3>1. CASE \A k \in 1 .. Len(p) : p[k] # i
      BY <1>8, <3>1
    <3>2. CASE \E k \in 1 .. Len(p) : p[k] = i
      <4>1. PICK k \in 1 .. Len(p) : p[k] = i
        BY <3>2
      <4>2. After(p, k) \in D
        BY <1>4 DEF After
      <4> HIDE DEF body
      <4>3. body(i) = h[After(p, k)]
        BY <1>7, <4>1
      <4>4. QED
        BY <4>2, <4>3
    <3>3. QED
      BY <3>1, <3>2
  <2>2. QED
    BY <2>1
<1> HIDE DEF body, D
<1>10. r \in [D -> Elements] /\ \A i \in D : r[i] = body(i)
  BY <1>2, <1>9
<1>11. IsShift(h, r, len, p)
  BY <1>4, <1>7, <1>8, <1>10 DEF IsShift, D
<1>12. QED
  BY <1>10, <1>11 DEF D

(* A shift moves nothing out of the path, and loses nothing.               *)
LEMMA ShiftKeeps ==
  ASSUME NEW len \in Nat, NEW n \in 0 .. len, NEW Elements, NEW h, IsArray(h, len, Elements),
         NEW p \in Seq(0 .. n - 1), Upward(p), NEW r \in [0 .. len - 1 -> Elements],
         IsShift(h, r, len, p)
  PROVE  IsArray(r, len, Elements) /\ Keeps(h, r, len, n)
<1> DEFINE D == 0 .. len - 1
           K == 1 .. Len(p)
           next(k) == IF k = Len(p) THEN 1 ELSE k + 1
           before(k) == IF k = 1 THEN Len(p) ELSE k - 1
           Out(i) == \A k \in K : p[k] # i
<1>1. /\ \A k \in K : p[k] \in 0 .. n - 1 /\ p[k] \in D
      /\ \A k \in K : next(k) \in K /\ before(k) \in K /\ next(before(k)) = k
      /\ \A j, k \in K : next(j) = next(k) => j = k
      /\ \A j, k \in K : j < k \/ k < j \/ j = k
      /\ \A i \in 0 .. n - 1 : i \in D
      /\ \A i \in n .. len - 1 : i \in D /\ i \notin 0 .. n - 1
  OBVIOUS
<1>2. \A j, k \in K : p[j] = p[k] => j = k
  <2>1. ASSUME NEW j \in K, NEW k \in K, j < k PROVE p[j] # p[k]
    <3>1. p[j] < p[k] /\ p[j] \in Int
      BY <1>1, <2>1 DEF Upward
    <3>2. QED
      BY <3>1
  <2>2. QED
    BY <1>1, <2>1
<1>3. h \in [D -> Elements] /\ \A i, j \in D : h[i] = h[j] => i = j
  BY DEF IsArray
<1>4. /\ \A k \in K : r[p[k]] = h[p[next(k)]]
      /\ \A i \in D : Out(i) => r[i] = h[i]
  BY DEF IsShift, After
<1> HIDE DEF D, K, next, before
<1>5. ASSUME NEW i \in D, NEW j \in D, r[i] = r[j] PROVE i = j
  <2>1. CASE Out(i) /\ Out(j)
    BY <1>3, <1>4, <1>5, <2>1
  <2>2. ASSUME NEW k \in K, p[k] = i, Out(j) PROVE FALSE
    <3>1. h[p[next(k)]] = h[j] /\ p[next(k)] \in D
      BY <1>1, <1>4, <1>5, <2>2
    <3>2. p[next(k)] = j
      BY <1>3, <3>1
    <3>3. QED
      BY <1>1, <2>2, <3>2
  <2>3. ASSUME NEW k \in K, p[k] = j, Out(i) PROVE FALSE
    <3>1. h[p[next(k)]] = h[i] /\ p[next(k)] \in D
      BY <1>1, <1>4, <1>5, <2>3
    <3>2. p[next(k)] = i
      BY <1>3, <3>1
    <3>3. QED
      BY <1>1, <2>3, <3>2
  <2>4. ASSUME NEW k \in K, p[k] = i, NEW l \in K, p[l] = j PROVE i = j
    <3>1. h[p[next(k)]] = h[p[next(l)]] /\ p[next(k)] \in D /\ p[next(l)] \in D
      BY <1>1, <1>4, <1>5, <2>4
    <3>2. p[next(k)] = p[next(l)]
      BY <1>3, <3>1
    <3>3. k = l
      BY <1>1, <1>2, <3>2
    <3>4. QED
      BY <2>4, <3>3
  <2>5. QED
    BY <2>1, <2>2, <2>3, <2>4
<1>6. ASSUME NEW x, NEW i \in 0 .. n - 1, h[i] = x PROVE \E j \in 0 .. n - 1 : r[j] = x
  <2>1. CASE Out(i)
    BY <1>1, <1>4, <1>6, <2>1
  <2>2. ASSUME NEW k \in K, p[k] = i PROVE \E j \in 0 .. n - 1 : r[j] = x
    <3>1. r[p[before(k)]] = h[p[k]] /\ p[before(k)] \in 0 .. n - 1
      BY <1>1, <1>4
    <3>2. QED
      BY <1>6, <2>2, <3>1
  <2>3. QED
    BY <2>1, <2>2
<1>7. ASSUME NEW x, NEW i \in 0 .. n - 1, r[i] = x PROVE \E j \in 0 .. n - 1 : h[j] = x
  <2>1. CASE Out(i)
    BY <1>1, <1>4, <1>7, <2>1
  <2>2. ASSUME NEW k \in K, p[k] = i PROVE \E j \in 0 .. n - 1 : h[j] = x
    <3>1. r[p[k]] = h[p[next(k)]] /\ p[next(k)] \in 0 .. n - 1
      BY <1>1, <1>4
    <3>2. QED
      BY <1>7, <2>2, <3>1
  <2>3. QED
    BY <2>1, <2>2
<1>8. \A i \in n .. len - 1 : r[i] = h[i]
  BY <1>1, <1>4
<1>9. IsArray(r, len, Elements)
  BY <1>5 DEF IsArray, D
<1>10. Keeps(h, r, len, n)
  BY <1>6, <1>7, <1>8 DEF Keeps, Holds
<1>11. QED
  BY <1>9, <1>10

(* The path of what sinks from s, from i on.                               *)
IsPathFrom(h, n, s, i, p) ==
  /\ Len(p) >= 1 /\ p[1] = i
  /\ \A k \in 1 .. Len(p) - 1 : Sinks(h, n, s, p[k]) /\ p[k + 1] = GreaterChild(h, n, p[k])
  /\ ~Sinks(h, n, s, p[Len(p)])
  /\ Upward(p)

LEMMA ChildIs ==
  ASSUME NEW n \in Nat, NEW h, NEW s, NEW i \in 0 .. n - 1, Sinks(h, n, s, i)
  PROVE  GreaterChild(h, n, i) \in 0 .. n - 1 /\ i < GreaterChild(h, n, i)
BY DEF Sinks, GreaterChild

LEMMA PathFirst ==
  ASSUME NEW n \in Nat, NEW h, NEW s, NEW i \in 0 .. n - 1, NEW q \in Seq(0 .. n - 1),
         Sinks(h, n, s, i), IsPathFrom(h, n, s, GreaterChild(h, n, i), q)
  PROVE  IsPathFrom(h, n, s, i, <<i>> \o q)
<1> DEFINE t == <<i>> \o q
           l == Len(q)
<1>1. l \in Nat /\ l >= 1 /\ q[1] = GreaterChild(h, n, i)
  BY DEF IsPathFrom
<1>2. Len(t) = l + 1 /\ t[1] = i /\ \A k \in 1 .. l : t[k + 1] = q[k]
  OBVIOUS
<1>3. /\ \A k \in 1 .. l - 1 : Sinks(h, n, s, q[k]) /\ q[k + 1] = GreaterChild(h, n, q[k])
      /\ ~Sinks(h, n, s, q[l])
      /\ \A j, k \in 1 .. l : j < k => q[j] < q[k]
      /\ \A k \in 1 .. l : q[k] \in 0 .. n - 1
  BY DEF IsPathFrom, Upward
<1> HIDE DEF t, l
<1>4. ASSUME NEW k \in 1 .. Len(t) - 1
      PROVE  Sinks(h, n, s, t[k]) /\ t[k + 1] = GreaterChild(h, n, t[k])
  <2>1. CASE k = 1
    <3>1. t[k] = i /\ t[k + 1] = q[1]
      BY <1>1, <1>2, <2>1
    <3>2. QED
      BY <1>1, <3>1
  <2>2. CASE k # 1
    <3> DEFINE j == k - 1
    <3>1. j \in 1 .. l - 1 /\ k = j + 1 /\ j \in 1 .. l /\ j + 1 \in 1 .. l
      BY <1>1, <1>2, <2>2
    <3> HIDE DEF j
    <3>2. t[k] = q[j] /\ t[k + 1] = q[j + 1]
      BY <1>2, <3>1
    <3>3. QED
      BY <1>3, <3>1, <3>2
  <2>3. QED
    BY <2>1, <2>2
<1>5. t[Len(t)] = q[l]
  BY <1>1, <1>2
<1>6. ASSUME NEW j \in 1 .. Len(t), NEW k \in 1 .. Len(t), j < k PROVE t[j] < t[k]
  <2> DEFINE e == k - 1
             d == j - 1
  <2>1. e \in 1 .. l /\ k = e + 1 /\ 1 \in 1 .. l
    BY <1>1, <1>2, <1>6
  <2>2. CASE j = 1
    <3>1. t[j] = i /\ i < q[1] /\ t[k] = q[e]
      BY <1>1, <1>2, <2>1, <2>2, ChildIs
    <3>2. e = 1 \/ q[1] < q[e]
      BY <1>3, <2>1
    <3>3. q[e] \in 0 .. n - 1 /\ q[1] \in 0 .. n - 1
      BY <1>3, <2>1
    <3>4. QED
      BY <3>1, <3>2, <3>3
  <2>3. CASE j # 1
    <3>1. d \in 1 .. l /\ j = d + 1 /\ d < e
      BY <1>1, <1>2, <1>6, <2>3
    <3>2. t[j] = q[d] /\ t[k] = q[e]
      BY <1>2, <2>1, <3>1
    <3>3. q[d] < q[e]
      BY <1>3, <2>1, <3>1
    <3>4. QED
      BY <3>2, <3>3
  <2>4. QED
    BY <2>2, <2>3
<1>7. IsPathFrom(h, n, s, i, t)
  <2>1. Len(t) >= 1 /\ t[1] = i /\ ~Sinks(h, n, s, t[Len(t)])
    BY <1>1, <1>2, <1>3, <1>5
  <2>2. QED
    BY <1>4, <1>6, <2>1 DEF IsPathFrom, Upward
<1>8. QED
  BY <1>7 DEF t

IsDown(f, h, n, s) ==
  f = [i \in 0 .. n - 1 |-> IF Sinks(h, n, s, i) THEN <<i>> \o f[GreaterChild(h, n, i)] ELSE <<i>>]

LEMMA Sinking ==
  ASSUME NEW n \in Nat, NEW h, NEW s \in 0 .. n - 1
  PROVE  /\ \E f : IsDown(f, h, n, s)
         /\ \A f : IsDown(f, h, n, s) => f[s] \in Seq(0 .. n - 1) /\ IsPathFrom(h, n, s, s, f[s])
<1> DEFINE D == 0 .. n - 1
           done == {i \in D : ~Sinks(h, n, s, i)}
           left == [i \in D |-> n - 1 - i]
           last == [i \in D |-> <<i>>]
           to(i) == IF Sinks(h, n, s, i) THEN GreaterChild(h, n, i) ELSE i
           next == [i \in D |-> to(i)]
           item == [i \in D |-> i]
           Good == {g \in D \X Seq(D) : IsPathFrom(h, n, s, g[1], g[2])}
<1>1. /\ \A i \in D : n - 1 - i \in Nat /\ i \in Nat
      /\ \A i, j \in D : i < j => n - 1 - j < n - 1 - i
  OBVIOUS
<1>2. \A i \in D : to(i) \in D /\ (i \notin done => i < to(i) /\ Sinks(h, n, s, i) /\ to(i) = GreaterChild(h, n, i))
  BY ChildIs
<1>3. \A i \in D : i \in done <=> ~Sinks(h, n, s, i)
  OBVIOUS
<1>4. s \in D
  OBVIOUS
<1> HIDE DEF to, done
<1>5. /\ left \in [D -> Nat] /\ next \in [D -> D] /\ item \in [D -> D] /\ last \in [D -> Seq(D)]
      /\ \A i \in D : left[i] = n - 1 - i /\ next[i] = to(i) /\ item[i] = i /\ last[i] = <<i>>
  <2> HIDE DEF D
  <2>1. \A i \in D : <<i>> \in Seq(D)
    OBVIOUS
  <2>2. left \in [D -> Nat]
    BY <1>1
  <2>3. next \in [D -> D]
    BY <1>2
  <2>4. item \in [D -> D]
    OBVIOUS
  <2>5. last \in [D -> Seq(D)]
    BY <2>1
  <2>6. QED
    BY <2>2, <2>3, <2>4, <2>5
<1>6. \A i \in D : \A q \in Seq(D) : <<i, q>> \in Good <=> IsPathFrom(h, n, s, i, q)
  <2> HIDE DEF D
  <2>1. QED
    OBVIOUS
<1> HIDE DEF left, next, item, last, Good
<1>7. StaysGood(Good, D, D, done, last, D, item, next)
  <2>1. ASSUME NEW i \in D, i \in done PROVE <<i, last[i]>> \in Good
    <3>1. last[i] = <<i>> /\ <<i>> \in Seq(D) /\ ~Sinks(h, n, s, i)
      BY <1>3, <1>5, <2>1
    <3> DEFINE q == <<i>>
    <3>2. Len(q) = 1 /\ q[1] = i
      OBVIOUS
    <3> HIDE DEF q
    <3>3. IsPathFrom(h, n, s, i, q)
      BY <3>1, <3>2 DEF IsPathFrom, Upward
    <3>4. QED
      BY <1>6, <3>1, <3>3 DEF q
  <2>2. ASSUME NEW i \in D, NEW q \in Seq(D), i \notin done, <<next[i], q>> \in Good
        PROVE  <<i, IF i \in D THEN <<item[i]>> \o q ELSE q>> \in Good
    <3>1. Sinks(h, n, s, i) /\ next[i] = GreaterChild(h, n, i) /\ next[i] \in D /\ item[i] = i
      BY <1>2, <1>5, <2>2
    <3>2. IsPathFrom(h, n, s, GreaterChild(h, n, i), q)
      BY <1>6, <2>2, <3>1
    <3>3. IsPathFrom(h, n, s, i, <<i>> \o q)
      BY <3>1, <3>2, PathFirst
    <3>4. <<i>> \o q \in Seq(D)
      OBVIOUS
    <3> HIDE DEF D
    <3>5. QED
      BY <1>6, <3>1, <3>3, <3>4
  <2> HIDE DEF D
  <2>3. QED
    BY <2>1, <2>2 DEF StaysGood
<1>8. WritesGood(Good, D, D, done, last, D, item, next)
  <2>1. \A i \in D : i \notin done => left[next[i]] < left[i]
    BY <1>1, <1>2, <1>5
  <2> HIDE DEF D
  <2>2. QED
    BY <1>5, <1>7, <2>1, Writing
<1>9. \A f : IsWriting(f, D, done, last, D, item, next) <=> IsDown(f, h, n, s)
  <2>1. ASSUME NEW f
        PROVE  [i \in D |-> IF i \in done THEN last[i]
                            ELSE IF i \in D THEN <<item[i]>> \o f[next[i]] ELSE f[next[i]]]
               = [i \in D |-> IF Sinks(h, n, s, i) THEN <<i>> \o f[GreaterChild(h, n, i)] ELSE <<i>>]
    <3>1. ASSUME NEW i \in D
          PROVE  (IF i \in done THEN last[i]
                  ELSE IF i \in D THEN <<item[i]>> \o f[next[i]] ELSE f[next[i]])
                 = (IF Sinks(h, n, s, i) THEN <<i>> \o f[GreaterChild(h, n, i)] ELSE <<i>>)
      <4> HIDE DEF D
      <4>1. QED
        BY <1>2, <1>3, <1>5
    <3> HIDE DEF D
    <3>2. QED
      BY <3>1
  <2>2. QED
    BY <2>1 DEF IsWriting, IsDown
<1>10. QED
  <2> HIDE DEF D
  <2>1. \A f : IsDown(f, h, n, s) => f[s] \in Seq(D) /\ IsPathFrom(h, n, s, s, f[s])
    BY <1>4, <1>6, <1>8, <1>9 DEF WritesGood
  <2>2. QED
    BY <1>8, <1>9, <2>1 DEF WritesGood, D

LEMMA DownPathIs ==
  ASSUME NEW n \in Nat, NEW h, NEW s \in 0 .. n - 1
  PROVE  /\ O!H!down_path(h, 0, n, s) \in Seq(0 .. n - 1)
         /\ IsPathFrom(h, n, s, s, O!H!down_path(h, 0, n, s))
<1> DEFINE body(i, f) == IF Sinks(h, n, s, i) THEN <<i>> \o f[GreaterChild(h, n, i)] ELSE <<i>>
           greater(i) == IF 2 * i + 2 < n /\ O!at(h[0 + 2 * i + 1], h[0 + 2 * i + 2])
                         THEN 2 * i + 2 ELSE 2 * i + 1
           raw(i, f) == IF 2 * i + 1 < n /\ ~O!at(h[0 + greater(i)], h[0 + s])
                        THEN <<0 + i>> \o f[greater(i)] ELSE <<0 + i>>
           path[i \in 0 .. n - 1] ==
             IF 2 * i + 1 < n /\ ~O!at(h[0 + greater(i)], h[0 + s])
             THEN <<0 + i>> \o path[greater(i)] ELSE <<0 + i>>
<1>1. O!H!down_path(h, 0, n, s) = path[s]
  BY DEF O!H!down_path
<1>2. path = CHOOSE f : f = [i \in 0 .. n - 1 |-> raw(i, f)]
  OBVIOUS
<1> HIDE DEF path
<1>3. \A i \in 0 .. n - 1 : 0 + 2 * i + 1 = 2 * i + 1 /\ 0 + 2 * i + 2 = 2 * i + 2 /\ 0 + i = i /\ 2 * i + 1 \in Int /\ 2 * i + 2 \in Int
  OBVIOUS
<1>4. \A i \in 0 .. n - 1 : greater(i) = GreaterChild(h, n, i)
  BY <1>3 DEF O!at, less, GreaterChild
<1>5. \A i \in 0 .. n - 1 : 0 + greater(i) = greater(i)
  BY <1>3
<1>6. 0 + s = s
  OBVIOUS
<1> HIDE DEF greater
<1>7. ASSUME NEW i \in 0 .. n - 1, NEW f PROVE raw(i, f) = body(i, f)
  BY <1>3, <1>4, <1>5, <1>6 DEF O!at, less, Sinks
<1>8. \A f : f = [i \in 0 .. n - 1 |-> raw(i, f)] <=> IsDown(f, h, n, s)
  <2>1. ASSUME NEW f PROVE [i \in 0 .. n - 1 |-> raw(i, f)] = [i \in 0 .. n - 1 |-> body(i, f)]
    <3> HIDE DEF raw, body
    <3>1. QED
      BY <1>7
  <2> HIDE DEF raw
  <2>2. QED
    BY <2>1 DEF IsDown
<1>9. IsDown(path, h, n, s)
  <2> HIDE DEF raw
  <2>1. \E f : f = [i \in 0 .. n - 1 |-> raw(i, f)]
    BY <1>8, Sinking
  <2>2. QED
    BY <1>2, <1>8, <2>1
<1>10. QED
  BY <1>1, <1>9, Sinking

(* The path is what makes way for the element that sinks: its elements are *)
(* not less than that one, and the others are not greater than theirs.     *)
LEMMA SiftHeap ==
  ASSUME NEW len \in Nat, NEW n \in 0 .. len, NEW Elements, \A x \in Elements : x.key \in Int,
         NEW h, IsArray(h, len, Elements), NEW s \in 0 .. n - 1, HeapFrom(h, n, s + 1),
         NEW p \in Seq(0 .. n - 1), IsPathFrom(h, n, s, s, p),
         NEW r \in [0 .. len - 1 -> Elements], IsShift(h, r, len, p)
  PROVE  HeapFrom(r, n, s)
<1> DEFINE D == 0 .. n - 1
           l == Len(p)
           g(i) == GreaterChild(h, n, i)
           key(i) == h[i].key
           Out(i) == \A k \in 1 .. l : p[k] # i
<1>1. /\ l \in Nat /\ l >= 1 /\ p[1] = s
      /\ \A k \in 1 .. l : p[k] \in D
      /\ \A k \in 1 .. l - 1 : k \in 1 .. l /\ k + 1 \in 1 .. l
      /\ \A k \in 1 .. l : k # 1 => k - 1 \in 1 .. l - 1 /\ k - 1 + 1 = k
      /\ \A k \in 1 .. l : k # l => k \in 1 .. l - 1
      /\ \A j, k \in 1 .. l : j < k \/ k < j \/ j = k
      /\ l \in 1 .. l
  <2>1. l \in Nat /\ \A k \in 1 .. l : p[k] \in D
    OBVIOUS
  <2>2. l >= 1 /\ p[1] = s
    BY DEF IsPathFrom
  <2> HIDE DEF l, D
  <2>3. /\ \A k \in 1 .. l - 1 : k \in 1 .. l /\ k + 1 \in 1 .. l
        /\ \A k \in 1 .. l : k # 1 => k - 1 \in 1 .. l - 1 /\ k - 1 + 1 = k
        /\ \A k \in 1 .. l : k # l => k \in 1 .. l - 1
        /\ \A j, k \in 1 .. l : j < k \/ k < j \/ j = k
        /\ l \in 1 .. l
    BY <2>1, <2>2
  <2>4. QED
    BY <2>1, <2>2, <2>3
<1>2. /\ \A k \in 1 .. l - 1 : Sinks(h, n, s, p[k]) /\ p[k + 1] = g(p[k])
      /\ ~Sinks(h, n, s, p[l])
  BY DEF IsPathFrom
<1>3. \A j, k \in 1 .. l : j < k => p[j] < p[k]
  BY DEF IsPathFrom, Upward
<1>4. \A i \in D : i \in 0 .. len - 1
  OBVIOUS
<1>5. \A i \in D : key(i) \in Int
  BY <1>4 DEF IsArray
<1>6. /\ \A k \in 1 .. l - 1 : r[p[k]] = h[p[k + 1]]
      /\ r[p[l]] = h[s]
      /\ \A i \in D : Out(i) => r[i] = h[i]
  <2>1. (\A k \in 1 .. l - 1 : After(p, k) = p[k + 1]) /\ After(p, l) = s
    <3>1. \A k \in 1 .. l - 1 : k # l
      OBVIOUS
    <3>2. QED
      BY <1>1, <3>1 DEF After
  <2>2. \A k \in 1 .. l : r[p[k]] = h[After(p, k)]
    BY DEF IsShift
  <2>3. \A i \in 0 .. len - 1 : Out(i) => r[i] = h[i]
    BY DEF IsShift
  <2> HIDE DEF D, l, Out
  <2>4. QED
    BY <1>1, <1>4, <2>1, <2>2, <2>3
<1>7. \A k \in 1 .. l - 1 : key(p[k + 1]) >= key(s)
  <2>1. ASSUME NEW k \in 1 .. l - 1 PROVE key(p[k + 1]) >= key(s)
    <3>1. ~(key(p[k + 1]) < key(s)) /\ p[k + 1] \in D
      BY <1>1, <1>2 DEF Sinks
    <3> HIDE DEF key
    <3>2. QED
      BY <1>5, <3>1
  <2>2. QED
    BY <2>1
<1>8. \A i \in D : \A c \in {2 * i + 1, 2 * i + 2} :
        c < n => /\ c \in D /\ 2 * i + 1 < n /\ c > i
                 /\ g(i) \in D /\ key(c) <= key(g(i)) /\ (g(i) = 2 * i + 1 \/ g(i) = 2 * i + 2)
  <2>1. ASSUME NEW i \in D, NEW c \in {2 * i + 1, 2 * i + 2}, c < n
        PROVE  /\ c \in D /\ 2 * i + 1 < n /\ c > i
               /\ g(i) \in D /\ key(c) <= key(g(i)) /\ (g(i) = 2 * i + 1 \/ g(i) = 2 * i + 2)
    <3>1. c \in D /\ 2 * i + 1 < n /\ c > i /\ 2 * i + 1 \in D /\ (2 * i + 2 < n => 2 * i + 2 \in D)
      BY <2>1
    <3>2. key(2 * i + 1) \in Int /\ (2 * i + 2 < n => key(2 * i + 2) \in Int)
      BY <1>5, <3>1
    <3> DEFINE e == 2 * i + 1
               f == 2 * i + 2
    <3>3. (c = e \/ c = f) /\ e < n /\ c < n
      BY <2>1, <3>1
    <3>4. CASE f < n /\ key(e) < key(f)
      <4>1. g(i) = f
        BY <3>4 DEF GreaterChild
      <4>2. key(e) <= key(f) /\ key(f) <= key(f)
        BY <3>2, <3>4
      <4>3. f \in D
        BY <3>1, <3>4
      <4> HIDE DEF g, key, e, f
      <4>4. key(c) <= key(g(i)) /\ g(i) \in D
        BY <3>3, <4>1, <4>2, <4>3
      <4>5. QED
        BY <3>1, <4>1, <4>4 DEF e, f
    <3>5. CASE ~(f < n /\ key(e) < key(f))
      <4>1. g(i) = e
        BY <3>5 DEF GreaterChild
      <4>2. (f < n => key(f) <= key(e)) /\ key(e) <= key(e)
        BY <3>2, <3>5
      <4>3. e \in D
        BY <3>1
      <4> HIDE DEF g, key, e, f
      <4>4. key(c) <= key(g(i)) /\ g(i) \in D
        BY <3>3, <4>1, <4>2, <4>3
      <4>5. QED
        BY <3>1, <4>1, <4>4 DEF e, f
    <3>6. QED
      BY <3>4, <3>5
  <2>2. QED
    BY <2>1
<1>9. \A i, j \in D : \A c : c \in {2 * i + 1, 2 * i + 2} /\ c \in {2 * j + 1, 2 * j + 2} => i = j
  OBVIOUS
<1>10. \A k \in 1 .. l : p[k] >= s
  <2>1. ASSUME NEW k \in 1 .. l PROVE p[k] >= s
    <3>1. k = 1 \/ p[1] < p[k]
      BY <1>1, <1>3
    <3>2. p[k] \in D /\ p[1] = s
      BY <1>1
    <3>3. QED
      BY <3>1, <3>2
  <2>2. QED
    BY <2>1
<1>11. \A j, k \in 1 .. l : p[j] = p[k] => j = k
  <2>1. ASSUME NEW j \in 1 .. l, NEW k \in 1 .. l, j < k PROVE p[j] # p[k]
    <3>1. p[j] < p[k] /\ p[j] \in D
      BY <1>1, <1>3, <2>1
    <3>2. QED
      BY <3>1
  <2>2. QED
    BY <1>1, <2>1
<1>12. \A i \in s + 1 .. n - 1 : \A c \in {2 * i + 1, 2 * i + 2} : c < n => key(c) <= key(i)
  BY DEF HeapFrom
(* A child on the path is the greater child of the place before it.        *)
<1>13. ASSUME NEW i \in s .. n - 1, NEW c \in {2 * i + 1, 2 * i + 2}, c < n, NEW k \in 1 .. l, p[k] = c
       PROVE  k # 1 /\ p[k - 1] = i /\ c = g(i)
  <2>1. i \in D /\ c > i /\ i >= s /\ c # s
    BY <1>8, <1>13
  <2>2. k # 1
    BY <1>1, <1>13, <2>1
  <2> DEFINE j == k - 1
  <2>3. j \in 1 .. l - 1 /\ j + 1 = k /\ j \in 1 .. l
    BY <1>1, <2>2
  <2> HIDE DEF j
  <2>4. p[j] \in D /\ Sinks(h, n, s, p[j]) /\ c = g(p[j])
    BY <1>1, <1>2, <1>13, <2>3
  <2>5. c \in {2 * p[j] + 1, 2 * p[j] + 2}
    BY <2>4 DEF GreaterChild
  <2> HIDE DEF g
  <2>6. p[j] = i
    BY <1>9, <1>13, <2>1, <2>4, <2>5
  <2>7. QED
    BY <2>2, <2>4, <2>6 DEF j
<1> HIDE DEF D, l, g, key
<1>14. ASSUME NEW i \in s .. n - 1, NEW c \in {2 * i + 1, 2 * i + 2}, c < n
       PROVE  r[c].key <= r[i].key
  <2>1. i \in D /\ c \in D /\ c > i /\ i >= s /\ i \in Int /\ c \in Int
    <3>1. i \in D
      BY DEF D
    <3>2. QED
      BY <1>8, <1>14, <3>1 DEF D
  <2>2. g(i) \in D /\ key(c) <= key(g(i)) /\ 2 * i + 1 < n
    BY <1>8, <1>14, <2>1
  <2>3. CASE Out(i)
    <3>1. i # s
      BY <1>1, <2>3
    <3>2. i \in s + 1 .. n - 1
      BY <2>1, <3>1
    <3>3. key(c) <= key(i)
      BY <1>12, <1>14, <3>2
    <3>4. Out(c)
      <4>1. ASSUME NEW k \in 1 .. l, p[k] = c PROVE FALSE
        <5>1. k # 1 /\ p[k - 1] = i
          BY <1>13, <1>14, <4>1
        <5>2. k - 1 \in 1 .. l
          BY <1>1, <5>1
        <5>3. QED
          BY <2>3, <5>1, <5>2
      <4>2. QED
        BY <4>1
    <3>5. QED
      BY <1>6, <2>1, <2>3, <3>3, <3>4 DEF key
  <2>4. ASSUME NEW k \in 1 .. l, p[k] = i PROVE r[c].key <= r[i].key
    <3>1. CASE k # l
      <4>1. k \in 1 .. l - 1 /\ k + 1 \in 1 .. l
        BY <1>1, <3>1
      <4>2. p[k + 1] = g(i) /\ r[i] = h[g(i)]
        BY <1>2, <1>6, <2>4, <4>1
      <4>3. CASE c = g(i)
        <5>1. CASE k + 1 = l
          <6>1. r[c] = h[s] /\ key(c) >= key(s) /\ r[i] = h[c]
            BY <1>6, <1>7, <4>1, <4>2, <4>3, <5>1
          <6>2. s \in D
            BY DEF D
          <6>3. key(s) \in Int /\ key(c) \in Int
            BY <1>5, <2>1, <6>2
          <6>4. key(s) <= key(c)
            BY <6>1, <6>3
          <6>5. QED
            BY <6>1, <6>4 DEF key
        <5>2. CASE k + 1 # l
          <6> DEFINE q == k + 1
          <6>1. q \in 1 .. l - 1 /\ p[q] = c /\ q + 1 \in 1 .. l
            BY <1>1, <4>1, <4>2, <4>3, <5>2
          <6> HIDE DEF q
          <6>2. p[q + 1] = g(c) /\ r[c] = h[g(c)] /\ Sinks(h, n, s, c)
            BY <1>2, <1>6, <6>1
          <6>3. c \in s + 1 .. n - 1
            BY <1>14, <2>1
          <6>4. g(c) \in {2 * c + 1, 2 * c + 2} /\ g(c) < n
            BY <2>1, <6>2 DEF Sinks, GreaterChild, g
          <6>5. key(g(c)) <= key(c)
            BY <1>12, <6>3, <6>4
          <6>6. QED
            BY <4>2, <4>3, <6>2, <6>5 DEF key
        <5>3. QED
          BY <5>1, <5>2
      <4>4. CASE c # g(i)
        <5>1. Out(c)
          <6>1. ASSUME NEW m \in 1 .. l, p[m] = c PROVE FALSE
            BY <1>13, <1>14, <4>4, <6>1
          <6>2. QED
            BY <6>1
        <5>2. r[c] = h[c]
          BY <1>6, <2>1, <5>1
        <5>3. QED
          BY <2>2, <4>2, <5>2 DEF key
      <4>5. QED
        BY <4>3, <4>4
    <3>2. CASE k = l
      <4>1. r[i] = h[s] /\ ~Sinks(h, n, s, i)
        BY <1>2, <1>6, <2>4, <3>2
      <4>2. key(g(i)) < key(s)
        BY <2>2, <4>1 DEF Sinks, g, key
      <4>3. Out(c)
        <5>1. ASSUME NEW m \in 1 .. l, p[m] = c PROVE FALSE
          <6>1. m # 1 /\ p[m - 1] = i
            BY <1>13, <1>14, <5>1
          <6>2. m - 1 \in 1 .. l - 1 /\ m - 1 \in 1 .. l
            BY <1>1, <6>1
          <6>3. m - 1 = l
            BY <1>11, <2>4, <3>2, <6>1, <6>2
          <6>4. QED
            BY <1>1, <6>2, <6>3
        <5>2. QED
          BY <5>1
      <4>4. r[c] = h[c]
        BY <1>6, <2>1, <4>3
      <4>5. s \in D
        BY DEF D
      <4>6. key(s) \in Int /\ key(c) \in Int /\ key(g(i)) \in Int
        BY <1>5, <2>1, <2>2, <4>5
      <4>7. key(c) <= key(s)
        BY <2>2, <4>2, <4>6
      <4>8. QED
        BY <4>1, <4>4, <4>7 DEF key
    <3>3. QED
      BY <3>1, <3>2
  <2>5. QED
    BY <2>3, <2>4
<1>15. QED
  BY <1>14 DEF HeapFrom

LEMMA SiftIs ==
  ASSUME NEW len \in Nat, NEW n \in 0 .. len, NEW Elements, \A x \in Elements : x.key \in Int,
         NEW h, IsArray(h, len, Elements), NEW s \in 0 .. n - 1,
         NEW r, r = O!H!sift_down_n(h, 0, n, s)
  PROVE  /\ IsArray(r, len, Elements) /\ Keeps(h, r, len, n)
         /\ HeapFrom(h, n, s + 1) => HeapFrom(r, n, s)
<1>1. CASE ~O!H!HasChild(s, n)
  <2>1. r = h
    BY <1>1 DEF O!H!sift_down_n
  <2>2. 2 * s + 1 >= n
    BY <1>1 DEF O!H!HasChild
  <2>3. \A i \in s .. n - 1 : i = s \/ i \in s + 1 .. n - 1
    OBVIOUS
  <2>4. \A c \in {2 * s + 1, 2 * s + 2} : ~(c < n)
    BY <2>2
  <2>5. HeapFrom(h, n, s + 1) => HeapFrom(h, n, s)
    BY <2>3, <2>4 DEF HeapFrom
  <2>6. QED
    BY <2>1, <2>5 DEF Keeps
<1>2. CASE O!H!HasChild(s, n)
  <2> DEFINE p == O!H!down_path(h, 0, n, s)
  <2>1. p \in Seq(0 .. n - 1) /\ IsPathFrom(h, n, s, s, p)
    BY DownPathIs
  <2>2. r = O!H!MoveAlong(h, p)
    BY <1>2 DEF O!H!sift_down_n
  <2> HIDE DEF p
  <2>3. p \in Seq(0 .. len - 1) /\ Upward(p) /\ h \in [0 .. len - 1 -> Elements]
    BY <2>1 DEF IsPathFrom, IsArray
  <2>4. r \in [0 .. len - 1 -> Elements] /\ IsShift(h, r, len, p)
    BY <2>2, <2>3, MoveAlongIs
  <2>5. IsArray(r, len, Elements) /\ Keeps(h, r, len, n)
    BY <2>1, <2>3, <2>4, ShiftKeeps
  <2>6. ASSUME HeapFrom(h, n, s + 1) PROVE HeapFrom(r, n, s)
    BY <2>1, <2>4, <2>6, SiftHeap
  <2>7. QED
    BY <2>5, <2>6
<1>3. QED
  BY <1>1, <1>2

LEMMA HeapTop ==
  ASSUME NEW n \in Nat, NEW h, \A i \in 0 .. n - 1 : h[i].key \in Int, HeapFrom(h, n, 0)
  PROVE  \A i \in 0 .. n - 1 : h[i].key <= h[0].key
<1> DEFINE D == 0 .. n - 1
           m == [i \in D |-> i]
           key(i) == h[i].key
           Good == {i \in D : key(i) <= key(0)}
<1>1. m \in [D -> Nat] /\ \A i \in D : m[i] = i
  OBVIOUS
<1>2. ASSUME NEW i \in D, \A j \in D : m[j] < m[i] => j \in Good PROVE i \in Good
  <2>1. CASE i = 0
    BY <2>1
  <2>2. CASE i # 0
    <3> DEFINE j == (i - 1) \div 2
    <3>1. j \in D /\ j < i /\ (i = 2 * j + 1 \/ i = 2 * j + 2) /\ i < n
      BY <2>2
    <3> HIDE DEF j
    <3>2. key(i) <= key(j)
      BY <3>1 DEF HeapFrom
    <3>3. j \in Good
      BY <1>1, <1>2, <3>1
    <3>4. 0 \in D
      OBVIOUS
    <3>5. key(i) \in Int /\ key(j) \in Int /\ key(0) \in Int /\ key(j) <= key(0)
      BY <3>1, <3>3, <3>4
    <3> HIDE DEF key
    <3>6. key(i) <= key(0)
      BY <3>2, <3>5
    <3>7. QED
      BY <3>6
  <2>3. QED
    BY <2>1, <2>2
<1>3. D \subseteq Good
  <2> HIDE DEF D, m, Good
  <2>1. QED
    BY <1>1, <1>2, ByMeasure
<1>4. QED
  BY <1>3

LEMMA KeepsOn ==
  ASSUME NEW len, NEW n, NEW h, NEW g, NEW r, Keeps(h, g, len, n), Keeps(g, r, len, n)
  PROVE  Keeps(h, r, len, n)
BY DEF Keeps

(* make_heap_n sifts the parents down, the last one first.                 *)
IsHeaping(f, h, n) ==
  f = [s \in 0 .. n |-> IF s < n \div 2 THEN O!H!sift_down_n(f[s + 1], 0, n, s) ELSE h]

LEMMA Heaping ==
  ASSUME NEW n \in Nat, NEW Elements, \A x \in Elements : x.key \in Int,
         NEW h, IsArray(h, n, Elements)
  PROVE  /\ \E f : IsHeaping(f, h, n)
         /\ \A f : IsHeaping(f, h, n) =>
              IsArray(f[0], n, Elements) /\ Keeps(h, f[0], n, n) /\ HeapFrom(f[0], n, 0)
<1> DEFINE D == 0 .. n
           Vals == {x \in [0 .. n - 1 -> Elements] : IsArray(x, n, Elements)}
           body(s, f) == IF s < n \div 2 THEN O!H!sift_down_n(f[s + 1], 0, n, s) ELSE h
           left == [s \in D |-> n - s]
           done == {s \in D : ~(s < n \div 2)}
           base == [s \in D |-> h]
           to(s) == IF s < n \div 2 THEN s + 1 ELSE s
           next == [s \in D |-> to(s)]
           sift(s, x) == O!H!sift_down_n(x, 0, n, s)
           one(s, x) == IF s < n \div 2 THEN sift(s, x) ELSE x
           step == [s \in D |-> [x \in Vals |-> one(s, x)]]
           Good == {p \in D \X Vals : Keeps(h, p[2], n, n) /\ HeapFrom(p[2], n, p[1])}
<1>1. /\ 0 \in D
      /\ \A s \in D : n - s \in Nat
      /\ \A s \in D : s < n \div 2 => s + 1 \in D /\ s \in 0 .. n - 1 /\ n - (s + 1) < n - s
      /\ \A s \in D : ~(s < n \div 2) => \A i \in s .. n - 1 : 2 * i + 1 >= n
      /\ n \in 0 .. n
  OBVIOUS
<1>2. \A s \in D : s \in done <=> ~(s < n \div 2)
  OBVIOUS
<1>3. \A x : x \in Vals <=> IsArray(x, n, Elements)
  BY DEF IsArray
<1>4. ASSUME NEW s \in D, NEW x \in Vals, s < n \div 2
      PROVE  /\ sift(s, x) \in Vals
             /\ Keeps(x, sift(s, x), n, n)
             /\ HeapFrom(x, n, s + 1) => HeapFrom(sift(s, x), n, s)
  <2> DEFINE r == sift(s, x)
  <2>1. r = O!H!sift_down_n(x, 0, n, s)
    OBVIOUS
  <2> HIDE DEF r
  <2>2. IsArray(x, n, Elements) /\ s \in 0 .. n - 1
    BY <1>1, <1>3, <1>4
  <2>3. /\ IsArray(r, n, Elements) /\ Keeps(x, r, n, n)
        /\ HeapFrom(x, n, s + 1) => HeapFrom(r, n, s)
    BY <1>1, <2>1, <2>2, SiftIs
  <2>4. r \in Vals
    BY <1>3, <2>3
  <2>5. QED
    BY <2>3, <2>4 DEF r
<1> HIDE DEF sift, done
<1>5. /\ left \in [D -> Nat] /\ next \in [D -> D] /\ base \in [D -> Vals] /\ step \in [D -> [Vals -> Vals]]
      /\ \A s \in D : left[s] = n - s /\ next[s] = to(s) /\ base[s] = h
      /\ \A s \in D : \A x \in Vals : step[s][x] = one(s, x)
  <2>1. h \in Vals
    BY <1>3
  <2>2. \A s \in D : to(s) \in D
    BY <1>1
  <2>3. \A s \in D : \A x \in Vals : one(s, x) \in Vals
    BY <1>4
  <2> HIDE DEF D, Vals, to, one
  <2>4. left \in [D -> Nat]
    BY <1>1
  <2>5. next \in [D -> D]
    BY <2>2
  <2>6. base \in [D -> Vals]
    BY <2>1
  <2>7. step \in [D -> [Vals -> Vals]]
    BY <2>3
  <2>8. QED
    BY <2>4, <2>5, <2>6, <2>7
<1>6. \A s \in D : \A x \in Vals : <<s, x>> \in Good <=> Keeps(h, x, n, n) /\ HeapFrom(x, n, s)
  <2> HIDE DEF D, Vals
  <2>1. QED
    OBVIOUS
<1> HIDE DEF left, next, base, step, Good
<1>7. KeepsGood(Good, D, Vals, done, base, next, step)
  <2>1. ASSUME NEW s \in D, s \in done PROVE <<s, base[s]>> \in Good
    <3>1. base[s] = h /\ h \in Vals /\ ~(s < n \div 2)
      BY <1>2, <1>3, <1>5, <2>1
    <3>2. HeapFrom(h, n, s)
      <4>1. ASSUME NEW i \in s .. n - 1, NEW c \in {2 * i + 1, 2 * i + 2} PROVE ~(c < n)
        <5>1. 2 * i + 1 >= n
          BY <1>1, <3>1
        <5>2. QED
          BY <5>1
      <4>2. QED
        BY <4>1 DEF HeapFrom
    <3>3. Keeps(h, h, n, n)
      BY DEF Keeps
    <3> HIDE DEF Vals, D
    <3>4. QED
      BY <1>6, <3>1, <3>2, <3>3
  <2>2. ASSUME NEW s \in D, NEW x \in Vals, s \notin done, <<next[s], x>> \in Good
        PROVE  <<s, step[s][x]>> \in Good
    <3>1. s < n \div 2 /\ next[s] = s + 1 /\ s + 1 \in D /\ step[s][x] = sift(s, x)
      BY <1>1, <1>2, <1>5, <2>2
    <3> HIDE DEF D, Vals
    <3>2. Keeps(h, x, n, n) /\ HeapFrom(x, n, s + 1)
      BY <1>6, <2>2, <3>1
    <3>3. sift(s, x) \in Vals /\ Keeps(x, sift(s, x), n, n) /\ HeapFrom(sift(s, x), n, s)
      BY <1>4, <3>1, <3>2
    <3>4. Keeps(h, sift(s, x), n, n)
      BY <3>2, <3>3, KeepsOn
    <3>5. QED
      BY <1>6, <3>1, <3>3, <3>4
  <2> HIDE DEF D, Vals
  <2>3. QED
    BY <2>1, <2>2 DEF KeepsGood
<1>8. LoopsGood(Good, D, Vals, done, base, next, step)
  <2>1. \A s \in D : s \notin done => left[next[s]] < left[s]
    BY <1>1, <1>2, <1>5
  <2>2. Vals # {}
    BY <1>3
  <2> HIDE DEF D, Vals
  <2>3. QED
    BY <1>5, <1>7, <2>1, <2>2, Looping
<1>9. ASSUME NEW s \in D, NEW f
      PROVE  body(s, f) = IF s \in done THEN base[s] ELSE sift(s, f[next[s]])
  <2>1. CASE s < n \div 2
    BY <1>2, <1>5, <2>1 DEF sift
  <2>2. CASE ~(s < n \div 2)
    BY <1>2, <1>5, <2>2
  <2>3. QED
    BY <2>1, <2>2
<1>10. \A s \in D : \A x \in Vals : s \notin done => step[s][x] = sift(s, x)
  BY <1>2, <1>5
<1> HIDE DEF body
<1>11. \A f : IsHeaping(f, h, n) <=> f = [s \in D |-> body(s, f)]
  BY DEF IsHeaping, body
<1>12. \E f : IsHeaping(f, h, n)
  <2> HIDE DEF D, Vals
  <2>1. PICK f \in [D -> Vals] : f = [s \in D |-> IF s \in done THEN base[s] ELSE step[s][f[next[s]]]]
    BY <1>8 DEF LoopsGood, IsLoop
  <2>2. ASSUME NEW s \in D PROVE (IF s \in done THEN base[s] ELSE step[s][f[next[s]]]) = body(s, f)
    <3>1. f[next[s]] \in Vals
      BY <1>5
    <3>2. s \notin done => step[s][f[next[s]]] = sift(s, f[next[s]])
      BY <1>10, <3>1
    <3>3. QED
      BY <1>9, <3>2
  <2>3. f = [s \in D |-> body(s, f)]
    BY <2>1, <2>2
  <2>4. QED
    BY <1>11, <2>3
<1>13. ASSUME NEW f, IsHeaping(f, h, n)
       PROVE  IsArray(f[0], n, Elements) /\ Keeps(h, f[0], n, n) /\ HeapFrom(f[0], n, 0)
  <2> HIDE DEF D, Vals
  <2>1. \A s \in D : f[s] = body(s, f)
    BY <1>11, <1>13
  <2>2. Loops(f, D, Vals, done, base, next, step)
    BY <1>9, <1>10, <2>1 DEF Loops
  <2>3. f[0] \in Vals /\ <<0, f[0]>> \in Good
    BY <1>1, <1>8, <2>2 DEF LoopsGood
  <2>4. QED
    BY <1>1, <1>3, <1>6, <2>3
<1>14. QED
  BY <1>12, <1>13

LEMMA MakeHeapIs ==
  ASSUME NEW n \in Nat, NEW Elements, \A x \in Elements : x.key \in Int,
         NEW h, IsArray(h, n, Elements), NEW r, r = O!H!make_heap_n(h, 0, n)
  PROVE  IsArray(r, n, Elements) /\ Keeps(h, r, n, n) /\ HeapFrom(r, n, 0)
<1> DEFINE body(s, f) == IF s < n \div 2 THEN O!H!sift_down_n(f[s + 1], 0, n, s) ELSE h
           sifted[s \in 0 .. n] == IF s < n \div 2 THEN O!H!sift_down_n(sifted[s + 1], 0, n, s) ELSE h
<1>1. r = sifted[0]
  BY DEF O!H!make_heap_n, O!H!sifted_parents
<1>2. sifted = CHOOSE f : f = [s \in 0 .. n |-> body(s, f)]
  OBVIOUS
<1> HIDE DEF sifted
<1>3. \E f : f = [s \in 0 .. n |-> body(s, f)]
  BY Heaping DEF IsHeaping
<1>4. sifted = [s \in 0 .. n |-> body(s, sifted)]
  <2> HIDE DEF body
  <2>1. QED
    BY <1>2, <1>3
<1>5. IsHeaping(sifted, h, n)
  BY <1>4 DEF IsHeaping
<1>6. QED
  BY <1>1, <1>5, Heaping

(* The places from i on have the greatest elements, in order.              *)
SortedFrom(x, n, i) == \A j \in i .. n - 1 : \A l \in 0 .. j : x[l].key <= x[j].key

LEMMA ExchangeKeeps ==
  ASSUME NEW n \in Nat, NEW i \in 0 .. n - 1, NEW Elements, NEW x, IsArray(x, n, Elements),
         NEW y, y = Exchanged(x, 0, i)
  PROVE  /\ IsArray(y, n, Elements) /\ Keeps(x, y, n, i + 1)
         /\ y[0] = x[i] /\ y[i] = x[0]
         /\ \A l \in 0 .. n - 1 : l # 0 /\ l # i => y[l] = x[l]
<1> DEFINE D == 0 .. n - 1
<1>1. /\ i \in D /\ 0 \in D /\ \A l \in i + 1 .. n - 1 : l # 0 /\ l # i /\ l \in D
      /\ 0 \in 0 .. i /\ i \in 0 .. i /\ (\A l \in 0 .. i : l \in D) /\ i + 1 - 1 = i
  OBVIOUS
<1>2. x \in [D -> Elements] /\ \A l, k \in D : x[l] = x[k] => l = k
  BY DEF IsArray
<1> HIDE DEF D
<1>3. /\ y \in [D -> Elements] /\ y[0] = x[i] /\ y[i] = x[0]
      /\ \A l \in D : l # 0 /\ l # i => y[l] = x[l]
  BY <1>1, <1>2 DEF Exchanged
<1>4. \A l, k \in D : y[l] = y[k] => l = k
  BY <1>1, <1>2, <1>3
<1>5. \A z : (\E l \in 0 .. i : x[l] = z) <=> (\E l \in 0 .. i : y[l] = z)
  BY <1>1, <1>3
<1>6. Keeps(x, y, n, i + 1)
  BY <1>1, <1>3, <1>5 DEF Keeps, Holds
<1>7. QED
  BY <1>3, <1>4, <1>6 DEF IsArray, D

LEMMA KeepsMore ==
  ASSUME NEW n \in Nat, NEW i \in 0 .. n, NEW y, NEW r, Keeps(y, r, n, i)
  PROVE  Keeps(y, r, n, n)
<1>1. /\ \A l \in 0 .. n - 1 : l \in 0 .. i - 1 \/ l \in i .. n - 1
      /\ \A l \in 0 .. i - 1 : l \in 0 .. n - 1
      /\ \A l \in i .. n - 1 : l \in 0 .. n - 1
      /\ \A l \in n .. n - 1 : FALSE
  OBVIOUS
<1>2. ASSUME NEW z, NEW l \in 0 .. n - 1, y[l] = z PROVE \E k \in 0 .. n - 1 : r[k] = z
  <2>1. CASE l \in 0 .. i - 1
    <3>1. \E k \in 0 .. i - 1 : r[k] = z
      BY <1>2, <2>1 DEF Keeps, Holds
    <3>2. QED
      BY <1>1, <3>1
  <2>2. CASE l \in i .. n - 1
    BY <1>2, <2>2 DEF Keeps
  <2>3. QED
    BY <1>1, <2>1, <2>2
<1>3. ASSUME NEW z, NEW l \in 0 .. n - 1, r[l] = z PROVE \E k \in 0 .. n - 1 : y[k] = z
  <2>1. CASE l \in 0 .. i - 1
    <3>1. \E k \in 0 .. i - 1 : y[k] = z
      BY <1>3, <2>1 DEF Keeps, Holds
    <3>2. QED
      BY <1>1, <3>1
  <2>2. CASE l \in i .. n - 1
    BY <1>3, <2>2 DEF Keeps
  <2>3. QED
    BY <1>1, <2>1, <2>2
<1>4. QED
  BY <1>1, <1>2, <1>3 DEF Keeps, Holds

Pops(x, r, n, i) ==
  HeapFrom(x, i + 1, 0) /\ SortedFrom(x, n, i + 1) => HeapFrom(r, i, 0) /\ SortedFrom(r, n, i)

LEMMA PopIs ==
  ASSUME NEW n \in Nat, NEW Elements, \A e \in Elements : e.key \in Int,
         NEW x, IsArray(x, n, Elements), NEW i \in 1 .. n - 1,
         NEW r, r = O!H!pop_heap_n(x, 0, i + 1)
  PROVE  IsArray(r, n, Elements) /\ Keeps(x, r, n, n) /\ Pops(x, r, n, i)
<1> DEFINE y == Exchanged(x, 0, i)
<1>1. r = O!H!sift_down_n(y, 0, i, 0)
  <2> DEFINE top == 0 + (i + 1) - 1
             rest == i + 1 - 1
  <2>1. i + 1 > 1 /\ top = i /\ rest = i
    OBVIOUS
  <2>2. r = O!H!sift_down_n(O!H!iter_swap(x, 0, top), 0, rest, 0)
    BY <2>1 DEF O!H!pop_heap_n
  <2>3. O!H!iter_swap(x, 0, i) = y
    BY DEF O!H!iter_swap, Exchanged
  <2> HIDE DEF top, rest, y
  <2>4. QED
    BY <2>1, <2>2, <2>3
<1>2. y = Exchanged(x, 0, i)
  OBVIOUS
<1> HIDE DEF y
<1>3. i \in 0 .. n - 1 /\ 0 \in 0 .. i - 1 /\ i \in 0 .. n /\ i + 1 \in 0 .. n /\ i \in Nat /\ i + 1 \in Nat
  OBVIOUS
<1>4. /\ IsArray(y, n, Elements) /\ Keeps(x, y, n, i + 1)
      /\ y[0] = x[i] /\ y[i] = x[0]
      /\ \A l \in 0 .. n - 1 : l # 0 /\ l # i => y[l] = x[l]
  BY <1>2, <1>3, ExchangeKeeps
<1>5. /\ IsArray(r, n, Elements) /\ Keeps(y, r, n, i)
      /\ HeapFrom(y, i, 0 + 1) => HeapFrom(r, i, 0)
  BY <1>1, <1>3, <1>4, SiftIs
<1>6. Keeps(x, r, n, n)
  <2>1. Keeps(x, y, n, n)
    BY <1>3, <1>4, KeepsMore
  <2>2. Keeps(y, r, n, n)
    BY <1>3, <1>5, KeepsMore
  <2>3. QED
    BY <2>1, <2>2, KeepsOn
<1>7. ASSUME HeapFrom(x, i + 1, 0), SortedFrom(x, n, i + 1)
      PROVE  HeapFrom(r, i, 0) /\ SortedFrom(r, n, i)
  <2>1. HeapFrom(y, i, 0 + 1)
    <3>1. ASSUME NEW k \in 0 + 1 .. i - 1, NEW c \in {2 * k + 1, 2 * k + 2}, c < i
          PROVE  y[c].key <= y[k].key
      <4>1. /\ k \in 0 .. n - 1 /\ k # 0 /\ k # i /\ c \in 0 .. n - 1 /\ c # 0 /\ c # i
            /\ k \in 0 .. i + 1 - 1 /\ c < i + 1
        BY <3>1
      <4>2. x[c].key <= x[k].key
        BY <1>7, <3>1, <4>1 DEF HeapFrom
      <4>3. QED
        BY <1>4, <4>1, <4>2
    <3>2. QED
      BY <3>1 DEF HeapFrom
  <2>2. \A l \in 0 .. i : x[l].key <= x[0].key
    <3>1. i + 1 - 1 = i /\ \A l \in 0 .. i : l \in 0 .. n - 1
      OBVIOUS
    <3>2. \A l \in 0 .. i + 1 - 1 : x[l].key \in Int
      BY <3>1 DEF IsArray
    <3>3. QED
      BY <1>3, <1>7, <3>1, <3>2, HeapTop
  <2>3. ASSUME NEW j \in i .. n - 1, NEW l \in 0 .. j PROVE \E k \in 0 .. j : r[l] = y[k]
    <3>1. CASE l \in 0 .. i - 1
      <4>1. \E k \in 0 .. i - 1 : y[k] = r[l]
        BY <1>5, <3>1 DEF Keeps, Holds
      <4>2. QED
        BY <4>1
    <3>2. CASE l \in i .. n - 1
      BY <1>5, <3>2 DEF Keeps
    <3>3. l \in 0 .. i - 1 \/ l \in i .. n - 1
      OBVIOUS
    <3>4. QED
      BY <3>1, <3>2, <3>3
  <2>4. ASSUME NEW j \in i .. n - 1, NEW l \in 0 .. j PROVE \E k \in 0 .. j : y[l] = x[k]
    <3>1. 0 \in 0 .. j /\ i \in 0 .. j /\ l \in 0 .. n - 1
      OBVIOUS
    <3>2. QED
      BY <1>4, <3>1
  <2>5. ASSUME NEW j \in i .. n - 1, NEW l \in 0 .. j PROVE r[l].key <= r[j].key
    <3>1. PICK k \in 0 .. j : r[l] = x[k]
      <4>1. PICK e \in 0 .. j : r[l] = y[e]
        BY <2>3
      <4>2. \E k \in 0 .. j : y[e] = x[k]
        BY <2>4
      <4>3. QED
        BY <4>1, <4>2
    <3>2. r[j] = y[j]
      BY <1>5 DEF Keeps
    <3>3. CASE j = i
      BY <1>4, <2>2, <3>1, <3>2, <3>3
    <3>4. CASE j # i
      <4>1. j \in i + 1 .. n - 1 /\ j \in 0 .. n - 1 /\ j # 0
        BY <3>4
      <4>2. y[j] = x[j] /\ x[k].key <= x[j].key
        BY <1>4, <1>7, <3>1, <3>4, <4>1 DEF SortedFrom
      <4>3. QED
        BY <3>1, <3>2, <4>2
    <3>5. QED
      BY <3>3, <3>4
  <2>6. HeapFrom(r, i, 0)
    BY <1>5, <2>1
  <2>7. QED
    BY <2>5, <2>6 DEF SortedFrom
<1>8. QED
  BY <1>5, <1>6, <1>7 DEF Pops

(* sort_heap_n pops the heap until one element is left.                    *)
IsPopping(f, h, n) == f = [i \in 1 .. n |-> IF i = n THEN h ELSE O!H!pop_heap_n(f[i + 1], 0, i + 1)]

LEMMA Popping ==
  ASSUME NEW n \in Nat, n # 0, NEW Elements, \A x \in Elements : x.key \in Int,
         NEW h, IsArray(h, n, Elements), HeapFrom(h, n, 0)
  PROVE  /\ \E f : IsPopping(f, h, n)
         /\ \A f : IsPopping(f, h, n) =>
              IsArray(f[1], n, Elements) /\ Keeps(h, f[1], n, n) /\ SortedFrom(f[1], n, 1)
<1> DEFINE D == 1 .. n
           Vals == {x \in [0 .. n - 1 -> Elements] : IsArray(x, n, Elements)}
           body(i, f) == IF i = n THEN h ELSE O!H!pop_heap_n(f[i + 1], 0, i + 1)
           left == [i \in D |-> n - i]
           done == {n}
           base == [i \in D |-> h]
           to(i) == IF i = n THEN i ELSE i + 1
           next == [i \in D |-> to(i)]
           pop(i, x) == O!H!pop_heap_n(x, 0, i + 1)
           one(i, x) == IF i = n THEN x ELSE pop(i, x)
           step == [i \in D |-> [x \in Vals |-> one(i, x)]]
           Holding(i, x) == Keeps(h, x, n, n) /\ HeapFrom(x, i, 0) /\ SortedFrom(x, n, i)
           Good == {p \in D \X Vals : Holding(p[1], p[2])}
<1>1. /\ 1 \in D
      /\ \A i \in D : n - i \in Nat
      /\ \A i \in D : i # n => i + 1 \in D /\ i \in 1 .. n - 1 /\ n - (i + 1) < n - i
  OBVIOUS
<1>2. \A i \in D : i \in done <=> i = n
  OBVIOUS
<1>3. \A x : x \in Vals <=> IsArray(x, n, Elements)
  BY DEF IsArray
<1>4. ASSUME NEW i \in D, NEW x \in Vals, i # n
      PROVE  /\ pop(i, x) \in Vals
             /\ Holding(i + 1, x) => Holding(i, pop(i, x))
  <2> DEFINE r == pop(i, x)
  <2>1. r = O!H!pop_heap_n(x, 0, i + 1)
    OBVIOUS
  <2> HIDE DEF r
  <2>2. IsArray(x, n, Elements) /\ i \in 1 .. n - 1
    BY <1>1, <1>3, <1>4
  <2>3. IsArray(r, n, Elements) /\ Keeps(x, r, n, n) /\ Pops(x, r, n, i)
    BY <2>1, <2>2, PopIs
  <2>4. r \in Vals
    BY <1>3, <2>3
  <2>5. ASSUME Holding(i + 1, x) PROVE Holding(i, r)
    <3>1. Keeps(h, x, n, n)
      BY <2>5
    <3>2. Keeps(h, r, n, n)
      BY <2>3, <3>1, KeepsOn
    <3>3. QED
      BY <2>3, <2>5, <3>2 DEF Pops
  <2>6. QED
    BY <2>4, <2>5 DEF r
<1>5. Holding(n, h)
  <2>1. Keeps(h, h, n, n)
    BY DEF Keeps
  <2>2. SortedFrom(h, n, n)
    BY DEF SortedFrom
  <2>3. QED
    BY <2>1, <2>2
<1> HIDE DEF pop, done
<1>6. /\ left \in [D -> Nat] /\ next \in [D -> D] /\ base \in [D -> Vals] /\ step \in [D -> [Vals -> Vals]]
      /\ \A i \in D : left[i] = n - i /\ next[i] = to(i) /\ base[i] = h
      /\ \A i \in D : \A x \in Vals : step[i][x] = one(i, x)
  <2>1. h \in Vals
    BY <1>3
  <2>2. \A i \in D : to(i) \in D
    BY <1>1
  <2>3. \A i \in D : \A x \in Vals : one(i, x) \in Vals
    BY <1>4
  <2> HIDE DEF D, Vals, to, one
  <2>4. left \in [D -> Nat]
    BY <1>1
  <2>5. next \in [D -> D]
    BY <2>2
  <2>6. base \in [D -> Vals]
    BY <2>1
  <2>7. step \in [D -> [Vals -> Vals]]
    BY <2>3
  <2>8. QED
    BY <2>4, <2>5, <2>6, <2>7
<1>7. \A i \in D : \A x \in Vals : <<i, x>> \in Good <=> Holding(i, x)
  <2> HIDE DEF D, Vals, Holding
  <2>1. QED
    OBVIOUS
<1> HIDE DEF left, next, base, step, Good, Holding
<1>8. KeepsGood(Good, D, Vals, done, base, next, step)
  <2>1. ASSUME NEW i \in D, i \in done PROVE <<i, base[i]>> \in Good
    <3>1. base[i] = h /\ h \in Vals /\ i = n
      BY <1>2, <1>3, <1>6, <2>1
    <3> HIDE DEF Vals, D
    <3>2. QED
      BY <1>5, <1>7, <3>1
  <2>2. ASSUME NEW i \in D, NEW x \in Vals, i \notin done, <<next[i], x>> \in Good
        PROVE  <<i, step[i][x]>> \in Good
    <3>1. i # n /\ next[i] = i + 1 /\ i + 1 \in D /\ step[i][x] = pop(i, x)
      BY <1>1, <1>2, <1>6, <2>2
    <3> HIDE DEF D, Vals
    <3>2. Holding(i + 1, x)
      BY <1>7, <2>2, <3>1
    <3>3. pop(i, x) \in Vals /\ Holding(i, pop(i, x))
      BY <1>4, <3>1, <3>2
    <3>4. QED
      BY <1>7, <3>1, <3>3
  <2> HIDE DEF D, Vals
  <2>3. QED
    BY <2>1, <2>2 DEF KeepsGood
<1>9. LoopsGood(Good, D, Vals, done, base, next, step)
  <2>1. \A i \in D : i \notin done => left[next[i]] < left[i]
    BY <1>1, <1>2, <1>6
  <2>2. Vals # {}
    BY <1>3
  <2> HIDE DEF D, Vals
  <2>3. QED
    BY <1>6, <1>8, <2>1, <2>2, Looping
<1>10. ASSUME NEW i \in D, NEW f
       PROVE  body(i, f) = IF i \in done THEN base[i] ELSE pop(i, f[next[i]])
  <2>1. CASE i # n
    BY <1>2, <1>6, <2>1 DEF pop
  <2>2. CASE i = n
    BY <1>2, <1>6, <2>2
  <2>3. QED
    BY <2>1, <2>2
<1>11. \A i \in D : \A x \in Vals : i \notin done => step[i][x] = pop(i, x)
  BY <1>2, <1>6
<1> HIDE DEF body
<1>12. \A f : IsPopping(f, h, n) <=> f = [i \in D |-> body(i, f)]
  BY DEF IsPopping, body
<1>13. \E f : IsPopping(f, h, n)
  <2> HIDE DEF D, Vals
  <2>1. PICK f \in [D -> Vals] : f = [i \in D |-> IF i \in done THEN base[i] ELSE step[i][f[next[i]]]]
    BY <1>9 DEF LoopsGood, IsLoop
  <2>2. ASSUME NEW i \in D PROVE (IF i \in done THEN base[i] ELSE step[i][f[next[i]]]) = body(i, f)
    <3>1. f[next[i]] \in Vals
      BY <1>6
    <3>2. i \notin done => step[i][f[next[i]]] = pop(i, f[next[i]])
      BY <1>11, <3>1
    <3>3. QED
      BY <1>10, <3>2
  <2>3. f = [i \in D |-> body(i, f)]
    BY <2>1, <2>2
  <2>4. QED
    BY <1>12, <2>3
<1>14. ASSUME NEW f, IsPopping(f, h, n)
       PROVE  IsArray(f[1], n, Elements) /\ Keeps(h, f[1], n, n) /\ SortedFrom(f[1], n, 1)
  <2> HIDE DEF D, Vals
  <2>1. \A i \in D : f[i] = body(i, f)
    BY <1>12, <1>14
  <2>2. Loops(f, D, Vals, done, base, next, step)
    BY <1>10, <1>11, <2>1 DEF Loops
  <2>3. f[1] \in Vals /\ <<1, f[1]>> \in Good
    BY <1>1, <1>9, <2>2 DEF LoopsGood
  <2>4. Holding(1, f[1])
    BY <1>1, <1>7, <2>3
  <2>5. QED
    BY <1>3, <2>3, <2>4 DEF Holding
<1>15. QED
  BY <1>13, <1>14

LEMMA SortHeapIs ==
  ASSUME NEW n \in Nat, NEW Elements, \A x \in Elements : x.key \in Int,
         NEW h, IsArray(h, n, Elements), HeapFrom(h, n, 0), NEW r, r = O!H!sort_heap_n(h, 0, n)
  PROVE  /\ IsArray(r, n, Elements) /\ Keeps(h, r, n, n)
         /\ \A i, j \in 0 .. n - 1 : i < j => r[i].key <= r[j].key
<1>1. CASE n < 2
  <2>1. r = h
    BY <1>1 DEF O!H!sort_heap_n
  <2>2. \A i, j \in 0 .. n - 1 : ~(i < j)
    BY <1>1
  <2>3. QED
    BY <2>1, <2>2 DEF Keeps
<1>2. CASE ~(n < 2)
  <2> DEFINE body(i, f) == IF i = n THEN h ELSE O!H!pop_heap_n(f[i + 1], 0, i + 1)
             popped[i \in 1 .. n] == IF i = n THEN h ELSE O!H!pop_heap_n(popped[i + 1], 0, i + 1)
  <2>1. r = popped[1]
    BY <1>2 DEF O!H!sort_heap_n, O!H!popped_heaps
  <2>2. popped = CHOOSE f : f = [i \in 1 .. n |-> body(i, f)]
    OBVIOUS
  <2> HIDE DEF popped
  <2>3. n # 0
    BY <1>2
  <2>4. \E f : f = [i \in 1 .. n |-> body(i, f)]
    BY <2>3, Popping DEF IsPopping
  <2>5. popped = [i \in 1 .. n |-> body(i, popped)]
    <3> HIDE DEF body
    <3>1. QED
      BY <2>2, <2>4
  <2>6. IsPopping(popped, h, n)
    BY <2>5 DEF IsPopping
  <2>7. IsArray(r, n, Elements) /\ Keeps(h, r, n, n) /\ SortedFrom(r, n, 1)
    BY <2>1, <2>3, <2>6, Popping
  <2>8. ASSUME NEW i \in 0 .. n - 1, NEW j \in 0 .. n - 1, i < j PROVE r[i].key <= r[j].key
    <3>1. j \in 1 .. n - 1 /\ i \in 0 .. j
      BY <2>8
    <3>2. QED
      BY <2>7, <3>1 DEF SortedFrom
  <2>9. QED
    BY <2>7, <2>8
<1>3. QED
  BY <1>1, <1>2

LEMMA SiftType ==
  ASSUME NEW len \in Nat, NEW Elements, NEW h \in [0 .. len - 1 -> Elements], NEW s \in 0 .. len - 1
  PROVE  O!H!sift_down_n(h, 0, len, s) \in [0 .. len - 1 -> Elements]
<1>1. CASE ~O!H!HasChild(s, len)
  BY <1>1 DEF O!H!sift_down_n
<1>2. CASE O!H!HasChild(s, len)
  <2> DEFINE p == O!H!down_path(h, 0, len, s)
             r == O!H!sift_down_n(h, 0, len, s)
  <2>1. p \in Seq(0 .. len - 1) /\ IsPathFrom(h, len, s, s, p)
    BY DownPathIs
  <2>2. r = O!H!MoveAlong(h, p)
    BY <1>2 DEF O!H!sift_down_n
  <2> HIDE DEF p, r
  <2>3. Upward(p)
    BY <2>1 DEF IsPathFrom
  <2>4. r \in [0 .. len - 1 -> Elements]
    BY <2>1, <2>2, <2>3, MoveAlongIs
  <2>5. QED
    BY <2>4 DEF r
<1>3. QED
  BY <1>1, <1>2

(* The array has the least of the elements of T.                           *)
Best(x, len, T) ==
  /\ IsArray(x, len, T)
  /\ \A e \in T : Holds(x, len, e) \/ \A j \in 0 .. len - 1 : x[j].key <= e.key

(* An element that is less than the top takes its place and sinks.         *)
Taken(x, len, e) ==
  IF e.key < x[0].key THEN O!H!sift_down_n([x EXCEPT ![0] = e], 0, len, 0) ELSE x

LEMMA BestStep ==
  ASSUME NEW len \in Nat, len # 0, NEW T, \A y \in T : y.key \in Int, NEW e, e.key \in Int, e \notin T,
         NEW x, Best(x, len, T), HeapFrom(x, len, 0), NEW r, r = Taken(x, len, e)
  PROVE  Best(r, len, T \cup {e}) /\ HeapFrom(r, len, 0)
<1> DEFINE D == 0 .. len - 1
           V == T \cup {e}
<1>1. x \in [D -> T] /\ \A i, j \in D : x[i] = x[j] => i = j
  BY DEF Best, IsArray
<1>2. 0 \in D /\ len \in 0 .. len /\ 0 \in 0 .. len - 1
  OBVIOUS
<1>3. \A y \in V : y.key \in Int
  OBVIOUS
<1>4. \A i \in D : x[i].key \in Int /\ x[i].key <= x[0].key
  <2>1. \A i \in D : x[i].key \in Int
    BY <1>1
  <2>2. QED
    BY <2>1, HeapTop
<1>5. \A y \in T : Holds(x, len, y) \/ \A j \in D : x[j].key <= y.key
  BY DEF Best
<1> HIDE DEF D, V
<1>6. CASE ~(e.key < x[0].key)
  <2>1. r = x
    BY <1>6 DEF Taken
  <2>2. \A j \in D : x[j].key <= e.key
    BY <1>2, <1>4, <1>6
  <2>3. x \in [D -> V]
    BY <1>1 DEF V
  <2>4. \A y \in V : Holds(x, len, y) \/ \A j \in D : x[j].key <= y.key
    BY <1>5, <2>2 DEF V
  <2>5. QED
    BY <1>1, <2>1, <2>3, <2>4 DEF Best, IsArray, D, V
<1>7. CASE e.key < x[0].key
  <2> DEFINE z == [x EXCEPT ![0] = e]
  <2>1. r = O!H!sift_down_n(z, 0, len, 0)
    BY <1>7 DEF Taken
  <2>2. z \in [D -> V] /\ z[0] = e /\ \A i \in D : i # 0 => z[i] = x[i]
    BY <1>1, <1>2 DEF V
  <2> HIDE DEF z
  <2>3. \A i, j \in D : z[i] = z[j] => i = j
    <3>1. \A i \in D : x[i] # e
      BY <1>1
    <3>2. QED
      BY <1>1, <2>2, <3>1
  <2>4. IsArray(z, len, V)
    BY <2>2, <2>3 DEF IsArray, D
  <2>5. HeapFrom(z, len, 0 + 1)
    <3>1. ASSUME NEW i \in 0 + 1 .. len - 1, NEW c \in {2 * i + 1, 2 * i + 2}, c < len
          PROVE  z[c].key <= z[i].key
      <4>1. i \in 0 .. len - 1 /\ i # 0 /\ c \in 0 .. len - 1 /\ c # 0
        BY <3>1
      <4>2. x[c].key <= x[i].key
        BY <3>1, <4>1 DEF HeapFrom
      <4>3. QED
        BY <2>2, <4>1, <4>2 DEF D
    <3>2. QED
      BY <3>1 DEF HeapFrom
  <2>6. /\ IsArray(r, len, V) /\ Keeps(z, r, len, len)
        /\ HeapFrom(z, len, 0 + 1) => HeapFrom(r, len, 0)
    BY <1>2, <1>3, <2>1, <2>4, SiftIs
  <2>7. \A j \in D : z[j].key <= x[0].key /\ z[j].key \in Int
    <3>1. z[0].key <= x[0].key /\ z[0].key \in Int
      BY <1>2, <1>4, <1>7, <2>2
    <3>2. QED
      BY <1>4, <2>2, <3>1
  <2>8. \A y : Holds(r, len, y) <=> Holds(z, len, y)
    BY <2>6 DEF Keeps
  <2>9. \A y \in V : Holds(z, len, y) \/ \A j \in D : z[j].key <= y.key
    <3>1. Holds(z, len, e)
      BY <1>2, <2>2 DEF Holds
    <3>2. ASSUME NEW y \in T, NEW i \in D, x[i] = y, i # 0 PROVE Holds(z, len, y)
      BY <2>2, <3>2 DEF Holds, D
    <3>3. ASSUME NEW y \in T, y = x[0] PROVE \A j \in D : z[j].key <= y.key
      BY <2>7, <3>3
    <3>4. ASSUME NEW y \in T, \A j \in D : x[j].key <= y.key PROVE \A j \in D : z[j].key <= y.key
      <4>1. x[0].key <= y.key /\ y.key \in Int /\ x[0].key \in Int
        BY <1>2, <1>3, <1>4, <3>4 DEF V
      <4>2. QED
        BY <2>7, <4>1
    <3>5. ASSUME NEW y \in T PROVE Holds(z, len, y) \/ \A j \in D : z[j].key <= y.key
      <4>1. CASE Holds(x, len, y)
        <5>1. PICK i \in D : x[i] = y
          BY <4>1 DEF Holds, D
        <5>2. QED
          BY <3>2, <3>3, <5>1
      <4>2. QED
        BY <1>5, <3>4, <4>1
    <3>6. QED
      BY <3>1, <3>5 DEF V
  <2>10. \A j \in D : \E i \in D : r[j] = z[i]
    <3>1. ASSUME NEW j \in D PROVE \E i \in D : r[j] = z[i]
      <4>1. Holds(r, len, r[j])
        BY DEF Holds, D
      <4>2. Holds(z, len, r[j])
        BY <2>8, <4>1
      <4>3. QED
        BY <4>2 DEF Holds, D
    <3>2. QED
      BY <3>1
  <2>11. \A y \in V : Holds(r, len, y) \/ \A j \in D : r[j].key <= y.key
    BY <2>8, <2>9, <2>10
  <2>12. QED
    BY <2>5, <2>6, <2>11 DEF Best, D, V
<1>8. QED
  BY <1>6, <1>7

ElementOf(u, i) == [key |-> u[i], id |-> i]
ElementsTo(u, i) == {ElementOf(u, l) : l \in 0 .. i - 1}
FirstElements(u, len) == [i \in 0 .. len - 1 |-> ElementOf(u, i)]
IsTaking(f, u, n, len) ==
  f = [i \in len .. n |-> IF i = len THEN O!H!make_heap_n(FirstElements(u, len), 0, len)
                          ELSE Taken(f[i - 1], len, ElementOf(u, i - 1))]

LEMMA ElementsAre ==
  ASSUME NEW n \in Nat, NEW u \in [0 .. n - 1 -> Int]
  PROVE  /\ \A i \in 0 .. n : ElementsTo(u, i) \subseteq ElementsTo(u, n)
         /\ \A i \in 0 .. n : \A x \in ElementsTo(u, i) : x.key \in Int
         /\ \A i \in 0 .. n - 1 : /\ ElementOf(u, i) \in ElementsTo(u, n)
                                  /\ ElementOf(u, i) \notin ElementsTo(u, i)
                                  /\ ElementsTo(u, i + 1) = ElementsTo(u, i) \cup {ElementOf(u, i)}
                                  /\ ElementOf(u, i).key = u[i] /\ ElementOf(u, i).id = i
<1>1. \A i \in 0 .. n - 1 : ElementOf(u, i).key = u[i] /\ ElementOf(u, i).id = i
  BY DEF ElementOf
<1>2. /\ \A i \in 0 .. n : \A l \in 0 .. i - 1 : l \in 0 .. n - 1 /\ l # i
      /\ \A i \in 0 .. n - 1 : i \in 0 .. n /\ i \in 0 .. (i + 1) - 1
      /\ \A i \in 0 .. n - 1 : \A l \in 0 .. (i + 1) - 1 : l = i \/ l \in 0 .. i - 1
      /\ \A i \in 0 .. n - 1 : \A l \in 0 .. i - 1 : l \in 0 .. (i + 1) - 1
  OBVIOUS
<1>3. \A i \in 0 .. n : ElementsTo(u, i) \subseteq ElementsTo(u, n)
  BY <1>2 DEF ElementsTo
<1>4. \A i \in 0 .. n : \A x \in ElementsTo(u, i) : \E l \in 0 .. i - 1 : x = ElementOf(u, l)
  BY DEF ElementsTo
<1>5. \A i \in 0 .. n : \A x \in ElementsTo(u, i) : x.key \in Int /\ x.id # i
  BY <1>1, <1>2, <1>4
<1>6. ASSUME NEW i \in 0 .. n - 1
      PROVE  ElementsTo(u, i + 1) = ElementsTo(u, i) \cup {ElementOf(u, i)}
  BY <1>2 DEF ElementsTo
<1>7. \A i \in 0 .. n - 1 : ElementOf(u, i) \in ElementsTo(u, n) /\ ElementOf(u, i) \notin ElementsTo(u, i)
  <2>1. \A i \in 0 .. n - 1 : ElementOf(u, i) \in ElementsTo(u, n)
    BY DEF ElementsTo
  <2>2. \A i \in 0 .. n - 1 : ElementOf(u, i) \notin ElementsTo(u, i)
    BY <1>1, <1>2, <1>5
  <2>3. QED
    BY <2>1, <2>2
<1>8. QED
  BY <1>1, <1>3, <1>5, <1>6, <1>7

LEMMA FirstBest ==
  ASSUME NEW n \in Nat, NEW u \in [0 .. n - 1 -> Int], NEW len \in 1 .. n,
         NEW r, r = O!H!make_heap_n(FirstElements(u, len), 0, len)
  PROVE  Best(r, len, ElementsTo(u, len)) /\ HeapFrom(r, len, 0)
<1> DEFINE h == FirstElements(u, len)
           T == ElementsTo(u, len)
           D == 0 .. len - 1
<1>1. /\ h \in [D -> T] /\ \A i \in D : h[i] = ElementOf(u, i)
  <2>1. \A i \in D : ElementOf(u, i) \in T
    BY DEF ElementsTo
  <2>2. h = [i \in D |-> ElementOf(u, i)]
    BY DEF FirstElements
  <2> HIDE DEF T, D, h
  <2>3. QED
    BY <2>1, <2>2
<1>2. len \in Nat /\ len \in 0 .. n /\ \A i \in D : i \in 0 .. n - 1
  OBVIOUS
<1>3. r = O!H!make_heap_n(h, 0, len)
  OBVIOUS
<1> HIDE DEF h
<1>4. \A i, j \in D : h[i] = h[j] => i = j
  <2>1. \A i \in D : ElementOf(u, i).id = i
    BY <1>2, ElementsAre
  <2> HIDE DEF D, T
  <2>2. \A i \in D : h[i].id = i
    BY <1>1, <2>1
  <2>3. QED
    BY <2>2
<1>5. IsArray(h, len, T)
  BY <1>1, <1>4 DEF IsArray
<1>6. \A x \in T : x.key \in Int
  BY <1>2, ElementsAre
<1>7. \A e \in T : Holds(h, len, e)
  BY <1>1 DEF ElementsTo, Holds
<1> HIDE DEF T, D
<1>8. IsArray(r, len, T) /\ Keeps(h, r, len, len) /\ HeapFrom(r, len, 0)
  BY <1>2, <1>3, <1>5, <1>6, MakeHeapIs
<1>9. \A e \in T : Holds(r, len, e)
  BY <1>7, <1>8 DEF Keeps
<1>10. QED
  BY <1>8, <1>9 DEF Best, T

LEMMA TakenType ==
  ASSUME NEW len \in Nat, len # 0, NEW Elements, NEW x \in [0 .. len - 1 -> Elements], NEW e \in Elements
  PROVE  Taken(x, len, e) \in [0 .. len - 1 -> Elements]
<1> DEFINE z == [x EXCEPT ![0] = e]
<1>1. 0 \in 0 .. len - 1
  OBVIOUS
<1>2. z \in [0 .. len - 1 -> Elements]
  <2> DEFINE D == 0 .. len - 1
  <2> HIDE DEF D
  <2>1. x \in [D -> Elements]
    BY DEF D
  <2>2. z \in [D -> Elements]
    BY <2>1
  <2>3. QED
    BY <2>2 DEF D
<1> HIDE DEF z
<1>3. O!H!sift_down_n(z, 0, len, 0) \in [0 .. len - 1 -> Elements]
  BY <1>1, <1>2, SiftType
<1>4. QED
  BY <1>3 DEF Taken, z

LEMMA Taking ==
  ASSUME NEW n \in Nat, NEW u \in [0 .. n - 1 -> Int], NEW len \in 1 .. n
  PROVE  /\ \E f : IsTaking(f, u, n, len)
         /\ \A f : IsTaking(f, u, n, len) => Best(f[n], len, ElementsTo(u, n)) /\ HeapFrom(f[n], len, 0)
<1> DEFINE D == len .. n
           Els == ElementsTo(u, n)
           Vals == [0 .. len - 1 -> Els]
           made == O!H!make_heap_n(FirstElements(u, len), 0, len)
           taken(i, x) == Taken(x, len, ElementOf(u, i - 1))
           body(i, f) == IF i = len THEN made ELSE taken(i, f[i - 1])
           left == [i \in D |-> i - len]
           done == {len}
           base == [i \in D |-> made]
           to(i) == IF i = len THEN i ELSE i - 1
           next == [i \in D |-> to(i)]
           one(i, x) == IF i = len THEN x ELSE taken(i, x)
           step == [i \in D |-> [x \in Vals |-> one(i, x)]]
           Holding(i, x) == Best(x, len, ElementsTo(u, i)) /\ HeapFrom(x, len, 0)
           Good == {p \in D \X Vals : Holding(p[1], p[2])}
<1>1. /\ n \in D /\ len \in D /\ len \in Nat /\ len # 0
      /\ \A i \in D : i - len \in Nat /\ i \in 0 .. n
      /\ \A i \in D : i # len => /\ i - 1 \in D /\ i - 1 \in 0 .. n - 1 /\ i - 1 \in 0 .. n
                                 /\ i - 1 - len < i - len /\ i - 1 + 1 = i
  OBVIOUS
<1>2. \A i \in D : i \in done <=> i = len
  OBVIOUS
<1>3. ASSUME NEW i \in D, NEW x \in Vals, i # len PROVE taken(i, x) \in Vals
  BY <1>1, <1>3, ElementsAre, TakenType
<1>4. ASSUME NEW i \in D, NEW x \in Vals, i # len, Holding(i - 1, x) PROVE Holding(i, taken(i, x))
  <2> DEFINE r == taken(i, x)
             T == ElementsTo(u, i - 1)
             e == ElementOf(u, i - 1)
             j == i - 1
  <2>1. r = Taken(x, len, e)
    OBVIOUS
  <2>2. j \in 0 .. n - 1 /\ j \in 0 .. n /\ j + 1 = i /\ u[j] \in Int
    BY <1>1, <1>4
  <2> HIDE DEF j
  <2>3. /\ \A y \in ElementsTo(u, j) : y.key \in Int
        /\ ElementOf(u, j).key \in Int /\ ElementOf(u, j) \notin ElementsTo(u, j)
        /\ ElementsTo(u, j + 1) = ElementsTo(u, j) \cup {ElementOf(u, j)}
    BY <2>2, ElementsAre
  <2>4. /\ \A y \in T : y.key \in Int
        /\ e.key \in Int /\ e \notin T
        /\ ElementsTo(u, i) = T \cup {e}
    BY <2>2, <2>3 DEF j
  <2>5. Best(x, len, T) /\ HeapFrom(x, len, 0)
    BY <1>4
  <2> HIDE DEF r, T, e
  <2>6. Best(r, len, T \cup {e}) /\ HeapFrom(r, len, 0)
    BY <1>1, <2>1, <2>4, <2>5, BestStep
  <2>7. Best(r, len, ElementsTo(u, i))
    BY <2>4, <2>6
  <2>8. QED
    BY <2>6, <2>7 DEF r
<1>5. made \in Vals /\ Holding(len, made)
  <2>1. Holding(len, made)
    BY FirstBest
  <2>2. ElementsTo(u, len) \subseteq Els
    BY <1>1, ElementsAre
  <2>3. made \in [0 .. len - 1 -> ElementsTo(u, len)]
    BY <2>1 DEF Best, IsArray
  <2> HIDE DEF made
  <2>4. made \in Vals
    BY <2>2, <2>3
  <2>5. QED
    BY <2>1, <2>4
<1> HIDE DEF taken, done, made
<1>6. /\ left \in [D -> Nat] /\ next \in [D -> D] /\ base \in [D -> Vals] /\ step \in [D -> [Vals -> Vals]]
      /\ \A i \in D : left[i] = i - len /\ next[i] = to(i) /\ base[i] = made
      /\ \A i \in D : \A x \in Vals : step[i][x] = one(i, x)
  <2>1. \A i \in D : to(i) \in D
    BY <1>1
  <2>2. \A i \in D : \A x \in Vals : one(i, x) \in Vals
    BY <1>3
  <2> HIDE DEF D, Vals, to, one
  <2>3. left \in [D -> Nat]
    BY <1>1
  <2>4. next \in [D -> D]
    BY <2>1
  <2>5. base \in [D -> Vals]
    BY <1>5
  <2>6. step \in [D -> [Vals -> Vals]]
    BY <2>2
  <2>7. QED
    BY <2>3, <2>4, <2>5, <2>6
<1>7. \A i \in D : \A x \in Vals : <<i, x>> \in Good <=> Holding(i, x)
  <2> HIDE DEF D, Vals, Holding
  <2>1. QED
    OBVIOUS
<1> HIDE DEF left, next, base, step, Good, Holding
<1>8. KeepsGood(Good, D, Vals, done, base, next, step)
  <2>1. ASSUME NEW i \in D, i \in done PROVE <<i, base[i]>> \in Good
    <3>1. base[i] = made /\ i = len
      BY <1>2, <1>6, <2>1
    <3> HIDE DEF Vals, D
    <3>2. QED
      BY <1>5, <1>7, <3>1
  <2>2. ASSUME NEW i \in D, NEW x \in Vals, i \notin done, <<next[i], x>> \in Good
        PROVE  <<i, step[i][x]>> \in Good
    <3>1. i # len /\ next[i] = i - 1 /\ i - 1 \in D /\ step[i][x] = taken(i, x)
      BY <1>1, <1>2, <1>6, <2>2
    <3> HIDE DEF D, Vals
    <3>2. Holding(i - 1, x)
      BY <1>7, <2>2, <3>1
    <3>3. taken(i, x) \in Vals /\ Holding(i, taken(i, x))
      BY <1>3, <1>4, <3>1, <3>2
    <3>4. QED
      BY <1>7, <3>1, <3>3
  <2> HIDE DEF D, Vals
  <2>3. QED
    BY <2>1, <2>2 DEF KeepsGood
<1>9. LoopsGood(Good, D, Vals, done, base, next, step)
  <2>1. \A i \in D : i \notin done => left[next[i]] < left[i]
    BY <1>1, <1>2, <1>6
  <2>2. Vals # {}
    BY <1>5
  <2> HIDE DEF D, Vals
  <2>3. QED
    BY <1>6, <1>8, <2>1, <2>2, Looping
<1>10. ASSUME NEW i \in D, NEW f
       PROVE  body(i, f) = IF i \in done THEN base[i] ELSE taken(i, f[next[i]])
  <2>1. CASE i # len
    BY <1>2, <1>6, <2>1
  <2>2. CASE i = len
    BY <1>2, <1>6, <2>2
  <2>3. QED
    BY <2>1, <2>2
<1>11. \A i \in D : \A x \in Vals : i \notin done => step[i][x] = taken(i, x)
  BY <1>2, <1>6
<1> HIDE DEF body
<1>12. \A f : IsTaking(f, u, n, len) <=> f = [i \in D |-> body(i, f)]
  BY DEF IsTaking, body, made, taken
<1>13. \E f : IsTaking(f, u, n, len)
  <2> HIDE DEF D, Vals
  <2>1. PICK f \in [D -> Vals] : f = [i \in D |-> IF i \in done THEN base[i] ELSE step[i][f[next[i]]]]
    BY <1>9 DEF LoopsGood, IsLoop
  <2>2. ASSUME NEW i \in D PROVE (IF i \in done THEN base[i] ELSE step[i][f[next[i]]]) = body(i, f)
    <3>1. f[next[i]] \in Vals
      BY <1>6
    <3>2. i \notin done => step[i][f[next[i]]] = taken(i, f[next[i]])
      BY <1>11, <3>1
    <3>3. QED
      BY <1>10, <3>2
  <2>3. f = [i \in D |-> body(i, f)]
    BY <2>1, <2>2
  <2>4. QED
    BY <1>12, <2>3
<1>14. ASSUME NEW f, IsTaking(f, u, n, len) PROVE Best(f[n], len, ElementsTo(u, n)) /\ HeapFrom(f[n], len, 0)
  <2> HIDE DEF D, Vals
  <2>1. \A i \in D : f[i] = body(i, f)
    BY <1>12, <1>14
  <2>2. Loops(f, D, Vals, done, base, next, step)
    BY <1>10, <1>11, <2>1 DEF Loops
  <2>3. f[n] \in Vals /\ <<n, f[n]>> \in Good
    BY <1>1, <1>9, <2>2 DEF LoopsGood
  <2>4. Holding(n, f[n])
    BY <1>1, <1>7, <2>3
  <2>5. QED
    BY <2>4 DEF Holding
<1>15. QED
  BY <1>13, <1>14

(* The output is of the least elements of u, in order, each once.          *)
LeastCopied(u, n, len, out) ==
  LET written == {out[k] : k \in DOMAIN out} IN
  /\ Len(out) = len /\ Cardinality(written) = len
  /\ \A k \in 1 .. len - 1 : ~less(u[out[k + 1]], u[out[k]])
  /\ \A i \in (0 .. n - 1) \ written, w \in written : ~less(u[i], u[w])

LEMMA LeastCopiedNone ==
  ASSUME NEW u, NEW n, NEW len, NEW out, len = 0, out = <<>>
  PROVE  LeastCopied(u, n, len, out)
<1> DEFINE written == {out[k] : k \in DOMAIN out}
<1>1. Len(out) = 0 /\ DOMAIN out = {} /\ 1 .. len - 1 = {}
  OBVIOUS
<1>2. written = {}
  BY <1>1
<1>3. Cardinality(written) = 0
  BY <1>2, FS_EmptySet
<1> HIDE DEF written
<1>4. QED
  BY <1>1, <1>2, <1>3 DEF LeastCopied, written

LEMMA LeastCopiedIs ==
  ASSUME NEW n \in Nat, NEW u \in [0 .. n - 1 -> Int], NEW len \in 1 .. n,
         NEW x, Best(x, len, ElementsTo(u, n)),
         NEW r, IsArray(r, len, ElementsTo(u, n)), Keeps(x, r, len, len),
         \A i, j \in 0 .. len - 1 : i < j => r[i].key <= r[j].key,
         NEW out, out = [k \in 1 .. len |-> r[k - 1].id]
  PROVE  LeastCopied(u, n, len, out)
<1> DEFINE D == 0 .. len - 1
           K == 1 .. len
           N == 0 .. n - 1
           T == ElementsTo(u, n)
           written == {out[k] : k \in DOMAIN out}
<1>1. /\ \A k \in K : k - 1 \in D
      /\ \A k \in 1 .. len - 1 : k \in K /\ k + 1 \in K /\ k + 1 - 1 = k /\ k - 1 \in D /\ k \in D /\ k - 1 < k
      /\ \A j, k \in K : j - 1 = k - 1 => j = k
      /\ \A i \in D : i + 1 \in K /\ i + 1 - 1 = i
      /\ len \in Nat
  OBVIOUS
<1>2. \A y \in T : y.id \in N /\ y = ElementOf(u, y.id) /\ y.key = u[y.id] /\ y.key \in Int
  <2>1. ASSUME NEW y \in T PROVE y.id \in N /\ y = ElementOf(u, y.id) /\ y.key = u[y.id] /\ y.key \in Int
    <3>1. PICK l \in N : y = ElementOf(u, l)
      BY DEF ElementsTo
    <3>2. ElementOf(u, l).id = l /\ ElementOf(u, l).key = u[l]
      BY <3>1, ElementsAre
    <3>3. u[l] \in Int
      OBVIOUS
    <3>4. QED
      BY <3>1, <3>2, <3>3
  <2>2. QED
    BY <2>1
<1>3. r \in [D -> T] /\ \A i, j \in D : r[i] = r[j] => i = j
  BY DEF IsArray
<1>4. DOMAIN out = K /\ \A k \in K : out[k] = r[k - 1].id
  OBVIOUS
<1>5. Len(out) = len
  <2>1. out \in [1 .. len -> N]
    <3> HIDE DEF D, N, T
    <3>1. \A k \in K : r[k - 1].id \in N
      BY <1>1, <1>2, <1>3
    <3>2. QED
      BY <3>1
  <2>2. QED
    BY <1>1, <2>1
<1>6. \A i \in N : ElementOf(u, i) \in T /\ ElementOf(u, i).key = u[i] /\ ElementOf(u, i).id = i
  BY ElementsAre
<1> HIDE DEF D, K, N, T
<1>7. \A j, k \in K : out[j] = out[k] => j = k
  BY <1>1, <1>2, <1>3, <1>4
<1>8. Cardinality(written) = len
  <2>1. out \in Bijection(K, written)
    <3>1. out \in [K -> written]
      BY <1>4
    <3>2. \A y \in written : \E k \in K : out[k] = y
      BY <1>4
    <3> DEFINE f == out
    <3> HIDE DEF written, f
    <3>3. f \in [K -> written] /\ \A y \in written : \E k \in K : f[k] = y
      BY <3>1, <3>2 DEF f
    <3>4. \A j, k \in K : f[j] = f[k] => j = k
      BY <1>7 DEF f
    <3>5. f \in Bijection(K, written)
      BY ONLY <3>3, <3>4 DEF Bijection, Injection, Surjection, IsInjective
    <3>6. QED
      BY <3>5 DEF f
  <2> HIDE DEF written
  <2>2. IsFiniteSet(K) /\ Cardinality(K) = len
    BY <1>1, FS_Interval DEF K
  <2>3. ExistsBijection(K, written)
    BY <2>1 DEF ExistsBijection
  <2>4. Cardinality(written) = Cardinality(K)
    BY <2>2, <2>3, FS_Bijection
  <2>5. QED
    BY <2>2, <2>4
<1>9. ASSUME NEW k \in 1 .. len - 1 PROVE ~less(u[out[k + 1]], u[out[k]])
  <2>1. out[k + 1] = r[k].id /\ out[k] = r[k - 1].id /\ k - 1 \in D /\ k \in D
    BY <1>1, <1>4
  <2>2. u[out[k + 1]] = r[k].key /\ u[out[k]] = r[k - 1].key /\ r[k].key \in Int /\ r[k - 1].key \in Int
    BY <1>2, <1>3, <2>1
  <2>3. r[k - 1].key <= r[k].key
    BY <1>1 DEF D
  <2>4. QED
    BY <2>2, <2>3 DEF less
<1>10. ASSUME NEW i \in N \ written, NEW w \in written PROVE ~less(u[i], u[w])
  <2>1. PICK k \in K : w = out[k]
    BY <1>4
  <2>2. k - 1 \in D /\ w = r[k - 1].id /\ r[k - 1] \in T
    BY <1>1, <1>3, <1>4, <2>1
  <2> DEFINE e == ElementOf(u, i)
             y == r[k - 1]
  <2>3. e \in T /\ e.key = u[i] /\ e.id = i
    BY <1>6
  <2>4. y.key = u[w] /\ y.key \in Int /\ e.key \in Int
    BY <1>2, <2>2, <2>3
  <2>5. \A j \in D : r[j].id \in written
    <3>1. ASSUME NEW j \in D PROVE r[j].id \in written
      <4> DEFINE m == j + 1
      <4>1. m \in K /\ m - 1 = j
        BY DEF D, K
      <4> HIDE DEF m
      <4>2. out[m] = r[j].id /\ m \in DOMAIN out
        BY <1>4, <4>1
      <4>3. QED
        BY <4>2
    <3>2. QED
      BY <3>1
  <2> HIDE DEF e, written
  <2>6. ~Holds(r, len, e)
    <3>1. ASSUME NEW j \in D, r[j] = e PROVE FALSE
      BY <1>10, <2>3, <2>5, <3>1
    <3>2. QED
      BY <3>1 DEF Holds, D
  <2>7. ~Holds(x, len, e)
    BY <2>6 DEF Keeps
  <2>8. \A j \in D : x[j].key <= e.key
    BY <2>3, <2>7 DEF Best, T, D
  <2>9. Holds(r, len, y)
    BY <2>2 DEF Holds, D
  <2>10. Holds(x, len, y)
    BY <2>9 DEF Keeps
  <2>11. y.key <= e.key
    BY <2>8, <2>10 DEF Holds, D
  <2> HIDE DEF y
  <2>12. ~(e.key < y.key)
    BY <2>4, <2>11
  <2>13. QED
    BY <2>3, <2>4, <2>12 DEF less
<1> HIDE DEF written
<1>11. QED
  BY <1>5, <1>8, <1>9, <1>10 DEF LeastCopied, written, N

LEMMA CopyToRange ==
  ASSUME NEW n \in Nat, NEW room \in Nat
  PROVE  Len(O!copy_to_range(n, room)) = Fewer(n, room)
<1> DEFINE D == 0 .. n
           item == [i \in D |-> i]
           len == Fewer(n, room)
           from[i \in 0 .. n] == IF i = n \/ i = room THEN <<>> ELSE <<i>> \o from[i + 1]
<1>1. O!copy_to_range(n, room) = from[0]
  BY DEF O!copy_to_range
<1>2. from = CHOOSE f : f = [i \in 0 .. n |-> IF i = n \/ i = room THEN <<>> ELSE <<i>> \o f[i + 1]]
  OBVIOUS
<1> HIDE DEF from
<1>3. ASSUME NEW f
      PROVE  IsListing(f, n, room, item)
             <=> f = [i \in 0 .. n |-> IF i = n \/ i = room THEN <<>> ELSE <<i>> \o f[i + 1]]
  <2>1. [i \in 0 .. n |-> IF i = n \/ i = room THEN <<>> ELSE <<item[i]>> \o f[i + 1]]
        = [i \in 0 .. n |-> IF i = n \/ i = room THEN <<>> ELSE <<i>> \o f[i + 1]]
    OBVIOUS
  <2>2. QED
    BY <2>1 DEF IsListing
<1>4. item \in [0 .. n -> D]
  OBVIOUS
<1>5. len \in 0 .. n /\ (len = n \/ len = room) /\ (room \in 0 .. n => len = room) /\ len \in Nat
  BY DEF Fewer
<1>6. \A k \in 1 .. len : item[k - 1] \in D
  BY <1>5
<1> HIDE DEF D, len, item
<1>7. Lists(n, room, len, item)
  BY <1>4, <1>5, Listing
<1>8. IsListing(from, n, room, item)
  BY <1>2, <1>3, <1>7 DEF Lists
<1>9. from[0] = [k \in 1 .. len |-> item[k - 1]]
  BY <1>7, <1>8 DEF Lists
<1>10. [k \in 1 .. len |-> item[k - 1]] \in [1 .. len -> D]
  BY <1>6
<1>11. Len(from[0]) = len
  BY <1>5, <1>9, <1>10
<1>12. QED
  BY <1>1, <1>11 DEF len

LEMMA PartialSortCopy ==
  ASSUME NEW n \in Nat, NEW u \in [0 .. n - 1 -> Int], NEW room \in Nat
  PROVE  LeastCopied(u, n, Fewer(n, room), O!partial_sort_copy(u, n, room))
<1> DEFINE element(i) == [key |-> u[i], id |-> i]
           len == Len(O!copy_to_range(n, room))
           copied == [i \in 0 .. len - 1 |-> element(i)]
           raw(i, f) == IF i = len THEN O!H!make_heap_n(copied, 0, len)
                        ELSE LET r == f[i - 1] IN
                             IF O!at(element(i - 1), r[0])
                             THEN O!H!sift_down_n([r EXCEPT ![0] = element(i - 1)], 0, len, 0) ELSE r
           body(i, f) == IF i = len THEN O!H!make_heap_n(FirstElements(u, len), 0, len)
                         ELSE Taken(f[i - 1], len, ElementOf(u, i - 1))
           scanned[i \in len .. n] ==
             IF i = len THEN O!H!make_heap_n(copied, 0, len)
             ELSE LET r == scanned[i - 1] IN
                  IF O!at(element(i - 1), r[0])
                  THEN O!H!sift_down_n([r EXCEPT ![0] = element(i - 1)], 0, len, 0) ELSE r
           out == O!partial_sort_copy(u, n, room)
<1>1. out = IF room = 0 THEN <<>>
            ELSE [k \in 1 .. len |-> O!H!sort_heap_n(scanned[n], 0, len)[k - 1].id]
  BY DEF O!partial_sort_copy
<1>2. scanned = CHOOSE f : f = [i \in len .. n |-> raw(i, f)]
  OBVIOUS
<1>3. copied = FirstElements(u, len)
  BY DEF FirstElements, ElementOf
<1>4. len = Fewer(n, room)
  BY CopyToRange
<1> HIDE DEF scanned, out, copied, len
<1>5. CASE len = 0
  <2>1. out = <<>>
    <3>1. 1 .. len = {}
      BY <1>5
    <3>2. QED
      BY <1>1, <3>1
  <2>2. LeastCopied(u, n, len, out)
    BY <1>5, <2>1, LeastCopiedNone
  <2>3. QED
    BY <1>4, <2>2 DEF out
<1>6. CASE len # 0
  <2>1. len \in 1 .. n /\ room # 0 /\ len \in Nat
    BY <1>4, <1>6 DEF Fewer
  <2>2. ASSUME NEW i, NEW f PROVE raw(i, f) = body(i, f)
    BY <1>3 DEF Taken, ElementOf, O!at, less
  <2>3. \A f : f = [i \in len .. n |-> raw(i, f)] <=> IsTaking(f, u, n, len)
    <3>1. ASSUME NEW f PROVE [i \in len .. n |-> raw(i, f)] = [i \in len .. n |-> body(i, f)]
      <4> HIDE DEF raw, body
      <4>1. QED
        BY <2>2
    <3> HIDE DEF raw
    <3>2. QED
      BY <3>1 DEF IsTaking
  <2>4. IsTaking(scanned, u, n, len)
    <3> HIDE DEF raw
    <3>1. \E f : f = [i \in len .. n |-> raw(i, f)]
      BY <2>1, <2>3, Taking
    <3>2. QED
      BY <1>2, <2>3, <3>1
  <2> DEFINE x == scanned[n]
             r == O!H!sort_heap_n(x, 0, len)
             T == ElementsTo(u, n)
  <2>5. Best(x, len, T) /\ HeapFrom(x, len, 0)
    BY <2>1, <2>4, Taking
  <2>6. IsArray(x, len, T)
    BY <2>5 DEF Best
  <2>7. \A e \in T : e.key \in Int
    <3>1. n \in 0 .. n
      OBVIOUS
    <3>2. QED
      BY <3>1, ElementsAre
  <2>8. r = O!H!sort_heap_n(x, 0, len)
    OBVIOUS
  <2>9. out = [k \in 1 .. len |-> r[k - 1].id]
    BY <1>1, <2>1
  <2> HIDE DEF x, r, T
  <2>10. /\ IsArray(r, len, T) /\ Keeps(x, r, len, len)
         /\ \A i, j \in 0 .. len - 1 : i < j => r[i].key <= r[j].key
    BY <2>1, <2>5, <2>6, <2>7, <2>8, SortHeapIs
  <2>11. LeastCopied(u, n, len, out)
    BY <2>1, <2>5, <2>9, <2>10, LeastCopiedIs DEF T
  <2>12. QED
    BY <1>4, <2>11 DEF out
<1>7. QED
  BY <1>5, <1>6
-----------------------------------------------------------------------------
(* What the answers to those calls are.                                    *)

CopiedSome(u, n, call, arg, out) ==
  /\ call = "copy_if" => InOrder({i \in 0 .. n - 1 : u[i] \in arg}, out)
  /\ call = "remove_copy_if" => InOrder({i \in 0 .. n - 1 : u[i] \notin arg}, out)
  /\ call = "replace_copy_if" => out = [k \in 1 .. n |-> IF u[k - 1] \in arg THEN n ELSE k - 1]
CopiedAll(n, m, call, arg, out) ==
  /\ call = "copy" => InOrder(0 .. n - 1, out)
  /\ call = "transform_pairs" => out = [k \in 1 .. Min({n, m}) |-> <<k - 1, k - 1>>]
  /\ call = "reverse_copy" => out = [k \in 1 .. n |-> n - k]
  /\ call = "rotate_copy" => out = [k \in 1 .. n |-> (k - 1 + arg) % n]
CopiedMixed(u, n, m, call, results, out) ==
  /\ call = "partial_sort_copy" => LeastCopied(u, n, Min({n, m}), out)
  /\ call = "shuffle" => Range(out) = 0 .. n - 1 /\ Cardinality(results) = Cardinality(O!Draws(n))
CopiedChosen(u, n, call, arg, results) ==
  /\ call \in {"sample", "sample_unsized"} => Sampled(n, Min({arg, n}), results)
  /\ call \in {"sample", "unique_copy"} => \A out \in results : Rising(out)
  /\ call = "unique_copy" =>
       {Chosen(out) : out \in results} = {{i \in 0 .. n - 1 : i = 0 \/ u[i - 1] # u[i]}}
CopiedBy(u, n, m, call, arg, results) ==
  /\ \A out \in results :
       CopiedSome(u, n, call, arg, out) /\ CopiedAll(n, m, call, arg, out)
         /\ CopiedMixed(u, n, m, call, results, out)
  /\ CopiedChosen(u, n, call, arg, results)

LEMMA CopiedByAnswer ==
  CopiesSome <=> CopiedBy(a, n1, n2, answer.call, answer.arg, answer.results)
<1> DEFINE call == answer.call
           arg == answer.arg
           results == answer.results
           least(out) ==
             LET written == {out[k] : k \in DOMAIN out} IN
             /\ Len(out) = Min({n1, n2}) /\ Cardinality(written) = Len(out)
             /\ \A k \in 1 .. Len(out) - 1 : ~less(a[out[k + 1]], a[out[k]])
             /\ \A i \in First \ written, w \in written : ~less(a[i], a[w])
           some(out) ==
             /\ call = "copy_if" => InOrder({i \in First : a[i] \in arg}, out)
             /\ call = "remove_copy_if" => InOrder({i \in First : a[i] \notin arg}, out)
             /\ call = "replace_copy_if" =>
                  out = [k \in 1 .. n1 |-> IF a[k - 1] \in arg THEN n1 ELSE k - 1]
           all(out) ==
             /\ call = "copy" => InOrder(First, out)
             /\ call = "transform_pairs" => out = [k \in 1 .. Min({n1, n2}) |-> <<k - 1, k - 1>>]
             /\ call = "reverse_copy" => out = [k \in 1 .. n1 |-> n1 - k]
             /\ call = "rotate_copy" => out = [k \in 1 .. n1 |-> (k - 1 + arg) % n1]
           mixed(out) ==
             /\ call = "partial_sort_copy" => least(out)
             /\ call = "shuffle" => Range(out) = First /\ Cardinality(results) = Cardinality(O!Draws(n1))
           chosen ==
             /\ call \in {"sample", "sample_unsized"} =>
                  LET wanted == Min({arg, n1}) IN
                  /\ {Chosen(out) : out \in results} = {T \in SUBSET First : Cardinality(T) = wanted}
                  /\ \A out \in results : Len(out) = wanted
             /\ call \in {"sample", "unique_copy"} =>
                  \A out \in results : \A i, j \in DOMAIN out : i < j => out[i][2] < out[j][2]
             /\ call = "unique_copy" =>
                  {Chosen(out) : out \in results} = {{i \in First : i = 0 \/ a[i - 1] # a[i]}}
<1>1. First = 0 .. n1 - 1
  BY DEF First
<1>2. \A out : least(out) <=> LeastCopied(a, n1, Min({n1, n2}), out)
  BY <1>1 DEF LeastCopied
<1>3. \A out : some(out) <=> CopiedSome(a, n1, call, arg, out)
  BY <1>1 DEF CopiedSome
<1>4. \A out : all(out) <=> CopiedAll(n1, n2, call, arg, out)
  BY <1>1 DEF CopiedAll
<1>5. \A out : mixed(out) <=> CopiedMixed(a, n1, n2, call, results, out)
  <2> HIDE DEF least
  <2>1. QED
    BY <1>1, <1>2 DEF CopiedMixed
<1>6. chosen <=> CopiedChosen(a, n1, call, arg, results)
  BY <1>1 DEF CopiedChosen, Sampled, Rising
<1>7. CopiesRange <=> \A out \in results : some(out) /\ all(out) /\ mixed(out)
  <2> DEFINE whole(out) ==
         /\ answer.call = "copy_if" => InOrder({i \in First : a[i] \in answer.arg}, out)
         /\ answer.call = "remove_copy_if" => InOrder({i \in First : a[i] \notin answer.arg}, out)
         /\ answer.call = "replace_copy_if" =>
              out = [k \in 1 .. n1 |-> IF a[k - 1] \in answer.arg THEN n1 ELSE k - 1]
         /\ answer.call = "copy" => InOrder(First, out)
         /\ answer.call = "transform_pairs" => out = [k \in 1 .. Min({n1, n2}) |-> <<k - 1, k - 1>>]
         /\ answer.call = "reverse_copy" => out = [k \in 1 .. n1 |-> n1 - k]
         /\ answer.call = "rotate_copy" => out = [k \in 1 .. n1 |-> (k - 1 + answer.arg) % n1]
         /\ answer.call = "partial_sort_copy" => least(out)
         /\ answer.call = "shuffle" =>
              /\ Range(out) = First
              /\ Cardinality(answer.results) = Cardinality(O!Draws(n1))
  <2>1. CopiesRange <=> \A out \in answer.results : whole(out)
    BY DEF CopiesRange
  <2>2. \A out : whole(out) <=> some(out) /\ all(out) /\ mixed(out)
    <3> HIDE DEF least
    <3>1. QED
      OBVIOUS
  <2> HIDE DEF whole, some, all, mixed
  <2>3. QED
    BY <2>1, <2>2
<1>8. CopiesSome <=> CopiesRange /\ chosen
  BY DEF CopiesSome
<1> HIDE DEF some, all, mixed, chosen, least
<1>9. QED
  BY <1>3, <1>4, <1>5, <1>6, <1>7, <1>8 DEF CopiedBy

LEMMA CopiesNext ==
  ASSUME NEW call, NEW arg, NEW results, Answer(call, arg, results),
         CopiedBy(a, n1, n2, call, arg, results)
  PROVE  CopiesSome'
<1>1. /\ answer'.call = call /\ answer'.arg = arg /\ answer'.results = results
      /\ a' = a /\ b' = b
  BY DEF Answer
<1>2. n1' = n1 /\ n2' = n2
  BY <1>1 DEF n1, n2
<1>3. CopiedBy(a, n1, n2, answer.call, answer.arg, answer.results)'
  BY <1>1, <1>2
<1>4. (CopiesSome <=> CopiedBy(a, n1, n2, answer.call, answer.arg, answer.results))'
  BY CopiedByAnswer, PTL
<1>5. QED
  BY <1>3, <1>4

LEMMA MinFewer ==
  ASSUME NEW n \in Nat, NEW m \in Nat
  PROVE  Min({n, m}) = Fewer(n, m) /\ Min({m, n}) = Fewer(n, m)
<1>1. CASE m < n
  <2>1. m \in {n, m} /\ {n, m} \in SUBSET Int /\ {m, n} = {n, m} /\ \A y \in {n, m} : m <= y
    BY <1>1
  <2>2. Min({n, m}) = m
    BY <2>1, MinIs
  <2>3. QED
    BY <1>1, <2>1, <2>2 DEF Fewer
<1>2. CASE ~(m < n)
  <2>1. n \in {n, m} /\ {n, m} \in SUBSET Int /\ {m, n} = {n, m} /\ \A y \in {n, m} : n <= y
    BY <1>2
  <2>2. Min({n, m}) = n
    BY <2>1, MinIs
  <2>3. QED
    BY <1>2, <2>1, <2>2 DEF Fewer
<1>3. QED
  BY <1>1, <1>2
-----------------------------------------------------------------------------
(* The copies that a predicate chooses for, and those of a whole range.    *)

LEMMA CopiesFiltered ==
  ASSUME InArrays, copy_some
  PROVE  CopiesSome'
<1>1. n1 \in Nat
  BY Lengths
<1>2. PICK T \in (IF Alone THEN SUBSET Keys ELSE {}) :
        \/ Answer("copy_if", T, {O!copy_if(a, n1, T)})
        \/ Answer("remove_copy_if", T,
                  {O!remove_copy_if(a, n1, T)} \cup Value(T, [v \in Keys |-> O!remove_copy(a, n1, v)]))
        \/ Answer("replace_copy_if", T,
                  {O!replace_copy_if(a, n1, T)} \cup Value(T, [v \in Keys |-> O!replace_copy(a, n1, v)]))
  BY DEF copy_some
<1>3. CASE Answer("copy_if", T, {O!copy_if(a, n1, T)})
  <2> DEFINE r == O!copy_if(a, n1, T)
  <2>1. InOrder({i \in 0 .. n1 - 1 : a[i] \in T}, r)
    BY <1>1, CopyIf
  <2> HIDE DEF r
  <2>2. CopiedBy(a, n1, n2, "copy_if", T, {r})
    BY <2>1 DEF CopiedBy, CopiedSome, CopiedAll, CopiedMixed, CopiedChosen
  <2>3. Answer("copy_if", T, {r})
    BY <1>3 DEF r
  <2>4. QED
    BY <2>2, <2>3, CopiesNext
<1>4. CASE Answer("remove_copy_if", T,
                  {O!remove_copy_if(a, n1, T)} \cup Value(T, [v \in Keys |-> O!remove_copy(a, n1, v)]))
  <2> DEFINE r == O!remove_copy_if(a, n1, T)
             values == [v \in Keys |-> O!remove_copy(a, n1, v)]
  <2>1. InOrder({i \in 0 .. n1 - 1 : a[i] \notin T}, r)
    BY <1>1, RemoveCopyIf
  <2>2. ASSUME NEW v \in Keys, T = {v} PROVE values[v] = r
    BY <2>2 DEF O!remove_copy
  <2> HIDE DEF values, r
  <2>3. {r} \cup Value(T, values) = {r}
    BY <2>2, ValueIs
  <2>4. Answer("remove_copy_if", T, {r})
    BY <1>4, <2>3 DEF values, r
  <2>5. CopiedBy(a, n1, n2, "remove_copy_if", T, {r})
    BY <2>1 DEF CopiedBy, CopiedSome, CopiedAll, CopiedMixed, CopiedChosen
  <2>6. QED
    BY <2>4, <2>5, CopiesNext
<1>5. CASE Answer("replace_copy_if", T,
                  {O!replace_copy_if(a, n1, T)} \cup Value(T, [v \in Keys |-> O!replace_copy(a, n1, v)]))
  <2> DEFINE r == O!replace_copy_if(a, n1, T)
             values == [v \in Keys |-> O!replace_copy(a, n1, v)]
  <2>1. r = [k \in 1 .. n1 |-> IF a[k - 1] \in T THEN n1 ELSE k - 1]
    BY <1>1, ReplaceCopyIf
  <2>2. ASSUME NEW v \in Keys, T = {v} PROVE values[v] = r
    BY <2>2 DEF O!replace_copy
  <2> HIDE DEF values, r
  <2>3. {r} \cup Value(T, values) = {r}
    BY <2>2, ValueIs
  <2>4. Answer("replace_copy_if", T, {r})
    BY <1>5, <2>3 DEF values, r
  <2>5. CopiedBy(a, n1, n2, "replace_copy_if", T, {r})
    BY <2>1 DEF CopiedBy, CopiedSome, CopiedAll, CopiedMixed, CopiedChosen
  <2>6. QED
    BY <2>4, <2>5, CopiesNext
<1>6. QED
  BY <1>2, <1>3, <1>4, <1>5

LEMMA CopiesAll ==
  ASSUME InArrays, copy_all
  PROVE  CopiesSome'
<1>1. n1 \in Nat /\ n2 \in Nat
  BY Lengths
<1>2. CASE Answer("copy", 0, {O!copy(0, n1), O!for_each(n1), O!transform(n1)})
  <2> DEFINE r == O!copy(0, n1)
  <2>1. InOrder(0 .. n1 - 1, r) /\ O!for_each(n1) = r /\ O!transform(n1) = r
    BY <1>1, CopyAll
  <2>2. Answer("copy", 0, {r, O!for_each(n1), O!transform(n1)})
    BY <1>2
  <2> HIDE DEF r
  <2>3. {r, O!for_each(n1), O!transform(n1)} = {r}
    BY <2>1
  <2>4. CopiedBy(a, n1, n2, "copy", 0, {r})
    BY <2>1 DEF CopiedBy, CopiedSome, CopiedAll, CopiedMixed, CopiedChosen
  <2>5. QED
    BY <2>2, <2>3, <2>4, CopiesNext
<1>3. CASE Answer("transform_pairs", 0, {O!transform_pairs(n1, n2)})
  <2> DEFINE r == O!transform_pairs(n1, n2)
  <2>1. r = [k \in 1 .. (IF n2 <= n1 THEN n2 ELSE n1) |-> <<k - 1, k - 1>>]
    BY <1>1, TransformPairs
  <2>2. Min({n1, n2}) = IF n2 <= n1 THEN n2 ELSE n1
    <3>1. Min({n1, n2}) = Fewer(n1, n2)
      BY <1>1, MinFewer
    <3>2. QED
      BY <1>1, <3>1 DEF Fewer
  <2>3. r = [k \in 1 .. Min({n1, n2}) |-> <<k - 1, k - 1>>]
    BY <2>1, <2>2
  <2> HIDE DEF r
  <2>4. CopiedBy(a, n1, n2, "transform_pairs", 0, {r})
    BY <2>3 DEF CopiedBy, CopiedSome, CopiedAll, CopiedMixed, CopiedChosen
  <2>5. Answer("transform_pairs", 0, {r})
    BY <1>3 DEF r
  <2>6. QED
    BY <2>4, <2>5, CopiesNext
<1>4. CASE Answer("reverse_copy", 0, {O!reverse_copy(n1)})
  <2> DEFINE r == O!reverse_copy(n1)
  <2>1. r = [k \in 1 .. n1 |-> n1 - k]
    BY <1>1, ReverseCopy
  <2> HIDE DEF r
  <2>2. CopiedBy(a, n1, n2, "reverse_copy", 0, {r})
    BY <2>1 DEF CopiedBy, CopiedSome, CopiedAll, CopiedMixed, CopiedChosen
  <2>3. Answer("reverse_copy", 0, {r})
    BY <1>4 DEF r
  <2>4. QED
    BY <2>2, <2>3, CopiesNext
<1>5. ASSUME NEW middle \in 0 .. n1, Answer("rotate_copy", middle, {O!rotate_copy(n1, middle)})
      PROVE  CopiesSome'
  <2> DEFINE r == O!rotate_copy(n1, middle)
  <2>1. r = [k \in 1 .. n1 |-> (k - 1 + middle) % n1]
    BY <1>1, RotateCopy
  <2> HIDE DEF r
  <2>2. CopiedBy(a, n1, n2, "rotate_copy", middle, {r})
    BY <2>1 DEF CopiedBy, CopiedSome, CopiedAll, CopiedMixed, CopiedChosen
  <2>3. Answer("rotate_copy", middle, {r})
    BY <1>5 DEF r
  <2>4. QED
    BY <2>2, <2>3, CopiesNext
<1>6. QED
  BY <1>2, <1>3, <1>4, <1>5 DEF copy_all

-----------------------------------------------------------------------------
(* The copies that choose among the elements, or mix them.                 *)

LEMMA CopiesSorted ==
  ASSUME InArrays, partial_sort_copy
  PROVE  CopiesSome'
<1> DEFINE r == O!partial_sort_copy(a, n1, n2)
<1>1. n1 \in Nat /\ n2 \in Nat /\ a \in [0 .. n1 - 1 -> Int]
  BY Lengths
<1>2. LeastCopied(a, n1, Fewer(n1, n2), r)
  BY <1>1, PartialSortCopy
<1>3. Min({n1, n2}) = Fewer(n1, n2)
  BY <1>1, MinFewer
<1>4. Answer("partial_sort_copy", 0, {r})
  BY DEF partial_sort_copy
<1> HIDE DEF r
<1>5. CopiedBy(a, n1, n2, "partial_sort_copy", 0, {r})
  BY <1>2, <1>3 DEF CopiedBy, CopiedSome, CopiedAll, CopiedMixed, CopiedChosen
<1>6. QED
  BY <1>4, <1>5, CopiesNext

LEMMA CopiesShuffled ==
  ASSUME InArrays, shuffle
  PROVE  CopiesSome'
<1> DEFINE outs == {O!shuffle(n1, draws) : draws \in O!Draws(n1)}
<1>1. n1 \in Nat
  BY Lengths
<1>2. Answer("shuffle", 0, outs)
  BY DEF shuffle
<1>3. outs = {O!shuffle(n1, draws) : draws \in O!Draws(n1)}
  OBVIOUS
<1> HIDE DEF outs
<1>4. /\ \A out \in outs : Range(out) = 0 .. n1 - 1
      /\ Cardinality(outs) = Cardinality(O!Draws(n1))
  BY <1>1, <1>3, ShuffleAll
<1>5. CopiedBy(a, n1, n2, "shuffle", 0, outs)
  BY <1>4 DEF CopiedBy, CopiedSome, CopiedAll, CopiedMixed, CopiedChosen
<1>6. QED
  BY <1>2, <1>5, CopiesNext

LEMMA CopiesUnique ==
  ASSUME InArrays, unique_copy
  PROVE  CopiesSome'
<1> DEFINE r == C!unique_copy(a, n1)
           T == {i \in 0 .. n1 - 1 : i = 0 \/ a[i - 1] # a[i]}
<1>1. n1 \in Nat
  BY Lengths
<1>2. Answer("unique_copy", 0, {r})
  BY DEF unique_copy
<1>3. InOrder(T, Numbers(r)) /\ r \in Seq(Items)
  BY <1>1, UniqueCopy
<1>4. T = {i \in 0 .. n1 - 1 : i = 0 \/ a[i - 1] # a[i]}
  OBVIOUS
<1> HIDE DEF r, T
<1>5. Rising(r) /\ Chosen(r) = T
  BY <1>3, InOrderRising
<1>6. {Chosen(out) : out \in {r}} = {T}
  BY <1>5
<1>7. CopiedBy(a, n1, n2, "unique_copy", 0, {r})
  BY <1>4, <1>5, <1>6 DEF CopiedBy, CopiedSome, CopiedAll, CopiedMixed, CopiedChosen
<1>8. QED
  BY <1>2, <1>7, CopiesNext

LEMMA CopiesSampled ==
  ASSUME InArrays, sample
  PROVE  CopiesSome'
<1>1. n1 \in Nat
  BY Lengths
<1>2. PICK count \in 0 .. n1 + 1 : \/ Answer("sample", count, C!sample_sized(n1, count))
                                  \/ Answer("sample_unsized", count, C!sample_unsized(n1, count))
  BY DEF sample
<1>3. count \in Nat
  BY <1>1
<1>4. /\ Sampled(n1, Fewer(n1, count), C!sample_sized(n1, count))
      /\ \A out \in C!sample_sized(n1, count) : Rising(out)
      /\ Sampled(n1, Fewer(n1, count), C!sample_unsized(n1, count))
  BY <1>1, <1>3, SampleIs
<1>5. Min({count, n1}) = Fewer(n1, count)
  BY <1>1, <1>3, MinFewer
<1>6. CASE Answer("sample", count, C!sample_sized(n1, count))
  <2> DEFINE outs == C!sample_sized(n1, count)
  <2>1. Sampled(n1, Min({count, n1}), outs) /\ \A out \in outs : Rising(out)
    BY <1>4, <1>5
  <2> HIDE DEF outs
  <2>2. CopiedBy(a, n1, n2, "sample", count, outs)
    BY <2>1 DEF CopiedBy, CopiedSome, CopiedAll, CopiedMixed, CopiedChosen
  <2>3. Answer("sample", count, outs)
    BY <1>6 DEF outs
  <2>4. QED
    BY <2>2, <2>3, CopiesNext
<1>7. CASE Answer("sample_unsized", count, C!sample_unsized(n1, count))
  <2> DEFINE outs == C!sample_unsized(n1, count)
  <2>1. Sampled(n1, Min({count, n1}), outs)
    BY <1>4, <1>5
  <2> HIDE DEF outs
  <2>2. CopiedBy(a, n1, n2, "sample_unsized", count, outs)
    BY <2>1 DEF CopiedBy, CopiedSome, CopiedAll, CopiedMixed, CopiedChosen
  <2>3. Answer("sample_unsized", count, outs)
    BY <1>7 DEF outs
  <2>4. QED
    BY <2>2, <2>3, CopiesNext
<1>8. QED
  BY <1>2, <1>6, <1>7

-----------------------------------------------------------------------------
(* The other calls do not copy some of a range.                            *)

Copying == {"copy_if", "remove_copy_if", "replace_copy_if", "copy", "transform_pairs", "reverse_copy",
            "rotate_copy", "partial_sort_copy", "shuffle", "sample", "sample_unsized", "unique_copy"}

LEMMA CopiesOther ==
  ASSUME NEW Calls, Calls \cap Copying = {}, CallIn(Calls)
  PROVE  CopiesSome'
<1>1. PICK call \in Calls : \E arg, results : Answer(call, arg, results)
  BY DEF CallIn
<1>2. PICK arg, results : Answer(call, arg, results)
  BY <1>1
<1>3. call \notin Copying
  OBVIOUS
<1>4. CopiedBy(a, n1, n2, call, arg, results)
  BY <1>3 DEF Copying, CopiedBy, CopiedSome, CopiedAll, CopiedMixed, CopiedChosen
<1>5. QED
  BY <1>2, <1>4, CopiesNext

LEMMA CopiesStep ==
  ASSUME InArrays, Next
  PROVE  CopiesSome'
<1>1. CASE copy_some \/ copy_all \/ partial_sort_copy \/ shuffle \/ unique_copy \/ sample
  BY <1>1, CopiesFiltered, CopiesAll, CopiesSorted, CopiesShuffled, CopiesUnique, CopiesSampled
<1>2. CASE search \/ find_end \/ search_n \/ adjacent_find \/ find_first_of \/ mismatch \/ equal
           \/ lexicographical_compare \/ is_permutation \/ includes
  <2>1. PICK Calls : CallIn(Calls) /\ Calls \cap Copying = {}
    BY <1>2, CallOf DEF Copying
  <2>2. QED
    BY <2>1, CopiesOther
<1>3. CASE is_heap_until \/ is_heap \/ is_sorted \/ min_element \/ max_element \/ minmax_element
           \/ extremes \/ inspect \/ binary_search \/ equal_range
  <2>1. PICK Calls : CallIn(Calls) /\ Calls \cap Copying = {}
    BY <1>3, CallOf DEF Copying
  <2>2. QED
    BY <2>1, CopiesOther
<1>4. CASE merge \/ set_union \/ set_intersection \/ set_difference \/ set_symmetric_difference
  <2>1. PICK Calls : CallIn(Calls) /\ Calls \cap Copying = {}
    BY <1>4, CallOf DEF Copying
  <2>2. QED
    BY <2>1, CopiesOther
<1>5. QED
  BY <1>1, <1>2, <1>3, <1>4 DEF Next

(* Whatever array of integers they are called with, the algorithms that    *)
(* copy write every element they are to write, once, and in its place: the *)
(* filtered ones in their order, the reversed and the rotated ones where   *)
(* the formula says; partial_sort_copy the least, sorted, as many as there *)
(* is room for; a shuffle every arrangement by exactly one sequence of     *)
(* draws; and a sample, whether or not the length is known, can come out   *)
(* as any choice of as many elements as were wanted and there are.         *)
THEOREM CopiesHolds == Spec => []CopiesSome
<1> DEFINE Inv == InArrays /\ CopiesSome
<1>1. Init => Inv
  <2>1. ASSUME Init PROVE CopiedBy(a, n1, n2, answer.call, answer.arg, answer.results)
    <3>1. answer.call = "none" /\ answer.results = {}
      BY <2>1 DEF Init
    <3>2. QED
      BY <3>1 DEF CopiedBy, CopiedChosen
  <2>2. QED
    BY <2>1, CopiedByAnswer DEF Init, InArrays
<1>2. Inv /\ [Next]_vars => Inv'
  <2> SUFFICES ASSUME Inv, [Next]_vars PROVE Inv'
    OBVIOUS
  <2>1. UNCHANGED <<a, b>>
    BY CallsChangeNothing DEF vars
  <2>2. CASE UNCHANGED vars
    <3>1. a' = a /\ b' = b /\ answer' = answer
      BY <2>2 DEF vars
    <3>2. CopiedBy(a, n1, n2, answer.call, answer.arg, answer.results)
      BY CopiedByAnswer
    <3>3. n1' = n1 /\ n2' = n2
      BY <3>1 DEF n1, n2
    <3>4. CopiedBy(a, n1, n2, answer.call, answer.arg, answer.results)'
      BY <3>1, <3>2, <3>3
    <3>5. (CopiesSome <=> CopiedBy(a, n1, n2, answer.call, answer.arg, answer.results))'
      BY CopiedByAnswer, PTL
    <3>6. QED
      BY <2>1, <3>4, <3>5, ArraysStay
  <2>3. CASE Next
    BY <2>1, <2>3, ArraysStay, CopiesStep
  <2>4. QED
    BY <2>2, <2>3
<1>3. QED
  BY <1>1, <1>2, PTL DEF Spec
=============================================================================
