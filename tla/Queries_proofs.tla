--------------------------- MODULE Queries_proofs ----------------------------
(***************************************************************************)
(* Theorems about Queries: what each search and each comparison returns,   *)
(* for any two arrays of integers.                                         *)
(*                                                                         *)
(* A loop of the code is a recursive function here.  Two facts are needed  *)
(* of each: that there is such a function (only then does the definition   *)
(* say anything), and what its values are.  Both come from a closed form   *)
(* of the values which is shown to satisfy the equation; that it is the    *)
(* only solution follows because a least argument with another value       *)
(* cannot exist.                                                           *)
(***************************************************************************)
EXTENDS Queries, FiniteSetTheorems, WellFoundedInduction, TLAPS

-----------------------------------------------------------------------------
(* Numbers and loops.                                                      *)

(* A set of natural numbers has a least one.                               *)
LEMMA LeastNumber ==
  ASSUME NEW T \in SUBSET Nat, T # {}
  PROVE  \E x \in T : \A y \in T : x <= y
<1> DEFINE R == {ss \in Nat \X Nat : ss[1] < ss[2]}
<1>1. IsWellFoundedOn(R, Nat)
  BY NatLessThanWellFounded DEF OpToRel
<1>2. \A y, x \in Nat : <<y, x>> \in R <=> y < x
  OBVIOUS
<1> HIDE DEF R
<1>3. PICK x \in T : \A y \in T : ~ (<<y, x>> \in R)
  BY <1>1, WFMin
<1>4. x \in Nat /\ T \subseteq Nat
  OBVIOUS
<1>5. \A y \in T : ~ (y < x)
  BY <1>2, <1>3, <1>4
<1>6. QED
  BY <1>4, <1>5

(* What holds of an element when it holds of all of smaller measure, holds *)
(* of all: else there would be one of least measure for which it does not. *)
LEMMA ByMeasure ==
  ASSUME NEW D, NEW m \in [D -> Nat], NEW Good,
         \A d \in D : (\A e \in D : m[e] < m[d] => e \in Good) => d \in Good
  PROVE  D \subseteq Good
<1> DEFINE T == {m[d] : d \in D \ Good}
<1>1. SUFFICES ASSUME T # {} PROVE FALSE
  OBVIOUS
<1>2. T \in SUBSET Nat
  OBVIOUS
<1>3. PICK x \in T : \A y \in T : x <= y
  <2> HIDE DEF T
  <2>1. QED
    BY <1>1, <1>2, LeastNumber
<1>4. PICK d \in D \ Good : x = m[d]
  OBVIOUS
<1>5. \A e \in D : m[e] < m[d] => e \in Good
  <2>1. ASSUME NEW e \in D, m[e] < m[d], e \notin Good PROVE FALSE
    <3>1. m[d] <= m[e]
      BY <1>3, <1>4, <2>1
    <3>2. m[d] \in Nat /\ m[e] \in Nat
      OBVIOUS
    <3>3. QED
      BY <2>1, <3>1, <3>2
  <2>2. QED
    BY <2>1
<1>6. QED
  BY <1>5

(* Two functions agree when each value follows from the smaller ones.      *)
SameOn(D, f, g) == \A d \in D : f[d] = g[d]

LEMMA Agree ==
  ASSUME NEW D, NEW m \in [D -> Nat], NEW f, NEW g,
         \A d \in D : (\A e \in D : m[e] < m[d] => f[e] = g[e]) => f[d] = g[d]
  PROVE  SameOn(D, f, g)
<1> DEFINE Good == {d \in D : f[d] = g[d]}
<1>1. \A d \in D : (\A e \in D : m[e] < m[d] => e \in Good) => d \in Good
  OBVIOUS
<1>2. D \subseteq Good
  <2> HIDE DEF Good
  <2>1. QED
    BY <1>1, ByMeasure
<1>3. QED
  BY <1>2 DEF SameOn

LEMMA MinIs ==
  ASSUME NEW T \in SUBSET Int, NEW x \in T, \A y \in T : x <= y
  PROVE  Min(T) = x
<1>1. Min(T) \in T /\ \A y \in T : Min(T) <= y
  BY DEF Min
<1>2. Min(T) \in Int /\ x \in Int /\ Min(T) <= x /\ x <= Min(T)
  BY <1>1
<1>3. QED
  BY <1>2

LEMMA MaxIs ==
  ASSUME NEW T \in SUBSET Int, NEW x \in T, \A y \in T : y <= x
  PROVE  Max(T) = x
<1>1. Max(T) \in T /\ \A y \in T : Max(T) >= y
  <2>1. \E z \in T : \A y \in T : z >= y
    OBVIOUS
  <2>2. QED
    BY <2>1 DEF Max
<1>2. Max(T) \in Int /\ x \in Int /\ x <= Max(T) /\ Max(T) <= x
  BY <1>1
<1>3. QED
  BY <1>2

(* The least of a set of integers that is bounded from below.              *)
LEMMA LeastFrom ==
  ASSUME NEW T \in SUBSET Int, T # {}, NEW low \in Int, \A y \in T : low <= y
  PROVE  \E x \in T : \A y \in T : x <= y
<1> DEFINE Up == {y - low : y \in T}
<1>1. Up \in SUBSET Nat /\ Up # {}
  <2>1. ASSUME NEW y \in T PROVE y - low \in Nat
    <3>1. y \in Int /\ low <= y
      OBVIOUS
    <3>2. QED
      BY <3>1
  <2>2. QED
    BY <2>1
<1>2. PICK k \in Up : \A l \in Up : k <= l
  BY <1>1, LeastNumber
<1>3. PICK x \in T : k = x - low
  OBVIOUS
<1>4. \A y \in T : x - low <= y - low
  BY <1>2, <1>3
<1>5. QED
  BY <1>4

(* A loop that goes up until it finds a place of P, and returns what r     *)
(* says of it: there is one, and from each place on it ends at the first   *)
(* place of P.                                                             *)
IsNext(P, i, j) == j \in P /\ i <= j /\ \A l \in P : i <= l => j <= l

IsScan(f, D, P, r) == f = [i \in D |-> IF i \in P THEN r[i] ELSE f[i + 1]]

LEMMA Scan ==
  ASSUME NEW D \in SUBSET Int, NEW P \in SUBSET D, NEW r,
         \A i \in D : \E j \in P : i <= j,
         \A i \in D \ P : i + 1 \in D
  PROVE  /\ \E f : IsScan(f, D, P, r)
         /\ \A f : IsScan(f, D, P, r) => \A i \in D : \A j \in P : IsNext(P, i, j) => f[i] = r[j]
         /\ \A i \in D : \E j \in P : IsNext(P, i, j)
<1>1. ASSUME NEW i \in D PROVE \E j \in P : IsNext(P, i, j)
  <2> DEFINE T == {j \in P : i <= j}
  <2>1. T \in SUBSET Int /\ T # {} /\ \A y \in T : i <= y
    OBVIOUS
  <2>2. \E j \in T : \A l \in T : j <= l
    <3> HIDE DEF T
    <3>1. QED
      BY <2>1, LeastFrom
  <2>3. QED
    BY <2>2 DEF IsNext
<1> DEFINE next == [i \in D |-> CHOOSE j \in P : IsNext(P, i, j)]
           g == [i \in D |-> r[next[i]]]
<1>2. ASSUME NEW i \in D, NEW j \in P, IsNext(P, i, j) PROVE next[i] = j
  <2>1. next[i] \in P /\ IsNext(P, i, next[i])
    BY <1>2
  <2>2. next[i] \in Int /\ j \in Int /\ next[i] <= j /\ j <= next[i]
    BY <1>2, <2>1 DEF IsNext
  <2>3. QED
    BY <2>2
<1> HIDE DEF next
<1>3. \A i \in D : next[i] = IF i \in P THEN i ELSE next[i + 1]
  <2>1. ASSUME NEW i \in D, i \in P PROVE next[i] = i
    BY <1>2, <2>1 DEF IsNext
  <2>2. ASSUME NEW i \in D, i \notin P PROVE next[i] = next[i + 1]
    <3>1. i + 1 \in D
      BY <2>2
    <3>2. PICK j \in P : IsNext(P, i + 1, j)
      BY <1>1, <3>1
    <3>3. IsNext(P, i, j)
      BY <2>2, <3>2 DEF IsNext
    <3>4. QED
      BY <1>2, <3>1, <3>2, <3>3
  <2>3. QED
    BY <2>1, <2>2
<1>4. IsScan(g, D, P, r)
  <2>1. ASSUME NEW i \in D PROVE g[i] = IF i \in P THEN r[i] ELSE g[i + 1]
    BY <1>3
  <2>2. g = [i \in D |-> IF i \in P THEN r[i] ELSE g[i + 1]]
    BY <2>1
  <2> HIDE DEF g
  <2>3. QED
    BY <2>2 DEF IsScan
<1>5. ASSUME NEW f, IsScan(f, D, P, r),
             NEW i \in D, NEW j \in P, IsNext(P, i, j)
      PROVE  f[i] = r[j]
  <2>1. j - i \in Nat
    BY <1>5 DEF IsNext
  <2> DEFINE Bad == {t \in 0 .. j - i : ~(i + t \in D /\ f[i + t] = f[i])}
  <2>2. Bad = {}
    <3>1. SUFFICES ASSUME Bad # {} PROVE FALSE
      OBVIOUS
    <3>2. PICK t \in Bad : \A y \in Bad : t <= y
      <4>1. Bad \in SUBSET Nat
        BY <2>1
      <4> HIDE DEF Bad
      <4>2. QED
        BY <3>1, <4>1, LeastNumber
    <3>3. t \in 1 .. j - i
      BY <3>2
    <3>4. t - 1 \notin Bad /\ t - 1 \in 0 .. j - i
      BY <3>2, <3>3
    <3>5. i + (t - 1) \in D /\ f[i + (t - 1)] = f[i]
      BY <3>4
    <3>6. i + (t - 1) \notin P
      BY <1>5, <3>3 DEF IsNext
    <3>7. (i + (t - 1)) + 1 \in D /\ f[i + (t - 1)] = f[(i + (t - 1)) + 1]
      BY <1>5, <3>5, <3>6 DEF IsScan
    <3>8. (i + (t - 1)) + 1 = i + t
      BY <3>3
    <3>9. QED
      BY <3>5, <3>7, <3>8
  <2>3. f[i + (j - i)] = f[i]
    <3>1. j - i \in 0 .. j - i
      BY <2>1
    <3>2. QED
      BY <2>2, <3>1
  <2>4. i \in Int /\ j \in D
    OBVIOUS
  <2>5. i + (j - i) = j
    BY <2>4
  <2>6. f[j] = r[j]
    BY <1>5, <2>4 DEF IsScan
  <2>7. QED
    BY <2>3, <2>5, <2>6
<1>6. QED
  BY <1>1, <1>4, <1>5

(* Recursion: a value that depends on those of smaller measure only.       *)

(* h follows G as far as the measure is less than k.                       *)
Follows(h, G, D, m, k) == \A d \in D : m[d] < k => h[d] = G[d][h]

LocalIn(G, D, Vals, m) ==
  \A d \in D : \A h1, h2 \in [D -> Vals] :
    (\A e \in D : m[e] < m[d] => h1[e] = h2[e]) => G[d][h1] = G[d][h2]

IsRecursive(f, D, G) == f = [d \in D |-> G[d][f]]

LEMMA FollowersAgree ==
  ASSUME NEW D, NEW Vals, NEW m \in [D -> Nat], NEW G, LocalIn(G, D, Vals, m),
         NEW k \in Nat, NEW h1 \in [D -> Vals], NEW h2 \in [D -> Vals],
         Follows(h1, G, D, m, k), Follows(h2, G, D, m, k)
  PROVE  \A d \in D : m[d] < k => h1[d] = h2[d]
<1> DEFINE Good == {d \in D : m[d] < k => h1[d] = h2[d]}
<1>1. ASSUME NEW d \in D, \A e \in D : m[e] < m[d] => e \in Good
      PROVE  d \in Good
  <2>1. SUFFICES ASSUME m[d] < k PROVE h1[d] = h2[d]
    OBVIOUS
  <2>2. ASSUME NEW e \in D, m[e] < m[d] PROVE h1[e] = h2[e]
    <3>1. m[e] < k
      <4>1. m[e] \in Nat /\ m[d] \in Nat
        OBVIOUS
      <4>2. QED
        BY <2>1, <2>2, <4>1
    <3>2. QED
      BY <1>1, <2>2, <3>1
  <2>3. G[d][h1] = G[d][h2]
    BY <2>2 DEF LocalIn
  <2>4. QED
    BY <2>1, <2>3 DEF Follows
<1>2. D \subseteq Good
  <2> HIDE DEF Good
  <2>1. QED
    BY <1>1, ByMeasure
<1>3. QED
  BY <1>2

LEMMA Recursion ==
  ASSUME NEW D, NEW Vals, Vals # {}, NEW m \in [D -> Nat], NEW G \in [D -> [[D -> Vals] -> Vals]],
         LocalIn(G, D, Vals, m)
  PROVE  \E f \in [D -> Vals] : IsRecursive(f, D, G)
<1> DEFINE Missing == {k \in Nat : ~ \E h \in [D -> Vals] : Follows(h, G, D, m, k)}
<1>1. ASSUME Missing # {} PROVE FALSE
  <2>1. PICK k \in Missing : \A j \in Missing : k <= j
    BY <1>1, LeastNumber
  <2>2. k \in Nat
    OBVIOUS
  <2>3. CASE k = 0
    <3>1. PICK s \in Vals : TRUE
      OBVIOUS
    <3>2. [d \in D |-> s] \in [D -> Vals]
      OBVIOUS
    <3>3. Follows([d \in D |-> s], G, D, m, k)
      <4>1. \A d \in D : m[d] \in Nat /\ ~(m[d] < k)
        BY <2>3
      <4>2. QED
        BY <4>1 DEF Follows
    <3>4. QED
      BY <3>2, <3>3
  <2>4. CASE k # 0
    <3>1. k - 1 \in Nat /\ ~(k <= k - 1)
      BY <2>2, <2>4
    <3>2. PICK h \in [D -> Vals] : Follows(h, G, D, m, k - 1)
      BY <2>1, <3>1
    <3> DEFINE h2 == [d \in D |-> G[d][h]]
    <3>3. h2 \in [D -> Vals]
      OBVIOUS
    <3>4. ASSUME NEW d \in D, m[d] < k PROVE h2[d] = G[d][h2]
      <4>1. ASSUME NEW e \in D, m[e] < m[d] PROVE h2[e] = h[e]
        <5>1. m[e] \in Nat /\ m[d] \in Nat /\ m[e] < k - 1
          BY <2>2, <3>4, <4>1
        <5>2. h[e] = G[e][h]
          BY <3>2, <5>1 DEF Follows
        <5>3. QED
          BY <5>2
      <4>2. G[d][h2] = G[d][h]
        <5> HIDE DEF h2
        <5>1. QED
          BY <3>3, <4>1 DEF LocalIn
      <4>3. QED
        BY <4>2
    <3>5. Follows(h2, G, D, m, k)
      <4> HIDE DEF h2
      <4>1. QED
        BY <3>4 DEF Follows
    <3>6. QED
      BY <3>3, <3>5
  <2>5. QED
    BY <2>3, <2>4
<1>2. \A k \in Nat : \E h \in [D -> Vals] : Follows(h, G, D, m, k)
  BY <1>1
<1> DEFINE H == [k \in Nat |-> CHOOSE h \in [D -> Vals] : Follows(h, G, D, m, k)]
<1>3. \A k \in Nat : H[k] \in [D -> Vals] /\ Follows(H[k], G, D, m, k)
  BY <1>2
<1> DEFINE f == [d \in D |-> H[m[d] + 1][d]]
<1> HIDE DEF H
<1>4. f \in [D -> Vals]
  <2>1. \A d \in D : m[d] + 1 \in Nat /\ H[m[d] + 1][d] \in Vals
    BY <1>3
  <2>2. QED
    BY <2>1
<1>5. ASSUME NEW d \in D PROVE f[d] = G[d][f]
  <2>1. m[d] \in Nat /\ m[d] + 1 \in Nat /\ m[d] < m[d] + 1
    OBVIOUS
  <2>2. f[d] = G[d][H[m[d] + 1]]
    BY <1>3, <2>1 DEF Follows
  <2>3. ASSUME NEW e \in D, m[e] < m[d] PROVE f[e] = H[m[d] + 1][e]
    <3>1. m[e] \in Nat /\ m[e] + 1 \in Nat /\ m[e] < m[e] + 1 /\ m[e] + 1 <= m[d]
      BY <2>1, <2>3
    <3>2. /\ H[m[e] + 1] \in [D -> Vals] /\ Follows(H[m[e] + 1], G, D, m, m[e] + 1)
          /\ H[m[d] + 1] \in [D -> Vals] /\ Follows(H[m[d] + 1], G, D, m, m[d] + 1)
      BY <1>3, <2>1, <3>1
    <3>3. Follows(H[m[d] + 1], G, D, m, m[e] + 1)
      <4>1. ASSUME NEW x \in D, m[x] < m[e] + 1 PROVE m[x] < m[d] + 1
        <5>1. m[x] \in Nat
          OBVIOUS
        <5>2. QED
          BY <2>1, <3>1, <4>1, <5>1
      <4>2. QED
        BY <3>2, <4>1 DEF Follows
    <3>4. H[m[e] + 1][e] = H[m[d] + 1][e]
      BY <3>1, <3>2, <3>3, FollowersAgree
    <3>5. QED
      BY <3>4
  <2>4. H[m[d] + 1] \in [D -> Vals]
    BY <1>3, <2>1
  <2> HIDE DEF f
  <2>5. G[d][f] = G[d][H[m[d] + 1]]
    BY <1>4, <2>3, <2>4 DEF LocalIn
  <2>6. QED
    BY <2>2, <2>5
<1>6. IsRecursive(f, D, G)
  <2>1. f = [d \in D |-> f[d]]
    OBVIOUS
  <2> HIDE DEF f
  <2>2. QED
    BY <1>5, <2>1 DEF IsRecursive
<1>7. QED
  BY <1>4, <1>6

-----------------------------------------------------------------------------
(* Searches.                                                               *)

(* How many elements match from u[i] and w[j] on.                          *)
LEMMA Matched ==
  ASSUME NEW u, NEW w, NEW i \in Nat, NEW j \in Nat, NEW k1 \in Int, NEW k2 \in Int,
         NEW c, c = S!matched(u, i, k1, w, j, k2)
  PROVE  /\ c \in Nat
         /\ \A k \in 0 .. c - 1 : i + k < k1 /\ j + k < k2 /\ u[i + k] = w[j + k]
         /\ ~(i + c < k1 /\ j + c < k2 /\ u[i + c] = w[j + c])
<1> DEFINE Goes(k) == i + k < k1 /\ j + k < k2 /\ u[i + k] = w[j + k]
           P == {k \in Nat : ~Goes(k)}
           r == [k \in Nat |-> k]
           run[k \in Nat] == IF Goes(k) THEN run[k + 1] ELSE k
<1>1. c = run[0]
  BY DEF S!matched, equal_to
<1>2. /\ Nat \in SUBSET Int /\ P \in SUBSET Nat
      /\ \A k \in Nat : \E l \in P : k <= l
      /\ \A k \in Nat \ P : k + 1 \in Nat
  <2>1. ASSUME NEW k \in Nat PROVE \E l \in P : k <= l
    <3>1. PICK l \in Nat : k <= l /\ k1 <= l
      <4>1. CASE k <= k1
        BY <4>1
      <4>2. CASE k1 < k
        BY <4>2
      <4>3. QED
        BY <4>1, <4>2
    <3>2. ~(i + l < k1)
      BY <3>1
    <3>3. QED
      BY <3>1, <3>2
  <2>2. QED
    BY <2>1
<1> HIDE DEF P, r
<1>3. /\ \E f : IsScan(f, Nat, P, r)
      /\ \A f : IsScan(f, Nat, P, r) => \A k \in Nat : \A l \in P : IsNext(P, k, l) => f[k] = r[l]
      /\ \A k \in Nat : \E l \in P : IsNext(P, k, l)
  BY <1>2, Scan
<1>4. \A f : IsScan(f, Nat, P, r) <=> f = [k \in Nat |-> IF Goes(k) THEN f[k + 1] ELSE k]
  <2>1. ASSUME NEW f, NEW k \in Nat
        PROVE  (IF k \in P THEN r[k] ELSE f[k + 1]) = (IF Goes(k) THEN f[k + 1] ELSE k)
    BY DEF P, r
  <2>2. QED
    BY <2>1 DEF IsScan
<1>5. IsScan(run, Nat, P, r)
  BY <1>3, <1>4
<1>6. PICK l \in P : IsNext(P, 0, l)
  BY <1>3
<1>7. run[0] = l
  <2> HIDE DEF run
  <2>1. run[0] = r[l]
    BY <1>3, <1>5, <1>6
  <2>2. QED
    BY <1>2, <2>1 DEF r
<1>8. l \in Nat /\ ~Goes(l)
  BY DEF P
<1>9. ASSUME NEW k \in 0 .. l - 1 PROVE Goes(k)
  <2>1. k \in Nat /\ k < l
    BY <1>8
  <2>2. k \notin P
    BY <1>6, <1>8, <2>1 DEF IsNext
  <2>3. QED
    BY <2>1, <2>2 DEF P
<1>10. QED
  <2> HIDE DEF run
  <2>1. QED
    BY <1>1, <1>7, <1>8, <1>9
(* Where the first m elements of w are found among the n of u.             *)
Occurs(u, n, w, m) == {i \in 0 .. n - m : \A k \in 0 .. m - 1 : u[i + k] = w[k]}

LEMMA MatchedAll ==
  ASSUME NEW u, NEW w, NEW n \in Nat, NEW m \in Nat, NEW i \in 0 .. n,
         NEW c, c = S!matched(u, i, n, w, 0, m)
  PROVE  /\ c \in 0 .. m /\ i + c <= n
         /\ c = m <=> i \in Occurs(u, n, w, m)
         /\ i + c = n /\ c # m => \A l \in Occurs(u, n, w, m) : l < i
<1>1. /\ c \in Nat
      /\ \A k \in 0 .. c - 1 : i + k < n /\ 0 + k < m /\ u[i + k] = w[0 + k]
      /\ ~(i + c < n /\ 0 + c < m /\ u[i + c] = w[0 + c])
  BY Matched
<1>2. c <= m /\ i + c <= n
  <2>1. CASE c = 0
    BY <2>1
  <2>2. CASE c > 0
    <3>1. c - 1 \in 0 .. c - 1
      BY <1>1, <2>2
    <3>2. i + (c - 1) < n /\ 0 + (c - 1) < m
      BY <1>1, <3>1
    <3>3. QED
      BY <1>1, <3>2
  <2>3. QED
    BY <1>1, <2>1, <2>2
<1>3. ASSUME c = m PROVE i \in Occurs(u, n, w, m)
  <2>1. i \in 0 .. n - m
    BY <1>2, <1>3
  <2>2. ASSUME NEW k \in 0 .. m - 1 PROVE u[i + k] = w[k]
    <3>1. u[i + k] = w[0 + k] /\ 0 + k = k
      BY <1>1, <1>3
    <3>2. QED
      BY <3>1
  <2>3. QED
    BY <2>1, <2>2 DEF Occurs
<1>4. ASSUME i \in Occurs(u, n, w, m), c # m PROVE FALSE
  <2>1. i <= n - m /\ \A k \in 0 .. m - 1 : u[i + k] = w[k]
    BY <1>4 DEF Occurs
  <2>2. c < m /\ c \in 0 .. m - 1 /\ i + c < n /\ 0 + c = c
    BY <1>1, <1>2, <1>4, <2>1
  <2>3. QED
    BY <1>1, <2>1, <2>2
<1>5. ASSUME i + c = n, c # m, NEW l \in Occurs(u, n, w, m) PROVE l < i
  <2>1. l \in Int /\ l <= n - m
    BY DEF Occurs
  <2>2. QED
    BY <1>1, <1>2, <1>5, <2>1
<1>6. QED
  BY <1>1, <1>2, <1>3, <1>4, <1>5

(* The first of a set of places, or the end.                               *)
LEMMA FirstIs ==
  ASSUME NEW T \in SUBSET Int, NEW x \in T, \A y \in T : x <= y, NEW n
  PROVE  LeastOr(T, n) = x
BY MinIs DEF LeastOr

LEMMA FirstNone ==
  ASSUME NEW T, T = {}, NEW n
  PROVE  LeastOr(T, n) = n
BY DEF LeastOr

LEMMA OccursEverywhere ==
  ASSUME NEW u, NEW w, NEW n \in Nat
  PROVE  Occurs(u, n, w, 0) = 0 .. n
BY DEF Occurs

LEMMA SearchUnsized ==
  ASSUME NEW u, NEW w, NEW n \in Nat, NEW m \in Nat
  PROVE  S!search_unsized(u, n, w, m) = LeastOr(Occurs(u, n, w, m), n)
<1>1. CASE m = 0
  <2>1. S!search_unsized(u, n, w, m) = 0
    BY <1>1 DEF S!search_unsized
  <2>2. LeastOr(0 .. n, n) = 0
    <3>1. 0 .. n \in SUBSET Int /\ 0 \in 0 .. n /\ \A y \in 0 .. n : 0 <= y
      OBVIOUS
    <3>2. QED
      BY <3>1, FirstIs
  <2>3. QED
    BY <1>1, <2>1, <2>2, OccursEverywhere
<1>2. CASE m > 0
  <2> DEFINE c(i) == S!matched(u, i, n, w, 0, m)
             D == 0 .. n
             P == {i \in D : i = n \/ c(i) = m \/ (c(i) > 0 /\ i + c(i) = n)}
             r == [i \in D |-> IF i = n THEN n ELSE IF c(i) = m THEN i ELSE n]
             from[i \in 0 .. n] ==
               IF i = n THEN n
               ELSE IF c(i) = m THEN i
               ELSE IF c(i) > 0 /\ i + c(i) = n THEN n ELSE from[i + 1]
  <2>1. S!search_unsized(u, n, w, m) = from[0]
    BY <1>2 DEF S!search_unsized
  <2>2. ASSUME NEW i \in D
        PROVE  /\ c(i) \in 0 .. m /\ i + c(i) <= n
               /\ c(i) = m <=> i \in Occurs(u, n, w, m)
               /\ i + c(i) = n /\ c(i) # m => \A l \in Occurs(u, n, w, m) : l < i
    <3> DEFINE d == c(i)
    <3>1. d = S!matched(u, i, n, w, 0, m)
      OBVIOUS
    <3> HIDE DEF c, d
    <3>2. d = c(i)
      BY DEF d
    <3>3. QED
      BY <3>1, <3>2, MatchedAll
  <2> HIDE DEF c
  <2>3. /\ D \in SUBSET Int /\ P \in SUBSET D
        /\ \A i \in D : \E j \in P : i <= j
        /\ \A i \in D \ P : i + 1 \in D
    OBVIOUS
  <2> HIDE DEF P, r, D
  <2>4. /\ \E f : IsScan(f, D, P, r)
        /\ \A f : IsScan(f, D, P, r) => \A k \in D : \A l \in P : IsNext(P, k, l) => f[k] = r[l]
        /\ \A k \in D : \E l \in P : IsNext(P, k, l)
    BY <2>3, Scan
  <2>5. \A f : IsScan(f, D, P, r)
               <=> f = [i \in 0 .. n |-> IF i = n THEN n
                                         ELSE IF c(i) = m THEN i
                                         ELSE IF c(i) > 0 /\ i + c(i) = n THEN n ELSE f[i + 1]]
    <3>1. ASSUME NEW f, NEW i \in D
          PROVE  (IF i \in P THEN r[i] ELSE f[i + 1])
                 = (IF i = n THEN n
                    ELSE IF c(i) = m THEN i
                    ELSE IF c(i) > 0 /\ i + c(i) = n THEN n ELSE f[i + 1])
      BY DEF P, r
    <3>2. QED
      BY <3>1 DEF IsScan, D
  <2>6. IsScan(from, D, P, r)
    BY <2>4, <2>5
  <2>7. 0 \in D
    BY DEF D
  <2>8. PICK l \in P : IsNext(P, 0, l)
    BY <2>4, <2>7
  <2> HIDE DEF from
  <2>9. from[0] = r[l]
    BY <2>4, <2>6, <2>7, <2>8
  <2>10. l \in D /\ (l = n \/ c(l) = m \/ (c(l) > 0 /\ l + c(l) = n))
    BY DEF P
  <2>11. ASSUME NEW k \in Occurs(u, n, w, m) PROVE l <= k
    <3>1. k \in D
      BY DEF Occurs, D
    <3>2. k \in P
      BY <2>2, <3>1 DEF P
    <3>3. QED
      BY <2>8, <3>1, <3>2 DEF IsNext, D
  <2>12. Occurs(u, n, w, m) \in SUBSET Int
    BY DEF Occurs
  <2>13. CASE l # n /\ c(l) = m
    <3>1. l \in Occurs(u, n, w, m) /\ from[0] = l
      BY <2>2, <2>9, <2>10, <2>13 DEF r
    <3>2. QED
      BY <2>1, <2>11, <2>12, <3>1, FirstIs
  <2>14. CASE ~(l # n /\ c(l) = m)
    <3>1. from[0] = n
      BY <2>9, <2>10, <2>14 DEF r
    <3>2. ASSUME NEW k \in Occurs(u, n, w, m) PROVE FALSE
      <4>1. k \in Int /\ k <= n - m /\ l <= k
        BY <2>11 DEF Occurs
      <4>2. CASE l = n
        BY <1>2, <4>1, <4>2
      <4>3. CASE l # n
        <5>1. c(l) # m /\ l + c(l) = n
          BY <2>10, <2>14, <4>3
        <5>2. k < l
          BY <2>2, <2>10, <5>1
        <5>3. QED
          BY <2>10, <4>1, <5>2 DEF D
      <4>4. QED
        BY <4>2, <4>3
    <3>3. QED
      BY <2>1, <3>1, <3>2, FirstNone
  <2>15. QED
    BY <2>13, <2>14
<1>3. QED
  BY <1>1, <1>2
LEMMA LeastTo ==
  ASSUME NEW n \in Int, NEW T \in SUBSET (0 .. n)
  PROVE  S!Least(T, n) = LeastOr(T, n)
<1>1. T \in SUBSET Int /\ \A y \in T : 0 <= y /\ y <= n
  OBVIOUS
<1>2. \A U : S!Min(U) = Min(U)
  BY DEF S!Min, Min
<1>3. CASE T = {}
  <2>1. T \cup {n} = {n}
    BY <1>3
  <2>2. Min({n}) = n
    BY MinIs
  <2>3. QED
    BY <1>2, <1>3, <2>1, <2>2 DEF S!Least, LeastOr
<1>4. CASE T # {}
  <2>1. PICK x \in T : \A y \in T : x <= y
    BY <1>1, <1>4, LeastFrom
  <2>2. T \cup {n} \in SUBSET Int /\ x \in T \cup {n} /\ \A y \in T \cup {n} : x <= y
    BY <1>1, <2>1
  <2>3. Min(T \cup {n}) = x /\ Min(T) = x
    BY <1>1, <2>1, <2>2, MinIs
  <2>4. QED
    BY <1>2, <1>4, <2>3 DEF S!Least, LeastOr
<1>5. QED
  BY <1>3, <1>4

LEMMA SearchSized ==
  ASSUME NEW u, NEW w, NEW n \in Nat, NEW m \in Nat
  PROVE  S!search_sized(u, n, w, m) = LeastOr(Occurs(u, n, w, m), n)
<1>1. CASE m = 0
  <2>1. S!search_sized(u, n, w, m) = 0
    BY <1>1 DEF S!search_sized
  <2>2. LeastOr(0 .. n, n) = 0
    <3>1. 0 .. n \in SUBSET Int /\ 0 \in 0 .. n /\ \A y \in 0 .. n : 0 <= y
      OBVIOUS
    <3>2. QED
      BY <3>1, FirstIs
  <2>3. QED
    BY <1>1, <2>1, <2>2, OccursEverywhere
<1>2. CASE m > 0
  <2> DEFINE T == {i \in 0 .. n - m : S!matched(u, i, i + m, w, 0, m) = m}
  <2>1. ASSUME NEW i \in 0 .. n - m
        PROVE  i \in T <=> i \in Occurs(u, n, w, m)
    <3> DEFINE d == S!matched(u, i, i + m, w, 0, m)
    <3>1. i \in 0 .. i + m /\ i + m \in Nat /\ i \in 0 .. (i + m) - m
      OBVIOUS
    <3>2. d = m <=> i \in Occurs(u, i + m, w, m)
      BY <3>1, MatchedAll
    <3>3. i \in Occurs(u, i + m, w, m) <=> i \in Occurs(u, n, w, m)
      BY <3>1 DEF Occurs
    <3>4. QED
      BY <3>2, <3>3
  <2>2. T = Occurs(u, n, w, m)
    BY <2>1 DEF Occurs
  <2>3. T \in SUBSET (0 .. n)
    OBVIOUS
  <2>4. S!search_sized(u, n, w, m) = S!Least(T, n)
    BY <1>2 DEF S!search_sized
  <2> HIDE DEF T
  <2>5. QED
    BY <2>2, <2>3, <2>4, LeastTo
<1>3. QED
  BY <1>1, <1>2
LEMMA GreatestTo ==
  ASSUME NEW T \in SUBSET Int, T # {}, NEW high \in Int, \A y \in T : y <= high
  PROVE  \E x \in T : \A y \in T : y <= x
<1> DEFINE Down == {high - y : y \in T}
<1>1. Down \in SUBSET Nat /\ Down # {}
  <2>1. ASSUME NEW y \in T PROVE high - y \in Nat
    <3>1. y \in Int /\ y <= high
      OBVIOUS
    <3>2. QED
      BY <3>1
  <2>2. QED
    BY <2>1
<1>2. PICK k \in Down : \A l \in Down : k <= l
  BY <1>1, LeastNumber
<1>3. PICK x \in T : k = high - x
  OBVIOUS
<1>4. \A y \in T : high - x <= high - y
  BY <1>2, <1>3
<1>5. QED
  BY <1>4

LEMMA LastIs ==
  ASSUME NEW T \in SUBSET Int, NEW x \in T, \A y \in T : y <= x, NEW n
  PROVE  GreatestOr(T, n) = x
BY MaxIs DEF GreatestOr

LEMMA LastNone ==
  ASSUME NEW T, T = {}, NEW n
  PROVE  GreatestOr(T, n) = n
BY DEF GreatestOr

(* A loop from the front that keeps the last place of T it passed in res.  *)
From(T, i) == {l \in T : i <= l}

LEMMA LastAfter ==
  ASSUME NEW T \in SUBSET Int, NEW n \in Int, \A l \in T : l <= n, NEW i \in Int, NEW res
  PROVE  /\ i \in T => GreatestOr(From(T, i), res) = GreatestOr(From(T, i + 1), i)
         /\ i \notin T => From(T, i) = From(T, i + 1)
<1> DEFINE U == From(T, i)
           V == From(T, i + 1)
<1>1. /\ \A l \in T : l \in Int
      /\ U \in SUBSET T /\ V \in SUBSET T
      /\ \A l \in T : (l \in U <=> i <= l) /\ (l \in V <=> i + 1 <= l)
  BY DEF From
<1> HIDE DEF U, V
<1>2. /\ U \in SUBSET Int /\ V \in SUBSET Int
      /\ \A y \in V : y \in Int /\ y <= n /\ i < y
  BY <1>1
<1>3. \A l \in T : i <= l <=> (l = i \/ i + 1 <= l)
  BY <1>1
<1>4. ASSUME i \notin T PROVE U = V
  <2>1. \A l \in T : l \in U <=> l \in V
    BY <1>1, <1>3, <1>4
  <2>2. QED
    BY <1>1, <2>1
<1>5. ASSUME i \in T PROVE GreatestOr(U, res) = GreatestOr(V, i)
  <2>1. U = V \cup {i}
    <3>1. \A l \in T : l \in U <=> (l \in V \/ l = i)
      BY <1>1, <1>3
    <3>2. QED
      BY <1>1, <1>5, <3>1
  <2>2. CASE V = {}
    <3>1. U = {i}
      BY <2>1, <2>2
    <3>2. GreatestOr(U, res) = i /\ GreatestOr(V, i) = i
      BY <1>2, <2>2, <3>1, LastIs, LastNone
    <3>3. QED
      BY <3>2
  <2>3. CASE V # {}
    <3>1. PICK x \in V : \A y \in V : y <= x
      BY <1>2, <2>3, GreatestTo
    <3>2. x \in U /\ \A y \in U : y <= x
      BY <1>2, <2>1, <3>1
    <3>3. GreatestOr(U, res) = x /\ GreatestOr(V, i) = x
      BY <1>2, <3>1, <3>2, LastIs
    <3>4. QED
      BY <3>3
  <2>4. QED
    BY <2>2, <2>3
<1>6. QED
  BY <1>4, <1>5 DEF U, V

LEMMA FindEndForward ==
  ASSUME NEW u, NEW w, NEW n \in Nat, NEW m \in Nat \ {0}
  PROVE  S!find_end_forward(u, n, w, m) = GreatestOr(Occurs(u, n, w, m), n)
<1> DEFINE c(i) == S!matched(u, i, n, w, 0, m)
           D == 0 .. n
           T == Occurs(u, n, w, m)
           meas == [i \in D |-> n - i]
           g == [i \in D |-> [res \in 0 .. n |-> GreatestOr(From(T, i), res)]]
           from[i \in 0 .. n] ==
             [res \in 0 .. n |->
                IF i = n THEN res
                ELSE IF c(i) = m THEN from[i + 1][i]
                ELSE IF c(i) > 0 /\ i + c(i) = n THEN res ELSE from[i + 1][res]]
<1>1. S!find_end_forward(u, n, w, m) = from[0][n]
  BY DEF S!find_end_forward
<1>2. ASSUME NEW i \in D
      PROVE  /\ c(i) \in 0 .. m /\ i + c(i) <= n
             /\ c(i) = m <=> i \in T
             /\ i + c(i) = n /\ c(i) # m => \A l \in T : l < i
  <2> DEFINE d == c(i)
  <2>1. d = S!matched(u, i, n, w, 0, m)
    OBVIOUS
  <2> HIDE DEF c, d
  <2>2. d = c(i)
    BY DEF d
  <2>3. QED
    BY <2>1, <2>2, MatchedAll
<1>3. T \in SUBSET Int /\ \A l \in T : l \in Int /\ 0 <= l /\ l <= n - m /\ l < n
  BY DEF Occurs
<1> HIDE DEF c, T
<1>4. ASSUME NEW i \in D, NEW res \in 0 .. n
      PROVE  g[i][res] = IF i = n THEN res
                         ELSE IF c(i) = m THEN g[i + 1][i]
                         ELSE IF c(i) > 0 /\ i + c(i) = n THEN res ELSE g[i + 1][res]
  <2>1. CASE i = n
    <3>1. From(T, i) = {}
      <4>1. \A l \in T : ~(i <= l)
        BY <1>3, <2>1
      <4>2. QED
        BY <4>1 DEF From
    <3>2. QED
      BY <2>1, <3>1, LastNone
  <2>2. CASE i # n
    <3>1. i + 1 \in D /\ i \in 0 .. n
      BY <2>2
    <3>2. g[i][res] = GreatestOr(From(T, i), res)
      OBVIOUS
    <3>3. g[i][res] = GreatestOr(From(T, i + 1), IF i \in T THEN i ELSE res)
      <4>1. i \in Int /\ n \in Int /\ \A l \in T : l <= n
        BY <1>3
      <4>2. /\ i \in T => GreatestOr(From(T, i), res) = GreatestOr(From(T, i + 1), i)
            /\ i \notin T => From(T, i) = From(T, i + 1)
        BY <1>3, <4>1, LastAfter
      <4>3. QED
        BY <3>2, <4>2
    <3>4. CASE c(i) = m
      BY <1>2, <2>2, <3>1, <3>3, <3>4
    <3>5. CASE c(i) # m /\ i + c(i) = n /\ c(i) > 0
      <4>1. From(T, i) = {}
        <5>1. \A l \in T : l < i /\ l \in Int
          BY <1>2, <1>3, <3>5
        <5>2. QED
          BY <5>1 DEF From
      <4>2. QED
        BY <2>2, <3>2, <3>5, <4>1, LastNone
    <3>6. CASE c(i) # m /\ ~(c(i) > 0 /\ i + c(i) = n)
      BY <1>2, <2>2, <3>1, <3>3, <3>6
    <3>7. QED
      BY <3>4, <3>5, <3>6
  <2>3. QED
    BY <2>1, <2>2
<1>5. g = [i \in 0 .. n |->
             [res \in 0 .. n |->
                IF i = n THEN res
                ELSE IF c(i) = m THEN g[i + 1][i]
                ELSE IF c(i) > 0 /\ i + c(i) = n THEN res ELSE g[i + 1][res]]]
  <2>1. ASSUME NEW i \in D
        PROVE  g[i] = [res \in 0 .. n |->
                         IF i = n THEN res
                         ELSE IF c(i) = m THEN g[i + 1][i]
                         ELSE IF c(i) > 0 /\ i + c(i) = n THEN res ELSE g[i + 1][res]]
    BY <1>4
  <2>2. QED
    BY <2>1
<1> HIDE DEF g
<1>6. from = [i \in 0 .. n |->
                [res \in 0 .. n |->
                   IF i = n THEN res
                   ELSE IF c(i) = m THEN from[i + 1][i]
                   ELSE IF c(i) > 0 /\ i + c(i) = n THEN res ELSE from[i + 1][res]]]
  BY <1>5
<1> HIDE DEF from
<1>7. ASSUME NEW i \in D, \A e \in D : meas[e] < meas[i] => from[e] = g[e]
      PROVE  from[i] = g[i]
  <2>1. CASE i = n
    BY <1>5, <1>6, <2>1
  <2>2. CASE i # n
    <3>1. i + 1 \in D /\ meas[i + 1] < meas[i]
      BY <2>2
    <3>2. from[i + 1] = g[i + 1]
      BY <1>7, <3>1
    <3>3. QED
      BY <1>5, <1>6, <3>2
  <2>3. QED
    BY <2>1, <2>2
<1>8. SameOn(D, from, g)
  <2>1. meas \in [D -> Nat]
    OBVIOUS
  <2> HIDE DEF meas, D
  <2>2. QED
    BY <1>7, <2>1, Agree
<1>9. from[0][n] = GreatestOr(From(T, 0), n)
  <2>1. 0 \in D /\ n \in 0 .. n
    OBVIOUS
  <2>2. QED
    BY <1>8, <2>1 DEF g, SameOn
<1>10. From(T, 0) = T
  BY <1>3 DEF From
<1>11. QED
  BY <1>1, <1>9, <1>10 DEF T
(* How many elements match back from u[i - 1] and w[m - 1].                *)
LEMMA MatchedBack ==
  ASSUME NEW u, NEW w, NEW n \in Nat, NEW m \in Nat \ {0}, NEW i \in 0 .. n,
         NEW c, c = S!matched_back(u, i, w, m)
  PROVE  /\ c \in 0 .. m /\ c <= i
         /\ c = m <=> i - m \in Occurs(u, n, w, m)
<1> DEFINE T == {k \in 0 .. m - 1 : k < i /\ u[i - 1 - k] # w[m - 1 - k]}
           e == IF i <= m THEN i ELSE m
<1>1. \A U : S!Min(U) = Min(U)
  BY DEF S!Min, Min
<1>2. Min({i, m}) = e
  <2>1. {i, m} \in SUBSET Int /\ e \in {i, m} /\ \A y \in {i, m} : e <= y
    OBVIOUS
  <2> HIDE DEF e
  <2>2. QED
    BY <2>1, MinIs
<1>3. c = Min(T \cup {e})
  BY <1>1, <1>2 DEF S!matched_back, S!Least, equal_to
<1>4. T \cup {e} \in SUBSET Int /\ \A y \in T \cup {e} : 0 <= y /\ y <= e
  OBVIOUS
<1>5. e \in 0 .. m /\ e <= i /\ (e = m <=> m <= i)
  OBVIOUS
<1>6. T \in SUBSET (0 .. m - 1)
      /\ \A k \in 0 .. m - 1 : k \in T <=> k < i /\ u[i - 1 - k] # w[m - 1 - k]
  OBVIOUS
<1> HIDE DEF e, T
<1>7. PICK x \in T \cup {e} : \A y \in T \cup {e} : x <= y
  <2>1. T \cup {e} # {} /\ 0 \in Int /\ \A y \in T \cup {e} : 0 <= y
    BY <1>4
  <2>2. QED
    BY <1>4, <2>1, LeastFrom
<1>8. c = x
  BY <1>3, <1>4, <1>7, MinIs
<1>9. c \in 0 .. m /\ c <= i
  BY <1>4, <1>5, <1>8
<1>10. ASSUME c = m PROVE i - m \in Occurs(u, n, w, m)
  <2>1. c = e /\ m <= i
    BY <1>4, <1>5, <1>8, <1>10
  <2>2. ASSUME NEW k \in 0 .. m - 1 PROVE k \notin T
    BY <1>7, <1>8, <1>10
  <2>3. ASSUME NEW k \in 0 .. m - 1 PROVE u[(i - m) + k] = w[k]
    <3>1. (m - 1) - k \in 0 .. m - 1 /\ (m - 1) - k < i
      BY <2>1
    <3>2. u[(i - 1) - ((m - 1) - k)] = w[(m - 1) - ((m - 1) - k)]
      BY <1>6, <2>2, <3>1
    <3>3. (i - 1) - ((m - 1) - k) = (i - m) + k /\ (m - 1) - ((m - 1) - k) = k
      OBVIOUS
    <3>4. QED
      BY <3>2, <3>3
  <2>4. QED
    BY <2>1, <2>3 DEF Occurs
<1>11. ASSUME i - m \in Occurs(u, n, w, m) PROVE c = m
  <2>1. 0 <= i - m /\ \A k \in 0 .. m - 1 : u[(i - m) + k] = w[k]
    BY <1>11 DEF Occurs
  <2>2. ASSUME NEW k \in 0 .. m - 1 PROVE k \notin T
    <3>1. (m - 1) - k \in 0 .. m - 1
      OBVIOUS
    <3>2. u[(i - m) + ((m - 1) - k)] = w[(m - 1) - k]
      BY <2>1, <3>1
    <3>3. (i - m) + ((m - 1) - k) = (i - 1) - k
      OBVIOUS
    <3>4. QED
      BY <1>6, <3>2, <3>3
  <2>3. e = m
    BY <1>5, <2>1
  <2>4. QED
    BY <1>6, <1>8, <2>2, <2>3
<1>12. QED
  BY <1>9, <1>10, <1>11

UpTo(T, i) == {l \in T : l <= i}

LEMMA FindEndBidirectional ==
  ASSUME NEW u, NEW w, NEW n \in Nat, NEW m \in Nat \ {0}
  PROVE  S!find_end_bidirectional(u, n, w, m) = GreatestOr(Occurs(u, n, w, m), n)
<1> DEFINE c(i) == S!matched_back(u, i, w, m)
           D == 0 .. n
           T == Occurs(u, n, w, m)
           meas == [i \in D |-> i]
           g == [i \in D |-> GreatestOr(UpTo(T, i - m), n)]
           back[i \in 0 .. n] ==
             IF i = 0 THEN n
             ELSE IF c(i) = m THEN i - m
             ELSE IF c(i) > 0 /\ c(i) = i THEN n ELSE back[i - 1]
<1>1. S!find_end_bidirectional(u, n, w, m) = back[n]
  BY DEF S!find_end_bidirectional
<1>2. ASSUME NEW i \in D
      PROVE  c(i) \in 0 .. m /\ c(i) <= i /\ (c(i) = m <=> i - m \in T)
  <2> DEFINE d == c(i)
  <2>1. d = S!matched_back(u, i, w, m)
    OBVIOUS
  <2> HIDE DEF c, d
  <2>2. d = c(i)
    BY DEF d
  <2>3. d \in 0 .. m /\ d <= i /\ (d = m <=> i - m \in Occurs(u, n, w, m))
    <3>1. i \in 0 .. n
      OBVIOUS
    <3>2. QED
      BY <2>1, <3>1, MatchedBack
  <2>4. QED
    BY <2>2, <2>3
<1>3. T \in SUBSET Int /\ \A l \in T : l \in Int /\ 0 <= l /\ l <= n - m
  BY DEF Occurs
<1> HIDE DEF c, T
<1>4. ASSUME NEW i \in D
      PROVE  g[i] = IF i = 0 THEN n
                    ELSE IF c(i) = m THEN i - m
                    ELSE IF c(i) > 0 /\ c(i) = i THEN n ELSE g[i - 1]
  <2>1. ASSUME i < m PROVE g[i] = n
    <3>1. \A l \in T : ~(l <= i - m)
      BY <1>3, <2>1
    <3>2. UpTo(T, i - m) = {}
      BY <3>1 DEF UpTo
    <3>3. QED
      BY <3>2, LastNone
  <2>2. CASE i = 0
    BY <2>1, <2>2
  <2>3. CASE i # 0 /\ c(i) = m
    <3>1. i - m \in UpTo(T, i - m)
      BY <1>2, <1>3, <2>3 DEF UpTo
    <3>2. UpTo(T, i - m) \in SUBSET Int /\ \A l \in UpTo(T, i - m) : l <= i - m
      BY <1>3 DEF UpTo
    <3>3. GreatestOr(UpTo(T, i - m), n) = i - m
      BY <3>1, <3>2, LastIs
    <3>4. QED
      BY <2>3, <3>3
  <2>4. CASE i # 0 /\ c(i) # m /\ c(i) > 0 /\ c(i) = i
    BY <1>2, <2>1, <2>4
  <2>5. CASE i # 0 /\ c(i) # m /\ ~(c(i) > 0 /\ c(i) = i)
    <3>1. \A l \in T : l <= i - m <=> l <= (i - 1) - m
      BY <1>2, <1>3, <2>5
    <3>2. UpTo(T, i - m) = UpTo(T, (i - 1) - m)
      BY <3>1 DEF UpTo
    <3>3. i - 1 \in D
      BY <2>5
    <3>4. QED
      BY <2>5, <3>2, <3>3
  <2>6. QED
    BY <2>2, <2>3, <2>4, <2>5
<1>5. g = [i \in 0 .. n |-> IF i = 0 THEN n
                            ELSE IF c(i) = m THEN i - m
                            ELSE IF c(i) > 0 /\ c(i) = i THEN n ELSE g[i - 1]]
  BY <1>4
<1> HIDE DEF g
<1>6. back = [i \in 0 .. n |-> IF i = 0 THEN n
                               ELSE IF c(i) = m THEN i - m
                               ELSE IF c(i) > 0 /\ c(i) = i THEN n ELSE back[i - 1]]
  BY <1>5
<1> HIDE DEF back
<1>7. ASSUME NEW i \in D, \A e \in D : meas[e] < meas[i] => back[e] = g[e]
      PROVE  back[i] = g[i]
  <2>1. CASE i = 0
    BY <1>5, <1>6, <2>1
  <2>2. CASE i # 0
    <3>1. i - 1 \in D /\ meas[i - 1] < meas[i]
      BY <2>2
    <3>2. back[i - 1] = g[i - 1]
      BY <1>7, <3>1
    <3>3. QED
      BY <1>5, <1>6, <3>2
  <2>3. QED
    BY <2>1, <2>2
<1>8. SameOn(D, back, g)
  <2>1. meas \in [D -> Nat]
    OBVIOUS
  <2> HIDE DEF meas, D
  <2>2. QED
    BY <1>7, <2>1, Agree
<1>9. back[n] = GreatestOr(UpTo(T, n - m), n)
  <2>1. n \in D
    OBVIOUS
  <2>2. QED
    BY <1>8, <2>1 DEF g, SameOn
<1>10. UpTo(T, n - m) = T
  BY <1>3 DEF UpTo
<1>11. QED
  BY <1>1, <1>9, <1>10 DEF T
LEMMA FindEndRandom ==
  ASSUME NEW u, NEW w, NEW n \in Nat, NEW m \in Nat \ {0}
  PROVE  S!find_end_random(u, n, w, m) = GreatestOr(Occurs(u, n, w, m), n)
<1> DEFINE T == Occurs(u, n, w, m)
           ends == {i \in m .. n : S!matched_back(u, i, w, m) = m}
<1>1. T \in SUBSET Int /\ \A l \in T : l \in Int /\ 0 <= l /\ l <= n - m
  BY DEF Occurs
<1>2. CASE n < m
  <2>1. T = {}
    <3>1. \A l \in T : FALSE
      BY <1>1, <1>2
    <3>2. QED
      BY <3>1
  <2>2. S!find_end_random(u, n, w, m) = n
    BY <1>2 DEF S!find_end_random
  <2>3. QED
    BY <2>1, <2>2, LastNone
<1>3. CASE ~(n < m)
  <2>1. S!find_end_random(u, n, w, m) = IF ends = {} THEN n ELSE Max(ends) - m
    <3>1. m # 0 /\ \A U : S!Max(U) = Max(U)
      BY DEF S!Max, Max
    <3>2. QED
      BY <1>3, <3>1 DEF S!find_end_random
  <2>2. ASSUME NEW i \in m .. n PROVE i \in ends <=> i - m \in T
    <3> DEFINE d == S!matched_back(u, i, w, m)
    <3>1. i \in 0 .. n
      OBVIOUS
    <3>2. d = m <=> i - m \in Occurs(u, n, w, m)
      BY <3>1, MatchedBack
    <3>3. QED
      BY <3>2
  <2>3. ends \in SUBSET (m .. n)
    OBVIOUS
  <2> HIDE DEF ends, T
  <2>4. \A l \in T : l + m \in ends
    <3>1. ASSUME NEW l \in T PROVE l + m \in ends
      <4>1. l + m \in m .. n /\ (l + m) - m = l
        BY <1>1
      <4>2. QED
        BY <2>2, <4>1
    <3>2. QED
      BY <3>1
  <2>5. CASE ends = {}
    <3>1. T = {}
      BY <2>4, <2>5
    <3>2. QED
      BY <2>1, <2>5, <3>1, LastNone DEF T
  <2>6. CASE ends # {}
    <3>1. ends \in SUBSET Int /\ \A y \in ends : y <= n
      BY <2>3
    <3>2. PICK x \in ends : \A y \in ends : y <= x
      BY <2>6, <3>1, GreatestTo
    <3>3. Max(ends) = x
      BY <3>1, <3>2, MaxIs
    <3>4. x \in m .. n /\ x - m \in T
      BY <2>2, <2>3
    <3>5. ASSUME NEW l \in T PROVE l <= x - m
      <4>1. l + m <= x /\ l \in Int
        BY <1>1, <2>4, <3>2
      <4>2. QED
        BY <3>4, <4>1
    <3>6. GreatestOr(T, n) = x - m
      BY <1>1, <3>4, <3>5, LastIs
    <3>7. QED
      BY <2>1, <2>6, <3>3, <3>6 DEF T
  <2>7. QED
    BY <2>5, <2>6
<1>4. QED
  BY <1>2, <1>3
(* Where v stands count times in a row.                                    *)
RunsOf(u, n, count, v) == {i \in 0 .. n - count : \A k \in i .. i + count - 1 : u[k] = v}

LEMMA RunOf ==
  ASSUME NEW u, NEW v, NEW n \in Nat, NEW i \in 0 .. n, NEW c, c = S!run_of(u, i, n, v)
  PROVE  /\ c \in 0 .. n - i
         /\ \A k \in i .. i + c - 1 : u[k] = v
         /\ i + c < n => u[i + c] # v
<1> DEFINE T == {k \in 0 .. n - i : i + k < n /\ u[i + k] # v}
<1>1. n - i \in Int /\ T \in SUBSET (0 .. n - i)
  OBVIOUS
<1>2. c = S!Least(T, n - i)
  BY DEF S!run_of, equal_to
<1>3. \A k \in 0 .. n - i : k \in T <=> i + k < n /\ u[i + k] # v
  OBVIOUS
<1> HIDE DEF T
<1>4. c = LeastOr(T, n - i)
  BY <1>1, <1>2, LeastTo
<1>5. /\ c \in 0 .. n - i
      /\ \A k \in 0 .. c - 1 : k \notin T
      /\ c = n - i \/ c \in T
  <2>1. CASE T = {}
    <3>1. c = n - i
      BY <1>4, <2>1, FirstNone
    <3>2. QED
      BY <2>1, <3>1
  <2>2. CASE T # {}
    <3>1. T \in SUBSET Int /\ 0 \in Int /\ \A y \in T : 0 <= y
      BY <1>1
    <3>2. PICK x \in T : \A y \in T : x <= y
      BY <2>2, <3>1, LeastFrom
    <3>3. c = x
      BY <1>4, <3>1, <3>2, FirstIs
    <3>4. x \in 0 .. n - i
      BY <1>1
    <3>5. \A k \in 0 .. x - 1 : k \notin T
      BY <3>2, <3>4
    <3>6. QED
      BY <3>3, <3>4, <3>5
  <2>3. QED
    BY <2>1, <2>2
<1>6. ASSUME NEW k \in i .. i + c - 1 PROVE u[k] = v
  <2>1. k - i \in 0 .. c - 1 /\ k - i \in 0 .. n - i /\ i + (k - i) = k /\ k < n
    BY <1>5
  <2>2. QED
    BY <1>3, <1>5, <2>1
<1>7. ASSUME i + c < n PROVE u[i + c] # v
  <2>1. c \in T
    BY <1>5, <1>7
  <2>2. QED
    BY <1>3, <1>5, <2>1
<1>8. QED
  BY <1>5, <1>6, <1>7

SameFrom(T, i, j) == From(T, i) = From(T, j)

(* No run of count elements starts where a shorter one is, or behind it.   *)
LEMMA PassOver ==
  ASSUME NEW u, NEW v, NEW n \in Nat, NEW count \in Nat \ {0}, NEW i \in 0 .. n,
         NEW c \in 0 .. n - i, c < count, i + c = n \/ u[i + c] # v
  PROVE  SameFrom(RunsOf(u, n, count, v), i, i + c + 1)
<1> DEFINE T == RunsOf(u, n, count, v)
<1>1. \A l \in T : l \in Int /\ 0 <= l /\ l <= n - count
                   /\ \A k \in l .. l + count - 1 : u[k] = v
  BY DEF RunsOf
<1> HIDE DEF T
<1>2. ASSUME NEW l \in T, i <= l, l < i + c + 1 PROVE FALSE
  <2>1. l \in Int /\ l + count <= n
    BY <1>1
  <2>2. i + c \in l .. l + count - 1 /\ i + c < n
    BY <1>2, <2>1
  <2>3. QED
    BY <1>1, <2>2
<1>3. \A l \in T : i <= l <=> i + c + 1 <= l
  BY <1>1, <1>2
<1>4. SameFrom(T, i, i + c + 1)
  BY <1>3 DEF From, SameFrom
<1>5. QED
  BY <1>4 DEF T

LEMMA RunHere ==
  ASSUME NEW u, NEW v, NEW n \in Nat, NEW count \in Nat \ {0}, NEW i \in 0 .. n - count,
         \A k \in i .. i + count - 1 : u[k] = v
  PROVE  LeastOr(From(RunsOf(u, n, count, v), i), n) = i
<1> DEFINE U == From(RunsOf(u, n, count, v), i)
<1>1. i \in U /\ U \in SUBSET Int /\ \A l \in U : i <= l
  BY DEF From, RunsOf
<1> HIDE DEF U
<1>2. LeastOr(U, n) = i
  BY <1>1, FirstIs
<1>3. QED
  BY <1>2 DEF U

LEMMA NoRunLeft ==
  ASSUME NEW u, NEW v, NEW n \in Nat, NEW count \in Nat \ {0}, NEW i \in Int, n - i < count
  PROVE  LeastOr(From(RunsOf(u, n, count, v), i), n) = n
<1>1. From(RunsOf(u, n, count, v), i) = {}
  <2>1. \A l \in RunsOf(u, n, count, v) : l \in Int /\ l <= n - count
    BY DEF RunsOf
  <2>2. \A l \in RunsOf(u, n, count, v) : ~(i <= l)
    BY <2>1
  <2>3. QED
    BY <2>2 DEF From
<1>2. QED
  BY <1>1, FirstNone
LEMMA SearchNUnsized ==
  ASSUME NEW u, NEW v, NEW n \in Nat, NEW count \in Nat
  PROVE  S!search_n_unsized(u, n, count, v) = LeastOr(RunsOf(u, n, count, v), n)
<1>1. CASE count = 0
  <2>1. S!search_n_unsized(u, n, count, v) = 0
    BY <1>1 DEF S!search_n_unsized
  <2>2. RunsOf(u, n, count, v) = 0 .. n
    BY <1>1 DEF RunsOf
  <2>3. 0 .. n \in SUBSET Int /\ 0 \in 0 .. n /\ \A y \in 0 .. n : 0 <= y
    OBVIOUS
  <2>4. LeastOr(0 .. n, n) = 0
    BY <2>3, FirstIs
  <2>5. QED
    BY <2>1, <2>2, <2>4
<1>2. CASE count > 0
  <2> DEFINE c(i) == S!run_of(u, i, n, v)
             D == 0 .. n + 1
             T == RunsOf(u, n, count, v)
             meas == [i \in D |-> n + 1 - i]
             g == [i \in D |-> LeastOr(From(T, i), n)]
             from[i \in 0 .. n + 1] ==
               IF i >= n THEN n
               ELSE IF c(i) >= count THEN i ELSE from[i + c(i) + 1]
  <2>1. S!search_n_unsized(u, n, count, v) = from[0]
    BY <1>2 DEF S!search_n_unsized
  <2>2. ASSUME NEW i \in D, ~(i >= n)
        PROVE  /\ i \in 0 .. n /\ c(i) \in 0 .. n - i
               /\ \A k \in i .. i + c(i) - 1 : u[k] = v
               /\ i + c(i) < n => u[i + c(i)] # v
    <3> DEFINE d == c(i)
    <3>1. d = S!run_of(u, i, n, v) /\ i \in 0 .. n /\ n \in Nat
      BY <1>2, <2>2
    <3> HIDE DEF c, d
    <3>2. /\ d \in 0 .. (n) - i
          /\ \A k \in i .. i + d - 1 : u[k] = v
          /\ i + d < n => u[i + d] # v
      BY <3>1, RunOf
    <3>3. i \in 0 .. n /\ d \in 0 .. n - i /\ (i + d < n => u[i + d] # v)
      BY <1>2, <2>2, <3>2
    <3>4. d = c(i)
      BY DEF d
    <3>5. QED
      BY <3>2, <3>3, <3>4
  <2> HIDE DEF c
  <2>3. ASSUME NEW i \in D
        PROVE  g[i] = IF i >= n THEN n
                      ELSE IF c(i) >= count THEN i ELSE g[i + c(i) + 1]
    <3>1. CASE i >= n
      <4>1. n - i < count /\ i \in Int
        BY <1>2, <3>1
      <4>2. LeastOr(From(T, i), n) = n
        BY <1>2, <4>1, NoRunLeft
      <4>3. QED
        BY <3>1, <4>2
    <3>2. CASE ~(i >= n) /\ c(i) >= count
      <4>1. i \in 0 .. n - count /\ \A k \in i .. i + count - 1 : u[k] = v
        BY <1>2, <2>2, <3>2
      <4>2. LeastOr(From(T, i), n) = i
        BY <1>2, <4>1, RunHere
      <4>3. QED
        BY <3>2, <4>2
    <3>3. CASE ~(i >= n) /\ ~(c(i) >= count)
      <4>1. /\ i \in 0 .. n /\ c(i) \in 0 .. n - i /\ c(i) < count
            /\ i + c(i) < n => u[i + c(i)] # v
        BY <1>2, <2>2, <3>3
      <4>2. From(T, i) = From(T, i + c(i) + 1)
        <5> DEFINE d == c(i)
        <5>1. /\ i \in 0 .. n /\ d \in 0 .. n - i /\ d < count /\ count \in Nat \ {0}
              /\ i + d = n \/ u[i + d] # v
          BY <1>2, <4>1
        <5> HIDE DEF d
        <5>2. SameFrom(RunsOf(u, n, count, v), i, i + d + 1)
          BY <5>1, PassOver
        <5>3. QED
          BY <5>2 DEF d, SameFrom
      <4>3. i + c(i) + 1 \in D
        BY <4>1
      <4>4. QED
        BY <3>3, <4>2, <4>3
    <3>4. QED
      BY <3>1, <3>2, <3>3
  <2>4. g = [i \in 0 .. n + 1 |-> IF i >= n THEN n
                                  ELSE IF c(i) >= count THEN i ELSE g[i + c(i) + 1]]
    BY <2>3
  <2> HIDE DEF g
  <2>5. from = [i \in 0 .. n + 1 |-> IF i >= n THEN n
                                     ELSE IF c(i) >= count THEN i ELSE from[i + c(i) + 1]]
    BY <2>4
  <2> HIDE DEF from
  <2>6. ASSUME NEW i \in D, \A e \in D : meas[e] < meas[i] => from[e] = g[e]
        PROVE  from[i] = g[i]
    <3>1. CASE i >= n
      BY <2>4, <2>5, <3>1
    <3>2. CASE ~(i >= n)
      <4>1. i + c(i) + 1 \in D /\ meas[i + c(i) + 1] < meas[i]
        <5>1. c(i) \in 0 .. n - i /\ i \in 0 .. n
          BY <2>2, <3>2
        <5>2. QED
          BY <5>1
      <4>2. from[i + c(i) + 1] = g[i + c(i) + 1]
        BY <2>6, <4>1
      <4>3. QED
        BY <2>4, <2>5, <4>2
    <3>3. QED
      BY <3>1, <3>2
  <2>7. SameOn(D, from, g)
    <3>1. meas \in [D -> Nat]
      OBVIOUS
    <3> HIDE DEF meas, D
    <3>2. QED
      BY <2>6, <3>1, Agree
  <2>8. from[0] = LeastOr(From(T, 0), n)
    <3>1. 0 \in D
      OBVIOUS
    <3>2. QED
      BY <2>7, <3>1 DEF g, SameOn
  <2>9. From(T, 0) = T
    <3>1. \A l \in T : 0 <= l
      BY DEF RunsOf
    <3>2. QED
      BY <3>1 DEF From
  <2>10. QED
    BY <2>1, <2>8, <2>9
<1>3. QED
  BY <1>1, <1>2

LEMMA SearchNSized ==
  ASSUME NEW u, NEW v, NEW n \in Nat, NEW count \in Nat
  PROVE  S!search_n_sized(u, n, count, v) = LeastOr(RunsOf(u, n, count, v), n)
<1>1. CASE count = 0
  <2>1. S!search_n_sized(u, n, count, v) = 0
    BY <1>1 DEF S!search_n_sized
  <2>2. RunsOf(u, n, count, v) = 0 .. n
    BY <1>1 DEF RunsOf
  <2>3. 0 .. n \in SUBSET Int /\ 0 \in 0 .. n /\ \A y \in 0 .. n : 0 <= y
    OBVIOUS
  <2>4. LeastOr(0 .. n, n) = 0
    BY <2>3, FirstIs
  <2>5. QED
    BY <2>1, <2>2, <2>4
<1>2. CASE count > 0
  <2> DEFINE c(i) == S!run_of(u, i, i + count, v)
             D == 0 .. n + 1
             T == RunsOf(u, n, count, v)
             meas == [i \in D |-> n + 1 - i]
             g == [i \in D |-> LeastOr(From(T, i), n)]
             from[i \in 0 .. n + 1] ==
               IF n - i < count THEN n
               ELSE IF c(i) = count THEN i ELSE from[i + c(i) + 1]
  <2>1. S!search_n_sized(u, n, count, v) = from[0]
    BY <1>2 DEF S!search_n_sized
  <2>2. ASSUME NEW i \in D, ~(n - i < count)
        PROVE  /\ i \in 0 .. n /\ c(i) \in 0 .. n - i /\ c(i) <= count
               /\ \A k \in i .. i + c(i) - 1 : u[k] = v
               /\ c(i) < count => u[i + c(i)] # v
    <3> DEFINE d == c(i)
    <3>1. d = S!run_of(u, i, i + count, v) /\ i \in 0 .. i + count /\ i + count \in Nat
      BY <1>2, <2>2
    <3> HIDE DEF c, d
    <3>2. /\ d \in 0 .. (i + count) - i
          /\ \A k \in i .. i + d - 1 : u[k] = v
          /\ i + d < i + count => u[i + d] # v
      BY <3>1, RunOf
    <3>3. i \in 0 .. n /\ d \in 0 .. n - i /\ d <= count /\ (d < count => u[i + d] # v)
      BY <1>2, <2>2, <3>2
    <3>4. d = c(i)
      BY DEF d
    <3>5. QED
      BY <3>2, <3>3, <3>4
  <2> HIDE DEF c
  <2>3. ASSUME NEW i \in D
        PROVE  g[i] = IF n - i < count THEN n
                      ELSE IF c(i) = count THEN i ELSE g[i + c(i) + 1]
    <3>1. CASE n - i < count
      <4>1. n - i < count /\ i \in Int
        BY <1>2, <3>1
      <4>2. LeastOr(From(T, i), n) = n
        BY <1>2, <4>1, NoRunLeft
      <4>3. QED
        BY <3>1, <4>2
    <3>2. CASE ~(n - i < count) /\ c(i) = count
      <4>1. i \in 0 .. n - count /\ \A k \in i .. i + count - 1 : u[k] = v
        BY <1>2, <2>2, <3>2
      <4>2. LeastOr(From(T, i), n) = i
        BY <1>2, <4>1, RunHere
      <4>3. QED
        BY <3>2, <4>2
    <3>3. CASE ~(n - i < count) /\ ~(c(i) = count)
      <4>1. /\ i \in 0 .. n /\ c(i) \in 0 .. n - i /\ c(i) < count
            /\ i + c(i) < n => u[i + c(i)] # v
        BY <1>2, <2>2, <3>3
      <4>2. From(T, i) = From(T, i + c(i) + 1)
        <5> DEFINE d == c(i)
        <5>1. /\ i \in 0 .. n /\ d \in 0 .. n - i /\ d < count /\ count \in Nat \ {0}
              /\ i + d = n \/ u[i + d] # v
          BY <1>2, <4>1
        <5> HIDE DEF d
        <5>2. SameFrom(RunsOf(u, n, count, v), i, i + d + 1)
          BY <5>1, PassOver
        <5>3. QED
          BY <5>2 DEF d, SameFrom
      <4>3. i + c(i) + 1 \in D
        BY <4>1
      <4>4. QED
        BY <3>3, <4>2, <4>3
    <3>4. QED
      BY <3>1, <3>2, <3>3
  <2>4. g = [i \in 0 .. n + 1 |-> IF n - i < count THEN n
                                  ELSE IF c(i) = count THEN i ELSE g[i + c(i) + 1]]
    BY <2>3
  <2> HIDE DEF g
  <2>5. from = [i \in 0 .. n + 1 |-> IF n - i < count THEN n
                                     ELSE IF c(i) = count THEN i ELSE from[i + c(i) + 1]]
    BY <2>4
  <2> HIDE DEF from
  <2>6. ASSUME NEW i \in D, \A e \in D : meas[e] < meas[i] => from[e] = g[e]
        PROVE  from[i] = g[i]
    <3>1. CASE n - i < count
      BY <2>4, <2>5, <3>1
    <3>2. CASE ~(n - i < count)
      <4>1. i + c(i) + 1 \in D /\ meas[i + c(i) + 1] < meas[i]
        <5>1. c(i) \in 0 .. n - i /\ i \in 0 .. n
          BY <2>2, <3>2
        <5>2. QED
          BY <5>1
      <4>2. from[i + c(i) + 1] = g[i + c(i) + 1]
        BY <2>6, <4>1
      <4>3. QED
        BY <2>4, <2>5, <4>2
    <3>3. QED
      BY <3>1, <3>2
  <2>7. SameOn(D, from, g)
    <3>1. meas \in [D -> Nat]
      OBVIOUS
    <3> HIDE DEF meas, D
    <3>2. QED
      BY <2>6, <3>1, Agree
  <2>8. from[0] = LeastOr(From(T, 0), n)
    <3>1. 0 \in D
      OBVIOUS
    <3>2. QED
      BY <2>7, <3>1 DEF g, SameOn
  <2>9. From(T, 0) = T
    <3>1. \A l \in T : 0 <= l
      BY DEF RunsOf
    <3>2. QED
      BY <3>1 DEF From
  <2>10. QED
    BY <2>1, <2>8, <2>9
<1>3. QED
  BY <1>1, <1>2
(* The loop to n that returns r of the first place of H.                   *)
IsScanTo(f, first, n, H, r) ==
  f = [i \in first .. n |-> IF i = n THEN n ELSE IF i \in H THEN r[i] ELSE f[i + 1]]

FirstOf(H, n, r) == IF H = {} THEN n ELSE r[LeastOr(H, n)]

LEMMA ScanTo ==
  ASSUME NEW first \in Int, NEW n \in Int, first <= n, NEW H \in SUBSET (first .. n - 1), NEW r
  PROVE  /\ \E f : IsScanTo(f, first, n, H, r)
         /\ \A f : IsScanTo(f, first, n, H, r) => f[first] = FirstOf(H, n, r)
<1> DEFINE D == first .. n
           P == H \cup {n}
           q == [i \in D |-> IF i = n THEN n ELSE r[i]]
<1>1. /\ D \in SUBSET Int /\ P \in SUBSET D
      /\ \A i \in D : \E j \in P : i <= j
      /\ \A i \in D \ P : i + 1 \in D
  OBVIOUS
<1>2. \A i \in D : i \in P <=> i = n \/ i \in H
  OBVIOUS
<1> HIDE DEF P, q, D
<1>3. /\ \E f : IsScan(f, D, P, q)
      /\ \A f : IsScan(f, D, P, q) => \A k \in D : \A l \in P : IsNext(P, k, l) => f[k] = q[l]
      /\ \A k \in D : \E l \in P : IsNext(P, k, l)
  BY <1>1, Scan
<1>4. \A f : IsScan(f, D, P, q) <=> IsScanTo(f, first, n, H, r)
  <2>1. ASSUME NEW f, NEW i \in D
        PROVE  (IF i \in P THEN q[i] ELSE f[i + 1])
               = (IF i = n THEN n ELSE IF i \in H THEN r[i] ELSE f[i + 1])
    BY <1>2 DEF q
  <2>2. QED
    BY <2>1 DEF IsScan, IsScanTo, D
<1>5. ASSUME NEW f, IsScanTo(f, first, n, H, r)
      PROVE  f[first] = FirstOf(H, n, r)
  <2>1. first \in D
    BY DEF D
  <2>2. PICK l \in P : IsNext(P, first, l)
    BY <1>3, <2>1
  <2>3. f[first] = q[l]
    BY <1>3, <1>4, <1>5, <2>1, <2>2
  <2>4. CASE H = {}
    <3>1. l = n /\ l \in D
      BY <1>1, <2>4 DEF P
    <3>2. QED
      BY <2>3, <2>4, <3>1 DEF q, FirstOf
  <2>5. CASE H # {}
    <3>1. H \in SUBSET Int /\ \A y \in H : y \in Int /\ first <= y /\ y < n
      OBVIOUS
    <3>2. \A y \in H : l <= y
      BY <2>2, <3>1 DEF IsNext, P
    <3>3. l # n /\ l \in H /\ l \in D
      <4>1. PICK y \in H : TRUE
        BY <2>5
      <4>2. l <= y /\ y < n /\ y \in Int /\ l \in Int
        BY <1>1, <3>1, <3>2
      <4>3. l # n
        BY <4>2
      <4>4. QED
        BY <1>1, <4>3 DEF P
    <3>4. LeastOr(H, n) = l
      BY <3>1, <3>2, <3>3, FirstIs
    <3>5. QED
      BY <2>3, <2>5, <3>3, <3>4 DEF q, FirstOf
  <2>6. QED
    BY <2>4, <2>5
<1>6. QED
  BY <1>3, <1>4, <1>5

(* A loop of the shape of find_if.                                         *)
IsFind(f, first, n, H) == f = [i \in first .. n |-> IF i = n \/ i \in H THEN i ELSE f[i + 1]]

LEMMA FindFirst ==
  ASSUME NEW first \in Int, NEW n \in Int, first <= n, NEW H \in SUBSET (first .. n - 1)
  PROVE  /\ \E f : IsFind(f, first, n, H)
         /\ \A f : IsFind(f, first, n, H) => f[first] = LeastOr(H, n)
<1> DEFINE r == [i \in first .. n |-> i]
<1>1. \A f : IsScanTo(f, first, n, H, r) <=> IsFind(f, first, n, H)
  <2>1. ASSUME NEW f, NEW i \in first .. n
        PROVE  (IF i = n THEN n ELSE IF i \in H THEN r[i] ELSE f[i + 1])
               = (IF i = n \/ i \in H THEN i ELSE f[i + 1])
    OBVIOUS
  <2> HIDE DEF r
  <2>2. QED
    BY <2>1 DEF IsScanTo, IsFind
<1>2. FirstOf(H, n, r) = LeastOr(H, n)
  <2>1. CASE H = {}
    BY <2>1 DEF LeastOr, FirstOf
  <2>2. CASE H # {}
    <3>1. H \in SUBSET Int /\ \A y \in H : first <= y
      OBVIOUS
    <3>2. PICK x \in H : \A y \in H : x <= y
      BY <2>2, <3>1, LeastFrom
    <3>3. LeastOr(H, n) = x
      BY <3>1, <3>2, FirstIs
    <3>4. QED
      BY <2>2, <3>3 DEF FirstOf
  <2>3. QED
    BY <2>1, <2>2
<1> HIDE DEF r
<1>3. /\ \E f : IsScanTo(f, first, n, H, r)
      /\ \A f : IsScanTo(f, first, n, H, r) => f[first] = FirstOf(H, n, r)
  BY ScanTo
<1>4. QED
  BY <1>1, <1>2, <1>3

LEMMA FindIf ==
  ASSUME NEW u, NEW n \in Nat, NEW T
  PROVE  E!find_if(u, n, T) = LeastOr({i \in 0 .. n - 1 : u[i] \in T}, n)
<1> DEFINE H == {i \in 0 .. n - 1 : u[i] \in T}
           from[i \in 0 .. n] == IF i = n \/ u[i] \in T THEN i ELSE from[i + 1]
<1>1. E!find_if(u, n, T) = from[0]
  BY DEF E!find_if
<1>2. H \in SUBSET (0 .. n - 1) /\ \A i \in 0 .. n : i = n \/ i \in H <=> i = n \/ u[i] \in T
  OBVIOUS
<1> HIDE DEF H
<1>3. \A f : IsFind(f, 0, n, H)
             <=> f = [i \in 0 .. n |-> IF i = n \/ u[i] \in T THEN i ELSE f[i + 1]]
  <2>1. ASSUME NEW f, NEW i \in 0 .. n
        PROVE  (IF i = n \/ i \in H THEN i ELSE f[i + 1])
               = (IF i = n \/ u[i] \in T THEN i ELSE f[i + 1])
    BY <1>2
  <2>2. QED
    BY <2>1 DEF IsFind
<1>4. /\ \E f : IsFind(f, 0, n, H)
      /\ \A f : IsFind(f, 0, n, H) => f[0] = LeastOr(H, n)
  <2>1. 0 \in Int /\ n \in Int /\ 0 <= n
    OBVIOUS
  <2>2. QED
    BY <1>2, <2>1, FindFirst
<1>5. IsFind(from, 0, n, H)
  BY <1>3, <1>4
<1>6. QED
  <2> HIDE DEF from
  <2>1. QED
    BY <1>1, <1>4, <1>5 DEF H
LEMMA FindIfNot ==
  ASSUME NEW u, NEW n \in Nat, NEW T
  PROVE  E!find_if_not(u, n, T) = LeastOr({i \in 0 .. n - 1 : u[i] \notin T}, n)
<1> DEFINE H == {i \in 0 .. n - 1 : u[i] \notin T}
           from[i \in 0 .. n] == IF i = n \/ u[i] \notin T THEN i ELSE from[i + 1]
<1>1. E!find_if_not(u, n, T) = from[0]
  BY DEF E!find_if_not
<1>2. H \in SUBSET (0 .. n - 1) /\ \A i \in 0 .. n : i = n \/ i \in H <=> i = n \/ u[i] \notin T
  OBVIOUS
<1> HIDE DEF H
<1>3. \A f : IsFind(f, 0, n, H)
             <=> f = [i \in 0 .. n |-> IF i = n \/ u[i] \notin T THEN i ELSE f[i + 1]]
  <2>1. ASSUME NEW f, NEW i \in 0 .. n
        PROVE  (IF i = n \/ i \in H THEN i ELSE f[i + 1])
               = (IF i = n \/ u[i] \notin T THEN i ELSE f[i + 1])
    BY <1>2
  <2>2. QED
    BY <2>1 DEF IsFind
<1>4. /\ \E f : IsFind(f, 0, n, H)
      /\ \A f : IsFind(f, 0, n, H) => f[0] = LeastOr(H, n)
  <2>1. 0 \in Int /\ n \in Int /\ 0 <= n
    OBVIOUS
  <2>2. QED
    BY <1>2, <2>1, FindFirst
<1>5. IsFind(from, 0, n, H)
  BY <1>3, <1>4
<1>6. QED
  <2> HIDE DEF from
  <2>1. QED
    BY <1>1, <1>4, <1>5 DEF H

LEMMA FindFirstOf ==
  ASSUME NEW u, NEW n \in Nat, NEW w, NEW m
  PROVE  E!find_first_of(u, n, w, m) = LeastOr({i \in 0 .. n - 1 : \E j \in 0 .. m - 1 : u[i] = w[j]}, n)
<1> DEFINE H == {i \in 0 .. n - 1 : \E j \in 0 .. m - 1 : u[i] = w[j]}
           from[i \in 0 .. n] == IF i = n \/ \E j \in 0 .. m - 1 : u[i] = w[j] THEN i ELSE from[i + 1]
<1>1. E!find_first_of(u, n, w, m) = from[0]
  BY DEF E!find_first_of, equal_to
<1>2. H \in SUBSET (0 .. n - 1) /\ \A i \in 0 .. n : i = n \/ i \in H <=> i = n \/ \E j \in 0 .. m - 1 : u[i] = w[j]
  OBVIOUS
<1> HIDE DEF H
<1>3. \A f : IsFind(f, 0, n, H)
             <=> f = [i \in 0 .. n |-> IF i = n \/ \E j \in 0 .. m - 1 : u[i] = w[j] THEN i ELSE f[i + 1]]
  <2>1. ASSUME NEW f, NEW i \in 0 .. n
        PROVE  (IF i = n \/ i \in H THEN i ELSE f[i + 1])
               = (IF i = n \/ \E j \in 0 .. m - 1 : u[i] = w[j] THEN i ELSE f[i + 1])
    BY <1>2
  <2>2. QED
    BY <2>1 DEF IsFind
<1>4. /\ \E f : IsFind(f, 0, n, H)
      /\ \A f : IsFind(f, 0, n, H) => f[0] = LeastOr(H, n)
  <2>1. 0 \in Int /\ n \in Int /\ 0 <= n
    OBVIOUS
  <2>2. QED
    BY <1>2, <2>1, FindFirst
<1>5. IsFind(from, 0, n, H)
  BY <1>3, <1>4
<1>6. QED
  <2> HIDE DEF from
  <2>1. QED
    BY <1>1, <1>4, <1>5 DEF H

LEMMA AdjacentFind ==
  ASSUME NEW u, NEW n \in Nat
  PROVE  E!adjacent_find(u, n) = LeastOr({i \in 0 .. n - 1 : i + 1 < n /\ u[i] = u[i + 1]}, n)
<1> DEFINE H == {i \in 1 .. n - 1 : u[i - 1] = u[i]}
           G == {i \in 0 .. n - 1 : i + 1 < n /\ u[i] = u[i + 1]}
           r == [i \in 1 .. n |-> i - 1]
           from[i \in 1 .. n] ==
             IF i = n THEN n ELSE IF u[i - 1] = u[i] THEN i - 1 ELSE from[i + 1]
<1>1. E!adjacent_find(u, n) = IF n = 0 THEN 0 ELSE from[1]
  BY DEF E!adjacent_find, equal_to
<1>2. /\ H \in SUBSET (1 .. n - 1) /\ G \in SUBSET (0 .. n - 1)
      /\ \A i \in 1 .. n : i # n => (i \in H <=> u[i - 1] = u[i])
      /\ \A i \in 0 .. n - 1 : i \in G <=> i + 1 < n /\ u[i] = u[i + 1]
      /\ \A i \in 1 .. n : r[i] = i - 1
  OBVIOUS
<1> HIDE DEF H, G, r
<1>3. CASE n = 0
  <2>1. G = {}
    BY <1>2, <1>3
  <2>2. LeastOr(G, n) = 0
    BY <1>3, <2>1, FirstNone
  <2>3. QED
    BY <1>1, <1>3, <2>2 DEF G
<1>4. CASE n # 0
  <2>1. \A f : IsScanTo(f, 1, n, H, r)
               <=> f = [i \in 1 .. n |->
                          IF i = n THEN n ELSE IF u[i - 1] = u[i] THEN i - 1 ELSE f[i + 1]]
    <3>1. ASSUME NEW f, NEW i \in 1 .. n
          PROVE  (IF i = n THEN n ELSE IF i \in H THEN r[i] ELSE f[i + 1])
                 = (IF i = n THEN n ELSE IF u[i - 1] = u[i] THEN i - 1 ELSE f[i + 1])
      BY <1>2
    <3>2. QED
      BY <3>1 DEF IsScanTo
  <2>2. /\ \E f : IsScanTo(f, 1, n, H, r)
        /\ \A f : IsScanTo(f, 1, n, H, r) => f[1] = FirstOf(H, n, r)
    <3>1. 1 \in Int /\ n \in Int /\ 1 <= n
      BY <1>4
    <3>2. QED
      BY <1>2, <3>1, ScanTo
  <2>3. IsScanTo(from, 1, n, H, r)
    BY <2>1, <2>2
  <2> HIDE DEF from
  <2>4. from[1] = IF H = {} THEN n ELSE r[LeastOr(H, n)]
    BY <2>2, <2>3 DEF FirstOf
  <2>5. /\ \A i \in G : i + 1 \in H
        /\ \A i \in H : i - 1 \in G
    <3>1. ASSUME NEW i \in G PROVE i + 1 \in H
      <4>1. i \in 0 .. n - 1 /\ i + 1 \in 1 .. n /\ i + 1 # n /\ (i + 1) - 1 = i
        BY <1>2
      <4>2. QED
        BY <1>2, <4>1
    <3>2. ASSUME NEW i \in H PROVE i - 1 \in G
      <4>1. i \in 1 .. n - 1 /\ i - 1 \in 0 .. n - 1 /\ (i - 1) + 1 = i
        BY <1>2
      <4>2. QED
        BY <1>2, <4>1
    <3>3. QED
      BY <3>1, <3>2
  <2>6. CASE H = {}
    <3>1. G = {}
      BY <2>5, <2>6
    <3>2. QED
      BY <1>1, <1>4, <2>4, <2>6, <3>1, FirstNone DEF G
  <2>7. CASE H # {}
    <3>1. H \in SUBSET Int /\ G \in SUBSET Int /\ 1 \in Int /\ \A y \in H : 1 <= y
      BY <1>2
    <3>2. PICK x \in H : \A y \in H : x <= y
      BY <2>7, <3>1, LeastFrom
    <3>3. LeastOr(H, n) = x
      BY <3>1, <3>2, FirstIs
    <3>4. x \in Int /\ x \in 1 .. n /\ x - 1 \in G
      BY <1>2, <2>5
    <3>5. ASSUME NEW y \in G PROVE x - 1 <= y
      <4>1. y \in Int /\ x <= y + 1
        BY <2>5, <3>1, <3>2
      <4>2. QED
        BY <3>4, <4>1
    <3>6. LeastOr(G, n) = x - 1
      BY <3>1, <3>4, <3>5, FirstIs
    <3>7. QED
      BY <1>1, <1>2, <1>4, <2>4, <2>7, <3>3, <3>4, <3>6 DEF G
  <2>8. QED
    BY <2>6, <2>7
<1>5. QED
  BY <1>3, <1>4
-----------------------------------------------------------------------------
(* What the searches return.                                               *)

InArrays == a \in Arrays /\ b \in Arrays

LEMMA Lengths ==
  ASSUME InArrays
  PROVE  /\ n1 \in Nat /\ n2 \in Nat
         /\ a \in [0 .. n1 - 1 -> Int] /\ b \in [0 .. n2 - 1 -> Int]
         /\ a \in [0 .. n1 - 1 -> Keys] /\ b \in [0 .. n2 - 1 -> Keys]
<1>1. IsFiniteSet(DOMAIN a) /\ IsFiniteSet(DOMAIN b)
  BY QueriesAssumption DEF InArrays
<1>2. n1 \in Nat /\ n2 \in Nat
  BY <1>1, FS_CardinalityType DEF n1, n2
<1>3. a \in [0 .. n1 - 1 -> Keys] /\ b \in [0 .. n2 - 1 -> Keys]
  BY QueriesAssumption DEF InArrays, n1, n2
<1>4. QED
  BY <1>2, <1>3, QueriesAssumption

LEMMA ArraysStay ==
  ASSUME InArrays, UNCHANGED <<a, b>>
  PROVE  InArrays' /\ n1' = n1 /\ n2' = n2 /\ Matches' = Matches /\ First' = First
         /\ Second' = Second /\ \A count, v : Runs(count, v)' = Runs(count, v)
BY DEF InArrays, n1, n2, Matches, First, Second, Runs

(* What an answer has to be for Finds to hold of it.                       *)
FoundBy(call, arg, results) ==
  /\ call = "search" => results = {LeastOr(Matches, n1)}
  /\ call = "find_end" => results = {IF n2 = 0 THEN n1 ELSE GreatestOr(Matches, n1)}
  /\ call = "search_n" => results = {LeastOr(Runs(arg[1], arg[2]), n1)}
  /\ call = "adjacent_find" => results = {LeastOr({i \in First : i + 1 < n1 /\ a[i] = a[i + 1]}, n1)}
  /\ call = "find_first_of" => results = {LeastOr({i \in First : \E j \in Second : a[i] = b[j]}, n1)}
  /\ call = "find_if" => results = {LeastOr({i \in First : a[i] \in arg}, n1)}
  /\ call = "find_if_not" => results = {LeastOr({i \in First : a[i] \notin arg}, n1)}

LEMMA FoundByAnswer == Finds <=> FoundBy(answer.call, answer.arg, answer.results)
BY DEF Finds, FoundBy, Only

LEMMA FindsNext ==
  ASSUME InArrays, NEW call, NEW arg, NEW results, Answer(call, arg, results),
         FoundBy(call, arg, results)
  PROVE  Finds'
<1>1. /\ answer'.call = call /\ answer'.arg = arg /\ answer'.results = results
      /\ UNCHANGED <<a, b>>
  BY DEF Answer
<1>2. FoundBy(answer.call, answer.arg, answer.results)'
  BY <1>1, ArraysStay DEF FoundBy
<1>3. (Finds <=> FoundBy(answer.call, answer.arg, answer.results))'
  BY FoundByAnswer, PTL
<1>4. QED
  BY <1>2, <1>3
LEMMA MatchesOccur == Matches = Occurs(a, n1, b, n2)
BY DEF Matches, Occurs, Second

LEMMA FindsSearch ==
  ASSUME InArrays, search
  PROVE  Finds'
<1>1. S!search_unsized(a, n1, b, n2) = LeastOr(Matches, n1)
  BY Lengths, SearchUnsized, MatchesOccur
<1>2. S!search_sized(a, n1, b, n2) = LeastOr(Matches, n1)
  BY Lengths, SearchSized, MatchesOccur
<1>3. Answer("search", 0, {LeastOr(Matches, n1)})
  BY <1>1, <1>2 DEF search
<1>4. FoundBy("search", 0, {LeastOr(Matches, n1)})
  BY DEF FoundBy
<1>5. QED
  BY <1>3, <1>4, FindsNext

LEMMA FindsFindEnd ==
  ASSUME InArrays, find_end
  PROVE  Finds'
<1> DEFINE last == IF n2 = 0 THEN n1 ELSE GreatestOr(Matches, n1)
<1>1. n1 \in Nat /\ n2 \in Nat
  BY Lengths
<1>2. /\ S!find_end_forward(a, n1, b, n2) = last
      /\ S!find_end_bidirectional(a, n1, b, n2) = last
      /\ S!find_end_random(a, n1, b, n2) = last
  <2>1. CASE n2 = 0
    BY <2>1 DEF S!find_end_forward, S!find_end_bidirectional, S!find_end_random
  <2>2. CASE n2 # 0
    <3>1. n2 \in Nat \ {0} /\ last = GreatestOr(Occurs(a, n1, b, n2), n1)
      BY <1>1, <2>2, MatchesOccur
    <3> HIDE DEF last
    <3>2. QED
      BY <1>1, <3>1, FindEndForward, FindEndBidirectional, FindEndRandom
  <2>3. QED
    BY <2>1, <2>2
<1>3. Answer("find_end", 0, {last})
  <2> HIDE DEF last
  <2>1. QED
    BY <1>2 DEF find_end
<1>4. FoundBy("find_end", 0, {last})
  BY DEF FoundBy
<1>5. QED
  BY <1>3, <1>4, FindsNext

LEMMA FindsSearchN ==
  ASSUME InArrays, search_n
  PROVE  Finds'
<1>1. n1 \in Nat
  BY Lengths
<1>2. PICK count \in 0 .. n1 + 1, v \in Keys :
        Answer("search_n", <<count, v>>,
               {S!search_n_unsized(a, n1, count, v), S!search_n_sized(a, n1, count, v)})
  BY DEF search_n
<1>3. Runs(count, v) = RunsOf(a, n1, count, v)
  BY DEF Runs, RunsOf
<1>4. /\ S!search_n_unsized(a, n1, count, v) = LeastOr(Runs(count, v), n1)
      /\ S!search_n_sized(a, n1, count, v) = LeastOr(Runs(count, v), n1)
  BY <1>1, <1>3, SearchNUnsized, SearchNSized
<1>5. Answer("search_n", <<count, v>>, {LeastOr(Runs(count, v), n1)})
  BY <1>2, <1>4
<1>6. FoundBy("search_n", <<count, v>>, {LeastOr(Runs(count, v), n1)})
  BY DEF FoundBy
<1>7. QED
  BY <1>5, <1>6, FindsNext

LEMMA FindsAdjacent ==
  ASSUME InArrays, adjacent_find \/ find_first_of
  PROVE  Finds'
<1>1. n1 \in Nat
  BY Lengths
<1>2. CASE adjacent_find
  <2> DEFINE r == LeastOr({i \in First : i + 1 < n1 /\ a[i] = a[i + 1]}, n1)
  <2>1. E!adjacent_find(a, n1) = r
    BY <1>1, AdjacentFind DEF First
  <2>2. Answer("adjacent_find", 0, {r})
    BY <1>2, <2>1 DEF adjacent_find
  <2>3. FoundBy("adjacent_find", 0, {r})
    BY DEF FoundBy
  <2>4. QED
    BY <2>2, <2>3, FindsNext
<1>3. CASE find_first_of
  <2> DEFINE r == LeastOr({i \in First : \E j \in Second : a[i] = b[j]}, n1)
  <2>1. E!find_first_of(a, n1, b, n2) = r
    BY <1>1, FindFirstOf DEF First, Second
  <2>2. Answer("find_first_of", 0, {r})
    BY <1>3, <2>1 DEF find_first_of
  <2>3. FoundBy("find_first_of", 0, {r})
    BY DEF FoundBy
  <2>4. QED
    BY <2>2, <2>3, FindsNext
<1>4. QED
  BY <1>2, <1>3

(* find looks for the only value of T, as find_if does.                    *)
LEMMA ValueIs ==
  ASSUME NEW T, NEW result, NEW r, \A v \in Keys : T = {v} => result[v] = r
  PROVE  {r} \cup Value(T, result) = {r}
BY DEF Value

LEMMA FindsInspect ==
  ASSUME InArrays, inspect
  PROVE  Finds'
<1>1. n1 \in Nat
  BY Lengths
<1>2. PICK T \in (IF Alone THEN SUBSET Keys ELSE {}) :
        \/ Answer("find_if", T, {E!find_if(a, n1, T)} \cup Value(T, [v \in Keys |-> E!find(a, n1, v)]))
        \/ Answer("find_if_not", T, {E!find_if_not(a, n1, T)})
        \/ Answer("count_if", T,
                  {E!count_if(a, n1, T)} \cup Value(T, [v \in Keys |-> E!count(a, n1, v)]))
        \/ Answer("all_any_none", T, {<<E!all_of(a, n1, T), E!any_of(a, n1, T), E!none_of(a, n1, T)>>})
        \/ Answer("is_partitioned", T, {E!is_partitioned(a, n1, T)})
  BY DEF inspect
<1>3. CASE Answer("find_if", T, {E!find_if(a, n1, T)} \cup Value(T, [v \in Keys |-> E!find(a, n1, v)]))
  <2> DEFINE r == LeastOr({i \in First : a[i] \in T}, n1)
             values == [v \in Keys |-> E!find(a, n1, v)]
  <2>1. E!find_if(a, n1, T) = r
    BY <1>1, FindIf DEF First
  <2>2. ASSUME NEW v \in Keys, T = {v} PROVE values[v] = r
    BY <2>1, <2>2 DEF E!find
  <2> HIDE DEF values, r
  <2>3. {r} \cup Value(T, values) = {r}
    BY <2>2, ValueIs
  <2>4. Answer("find_if", T, {r})
    BY <1>3, <2>1, <2>3 DEF values
  <2>5. FoundBy("find_if", T, {r})
    BY DEF FoundBy, r
  <2>6. QED
    BY <2>4, <2>5, FindsNext
<1>4. CASE Answer("find_if_not", T, {E!find_if_not(a, n1, T)})
  <2> DEFINE r == LeastOr({i \in First : a[i] \notin T}, n1)
  <2>1. E!find_if_not(a, n1, T) = r
    BY <1>1, FindIfNot DEF First
  <2>2. FoundBy("find_if_not", T, {r})
    BY DEF FoundBy
  <2>3. QED
    BY <1>4, <2>1, <2>2, FindsNext
<1>5. \A results : /\ FoundBy("count_if", T, results)
                   /\ FoundBy("all_any_none", T, results)
                   /\ FoundBy("is_partitioned", T, results)
  BY DEF FoundBy
<1>6. QED
  BY <1>2, <1>3, <1>4, <1>5, FindsNext
(* Which calls an action stands for.                                       *)
CallIn(Calls) == \E call \in Calls : \E arg, results : Answer(call, arg, results)

LEMMA CallOf ==
  /\ search => CallIn({"search"})
  /\ find_end => CallIn({"find_end"})
  /\ search_n => CallIn({"search_n"})
  /\ mismatch => CallIn({"mismatch"})
  /\ equal => CallIn({"equal"})
  /\ lexicographical_compare => CallIn({"lexicographical_compare"})
  /\ is_permutation => CallIn({"is_permutation"})
  /\ includes => CallIn({"includes"})
  /\ is_heap_until => CallIn({"is_heap_until"})
  /\ min_element => CallIn({"min_element"})
  /\ max_element => CallIn({"max_element"})
  /\ minmax_element => CallIn({"minmax_element"})
  /\ is_sorted => CallIn({"is_sorted"})
  /\ is_heap => CallIn({"is_heap"})
  /\ adjacent_find => CallIn({"adjacent_find"})
  /\ find_first_of => CallIn({"find_first_of"})
  /\ binary_search => CallIn({"binary_search"})
  /\ equal_range => CallIn({"equal_range"})
  /\ unique_copy => CallIn({"unique_copy"})
  /\ partial_sort_copy => CallIn({"partial_sort_copy"})
  /\ shuffle => CallIn({"shuffle"})
  /\ merge => CallIn({"merge"})
  /\ set_union => CallIn({"set_union"})
  /\ set_intersection => CallIn({"set_intersection"})
  /\ set_difference => CallIn({"set_difference"})
  /\ set_symmetric_difference => CallIn({"set_symmetric_difference"})
  /\ extremes => CallIn({"max", "min", "minmax"})
  /\ inspect => CallIn({"find_if", "find_if_not", "count_if", "all_any_none", "is_partitioned"})
  /\ copy_some => CallIn({"copy_if", "remove_copy_if", "replace_copy_if"})
  /\ copy_all => CallIn({"copy", "transform_pairs", "reverse_copy", "rotate_copy"})
  /\ sample => CallIn({"sample", "sample_unsized"})
<1>1. ASSUME search PROVE CallIn({"search"})
  BY <1>1 DEF search, CallIn
<1>2. ASSUME find_end PROVE CallIn({"find_end"})
  BY <1>2 DEF find_end, CallIn
<1>3. ASSUME search_n PROVE CallIn({"search_n"})
  BY <1>3 DEF search_n, CallIn
<1>4. ASSUME mismatch PROVE CallIn({"mismatch"})
  BY <1>4 DEF mismatch, CallIn
<1>5. ASSUME equal PROVE CallIn({"equal"})
  BY <1>5 DEF equal, CallIn
<1>6. ASSUME lexicographical_compare PROVE CallIn({"lexicographical_compare"})
  BY <1>6 DEF lexicographical_compare, CallIn
<1>7. ASSUME is_permutation PROVE CallIn({"is_permutation"})
  BY <1>7 DEF is_permutation, CallIn
<1>8. ASSUME includes PROVE CallIn({"includes"})
  BY <1>8 DEF includes, CallIn
<1>9. ASSUME is_heap_until PROVE CallIn({"is_heap_until"})
  BY <1>9 DEF is_heap_until, CallIn
<1>10. ASSUME min_element PROVE CallIn({"min_element"})
  BY <1>10 DEF min_element, CallIn
<1>11. ASSUME max_element PROVE CallIn({"max_element"})
  BY <1>11 DEF max_element, CallIn
<1>12. ASSUME minmax_element PROVE CallIn({"minmax_element"})
  BY <1>12 DEF minmax_element, CallIn
<1>13. ASSUME is_sorted PROVE CallIn({"is_sorted"})
  BY <1>13 DEF is_sorted, CallIn
<1>14. ASSUME is_heap PROVE CallIn({"is_heap"})
  BY <1>14 DEF is_heap, CallIn
<1>15. ASSUME adjacent_find PROVE CallIn({"adjacent_find"})
  BY <1>15 DEF adjacent_find, CallIn
<1>16. ASSUME find_first_of PROVE CallIn({"find_first_of"})
  BY <1>16 DEF find_first_of, CallIn
<1>17. ASSUME binary_search PROVE CallIn({"binary_search"})
  BY <1>17 DEF binary_search, CallIn
<1>18. ASSUME equal_range PROVE CallIn({"equal_range"})
  BY <1>18 DEF equal_range, CallIn
<1>19. ASSUME unique_copy PROVE CallIn({"unique_copy"})
  BY <1>19 DEF unique_copy, CallIn
<1>20. ASSUME partial_sort_copy PROVE CallIn({"partial_sort_copy"})
  BY <1>20 DEF partial_sort_copy, CallIn
<1>21. ASSUME shuffle PROVE CallIn({"shuffle"})
  BY <1>21 DEF shuffle, CallIn
<1>22. ASSUME merge PROVE CallIn({"merge"})
  BY <1>22 DEF merge, Combine, CallIn
<1>23. ASSUME set_union PROVE CallIn({"set_union"})
  BY <1>23 DEF set_union, Combine, CallIn
<1>24. ASSUME set_intersection PROVE CallIn({"set_intersection"})
  BY <1>24 DEF set_intersection, Combine, CallIn
<1>25. ASSUME set_difference PROVE CallIn({"set_difference"})
  BY <1>25 DEF set_difference, Combine, CallIn
<1>26. ASSUME set_symmetric_difference PROVE CallIn({"set_symmetric_difference"})
  BY <1>26 DEF set_symmetric_difference, Combine, CallIn
<1>27. ASSUME extremes PROVE CallIn({"max", "min", "minmax"})
  BY <1>27 DEF extremes, CallIn
<1>28. ASSUME inspect PROVE CallIn({"find_if", "find_if_not", "count_if", "all_any_none", "is_partitioned"})
  BY <1>28 DEF inspect, CallIn
<1>29. ASSUME copy_some PROVE CallIn({"copy_if", "remove_copy_if", "replace_copy_if"})
  BY <1>29 DEF copy_some, CallIn
<1>30. ASSUME copy_all PROVE CallIn({"copy", "transform_pairs", "reverse_copy", "rotate_copy"})
  BY <1>30 DEF copy_all, CallIn
<1>31. ASSUME sample PROVE CallIn({"sample", "sample_unsized"})
  BY <1>31 DEF sample, CallIn
<1>32. QED
  BY <1>1, <1>2, <1>3, <1>4, <1>5, <1>6, <1>7, <1>8, <1>9, <1>10, <1>11, <1>12, <1>13,
     <1>14, <1>15, <1>16, <1>17, <1>18, <1>19, <1>20, <1>21, <1>22, <1>23, <1>24, <1>25,
     <1>26, <1>27, <1>28, <1>29, <1>30, <1>31

LEMMA CallsChangeNothing ==
  ASSUME Next
  PROVE  UNCHANGED <<a, b>>
<1>1. \A Calls : CallIn(Calls) => UNCHANGED <<a, b>>
  BY DEF CallIn, Answer
<1>2. QED
  BY <1>1, CallOf DEF Next

(* The other calls do not search.                                          *)
Finding == {"search", "find_end", "search_n", "adjacent_find", "find_first_of",
            "find_if", "find_if_not"}

LEMMA FindsOther ==
  ASSUME InArrays, NEW Calls, Calls \cap Finding = {}, CallIn(Calls)
  PROVE  Finds'
<1>1. PICK call \in Calls : \E arg, results : Answer(call, arg, results)
  BY DEF CallIn
<1>2. PICK arg, results : Answer(call, arg, results)
  BY <1>1
<1>3. FoundBy(call, arg, results)
  BY DEF FoundBy, Finding
<1>4. QED
  BY <1>2, <1>3, FindsNext

LEMMA FindsStep ==
  ASSUME InArrays, Next
  PROVE  Finds'
<1>1. CASE search \/ find_end \/ search_n \/ adjacent_find \/ find_first_of \/ inspect
  BY <1>1, FindsSearch, FindsFindEnd, FindsSearchN, FindsAdjacent, FindsInspect
<1>2. CASE mismatch \/ equal \/ lexicographical_compare \/ is_permutation \/ includes
  <2>1. PICK Calls : CallIn(Calls) /\ Calls \cap Finding = {}
    BY <1>2, CallOf DEF Finding
  <2>2. QED
    BY <2>1, FindsOther
<1>3. CASE is_heap_until \/ min_element \/ max_element \/ minmax_element
  <2>1. PICK Calls : CallIn(Calls) /\ Calls \cap Finding = {}
    BY <1>3, CallOf DEF Finding
  <2>2. QED
    BY <2>1, FindsOther
<1>4. CASE is_sorted \/ is_heap \/ binary_search \/ equal_range \/ extremes
  <2>1. PICK Calls : CallIn(Calls) /\ Calls \cap Finding = {}
    BY <1>4, CallOf DEF Finding
  <2>2. QED
    BY <2>1, FindsOther
<1>5. CASE merge \/ set_union \/ set_intersection \/ set_difference \/ set_symmetric_difference
  <2>1. PICK Calls : CallIn(Calls) /\ Calls \cap Finding = {}
    BY <1>5, CallOf DEF Finding
  <2>2. QED
    BY <2>1, FindsOther
<1>6. CASE unique_copy \/ partial_sort_copy \/ shuffle \/ copy_some \/ copy_all \/ sample
  <2>1. PICK Calls : CallIn(Calls) /\ Calls \cap Finding = {}
    BY <1>6, CallOf DEF Finding
  <2>2. QED
    BY <2>1, FindsOther
<1>7. QED
  BY <1>1, <1>2, <1>3, <1>4, <1>5, <1>6 DEF Next

(* Whatever two arrays of integers a search is called with, each of its    *)
(* overloads returns the first place that fits, or the last for find_end,  *)
(* and the end of the range if there is none.                              *)
THEOREM FindsHolds == Spec => []Finds
<1> DEFINE Inv == InArrays /\ Finds
<1>1. Init => Inv
  BY DEF Init, InArrays, Finds, Only
<1>2. Inv /\ [Next]_vars => Inv'
  <2> SUFFICES ASSUME Inv, [Next]_vars PROVE Inv'
    OBVIOUS
  <2>1. UNCHANGED <<a, b>>
    BY CallsChangeNothing DEF vars
  <2>2. CASE UNCHANGED vars
    <3>1. Finds'
      <4>1. FoundBy(answer.call, answer.arg, answer.results)'
        BY <2>1, <2>2, ArraysStay, FoundByAnswer DEF FoundBy, vars
      <4>2. (Finds <=> FoundBy(answer.call, answer.arg, answer.results))'
        BY FoundByAnswer, PTL
      <4>3. QED
        BY <4>1, <4>2
    <3>2. QED
      BY <2>1, <3>1, ArraysStay
  <2>3. CASE Next
    BY <2>1, <2>3, ArraysStay, FindsStep
  <2>4. QED
    BY <2>2, <2>3
<1>3. QED
  BY <1>1, <1>2, PTL DEF Spec
-----------------------------------------------------------------------------
(* Comparisons of two ranges.                                              *)

(* The first k elements of both are equal, and there are so many.          *)
Common(u, n, w, m, k) == k <= n /\ k <= m /\ \A i \in 0 .. k - 1 : u[i] = w[i]

LEMMA MismatchIs ==
  ASSUME NEW u, NEW w, NEW n \in Nat, NEW m \in Nat, NEW c, c = S!mismatch(u, n, w, m)
  PROVE  /\ c \in 0 .. n /\ Common(u, n, w, m, c)
         /\ \A k \in Nat : Common(u, n, w, m, k) => k <= c
<1>1. c = S!matched(u, 0, n, w, 0, m)
  BY DEF S!mismatch
<1>2. /\ c \in Nat
      /\ \A k \in 0 .. c - 1 : 0 + k < n /\ 0 + k < m /\ u[0 + k] = w[0 + k]
      /\ ~(0 + c < n /\ 0 + c < m /\ u[0 + c] = w[0 + c])
  BY <1>1, Matched
<1>3. \A k \in 0 .. c - 1 : k < n /\ k < m /\ u[k] = w[k]
  <2>1. \A k \in 0 .. c - 1 : 0 + k = k
    OBVIOUS
  <2>2. QED
    BY <1>2, <2>1
<1>4. ~(c < n /\ c < m /\ u[c] = w[c])
  BY <1>2
<1>5. c <= n /\ c <= m
  <2>1. CASE c = 0
    BY <2>1
  <2>2. CASE c > 0
    <3>1. c - 1 \in 0 .. c - 1
      BY <1>2, <2>2
    <3>2. c - 1 < n /\ c - 1 < m
      BY <1>3, <3>1
    <3>3. QED
      BY <1>2, <3>2
  <2>3. QED
    BY <1>2, <2>1, <2>2
<1>6. ASSUME NEW k \in Nat, Common(u, n, w, m, k), c < k PROVE FALSE
  <2>1. c \in 0 .. k - 1 /\ c < n /\ c < m
    BY <1>2, <1>6 DEF Common
  <2>2. QED
    BY <1>4, <1>6, <2>1 DEF Common
<1>7. Common(u, n, w, m, c)
  BY <1>3, <1>5 DEF Common
<1>8. \A k \in Nat : Common(u, n, w, m, k) => k <= c
  BY <1>2, <1>6
<1>9. QED
  BY <1>2, <1>5, <1>7, <1>8

LEMMA EqualIs ==
  ASSUME NEW u, NEW w, NEW n \in Nat, NEW m \in Nat
  PROVE  S!equal(u, n, w, m) <=> n = m /\ Common(u, n, w, m, n)
<1> DEFINE c == S!mismatch(u, n, w, m)
<1>1. S!equal(u, n, w, m) <=> c = n /\ c = m
  BY DEF S!equal
<1>2. /\ c \in 0 .. n /\ Common(u, n, w, m, c)
      /\ \A k \in Nat : Common(u, n, w, m, k) => k <= c
  BY MismatchIs
<1> HIDE DEF c
<1>3. ASSUME c = n, c = m PROVE n = m /\ Common(u, n, w, m, n)
  BY <1>2, <1>3
<1>4. ASSUME n = m, Common(u, n, w, m, n) PROVE c = n /\ c = m
  <2>1. n <= c
    BY <1>2, <1>4
  <2>2. QED
    BY <1>2, <1>4, <2>1
<1>5. QED
  BY <1>1, <1>3, <1>4

(* u, from i on, is less than w, from i on.                                *)
LessFrom(u, n, w, m, i) ==
  \/ n < m /\ \A l \in i .. n - 1 : u[l] = w[l]
  \/ \E k \in i .. n - 1 : k < m /\ u[k] < w[k] /\ \A l \in i .. k - 1 : u[l] = w[l]

LEMMA LessFromStep ==
  ASSUME NEW n \in Nat, NEW m \in Nat, NEW u \in [0 .. n - 1 -> Int],
         NEW w \in [0 .. m - 1 -> Int], NEW i \in 0 .. n, i <= m
  PROVE  /\ i = n \/ i = m => (LessFrom(u, n, w, m, i) <=> i = n /\ i # m)
         /\ i # n /\ i # m =>
              (LessFrom(u, n, w, m, i)
               <=> u[i] < w[i] \/ (~(w[i] < u[i]) /\ LessFrom(u, n, w, m, i + 1)))
<1>1. ASSUME i = n \/ i = m
      PROVE  LessFrom(u, n, w, m, i) <=> i = n /\ i # m
  BY <1>1 DEF LessFrom
<1>2. ASSUME i # n, i # m
      PROVE  LessFrom(u, n, w, m, i)
             <=> u[i] < w[i] \/ (~(w[i] < u[i]) /\ LessFrom(u, n, w, m, i + 1))
  <2> DEFINE Same(j, k) == \A l \in j .. k - 1 : u[l] = w[l]
  <2>1. i \in 0 .. n - 1 /\ i \in 0 .. m - 1 /\ u[i] \in Int /\ w[i] \in Int
    BY <1>2
  <2>2. \A j : LessFrom(u, n, w, m, j)
               <=> \/ n < m /\ Same(j, n)
                   \/ \E k \in j .. n - 1 : k < m /\ u[k] < w[k] /\ Same(j, k)
    BY DEF LessFrom
  <2>3. Same(i, i)
    BY <2>1
  <2>4. \A k \in i + 1 .. n : Same(i, k) <=> u[i] = w[i] /\ Same(i + 1, k)
    BY <2>1
  <2> HIDE DEF Same
  <2>5. n \in i + 1 .. n /\ i \in i .. n - 1 /\ i < m
        /\ \A k \in i + 1 .. n - 1 : k \in i .. n - 1 /\ k \in i + 1 .. n
        /\ \A l \in i .. n - 1 : l # i => l \in i + 1 .. n - 1 /\ l \in i + 1 .. n
    BY <1>2, <2>1
  <2>6. CASE u[i] < w[i]
    <3>1. LessFrom(u, n, w, m, i)
      BY <2>2, <2>3, <2>5, <2>6
    <3>2. QED
      BY <2>6, <3>1
  <2>7. CASE w[i] < u[i]
    <3>1. ~(u[i] < w[i]) /\ u[i] # w[i]
      BY <2>1, <2>7
    <3>2. ~LessFrom(u, n, w, m, i)
      BY <2>2, <2>4, <2>5, <3>1
    <3>3. QED
      BY <2>7, <3>1, <3>2
  <2>8. CASE u[i] = w[i]
    <3>1. ~(u[i] < w[i]) /\ ~(w[i] < u[i])
      BY <2>1, <2>8
    <3>2. Same(i, n) <=> Same(i + 1, n)
      BY <2>4, <2>5, <2>8
    <3>3. ASSUME NEW k \in i .. n - 1, u[k] < w[k], Same(i, k)
          PROVE  k \in i + 1 .. n - 1 /\ Same(i + 1, k)
      BY <2>4, <2>5, <3>1, <3>3
    <3>4. ASSUME NEW k \in i + 1 .. n - 1, Same(i + 1, k)
          PROVE  k \in i .. n - 1 /\ Same(i, k)
      BY <2>4, <2>5, <2>8, <3>4
    <3>5. LessFrom(u, n, w, m, i) <=> LessFrom(u, n, w, m, i + 1)
      BY <2>2, <3>2, <3>3, <3>4
    <3>6. QED
      BY <3>1, <3>5
  <2>9. QED
    BY <2>1, <2>6, <2>7, <2>8
<1>3. QED
  BY <1>1, <1>2

LEMMA LexicographicalCompareIs ==
  ASSUME NEW n \in Nat, NEW m \in Nat, NEW u \in [0 .. n - 1 -> Int], NEW w \in [0 .. m - 1 -> Int]
  PROVE  S!lexicographical_compare(u, n, w, m) = LessFrom(u, n, w, m, 0)
<1> DEFINE e == IF n <= m THEN n ELSE m
           D == 0 .. e
           meas == [i \in D |-> e - i]
           g == [i \in D |-> LessFrom(u, n, w, m, i)]
           from[i \in 0 .. S!Min({n, m})] ==
             IF i = n \/ i = m THEN i = n /\ i # m
             ELSE u[i] < w[i] \/ (~(w[i] < u[i]) /\ from[i + 1])
<1>1. S!lexicographical_compare(u, n, w, m) = from[0]
  BY DEF S!lexicographical_compare, less
<1>2. 0 .. S!Min({n, m}) = D
  <2>1. {n, m} \in SUBSET Int /\ e \in {n, m} /\ \A y \in {n, m} : e <= y
    OBVIOUS
  <2>2. S!Min({n, m}) = Min({n, m})
    BY DEF S!Min, Min
  <2> HIDE DEF e
  <2>3. Min({n, m}) = e
    BY <2>1, MinIs
  <2>4. QED
    BY <2>2, <2>3
<1>3. ASSUME NEW i \in D
      PROVE  g[i] = IF i = n \/ i = m THEN i = n /\ i # m
                    ELSE u[i] < w[i] \/ (~(w[i] < u[i]) /\ g[i + 1])
  <2>1. i \in 0 .. n /\ i <= m /\ (i # n /\ i # m => i + 1 \in D)
    OBVIOUS
  <2>2. /\ i = n \/ i = m => (LessFrom(u, n, w, m, i) <=> i = n /\ i # m)
        /\ i # n /\ i # m =>
             (LessFrom(u, n, w, m, i)
              <=> u[i] < w[i] \/ (~(w[i] < u[i]) /\ LessFrom(u, n, w, m, i + 1)))
    BY <2>1, LessFromStep
  <2>3. g[i] = LessFrom(u, n, w, m, i) /\ (i + 1 \in D => g[i + 1] = LessFrom(u, n, w, m, i + 1))
    OBVIOUS
  <2>4. LessFrom(u, n, w, m, i) \in BOOLEAN
    BY DEF LessFrom
  <2> HIDE DEF g
  <2>5. QED
    BY <2>1, <2>2, <2>3, <2>4
<1>4. g = [i \in D |-> IF i = n \/ i = m THEN i = n /\ i # m
                       ELSE u[i] < w[i] \/ (~(w[i] < u[i]) /\ g[i + 1])]
  BY <1>3
<1> HIDE DEF g
<1>5. from = [i \in D |-> IF i = n \/ i = m THEN i = n /\ i # m
                          ELSE u[i] < w[i] \/ (~(w[i] < u[i]) /\ from[i + 1])]
  BY <1>2, <1>4
<1> HIDE DEF from
<1>6. ASSUME NEW i \in D, \A k \in D : meas[k] < meas[i] => from[k] = g[k]
      PROVE  from[i] = g[i]
  <2>1. CASE i = n \/ i = m
    BY <1>4, <1>5, <2>1
  <2>2. CASE i # n /\ i # m
    <3>1. i + 1 \in D /\ meas[i + 1] < meas[i]
      BY <2>2
    <3>2. from[i + 1] = g[i + 1]
      BY <1>6, <3>1
    <3>3. QED
      BY <1>4, <1>5, <3>2
  <2>3. QED
    BY <2>1, <2>2
<1>7. SameOn(D, from, g)
  <2>1. meas \in [D -> Nat]
    OBVIOUS
  <2> HIDE DEF meas, D
  <2>2. QED
    BY <1>6, <2>1, Agree
<1>8. QED
  <2>1. 0 \in D
    OBVIOUS
  <2>2. QED
    BY <1>1, <1>7, <2>1 DEF g, SameOn
-----------------------------------------------------------------------------
(* Properties of one range.                                                *)

LEMMA LeastOrProps ==
  ASSUME NEW n \in Nat, NEW H \in SUBSET (0 .. n - 1), NEW e, e = LeastOr(H, n)
  PROVE  /\ e \in 0 .. n
         /\ \A i \in H : e <= i
         /\ e < n => e \in H
<1>1. CASE H = {}
  <2>1. e = n
    BY <1>1, FirstNone
  <2>2. QED
    BY <1>1, <2>1
<1>2. CASE H # {}
  <2>1. H \in SUBSET Int /\ 0 \in Int /\ \A y \in H : 0 <= y
    OBVIOUS
  <2>2. PICK x \in H : \A y \in H : x <= y
    BY <1>2, <2>1, LeastFrom
  <2>3. e = x
    BY <2>1, <2>2, FirstIs
  <2>4. QED
    BY <2>2, <2>3
<1>3. QED
  BY <1>1, <1>2

LEMMA FromEmpty ==
  ASSUME NEW T \in SUBSET Int, NEW n \in Int, \A y \in T : y < n, NEW i \in Int, n <= i
  PROVE  From(T, i) = {}
<1>1. \A y \in T : y \in Int /\ ~(i <= y)
  OBVIOUS
<1>2. QED
  BY <1>1 DEF From

(* Where a child is greater than its parent.                               *)
Rises(u, n) == {i \in 1 .. n - 1 : u[(i - 1) \div 2] < u[i]}

LEMMA FromNext ==
  ASSUME NEW T \in SUBSET Int, NEW i \in Int
  PROVE  /\ i \in T => \A n : LeastOr(From(T, i), n) = i
         /\ i \notin T => From(T, i) = From(T, i + 1)
<1>1. ASSUME i \in T PROVE \A n : LeastOr(From(T, i), n) = i
  <2>1. i <= i /\ \A l \in T : l \in Int
    OBVIOUS
  <2>2. From(T, i) \in SUBSET Int
    BY <2>1 DEF From
  <2>3. i \in From(T, i) /\ \A y \in From(T, i) : i <= y
    BY <1>1, <2>1 DEF From
  <2>4. QED
    BY <2>2, <2>3, FirstIs
<1>2. ASSUME i \notin T PROVE From(T, i) = From(T, i + 1)
  <2>1. \A l \in T : l \in Int /\ l # i
    BY <1>2
  <2>2. \A l \in T : i <= l <=> i + 1 <= l
    BY <2>1
  <2>3. QED
    BY <2>2 DEF From
<1>3. QED
  BY <1>1, <1>2

LEMMA HeapUntil ==
  ASSUME NEW u, NEW n \in Nat
  PROVE  S!is_heap_until(u, n) = LeastOr(Rises(u, n), n)
<1> DEFINE T == Rises(u, n)
           meas == [p \in Nat |-> IF p < n THEN n - p ELSE 0]
           g == [p \in Nat |-> LeastOr(From(T, 2 * p + 1), n)]
           from[p \in Nat] ==
             LET c == 2 * p + 1 IN
             IF c >= n THEN n
             ELSE IF u[p] < u[c] THEN c
             ELSE IF c + 1 = n \/ u[p] < u[c + 1] THEN c + 1
             ELSE from[p + 1]
<1>1. S!is_heap_until(u, n) = from[0]
  BY DEF S!is_heap_until, less
<1>2. T \in SUBSET (1 .. n - 1)
      /\ \A i \in 1 .. n - 1 : i \in T <=> u[(i - 1) \div 2] < u[i]
  BY DEF Rises
<1> HIDE DEF T
<1>3. T \in SUBSET Int /\ \A y \in T : y < n
  BY <1>2
<1>4. ASSUME NEW p \in Nat
      PROVE  g[p] = IF 2 * p + 1 >= n THEN n
                    ELSE IF u[p] < u[2 * p + 1] THEN 2 * p + 1
                    ELSE IF (2 * p + 1) + 1 = n \/ u[p] < u[(2 * p + 1) + 1] THEN (2 * p + 1) + 1
                    ELSE g[p + 1]
  <2> DEFINE c == 2 * p + 1
  <2>1. c \in Nat /\ (c - 1) \div 2 = p /\ ((c + 1) - 1) \div 2 = p
        /\ c >= 1 /\ 2 * (p + 1) + 1 = (c + 1) + 1
    OBVIOUS
  <2>2. g[p] = LeastOr(From(T, c), n) /\ g[p + 1] = LeastOr(From(T, (c + 1) + 1), n)
    BY <2>1
  <2> HIDE DEF c, g
  <2>3. CASE c >= n
    <3> c \in Int /\ n \in Int /\ n <= c
      BY <2>1, <2>3
    <3>1. From(T, c) = {}
      BY <1>3, FromEmpty
    <3>2. QED
      BY <2>2, <2>3, <3>1, FirstNone DEF c
  <2>4. CASE ~(c >= n) /\ u[p] < u[c]
    <3>1. c \in T
      BY <1>2, <2>1, <2>4
    <3>2. LeastOr(From(T, c), n) = c
      BY <1>3, <2>1, <3>1, FromNext
    <3>3. QED
      BY <2>2, <2>4, <3>2 DEF c
  <2>5. CASE ~(c >= n) /\ ~(u[p] < u[c])
    <3>1. c \notin T
      BY <1>2, <2>1, <2>5
    <3>2. From(T, c) = From(T, c + 1)
      BY <1>3, <2>1, <3>1, FromNext
    <3>3. CASE c + 1 = n
      <4> c + 1 \in Int /\ n \in Int /\ n <= c + 1
        BY <2>1, <3>3
      <4>1. From(T, c + 1) = {}
        BY <1>3, FromEmpty
      <4>2. QED
        BY <2>2, <2>5, <3>2, <3>3, <4>1, FirstNone DEF c
    <3>4. CASE c + 1 # n /\ u[p] < u[c + 1]
      <4>1. c + 1 \in T /\ c + 1 \in Int
        BY <1>2, <2>1, <2>5, <3>4
      <4>2. LeastOr(From(T, c + 1), n) = c + 1
        BY <1>3, <4>1, FromNext
      <4>3. QED
        BY <2>2, <2>5, <3>2, <3>4, <4>2 DEF c
    <3>5. CASE c + 1 # n /\ ~(u[p] < u[c + 1])
      <4>1. c + 1 \notin T /\ c + 1 \in Int
        BY <1>2, <2>1, <2>5, <3>5
      <4>2. From(T, c + 1) = From(T, (c + 1) + 1)
        BY <1>3, <4>1, FromNext
      <4>3. QED
        BY <2>2, <2>5, <3>2, <3>5, <4>2 DEF c
    <3>6. QED
      BY <3>3, <3>4, <3>5
  <2>6. QED
    BY <2>3, <2>4, <2>5
<1>5. g = [p \in Nat |-> IF 2 * p + 1 >= n THEN n
                         ELSE IF u[p] < u[2 * p + 1] THEN 2 * p + 1
                         ELSE IF (2 * p + 1) + 1 = n \/ u[p] < u[(2 * p + 1) + 1]
                              THEN (2 * p + 1) + 1
                         ELSE g[p + 1]]
  BY <1>4
<1> HIDE DEF g
<1>6. from = [p \in Nat |-> IF 2 * p + 1 >= n THEN n
                            ELSE IF u[p] < u[2 * p + 1] THEN 2 * p + 1
                            ELSE IF (2 * p + 1) + 1 = n \/ u[p] < u[(2 * p + 1) + 1]
                                 THEN (2 * p + 1) + 1
                            ELSE from[p + 1]]
  BY <1>5
<1> HIDE DEF from
<1>7. ASSUME NEW p \in Nat, \A e \in Nat : meas[e] < meas[p] => from[e] = g[e]
      PROVE  from[p] = g[p]
  <2>1. CASE 2 * p + 1 >= n
    BY <1>5, <1>6, <2>1
  <2>2. CASE 2 * p + 1 < n
    <3>1. p + 1 \in Nat /\ meas[p + 1] < meas[p]
      BY <2>2
    <3>2. from[p + 1] = g[p + 1]
      BY <1>7, <3>1
    <3>3. QED
      BY <1>5, <1>6, <3>2
  <2>3. QED
    BY <2>1, <2>2
<1>8. SameOn(Nat, from, g)
  <2>1. meas \in [Nat -> Nat]
    OBVIOUS
  <2> HIDE DEF meas
  <2>2. QED
    BY <1>7, <2>1, Agree
<1>9. from[0] = LeastOr(From(T, 1), n)
  <2>1. 0 \in Nat /\ 2 * 0 + 1 = 1
    OBVIOUS
  <2>2. QED
    BY <1>8, <2>1 DEF g, SameOn
<1>10. From(T, 1) = T
  <2>1. \A l \in T : 1 <= l
    BY <1>2
  <2>2. QED
    BY <2>1 DEF From
<1>11. QED
  BY <1>1, <1>9, <1>10 DEF T
(* The loops that stop at the first place of H look at so many elements.   *)
LEMMA MaxBefore ==
  ASSUME NEW n \in Nat, NEW H \in SUBSET (0 .. n - 1)
  PROVE  Max({k \in 0 .. n : \A i \in H : ~(i < k)}) = LeastOr(H, n)
<1> DEFINE e == LeastOr(H, n)
           T == {k \in 0 .. n : \A i \in H : ~(i < k)}
<1>1. e \in 0 .. n /\ (\A i \in H : e <= i) /\ (e < n => e \in H)
  BY LeastOrProps
<1> HIDE DEF e
<1>2. T \in SUBSET Int /\ \A i \in H : i \in 0 .. n - 1
  OBVIOUS
<1>3. e \in T
  BY <1>1, <1>2
<1>4. \A k \in T : k <= e
  <2>1. ASSUME NEW k \in T, e < k PROVE FALSE
    <3>1. e \in H
      BY <1>1, <2>1
    <3>2. QED
      BY <2>1, <3>1
  <2>2. QED
    BY <1>1, <2>1
<1>5. Max(T) = e
  <2> HIDE DEF T
  <2>1. QED
    BY <1>2, <1>3, <1>4, MaxIs
<1>6. QED
  BY <1>5 DEF e

LEMMA SortedUntil ==
  ASSUME NEW u, NEW n \in Nat
  PROVE  E!is_sorted_until(u, n) = LeastOr({i \in 1 .. n - 1 : u[i] < u[i - 1]}, n)
<1> DEFINE H == {i \in 1 .. n - 1 : u[i] < u[i - 1]}
           from[i \in 1 .. n] == IF i = n \/ u[i] < u[i - 1] THEN i ELSE from[i + 1]
<1>1. E!is_sorted_until(u, n) = IF n = 0 THEN 0 ELSE from[1]
  BY DEF E!is_sorted_until, less
<1>2. H \in SUBSET (1 .. n - 1) /\ \A i \in 1 .. n : i = n \/ i \in H <=> i = n \/ u[i] < u[i - 1]
  OBVIOUS
<1>3. CASE n = 0
  <2>1. H = {}
    BY <1>3
  <2>2. QED
    BY <1>1, <1>3, <2>1, FirstNone
<1>4. CASE n # 0
  <2> HIDE DEF H
  <2>1. \A f : IsFind(f, 1, n, H)
               <=> f = [i \in 1 .. n |-> IF i = n \/ u[i] < u[i - 1] THEN i ELSE f[i + 1]]
    <3>1. ASSUME NEW f, NEW i \in 1 .. n
          PROVE  (IF i = n \/ i \in H THEN i ELSE f[i + 1])
                 = (IF i = n \/ u[i] < u[i - 1] THEN i ELSE f[i + 1])
      BY <1>2
    <3>2. QED
      BY <3>1 DEF IsFind
  <2>2. /\ \E f : IsFind(f, 1, n, H)
        /\ \A f : IsFind(f, 1, n, H) => f[1] = LeastOr(H, n)
    <3>1. 1 \in Int /\ n \in Int /\ 1 <= n
      BY <1>4
    <3>2. QED
      BY <1>2, <3>1, FindFirst
  <2>3. IsFind(from, 1, n, H)
    BY <2>1, <2>2
  <2>4. from[1] = LeastOr(H, n)
    <3> HIDE DEF from
    <3>1. QED
      BY <2>2, <2>3
  <2>5. QED
    BY <1>1, <1>4, <2>4 DEF H
<1>5. QED
  BY <1>3, <1>4

(* A loop that goes up: each value is made of the one before.              *)
IsClimb(f, n, s, step) == f = [i \in 0 .. n |-> IF i = 0 THEN s ELSE step[i][f[i - 1]]]

LEMMA Climb ==
  ASSUME NEW n \in Nat, NEW Vals, NEW s \in Vals, NEW step \in [1 .. n -> [Vals -> Vals]], NEW Good,
         <<0, s>> \in Good,
         \A i \in 1 .. n : \A x \in Vals : <<i - 1, x>> \in Good => <<i, step[i][x]>> \in Good
  PROVE  /\ \E f : IsClimb(f, n, s, step)
         /\ \A f : IsClimb(f, n, s, step) => \A i \in 0 .. n : f[i] \in Vals /\ <<i, f[i]>> \in Good
<1> DEFINE D == 0 .. n
           m == [i \in D |-> i]
           G == [i \in D |-> [h \in [D -> Vals] |-> IF i = 0 THEN s ELSE step[i][h[i - 1]]]]
<1>1. m \in [D -> Nat] /\ \A i \in D : i # 0 => i - 1 \in D /\ m[i - 1] < m[i] /\ i \in 1 .. n
  OBVIOUS
<1>2. G \in [D -> [[D -> Vals] -> Vals]]
  <2>1. ASSUME NEW i \in D, NEW h \in [D -> Vals]
        PROVE  (IF i = 0 THEN s ELSE step[i][h[i - 1]]) \in Vals
    BY <1>1
  <2>2. QED
    BY <2>1
<1>3. \A i \in D : \A h \in [D -> Vals] : G[i][h] = IF i = 0 THEN s ELSE step[i][h[i - 1]]
  OBVIOUS
<1> HIDE DEF m, G
<1>4. LocalIn(G, D, Vals, m)
  <2>1. ASSUME NEW i \in D, NEW h1 \in [D -> Vals], NEW h2 \in [D -> Vals],
               \A e \in D : m[e] < m[i] => h1[e] = h2[e]
        PROVE  G[i][h1] = G[i][h2]
    BY <1>1, <1>3, <2>1, SMTT(30)
  <2> HIDE DEF D
  <2>2. QED
    BY <2>1 DEF LocalIn
<1>5. \E f \in [D -> Vals] : IsRecursive(f, D, G)
  <2> HIDE DEF D
  <2>1. Vals # {}
    OBVIOUS
  <2>2. QED
    BY <1>1, <1>2, <1>4, <2>1, Recursion
<1>6. \E f : IsClimb(f, n, s, step)
  <2>1. PICK f \in [D -> Vals] : f = [i \in D |-> G[i][f]]
    BY <1>5 DEF IsRecursive
  <2>2. \A i \in D : G[i][f] = IF i = 0 THEN s ELSE step[i][f[i - 1]]
    BY <1>3
  <2>3. f = [i \in D |-> IF i = 0 THEN s ELSE step[i][f[i - 1]]]
    BY <2>1, <2>2
  <2>4. QED
    BY <2>3 DEF IsClimb
<1>7. ASSUME NEW f, IsClimb(f, n, s, step)
      PROVE  \A i \in D : f[i] \in Vals /\ <<i, f[i]>> \in Good
  <2> DEFINE Done == {i \in D : f[i] \in Vals /\ <<i, f[i]>> \in Good}
  <2>1. ASSUME NEW i \in D, \A e \in D : m[e] < m[i] => e \in Done
        PROVE  i \in Done
    <3>1. CASE i = 0
      BY <1>7, <3>1 DEF IsClimb
    <3>2. CASE i # 0
      <4>1. i - 1 \in Done /\ i \in 1 .. n
        BY <1>1, <2>1, <3>2
      <4>2. f[i] = step[i][f[i - 1]]
        BY <1>7, <3>2 DEF IsClimb
      <4>3. QED
        BY <4>1, <4>2
    <3>3. QED
      BY <3>1, <3>2
  <2>2. D \subseteq Done
    <3> HIDE DEF Done, D
    <3>1. QED
      BY <1>1, <2>1, ByMeasure
  <2>3. QED
    BY <2>2
<1>8. QED
  BY <1>6, <1>7
-----------------------------------------------------------------------------
(* Extreme elements.                                                       *)

FirstLeast(u, n, x) ==
  x \in 0 .. n - 1 /\ (\A j \in 0 .. n - 1 : u[x] <= u[j]) /\ \A j \in 0 .. x - 1 : u[x] < u[j]
FirstGreatest(u, n, x) ==
  x \in 0 .. n - 1 /\ (\A j \in 0 .. n - 1 : u[j] <= u[x]) /\ \A j \in 0 .. x - 1 : u[j] < u[x]
LastGreatest(u, n, x) ==
  x \in 0 .. n - 1 /\ (\A j \in 0 .. n - 1 : u[j] <= u[x]) /\ \A j \in x + 1 .. n - 1 : u[j] < u[x]

LEMMA FirstLeastIs ==
  ASSUME NEW n \in Nat, NEW u \in [0 .. n - 1 -> Int], NEW x, FirstLeast(u, n, x), NEW other
  PROVE  LeastOr({i \in 0 .. n - 1 : \A j \in 0 .. n - 1 : u[i] <= u[j]}, other) = x
<1> DEFINE T == {i \in 0 .. n - 1 : \A j \in 0 .. n - 1 : u[i] <= u[j]}
<1>1. x \in 0 .. n - 1 /\ x \in T
  BY DEF FirstLeast
<1>2. ASSUME NEW y \in T, y < x PROVE FALSE
  <2>1. y \in 0 .. x - 1 /\ u[x] < u[y]
    BY <1>1, <1>2 DEF FirstLeast
  <2>2. u[y] <= u[x] /\ u[x] \in Int /\ u[y] \in Int
    BY <1>1
  <2>3. QED
    BY <2>1, <2>2
<1>3. T \in SUBSET Int
  OBVIOUS
<1> HIDE DEF T
<1>4. \A y \in T : x <= y
  BY <1>1, <1>2, <1>3
<1>5. LeastOr(T, other) = x
  BY <1>1, <1>3, <1>4, FirstIs
<1>6. QED
  BY <1>5 DEF T

LEMMA FirstGreatestIs ==
  ASSUME NEW n \in Nat, NEW u \in [0 .. n - 1 -> Int], NEW x, FirstGreatest(u, n, x), NEW other
  PROVE  LeastOr({i \in 0 .. n - 1 : \A j \in 0 .. n - 1 : u[i] >= u[j]}, other) = x
<1> DEFINE T == {i \in 0 .. n - 1 : \A j \in 0 .. n - 1 : u[i] >= u[j]}
<1>1. x \in 0 .. n - 1 /\ x \in T
  BY DEF FirstGreatest
<1>2. ASSUME NEW y \in T, y < x PROVE FALSE
  <2>1. y \in 0 .. x - 1 /\ u[y] < u[x]
    BY <1>1, <1>2 DEF FirstGreatest
  <2>2. u[y] >= u[x] /\ u[x] \in Int /\ u[y] \in Int
    BY <1>1
  <2>3. QED
    BY <2>1, <2>2
<1>3. T \in SUBSET Int
  OBVIOUS
<1> HIDE DEF T
<1>4. \A y \in T : x <= y
  BY <1>1, <1>2, <1>3
<1>5. LeastOr(T, other) = x
  BY <1>1, <1>3, <1>4, FirstIs
<1>6. QED
  BY <1>5 DEF T

LEMMA LastGreatestIs ==
  ASSUME NEW n \in Nat, NEW u \in [0 .. n - 1 -> Int], NEW x, LastGreatest(u, n, x), NEW other
  PROVE  GreatestOr({i \in 0 .. n - 1 : \A j \in 0 .. n - 1 : u[i] >= u[j]}, other) = x
<1> DEFINE T == {i \in 0 .. n - 1 : \A j \in 0 .. n - 1 : u[i] >= u[j]}
<1>1. x \in 0 .. n - 1 /\ x \in T
  BY DEF LastGreatest
<1>2. ASSUME NEW y \in T, x < y PROVE FALSE
  <2>1. y \in x + 1 .. n - 1 /\ u[y] < u[x]
    BY <1>1, <1>2 DEF LastGreatest
  <2>2. u[y] >= u[x] /\ u[x] \in Int /\ u[y] \in Int
    BY <1>1
  <2>3. QED
    BY <2>1, <2>2
<1>3. T \in SUBSET Int
  OBVIOUS
<1> HIDE DEF T
<1>4. \A y \in T : y <= x
  BY <1>1, <1>2, <1>3
<1>5. GreatestOr(T, other) = x
  BY <1>1, <1>3, <1>4, LastIs
<1>6. QED
  BY <1>5 DEF T

(* How the extremes of the first i elements change with the next ones.     *)
LEMMA ExtremesStart ==
  ASSUME NEW n \in Nat, NEW u \in [0 .. n - 1 -> Int], 1 <= n
  PROVE  FirstLeast(u, 1, 0) /\ FirstGreatest(u, 1, 0) /\ LastGreatest(u, 1, 0)
<1>1. u[0] \in Int /\ \A j \in 0 .. 0 : j = 0
  OBVIOUS
<1>2. QED
  BY <1>1 DEF FirstLeast, FirstGreatest, LastGreatest

LEMMA LeastNext ==
  ASSUME NEW n \in Nat, NEW u \in [0 .. n - 1 -> Int], NEW i \in 1 .. n - 1, NEW x, FirstLeast(u, i, x)
  PROVE  /\ u[i] < u[x] => FirstLeast(u, i + 1, i)
         /\ ~(u[i] < u[x]) => FirstLeast(u, i + 1, x)
<1>1. x \in 0 .. i - 1 /\ (\A j \in 0 .. i - 1 : u[x] <= u[j]) /\ \A j \in 0 .. x - 1 : u[x] < u[j]
  BY DEF FirstLeast
<1>2. u[i] \in Int /\ u[x] \in Int /\ \A j \in 0 .. i : u[j] \in Int /\ (j \in 0 .. i - 1 \/ j = i)
  BY <1>1
<1>3. ASSUME u[i] < u[x] PROVE \A j \in 0 .. i - 1 : u[i] < u[j]
  BY <1>1, <1>2, <1>3
<1>4. QED
  BY <1>1, <1>2, <1>3 DEF FirstLeast

LEMMA GreatestNext ==
  ASSUME NEW n \in Nat, NEW u \in [0 .. n - 1 -> Int], NEW i \in 1 .. n - 1, NEW x, FirstGreatest(u, i, x)
  PROVE  /\ u[x] < u[i] => FirstGreatest(u, i + 1, i)
         /\ ~(u[x] < u[i]) => FirstGreatest(u, i + 1, x)
<1>1. x \in 0 .. i - 1 /\ (\A j \in 0 .. i - 1 : u[j] <= u[x]) /\ \A j \in 0 .. x - 1 : u[j] < u[x]
  BY DEF FirstGreatest
<1>2. u[i] \in Int /\ u[x] \in Int /\ \A j \in 0 .. i : u[j] \in Int /\ (j \in 0 .. i - 1 \/ j = i)
  BY <1>1
<1>3. ASSUME u[x] < u[i] PROVE \A j \in 0 .. i - 1 : u[j] < u[i]
  BY <1>1, <1>2, <1>3
<1>4. QED
  BY <1>1, <1>2, <1>3 DEF FirstGreatest

LEMMA LastNext ==
  ASSUME NEW n \in Nat, NEW u \in [0 .. n - 1 -> Int], NEW i \in 1 .. n - 1, NEW x, LastGreatest(u, i, x)
  PROVE  /\ ~(u[i] < u[x]) => LastGreatest(u, i + 1, i)
         /\ u[i] < u[x] => LastGreatest(u, i + 1, x)
<1>1. x \in 0 .. i - 1 /\ (\A j \in 0 .. i - 1 : u[j] <= u[x]) /\ \A j \in x + 1 .. i - 1 : u[j] < u[x]
  BY DEF LastGreatest
<1>2. u[i] \in Int /\ u[x] \in Int /\ \A j \in 0 .. i : u[j] \in Int /\ (j \in 0 .. i - 1 \/ j = i)
  BY <1>1
<1>3. ASSUME ~(u[i] < u[x]) PROVE LastGreatest(u, i + 1, i)
  <2>1. \A j \in 0 .. i : u[j] <= u[i]
    BY <1>1, <1>2, <1>3
  <2>2. i \in 0 .. i /\ i + 1 .. i = {} /\ (i + 1) - 1 = i
    OBVIOUS
  <2>3. QED
    BY <2>1, <2>2 DEF LastGreatest
<1>4. ASSUME u[i] < u[x] PROVE LastGreatest(u, i + 1, x)
  <2>1. \A j \in 0 .. i : u[j] <= u[x]
    BY <1>1, <1>2, <1>4
  <2>2. \A j \in x + 1 .. i : u[j] < u[x]
    BY <1>1, <1>2, <1>4
  <2>3. x \in 0 .. i /\ (i + 1) - 1 = i
    BY <1>1
  <2>4. QED
    BY <2>1, <2>2, <2>3 DEF LastGreatest
<1>5. QED
  BY <1>3, <1>4

LEMMA MinElement ==
  ASSUME NEW n \in Nat, NEW u \in [0 .. n - 1 -> Int], n # 0
  PROVE  FirstLeast(u, n, S!min_element(u, n))
<1> DEFINE D == 0 .. n - 1
           step == [i \in 1 .. n - 1 |-> [x \in D |-> IF ~(u[i] < u[x]) THEN x ELSE i]]
           Good == {p \in D \X D : FirstLeast(u, p[1] + 1, p[2])}
           best[i \in 0 .. n - 1] ==
             IF i > 0 /\ ~(u[i] < u[best[i - 1]]) THEN best[i - 1] ELSE i
<1>1. S!min_element(u, n) = best[n - 1]
  BY DEF S!min_element, less
<1>2. /\ n - 1 \in Nat /\ 0 \in D /\ n - 1 \in 0 .. n - 1 /\ (n - 1) + 1 = n
      /\ step \in [1 .. n - 1 -> [D -> D]]
      /\ \A i \in 1 .. n - 1 : \A x \in D : step[i][x] = IF ~(u[i] < u[x]) THEN x ELSE i
  OBVIOUS
<1>3. \A i, x : <<i, x>> \in Good <=> i \in D /\ x \in D /\ FirstLeast(u, i + 1, x)
  OBVIOUS
<1> HIDE DEF step, Good, D
<1>4. <<0, 0>> \in Good
  <2>1. FirstLeast(u, 1, 0) /\ 0 + 1 = 1
    BY ExtremesStart
  <2>2. QED
    BY <1>2, <1>3, <2>1
<1>5. ASSUME NEW i \in 1 .. n - 1, NEW x \in D, <<i - 1, x>> \in Good
      PROVE  <<i, step[i][x]>> \in Good
  <2>1. i \in D /\ (i - 1) + 1 = i
    BY DEF D
  <2>2. FirstLeast(u, i, x)
    BY <1>3, <1>5, <2>1
  <2>3. /\ u[i] < u[x] => FirstLeast(u, i + 1, i)
        /\ ~(u[i] < u[x]) => FirstLeast(u, i + 1, x)
    BY <2>2, LeastNext
  <2>4. QED
    BY <1>2, <1>3, <2>1, <2>3
<1>6. /\ \E f : IsClimb(f, n - 1, 0, step)
      /\ \A f : IsClimb(f, n - 1, 0, step)
                => \A i \in 0 .. n - 1 : f[i] \in D /\ <<i, f[i]>> \in Good
  BY <1>2, <1>4, <1>5, Climb
<1>7. ASSUME NEW f, IsClimb(f, n - 1, 0, step)
      PROVE  f = [i \in 0 .. n - 1 |-> IF i > 0 /\ ~(u[i] < u[f[i - 1]]) THEN f[i - 1] ELSE i]
  <2>1. ASSUME NEW i \in 0 .. n - 1
        PROVE  (IF i = 0 THEN 0 ELSE step[i][f[i - 1]])
               = (IF i > 0 /\ ~(u[i] < u[f[i - 1]]) THEN f[i - 1] ELSE i)
    <3>1. CASE i = 0
      BY <3>1
    <3>2. CASE i # 0
      <4>1. i \in 1 .. n - 1 /\ i - 1 \in 0 .. n - 1 /\ i > 0
        BY <3>2
      <4>2. f[i - 1] \in D
        BY <1>6, <1>7, <4>1
      <4>3. QED
        BY <1>2, <3>2, <4>1, <4>2
    <3>3. QED
      BY <3>1, <3>2
  <2>2. QED
    BY <1>7, <2>1 DEF IsClimb
<1>8. best = [i \in 0 .. n - 1 |-> IF i > 0 /\ ~(u[i] < u[best[i - 1]]) THEN best[i - 1] ELSE i]
  BY <1>6, <1>7
<1>9. ASSUME NEW f, f = [i \in 0 .. n - 1 |-> IF i > 0 /\ ~(u[i] < u[f[i - 1]]) THEN f[i - 1] ELSE i],
             NEW h, IsClimb(h, n - 1, 0, step)
      PROVE  SameOn(D, f, h)
  <2> DEFINE m == [i \in D |-> i]
  <2>1. m \in [D -> Nat] /\ \A i \in D : i # 0 => i - 1 \in D /\ m[i - 1] < m[i]
    BY DEF D
  <2>2. h = [i \in 0 .. n - 1 |-> IF i > 0 /\ ~(u[i] < u[h[i - 1]]) THEN h[i - 1] ELSE i]
    BY <1>7, <1>9
  <2>3. ASSUME NEW i \in D, \A e \in D : m[e] < m[i] => f[e] = h[e] PROVE f[i] = h[i]
    <3>1. i \in 0 .. n - 1
      BY DEF D
    <3>2. CASE i = 0
      BY <1>9, <2>2, <3>1, <3>2
    <3>3. CASE i # 0
      <4>1. f[i - 1] = h[i - 1]
        BY <2>1, <2>3, <3>3
      <4>2. /\ f[i] = IF i > 0 /\ ~(u[i] < u[f[i - 1]]) THEN f[i - 1] ELSE i
            /\ h[i] = IF i > 0 /\ ~(u[i] < u[h[i - 1]]) THEN h[i - 1] ELSE i
        BY <1>9, <2>2, <3>1
      <4>3. QED
        BY <4>1, <4>2
    <3>4. QED
      BY <3>2, <3>3
  <2> HIDE DEF m
  <2>4. QED
    BY <2>1, <2>3, Agree
<1> HIDE DEF best
<1>10. PICK h : IsClimb(h, n - 1, 0, step)
  BY <1>6
<1>11. best[n - 1] = h[n - 1]
  <2>1. SameOn(D, best, h)
    BY <1>8, <1>9, <1>10
  <2>2. QED
    BY <1>2, <2>1 DEF SameOn, D
<1>12. FirstLeast(u, (n - 1) + 1, h[n - 1])
  BY <1>2, <1>3, <1>6, <1>10
<1>13. QED
  BY <1>1, <1>2, <1>11, <1>12

LEMMA MaxElement ==
  ASSUME NEW n \in Nat, NEW u \in [0 .. n - 1 -> Int], n # 0
  PROVE  LastGreatest(u, n, S!max_element(u, n))
<1> DEFINE D == 0 .. n - 1
           step == [i \in 1 .. n - 1 |-> [x \in D |-> IF u[i] < u[x] THEN x ELSE i]]
           Good == {p \in D \X D : LastGreatest(u, p[1] + 1, p[2])}
           best[i \in 0 .. n - 1] ==
             IF i > 0 /\ u[i] < u[best[i - 1]] THEN best[i - 1] ELSE i
<1>1. S!max_element(u, n) = best[n - 1]
  BY DEF S!max_element, less
<1>2. /\ n - 1 \in Nat /\ 0 \in D /\ n - 1 \in 0 .. n - 1 /\ (n - 1) + 1 = n
      /\ step \in [1 .. n - 1 -> [D -> D]]
      /\ \A i \in 1 .. n - 1 : \A x \in D : step[i][x] = IF u[i] < u[x] THEN x ELSE i
  OBVIOUS
<1>3. \A i, x : <<i, x>> \in Good <=> i \in D /\ x \in D /\ LastGreatest(u, i + 1, x)
  OBVIOUS
<1> HIDE DEF step, Good, D
<1>4. <<0, 0>> \in Good
  <2>1. LastGreatest(u, 1, 0) /\ 0 + 1 = 1
    BY ExtremesStart
  <2>2. QED
    BY <1>2, <1>3, <2>1
<1>5. ASSUME NEW i \in 1 .. n - 1, NEW x \in D, <<i - 1, x>> \in Good
      PROVE  <<i, step[i][x]>> \in Good
  <2>1. i \in D /\ (i - 1) + 1 = i
    BY DEF D
  <2>2. LastGreatest(u, i, x)
    BY <1>3, <1>5, <2>1
  <2>3. /\ ~(u[i] < u[x]) => LastGreatest(u, i + 1, i)
        /\ u[i] < u[x] => LastGreatest(u, i + 1, x)
    BY <2>2, LastNext
  <2>4. QED
    BY <1>2, <1>3, <2>1, <2>3
<1>6. /\ \E f : IsClimb(f, n - 1, 0, step)
      /\ \A f : IsClimb(f, n - 1, 0, step)
                => \A i \in 0 .. n - 1 : f[i] \in D /\ <<i, f[i]>> \in Good
  BY <1>2, <1>4, <1>5, Climb
<1>7. ASSUME NEW f, IsClimb(f, n - 1, 0, step)
      PROVE  f = [i \in 0 .. n - 1 |-> IF i > 0 /\ u[i] < u[f[i - 1]] THEN f[i - 1] ELSE i]
  <2>1. ASSUME NEW i \in 0 .. n - 1
        PROVE  (IF i = 0 THEN 0 ELSE step[i][f[i - 1]])
               = (IF i > 0 /\ u[i] < u[f[i - 1]] THEN f[i - 1] ELSE i)
    <3>1. CASE i = 0
      BY <3>1
    <3>2. CASE i # 0
      <4>1. i \in 1 .. n - 1 /\ i - 1 \in 0 .. n - 1 /\ i > 0
        BY <3>2
      <4>2. f[i - 1] \in D
        BY <1>6, <1>7, <4>1
      <4>3. QED
        BY <1>2, <3>2, <4>1, <4>2
    <3>3. QED
      BY <3>1, <3>2
  <2>2. QED
    BY <1>7, <2>1 DEF IsClimb
<1>8. best = [i \in 0 .. n - 1 |-> IF i > 0 /\ u[i] < u[best[i - 1]] THEN best[i - 1] ELSE i]
  BY <1>6, <1>7
<1>9. ASSUME NEW f, f = [i \in 0 .. n - 1 |-> IF i > 0 /\ u[i] < u[f[i - 1]] THEN f[i - 1] ELSE i],
             NEW h, IsClimb(h, n - 1, 0, step)
      PROVE  SameOn(D, f, h)
  <2> DEFINE m == [i \in D |-> i]
  <2>1. m \in [D -> Nat] /\ \A i \in D : i # 0 => i - 1 \in D /\ m[i - 1] < m[i]
    BY DEF D
  <2>2. h = [i \in 0 .. n - 1 |-> IF i > 0 /\ u[i] < u[h[i - 1]] THEN h[i - 1] ELSE i]
    BY <1>7, <1>9
  <2>3. ASSUME NEW i \in D, \A e \in D : m[e] < m[i] => f[e] = h[e] PROVE f[i] = h[i]
    <3>1. i \in 0 .. n - 1
      BY DEF D
    <3>2. CASE i = 0
      BY <1>9, <2>2, <3>1, <3>2
    <3>3. CASE i # 0
      <4>1. f[i - 1] = h[i - 1]
        BY <2>1, <2>3, <3>3
      <4>2. /\ f[i] = IF i > 0 /\ u[i] < u[f[i - 1]] THEN f[i - 1] ELSE i
            /\ h[i] = IF i > 0 /\ u[i] < u[h[i - 1]] THEN h[i - 1] ELSE i
        BY <1>9, <2>2, <3>1
      <4>3. QED
        BY <4>1, <4>2
    <3>4. QED
      BY <3>2, <3>3
  <2> HIDE DEF m
  <2>4. QED
    BY <2>1, <2>3, Agree
<1> HIDE DEF best
<1>10. PICK h : IsClimb(h, n - 1, 0, step)
  BY <1>6
<1>11. best[n - 1] = h[n - 1]
  <2>1. SameOn(D, best, h)
    BY <1>8, <1>9, <1>10
  <2>2. QED
    BY <1>2, <2>1 DEF SameOn, D
<1>12. LastGreatest(u, (n - 1) + 1, h[n - 1])
  BY <1>2, <1>3, <1>6, <1>10
<1>13. QED
  BY <1>1, <1>2, <1>11, <1>12

LEMMA MaxValue ==
  ASSUME NEW n \in Nat, NEW u \in [0 .. n - 1 -> Int], n # 0
  PROVE  FirstGreatest(u, n, E!max(u, n))
<1> DEFINE D == 0 .. n - 1
           step == [i \in 1 .. n - 1 |-> [x \in D |-> IF ~(u[x] < u[i]) THEN x ELSE i]]
           Good == {p \in D \X D : FirstGreatest(u, p[1] + 1, p[2])}
           best[i \in 0 .. n - 1] ==
             IF i > 0 /\ ~(u[best[i - 1]] < u[i]) THEN best[i - 1] ELSE i
<1>1. E!max(u, n) = best[n - 1]
  BY DEF E!max, less
<1>2. /\ n - 1 \in Nat /\ 0 \in D /\ n - 1 \in 0 .. n - 1 /\ (n - 1) + 1 = n
      /\ step \in [1 .. n - 1 -> [D -> D]]
      /\ \A i \in 1 .. n - 1 : \A x \in D : step[i][x] = IF ~(u[x] < u[i]) THEN x ELSE i
  OBVIOUS
<1>3. \A i, x : <<i, x>> \in Good <=> i \in D /\ x \in D /\ FirstGreatest(u, i + 1, x)
  OBVIOUS
<1> HIDE DEF step, Good, D
<1>4. <<0, 0>> \in Good
  <2>1. FirstGreatest(u, 1, 0) /\ 0 + 1 = 1
    BY ExtremesStart
  <2>2. QED
    BY <1>2, <1>3, <2>1
<1>5. ASSUME NEW i \in 1 .. n - 1, NEW x \in D, <<i - 1, x>> \in Good
      PROVE  <<i, step[i][x]>> \in Good
  <2>1. i \in D /\ (i - 1) + 1 = i
    BY DEF D
  <2>2. FirstGreatest(u, i, x)
    BY <1>3, <1>5, <2>1
  <2>3. /\ u[x] < u[i] => FirstGreatest(u, i + 1, i)
        /\ ~(u[x] < u[i]) => FirstGreatest(u, i + 1, x)
    BY <2>2, GreatestNext
  <2>4. QED
    BY <1>2, <1>3, <2>1, <2>3
<1>6. /\ \E f : IsClimb(f, n - 1, 0, step)
      /\ \A f : IsClimb(f, n - 1, 0, step)
                => \A i \in 0 .. n - 1 : f[i] \in D /\ <<i, f[i]>> \in Good
  BY <1>2, <1>4, <1>5, Climb
<1>7. ASSUME NEW f, IsClimb(f, n - 1, 0, step)
      PROVE  f = [i \in 0 .. n - 1 |-> IF i > 0 /\ ~(u[f[i - 1]] < u[i]) THEN f[i - 1] ELSE i]
  <2>1. ASSUME NEW i \in 0 .. n - 1
        PROVE  (IF i = 0 THEN 0 ELSE step[i][f[i - 1]])
               = (IF i > 0 /\ ~(u[f[i - 1]] < u[i]) THEN f[i - 1] ELSE i)
    <3>1. CASE i = 0
      BY <3>1
    <3>2. CASE i # 0
      <4>1. i \in 1 .. n - 1 /\ i - 1 \in 0 .. n - 1 /\ i > 0
        BY <3>2
      <4>2. f[i - 1] \in D
        BY <1>6, <1>7, <4>1
      <4>3. QED
        BY <1>2, <3>2, <4>1, <4>2
    <3>3. QED
      BY <3>1, <3>2
  <2>2. QED
    BY <1>7, <2>1 DEF IsClimb
<1>8. best = [i \in 0 .. n - 1 |-> IF i > 0 /\ ~(u[best[i - 1]] < u[i]) THEN best[i - 1] ELSE i]
  BY <1>6, <1>7
<1>9. ASSUME NEW f, f = [i \in 0 .. n - 1 |-> IF i > 0 /\ ~(u[f[i - 1]] < u[i]) THEN f[i - 1] ELSE i],
             NEW h, IsClimb(h, n - 1, 0, step)
      PROVE  SameOn(D, f, h)
  <2> DEFINE m == [i \in D |-> i]
  <2>1. m \in [D -> Nat] /\ \A i \in D : i # 0 => i - 1 \in D /\ m[i - 1] < m[i]
    BY DEF D
  <2>2. h = [i \in 0 .. n - 1 |-> IF i > 0 /\ ~(u[h[i - 1]] < u[i]) THEN h[i - 1] ELSE i]
    BY <1>7, <1>9
  <2>3. ASSUME NEW i \in D, \A e \in D : m[e] < m[i] => f[e] = h[e] PROVE f[i] = h[i]
    <3>1. i \in 0 .. n - 1
      BY DEF D
    <3>2. CASE i = 0
      BY <1>9, <2>2, <3>1, <3>2
    <3>3. CASE i # 0
      <4>1. f[i - 1] = h[i - 1]
        BY <2>1, <2>3, <3>3
      <4>2. /\ f[i] = IF i > 0 /\ ~(u[f[i - 1]] < u[i]) THEN f[i - 1] ELSE i
            /\ h[i] = IF i > 0 /\ ~(u[h[i - 1]] < u[i]) THEN h[i - 1] ELSE i
        BY <1>9, <2>2, <3>1
      <4>3. QED
        BY <4>1, <4>2
    <3>4. QED
      BY <3>2, <3>3
  <2> HIDE DEF m
  <2>4. QED
    BY <2>1, <2>3, Agree
<1> HIDE DEF best
<1>10. PICK h : IsClimb(h, n - 1, 0, step)
  BY <1>6
<1>11. best[n - 1] = h[n - 1]
  <2>1. SameOn(D, best, h)
    BY <1>8, <1>9, <1>10
  <2>2. QED
    BY <1>2, <2>1 DEF SameOn, D
<1>12. FirstGreatest(u, (n - 1) + 1, h[n - 1])
  BY <1>2, <1>3, <1>6, <1>10
<1>13. QED
  BY <1>1, <1>2, <1>11, <1>12

(* The least and the greatest of the first k elements.                     *)
Extremes(u, k, r) == r = <<r[1], r[2]>> /\ FirstLeast(u, k, r[1]) /\ LastGreatest(u, k, r[2])

(* What r becomes with elements i and j.                                   *)
Lesser(u, r, i) == IF u[i] < u[r[1]] THEN i ELSE r[1]
Greater(u, r, i) == IF u[i] < u[r[2]] THEN r[2] ELSE i

LEMMA PairNext ==
  ASSUME NEW n \in Nat, NEW u \in [0 .. n - 1 -> Int], NEW i \in 1 .. n - 2, NEW r, Extremes(u, i, r)
  PROVE  /\ u[i + 1] < u[i] => Extremes(u, i + 2, <<Lesser(u, r, i + 1), Greater(u, r, i)>>)
         /\ ~(u[i + 1] < u[i]) => Extremes(u, i + 2, <<Lesser(u, r, i), Greater(u, r, i + 1)>>)
<1> DEFINE x == r[1]
           y == r[2]
<1>1. FirstLeast(u, i, x) /\ LastGreatest(u, i, y) /\ x \in 0 .. i - 1 /\ y \in 0 .. i - 1
  BY DEF Extremes, FirstLeast, LastGreatest
<1>2. Lesser(u, r, i) = (IF u[i] < u[x] THEN i ELSE x) /\ Greater(u, r, i) = (IF u[i] < u[y] THEN y ELSE i)
      /\ Lesser(u, r, i + 1) = (IF u[i + 1] < u[x] THEN i + 1 ELSE x)
      /\ Greater(u, r, i + 1) = (IF u[i + 1] < u[y] THEN y ELSE i + 1)
  BY DEF Lesser, Greater
<1>3. \A k, l, s : Extremes(u, s, <<k, l>>) <=> FirstLeast(u, s, k) /\ LastGreatest(u, s, l)
  BY DEF Extremes
<1> HIDE DEF x, y
<1>4. /\ i \in 1 .. n - 1 /\ i + 1 \in 1 .. n - 1 /\ (i + 1) + 1 = i + 2
      /\ u[i] \in Int /\ u[i + 1] \in Int /\ u[x] \in Int /\ u[y] \in Int
  BY <1>1
<1>5. \A k : FirstLeast(u, i + 1, k) =>
        /\ u[i + 1] < u[k] => FirstLeast(u, i + 2, i + 1)
        /\ ~(u[i + 1] < u[k]) => FirstLeast(u, i + 2, k)
  <2>1. ASSUME NEW k, FirstLeast(u, i + 1, k)
        PROVE  /\ u[i + 1] < u[k] => FirstLeast(u, (i + 1) + 1, i + 1)
               /\ ~(u[i + 1] < u[k]) => FirstLeast(u, (i + 1) + 1, k)
    BY <1>4, <2>1, LeastNext
  <2>2. QED
    BY <1>4, <2>1
<1>6. \A k : LastGreatest(u, i + 1, k) =>
        /\ ~(u[i + 1] < u[k]) => LastGreatest(u, i + 2, i + 1)
        /\ u[i + 1] < u[k] => LastGreatest(u, i + 2, k)
  <2>1. ASSUME NEW k, LastGreatest(u, i + 1, k)
        PROVE  /\ ~(u[i + 1] < u[k]) => LastGreatest(u, (i + 1) + 1, i + 1)
               /\ u[i + 1] < u[k] => LastGreatest(u, (i + 1) + 1, k)
    BY <1>4, <2>1, LastNext
  <2>2. QED
    BY <1>4, <2>1
<1>7. /\ u[i] < u[x] => FirstLeast(u, i + 1, i)
      /\ ~(u[i] < u[x]) => FirstLeast(u, i + 1, x)
  BY <1>1, <1>4, LeastNext
<1>8. /\ ~(u[i] < u[y]) => LastGreatest(u, i + 1, i)
      /\ u[i] < u[y] => LastGreatest(u, i + 1, y)
  BY <1>1, <1>4, LastNext
<1>9. ASSUME u[i + 1] < u[i]
      PROVE  FirstLeast(u, i + 2, Lesser(u, r, i + 1)) /\ LastGreatest(u, i + 2, Greater(u, r, i))
  <2>1. FirstLeast(u, i + 2, Lesser(u, r, i + 1))
    <3>1. u[i] < u[x] => u[i + 1] < u[x]
      BY <1>4, <1>9
    <3>2. QED
      BY <1>2, <1>5, <1>7, <1>9, <3>1
  <2>2. LastGreatest(u, i + 2, Greater(u, r, i))
    <3>1. u[i] < u[y] => u[i + 1] < u[y]
      BY <1>4, <1>9
    <3>2. QED
      BY <1>2, <1>6, <1>8, <1>9, <3>1
  <2>3. QED
    BY <2>1, <2>2
<1>10. ASSUME ~(u[i + 1] < u[i])
       PROVE  FirstLeast(u, i + 2, Lesser(u, r, i)) /\ LastGreatest(u, i + 2, Greater(u, r, i + 1))
  <2>1. FirstLeast(u, i + 2, Lesser(u, r, i))
    <3>1. ~(u[i] < u[x]) => ~(u[i + 1] < u[x])
      BY <1>4, <1>10
    <3>2. QED
      BY <1>2, <1>5, <1>7, <1>10, <3>1
  <2>2. LastGreatest(u, i + 2, Greater(u, r, i + 1))
    <3>1. ~(u[i] < u[y]) => ~(u[i + 1] < u[y])
      BY <1>4, <1>10
    <3>2. QED
      BY <1>2, <1>6, <1>8, <1>10, <3>1
  <2>3. QED
    BY <2>1, <2>2
<1>11. QED
  BY <1>3, <1>9, <1>10

LEMMA OneNext ==
  ASSUME NEW n \in Nat, NEW u \in [0 .. n - 1 -> Int], NEW i \in 1 .. n - 1, NEW r, Extremes(u, i, r)
  PROVE  Extremes(u, i + 1, IF u[i] < u[r[1]] THEN <<i, r[2]>> ELSE <<r[1], Greater(u, r, i)>>)
<1>1. FirstLeast(u, i, r[1]) /\ LastGreatest(u, i, r[2]) /\ r[1] \in 0 .. i - 1 /\ r[2] \in 0 .. i - 1
  BY DEF Extremes, FirstLeast, LastGreatest
<1>2. /\ u[i] < u[r[1]] => FirstLeast(u, i + 1, i)
      /\ ~(u[i] < u[r[1]]) => FirstLeast(u, i + 1, r[1])
  BY <1>1, LeastNext
<1>3. /\ ~(u[i] < u[r[2]]) => LastGreatest(u, i + 1, i)
      /\ u[i] < u[r[2]] => LastGreatest(u, i + 1, r[2])
  BY <1>1, LastNext
<1>4. u[i] < u[r[1]] => u[i] < u[r[2]]
  <2>1. u[r[1]] <= u[r[2]] /\ u[i] \in Int /\ u[r[1]] \in Int /\ u[r[2]] \in Int
    BY <1>1 DEF FirstLeast
  <2>2. QED
    BY <2>1
<1>5. \A k, l, s : Extremes(u, s, <<k, l>>) <=> FirstLeast(u, s, k) /\ LastGreatest(u, s, l)
  BY DEF Extremes
<1>6. QED
  BY <1>2, <1>3, <1>4, <1>5 DEF Greater

LEMMA TwoFirst ==
  ASSUME NEW n \in Nat, NEW u \in [0 .. n - 1 -> Int], 2 <= n
  PROVE  Extremes(u, 2, IF u[1] < u[0] THEN <<1, 0>> ELSE <<0, 1>>)
<1>1. 1 \in 1 .. n - 1 /\ 1 + 1 = 2 /\ 1 <= n
  OBVIOUS
<1>2. FirstLeast(u, 1, 0) /\ LastGreatest(u, 1, 0)
  BY <1>1, ExtremesStart
<1>3. /\ u[1] < u[0] => FirstLeast(u, 1 + 1, 1)
      /\ ~(u[1] < u[0]) => FirstLeast(u, 1 + 1, 0)
  BY <1>1, <1>2, LeastNext
<1>4. /\ ~(u[1] < u[0]) => LastGreatest(u, 1 + 1, 1)
      /\ u[1] < u[0] => LastGreatest(u, 1 + 1, 0)
  BY <1>1, <1>2, LastNext
<1>5. QED
  BY <1>1, <1>3, <1>4 DEF Extremes

LEMMA MinMaxElement ==
  ASSUME NEW n \in Nat, NEW u \in [0 .. n - 1 -> Int]
  PROVE  /\ n = 0 => S!minmax_element(u, n) = <<0, 0>>
         /\ n # 0 => Extremes(u, n, S!minmax_element(u, n))
<1> DEFINE lesser(r, i)  == IF u[i] < u[r[1]] THEN i ELSE r[1]
           greater(r, i) == IF u[i] < u[r[2]] THEN r[2] ELSE i
           after[i \in 0 .. n] ==
             LET r == after[i - 2] IN
             IF i < 2 THEN <<0, 0>>
             ELSE IF i = 2 THEN IF u[1] < u[0] THEN <<1, 0>> ELSE <<0, 1>>
             ELSE IF u[i - 1] < u[i - 2]
                  THEN <<lesser(r, i - 1), greater(r, i - 2)>>
                  ELSE <<lesser(r, i - 2), greater(r, i - 1)>>
<1>1. S!minmax_element(u, n) =
        IF n < 3 \/ n % 2 = 0 THEN after[n]
        ELSE IF u[n - 1] < u[after[n - 1][1]] THEN <<n - 1, after[n - 1][2]>>
        ELSE <<after[n - 1][1], greater(after[n - 1], n - 1)>>
  BY DEF S!minmax_element, less
<1> DEFINE body(i, r) ==
             IF i < 2 THEN <<0, 0>>
             ELSE IF i = 2 THEN IF u[1] < u[0] THEN <<1, 0>> ELSE <<0, 1>>
             ELSE IF u[i - 1] < u[i - 2]
                  THEN <<Lesser(u, r, i - 1), Greater(u, r, i - 2)>>
                  ELSE <<Lesser(u, r, i - 2), Greater(u, r, i - 1)>>
           D == 0 .. n
           V == Nat \X Nat
           m == [i \in D |-> i]
           G == [i \in D |-> [h \in [D -> V] |-> body(i, h[i - 2])]]
<1>2. /\ m \in [D -> Nat] /\ V # {}
      /\ \A i \in D : ~(i < 2) => i - 2 \in D /\ m[i - 2] < m[i]
      /\ \A i \in D : i \in Int
  <2>1. <<0, 0>> \in V
    OBVIOUS
  <2>2. m \in [D -> Nat] /\ \A i \in D : i \in Int
    OBVIOUS
  <2>3. \A i \in D : ~(i < 2) => i - 2 \in D /\ m[i - 2] < m[i]
    OBVIOUS
  <2> HIDE DEF m, D
  <2>4. QED
    BY <2>1, <2>2, <2>3
<1>3. \A i, r1, r2 : i < 2 => body(i, r1) = body(i, r2)
  OBVIOUS
<1>4. \A i \in D : \A r \in V : body(i, r) \in V
  BY SMTT(30) DEF Lesser, Greater
<1>5. \A i \in D, r \in V : i < 2 => body(i, r) = <<0, 0>>
  OBVIOUS
<1>6. ASSUME NEW i \in D, i # 0, NEW r, i > 2 => Extremes(u, i - 2, r)
      PROVE  Extremes(u, i, body(i, r))
  <2>1. CASE i = 1
    <3>1. 1 <= n
      BY <2>1
    <3>2. FirstLeast(u, 1, 0) /\ LastGreatest(u, 1, 0)
      BY <3>1, ExtremesStart
    <3>3. body(i, r) = <<0, 0>>
      BY <2>1
    <3>4. QED
      BY <2>1, <3>2, <3>3 DEF Extremes
  <2>2. CASE i = 2
    <3>1. 2 <= n
      BY <2>2
    <3>2. body(i, r) = IF u[1] < u[0] THEN <<1, 0>> ELSE <<0, 1>>
      BY <2>2
    <3>3. QED
      BY <2>2, <3>1, <3>2, TwoFirst
  <2>3. CASE i > 2
    <3> DEFINE k == i - 2
    <3>1. k \in 1 .. n - 2 /\ k + 1 = i - 1 /\ k + 2 = i
      BY <2>3
    <3>2. body(i, r) = IF u[i - 1] < u[i - 2] THEN <<Lesser(u, r, i - 1), Greater(u, r, i - 2)>>
                       ELSE <<Lesser(u, r, i - 2), Greater(u, r, i - 1)>>
      BY <2>3
    <3>3. Extremes(u, k, r)
      BY <1>6, <2>3
    <3> HIDE DEF k
    <3>4. /\ u[k + 1] < u[k] => Extremes(u, k + 2, <<Lesser(u, r, k + 1), Greater(u, r, k)>>)
          /\ ~(u[k + 1] < u[k]) => Extremes(u, k + 2, <<Lesser(u, r, k), Greater(u, r, k + 1)>>)
      BY <3>1, <3>3, PairNext
    <3>5. QED
      BY <3>1, <3>2, <3>4 DEF k
  <2>4. QED
    BY <1>6, <2>1, <2>2, <2>3
<1> HIDE DEF body, V, m
<1>7. G \in [D -> [[D -> V] -> V]] /\ \A i \in D : \A h \in [D -> V] : G[i][h] = body(i, h[i - 2])
  <2>1. ASSUME NEW i \in D, NEW h \in [D -> V] PROVE body(i, h[i - 2]) \in V
    <3>1. CASE i < 2
      <4>1. PICK r \in V : TRUE
        BY <1>2
      <4>2. QED
        BY <1>3, <1>4, <3>1, <4>1
    <3>2. CASE ~(i < 2)
      <4>1. h[i - 2] \in V
        BY <1>2, <3>2
      <4>2. QED
        BY <1>4, <4>1
    <3>3. QED
      BY <3>1, <3>2
  <2>2. QED
    BY <2>1
<1> HIDE DEF G
<1>8. LocalIn(G, D, V, m)
  <2>1. ASSUME NEW i \in D, NEW h1 \in [D -> V], NEW h2 \in [D -> V],
               \A e \in D : m[e] < m[i] => h1[e] = h2[e]
        PROVE  G[i][h1] = G[i][h2]
    <3>1. G[i][h1] = body(i, h1[i - 2]) /\ G[i][h2] = body(i, h2[i - 2])
      BY <1>7
    <3>2. CASE i < 2
      BY <1>3, <3>1, <3>2
    <3>3. CASE ~(i < 2)
      <4>1. h1[i - 2] = h2[i - 2]
        BY <1>2, <2>1, <3>3
      <4>2. QED
        BY <3>1, <4>1
    <3>4. QED
      BY <3>2, <3>3
  <2> HIDE DEF D
  <2>2. QED
    BY <2>1 DEF LocalIn
<1>9. \E f \in [D -> V] : IsRecursive(f, D, G)
  <2> HIDE DEF D
  <2>1. QED
    BY <1>2, <1>7, <1>8, Recursion
<1>10. \E f \in [D -> V] : f = [i \in D |-> body(i, f[i - 2])]
  <2>1. PICK f \in [D -> V] : f = [i \in D |-> G[i][f]]
    BY <1>9 DEF IsRecursive
  <2>2. \A i \in D : G[i][f] = body(i, f[i - 2])
    BY <1>7
  <2>3. f = [i \in D |-> body(i, f[i - 2])]
    BY <2>1, <2>2
  <2>4. QED
    BY <2>3
<1>11. after = CHOOSE f : f = [i \in D |-> body(i, f[i - 2])]
  BY DEF body, Lesser, Greater
<1> HIDE DEF after
<1>12. after = [i \in D |-> body(i, after[i - 2])]
  BY <1>10, <1>11
<1>13. \A i \in D : i # 0 => Extremes(u, i, after[i])
  <2> DEFINE Good == {i \in D : i # 0 => Extremes(u, i, after[i])}
  <2>1. ASSUME NEW i \in D, \A e \in D : m[e] < m[i] => e \in Good PROVE i \in Good
    <3>1. SUFFICES ASSUME i # 0 PROVE Extremes(u, i, after[i])
      OBVIOUS
    <3>2. i > 2 => Extremes(u, i - 2, after[i - 2])
      <4>1. ASSUME i > 2 PROVE i - 2 \in Good /\ i - 2 # 0
        <5>1. i \in Int /\ ~(i < 2)
          BY <1>2, <4>1
        <5>2. QED
          BY <1>2, <2>1, <4>1, <5>1
      <4>2. QED
        BY <4>1
    <3>3. Extremes(u, i, body(i, after[i - 2]))
      BY <1>6, <3>1, <3>2
    <3>4. QED
      BY <1>12, <3>3
  <2>2. D \subseteq Good
    <3> HIDE DEF Good, D
    <3>1. QED
      BY <1>2, <2>1, ByMeasure
  <2>3. QED
    BY <2>2
<1>14. ASSUME n = 0 PROVE S!minmax_element(u, n) = <<0, 0>>
  <2>1. after[0] = <<0, 0>>
    <3>1. 0 \in D
      OBVIOUS
    <3>2. QED
      BY <1>12, <3>1 DEF body
  <2>2. QED
    BY <1>1, <1>14, <2>1
<1>15. ASSUME n # 0 PROVE Extremes(u, n, S!minmax_element(u, n))
  <2>1. CASE n < 3 \/ n % 2 = 0
    <3>1. n \in D
      OBVIOUS
    <3>2. QED
      BY <1>1, <1>13, <1>15, <2>1, <3>1
  <2>2. CASE ~(n < 3 \/ n % 2 = 0)
    <3> DEFINE k == n - 1
               r == after[k]
    <3>1. k \in D /\ k # 0 /\ k \in 1 .. n - 1 /\ k + 1 = n
      BY <2>2
    <3>2. Extremes(u, k, r)
      BY <1>13, <3>1
    <3>3. S!minmax_element(u, n) =
            IF u[k] < u[r[1]] THEN <<k, r[2]>> ELSE <<r[1], Greater(u, r, k)>>
      BY <1>1, <2>2 DEF Greater
    <3> HIDE DEF k, r
    <3>4. Extremes(u, k + 1, IF u[k] < u[r[1]] THEN <<k, r[2]>> ELSE <<r[1], Greater(u, r, k)>>)
      BY <3>1, <3>2, OneNext
    <3>5. QED
      BY <3>1, <3>3, <3>4
  <2>3. QED
    BY <2>1, <2>2
<1>16. QED
  BY <1>14, <1>15

LEMMA MinMaxValue ==
  ASSUME NEW n \in Nat, NEW u \in [0 .. n - 1 -> Int], n # 0
  PROVE  Extremes(u, n, E!minmax(u, n))
<1> DEFINE lesser(r, i)  == IF u[i] < u[r[1]] THEN i ELSE r[1]
           greater(r, i) == IF u[i] < u[r[2]] THEN r[2] ELSE i
           R == (0 .. n - 1) \X (0 .. n - 1)
           from[i \in 2 .. n] ==
             [r \in R |->
                IF i = n THEN r
                ELSE IF i + 1 = n
                     THEN IF u[i] < u[r[1]] THEN <<i, r[2]>> ELSE <<r[1], greater(r, i)>>
                ELSE IF u[i + 1] < u[i]
                     THEN from[i + 2][<<lesser(r, i + 1), greater(r, i)>>]
                     ELSE from[i + 2][<<lesser(r, i), greater(r, i + 1)>>]]
           start == IF u[1] < u[0] THEN <<1, 0>> ELSE <<0, 1>>
<1>1. E!minmax(u, n) = IF n = 1 THEN <<0, 0>> ELSE from[2][start]
  BY DEF E!minmax, less
<1> DEFINE last(i, r) == IF u[i] < u[r[1]] THEN <<i, r[2]>> ELSE <<r[1], Greater(u, r, i)>>
           pair(i, r) == IF u[i + 1] < u[i] THEN <<Lesser(u, r, i + 1), Greater(u, r, i)>>
                         ELSE <<Lesser(u, r, i), Greater(u, r, i + 1)>>
           body(i, r, h) ==
             IF i = n THEN r
             ELSE IF i + 1 = n
                  THEN IF u[i] < u[r[1]] THEN <<i, r[2]>> ELSE <<r[1], Greater(u, r, i)>>
             ELSE IF u[i + 1] < u[i]
                  THEN h[i + 2][<<Lesser(u, r, i + 1), Greater(u, r, i)>>]
                  ELSE h[i + 2][<<Lesser(u, r, i), Greater(u, r, i + 1)>>]
           D == 2 .. n
           V == [R -> R]
           m == [i \in D |-> n - i]
           G == [i \in D |-> [h \in [D -> V] |-> [r \in R |-> body(i, r, h)]]]
<1>10. from = CHOOSE f : f = [i \in D |-> [r \in R |-> body(i, r, f)]]
  BY DEF Lesser, Greater
<1> HIDE DEF from
<1>16. \A i, r, h : body(i, r, h) = IF i = n THEN r ELSE IF i + 1 = n THEN last(i, r)
                                  ELSE h[i + 2][pair(i, r)]
  OBVIOUS
<1> HIDE DEF body
<1>2. /\ m \in [D -> Nat]
      /\ \A i \in D : i \in Int /\ (i # n => i \in 1 .. n - 1)
      /\ \A i \in D : i # n /\ i + 1 # n => i + 2 \in D /\ m[i + 2] < m[i] /\ i \in 1 .. n - 2
  OBVIOUS
<1>3. /\ \A i \in D : \A r \in R : i # n => last(i, r) \in R
      /\ \A i \in D : \A r \in R : i # n /\ i + 1 # n => pair(i, r) \in R
  <2>1. ASSUME NEW i \in D, NEW r \in R, i # n PROVE last(i, r) \in R
    <3>1. i \in 0 .. n - 1 /\ r[1] \in 0 .. n - 1 /\ r[2] \in 0 .. n - 1
      BY <2>1
    <3>2. QED
      BY <3>1 DEF Greater
  <2>2. ASSUME NEW i \in D, NEW r \in R, i # n, i + 1 # n PROVE pair(i, r) \in R
    <3>1. i \in 0 .. n - 1 /\ i + 1 \in 0 .. n - 1 /\ r[1] \in 0 .. n - 1 /\ r[2] \in 0 .. n - 1
      BY <2>2
    <3>2. Lesser(u, r, i) \in 0 .. n - 1 /\ Greater(u, r, i) \in 0 .. n - 1
          /\ Lesser(u, r, i + 1) \in 0 .. n - 1 /\ Greater(u, r, i + 1) \in 0 .. n - 1
      BY <3>1 DEF Lesser, Greater
    <3>3. QED
      BY <3>2
  <2>3. QED
    BY <2>1, <2>2
<1>4. V # {}
  <2>1. [r \in R |-> r] \in V
    OBVIOUS
  <2> HIDE DEF V
  <2>2. QED
    BY <2>1
<1>5. ASSUME NEW i \in D, NEW r \in R, Extremes(u, i, r)
      PROVE  /\ i # n /\ i + 1 = n => Extremes(u, n, last(i, r))
             /\ i # n /\ i + 1 # n => Extremes(u, i + 2, pair(i, r))
  <2>1. ASSUME i # n, i + 1 = n PROVE Extremes(u, n, last(i, r))
    <3>1. i \in 1 .. n - 1
      BY <1>2, <2>1
    <3>2. Extremes(u, i + 1, IF u[i] < u[r[1]] THEN <<i, r[2]>> ELSE <<r[1], Greater(u, r, i)>>)
      BY <1>5, <3>1, OneNext
    <3>3. QED
      BY <2>1, <3>2
  <2>2. ASSUME i # n, i + 1 # n PROVE Extremes(u, i + 2, pair(i, r))
    <3>1. i \in 1 .. n - 2
      BY <1>2, <2>2
    <3>2. /\ u[i + 1] < u[i] => Extremes(u, i + 2, <<Lesser(u, r, i + 1), Greater(u, r, i)>>)
          /\ ~(u[i + 1] < u[i]) => Extremes(u, i + 2, <<Lesser(u, r, i), Greater(u, r, i + 1)>>)
      BY <1>5, <3>1, PairNext
    <3>3. QED
      BY <3>2
  <2>3. QED
    BY <2>1, <2>2
<1> HIDE DEF last, pair, m
<1>6. G \in [D -> [[D -> V] -> V]]
      /\ \A i \in D : \A h \in [D -> V] : G[i][h] = [r \in R |-> body(i, r, h)]
  <2>1. ASSUME NEW i \in D, NEW h \in [D -> V], NEW r \in R PROVE body(i, r, h) \in R
    <3> HIDE DEF R, D
    <3>1. CASE i = n
      BY <1>16, <3>1
    <3>2. CASE i # n /\ i + 1 = n
      <4>1. last(i, r) \in R
        BY <1>3, <3>2
      <4>2. QED
        BY <1>16, <3>2, <4>1
    <3>3. CASE i # n /\ i + 1 # n
      <4>1. i + 2 \in D /\ pair(i, r) \in R
        BY <1>2, <1>3, <3>3
      <4>2. h[i + 2][pair(i, r)] \in R
        BY <4>1
      <4>3. QED
        BY <1>16, <3>3, <4>2
    <3>4. QED
      BY <3>1, <3>2, <3>3
  <2> HIDE DEF body, R
  <2>2. \A i \in D : \A h \in [D -> V] : [r \in R |-> body(i, r, h)] \in V
    BY <2>1
  <2> HIDE DEF V, D
  <2>3. QED
    BY <2>2
<1>7. LocalIn(G, D, V, m)
  <2>1. ASSUME NEW i \in D, NEW h1 \in [D -> V], NEW h2 \in [D -> V],
               \A e \in D : m[e] < m[i] => h1[e] = h2[e]
        PROVE  G[i][h1] = G[i][h2]
    <3>1. G[i][h1] = [r \in R |-> body(i, r, h1)] /\ G[i][h2] = [r \in R |-> body(i, r, h2)]
      BY <1>6
    <3>2. ASSUME NEW r \in R PROVE body(i, r, h1) = body(i, r, h2)
      BY <1>2, <1>16, <2>1
    <3> HIDE DEF body, R, G
    <3>3. QED
      BY <3>1, <3>2
  <2> HIDE DEF D, V, G
  <2>2. QED
    BY <2>1 DEF LocalIn
<1>8. \E f \in [D -> V] : IsRecursive(f, D, G)
  <2> HIDE DEF D, V, G
  <2>1. QED
    BY <1>2, <1>4, <1>6, <1>7, Recursion
<1>9. \E f \in [D -> V] : f = [i \in D |-> [r \in R |-> body(i, r, f)]]
  <2>1. PICK f \in [D -> V] : f = [i \in D |-> G[i][f]]
    BY <1>8 DEF IsRecursive
  <2>2. \A i \in D : G[i][f] = [r \in R |-> body(i, r, f)]
    BY <1>6
  <2> HIDE DEF body, G, V, R, D
  <2>3. f = [i \in D |-> [r \in R |-> body(i, r, f)]]
    BY <2>1, <2>2
  <2>4. QED
    BY <2>3
<1>11. from = [i \in D |-> [r \in R |-> body(i, r, from)]]
  <2> HIDE DEF body, V, R, D
  <2>1. QED
    BY <1>9, <1>10
<1>12. \A i \in D : \A r \in R : Extremes(u, i, r) => Extremes(u, n, from[i][r])
  <2> DEFINE Good == {i \in D : \A r \in R : Extremes(u, i, r) => Extremes(u, n, from[i][r])}
  <2>1. ASSUME NEW i \in D, \A e \in D : m[e] < m[i] => e \in Good PROVE i \in Good
    <3>1. SUFFICES ASSUME NEW r \in R, Extremes(u, i, r) PROVE Extremes(u, n, from[i][r])
      OBVIOUS
    <3>2. from[i][r] = body(i, r, from)
      <4> HIDE DEF body, R, D
      <4>1. QED
        BY <1>11
    <3>3. CASE i = n
      BY <1>16, <3>1, <3>2, <3>3
    <3>4. CASE i # n /\ i + 1 = n
      BY <1>5, <1>16, <3>1, <3>2, <3>4
    <3>5. CASE i # n /\ i + 1 # n
      <4> HIDE DEF R, D
      <4>1. Extremes(u, i + 2, pair(i, r))
        BY <1>5, <3>1, <3>5
      <4>2. pair(i, r) \in R
        BY <1>3, <3>5
      <4>3. i + 2 \in Good
        BY <1>2, <2>1, <3>5
      <4>4. Extremes(u, n, from[i + 2][pair(i, r)])
        BY <4>1, <4>2, <4>3
      <4>5. QED
        BY <1>16, <3>2, <3>5, <4>4
    <3>6. QED
      BY <3>3, <3>4, <3>5
  <2>2. D \subseteq Good
    <3> HIDE DEF Good, D
    <3>1. QED
      BY <1>2, <2>1, ByMeasure
  <2>3. QED
    BY <2>2
<1>13. CASE n = 1
  <2> 1 <= n
    BY <1>13
  <2>1. FirstLeast(u, 1, 0) /\ LastGreatest(u, 1, 0)
    BY ExtremesStart
  <2>2. QED
    BY <1>1, <1>13, <2>1 DEF Extremes
<1>14. CASE n # 1
  <2>1. 2 \in D /\ start \in R /\ 2 <= n
    BY <1>14
  <2>2. Extremes(u, 2, start)
    BY <2>1, TwoFirst
  <2> HIDE DEF D, R, start
  <2>3. Extremes(u, n, from[2][start])
    BY <1>12, <2>1, <2>2
  <2>4. QED
    BY <1>1, <1>14, <2>3
<1>15. QED
  BY <1>13, <1>14
-----------------------------------------------------------------------------
(* Predicates of the elements of one range.                                *)

IsEvery(f, n, H) == f = [i \in 0 .. n |-> i = n \/ (i \in H /\ f[i + 1])]

LEMMA Every ==
  ASSUME NEW n \in Nat, NEW H
  PROVE  /\ \E f : IsEvery(f, n, H)
         /\ \A f : IsEvery(f, n, H) => f[0] = (0 .. n - 1 \subseteq H)
<1> DEFINE D == 0 .. n
           m == [i \in D |-> n - i]
           g == [i \in D |-> i .. n - 1 \subseteq H]
<1>1. \A i \in D : g[i] = (i .. n - 1 \subseteq H) /\ g[i] \in BOOLEAN
  OBVIOUS
<1>2. ASSUME NEW i \in D PROVE g[i] = (i = n \/ (i \in H /\ g[i + 1]))
  <2>1. CASE i = n
    BY <1>1, <2>1
  <2>2. CASE i # n
    <3>1. i + 1 \in D
      BY <2>2
    <3>2. \A k : k \in i .. n - 1 <=> k = i \/ k \in i + 1 .. n - 1
      BY <2>2
    <3>3. i .. n - 1 \subseteq H <=> i \in H /\ i + 1 .. n - 1 \subseteq H
      BY <3>2
    <3> HIDE DEF g
    <3>4. QED
      BY <1>1, <2>2, <3>1, <3>3
  <2>3. QED
    BY <2>1, <2>2
<1>3. IsEvery(g, n, H)
  <2>1. g = [i \in D |-> g[i]]
    OBVIOUS
  <2> HIDE DEF g
  <2>2. QED
    BY <1>2, <2>1 DEF IsEvery
<1> HIDE DEF g
<1>4. ASSUME NEW f, IsEvery(f, n, H) PROVE f[0] = g[0]
  <2>1. ASSUME NEW i \in D, \A k \in D : m[k] < m[i] => f[k] = g[k] PROVE f[i] = g[i]
    <3>1. f[i] = (i = n \/ (i \in H /\ f[i + 1])) /\ g[i] = (i = n \/ (i \in H /\ g[i + 1]))
      BY <1>3, <1>4 DEF IsEvery
    <3>2. i # n => f[i + 1] = g[i + 1]
      <4>1. i # n => i + 1 \in D /\ m[i + 1] < m[i]
        OBVIOUS
      <4>2. QED
        BY <2>1, <4>1
    <3>3. CASE i = n
      BY <3>1, <3>3
    <3>4. CASE i # n
      BY <3>1, <3>2, <3>4
    <3>5. QED
      BY <3>3, <3>4
  <2>2. m \in [D -> Nat] /\ 0 \in D
    OBVIOUS
  <2> HIDE DEF m, D
  <2>3. SameOn(D, f, g)
    BY <2>1, <2>2, Agree
  <2>4. QED
    BY <2>2, <2>3 DEF SameOn
<1>5. g[0] = (0 .. n - 1 \subseteq H)
  BY <1>1
<1>6. QED
  BY <1>3, <1>4, <1>5

IsSome(f, n, H) == f = [i \in 0 .. n |-> i < n /\ (i \in H \/ f[i + 1])]

LEMMA Some ==
  ASSUME NEW n \in Nat, NEW H
  PROVE  /\ \E f : IsSome(f, n, H)
         /\ \A f : IsSome(f, n, H) => f[0] = (\E i \in 0 .. n - 1 : i \in H)
<1> DEFINE D == 0 .. n
           m == [i \in D |-> n - i]
           g == [i \in D |-> \E k \in i .. n - 1 : k \in H]
<1>1. \A i \in D : g[i] = (\E k \in i .. n - 1 : k \in H) /\ g[i] \in BOOLEAN
  OBVIOUS
<1>2. ASSUME NEW i \in D PROVE g[i] = (i < n /\ (i \in H \/ g[i + 1]))
  <2>1. CASE i = n
    <3>1. i .. n - 1 = {} /\ ~(i < n)
      BY <2>1
    <3>2. ~ \E k \in i .. n - 1 : k \in H
      BY <3>1
    <3>3. g[i] = FALSE
      <4> HIDE DEF g
      <4>1. QED
        BY <1>1, <3>2
    <3> HIDE DEF g
    <3>4. QED
      BY <3>1, <3>3
  <2>2. CASE i # n
    <3>1. i + 1 \in D /\ i < n
      BY <2>2
    <3>2. \A k : k \in i .. n - 1 <=> k = i \/ k \in i + 1 .. n - 1
      BY <2>2
    <3>3. (\E k \in i .. n - 1 : k \in H) <=> i \in H \/ \E k \in i + 1 .. n - 1 : k \in H
      BY <3>2
    <3> HIDE DEF g
    <3>4. QED
      BY <1>1, <2>2, <3>1, <3>3
  <2>3. QED
    BY <2>1, <2>2
<1>3. IsSome(g, n, H)
  <2>1. g = [i \in D |-> g[i]]
    OBVIOUS
  <2> HIDE DEF g
  <2>2. QED
    BY <1>2, <2>1 DEF IsSome
<1> HIDE DEF g
<1>4. ASSUME NEW f, IsSome(f, n, H) PROVE f[0] = g[0]
  <2>1. ASSUME NEW i \in D, \A k \in D : m[k] < m[i] => f[k] = g[k] PROVE f[i] = g[i]
    <3>1. f[i] = (i < n /\ (i \in H \/ f[i + 1])) /\ g[i] = (i < n /\ (i \in H \/ g[i + 1]))
      BY <1>3, <1>4 DEF IsSome
    <3>2. i # n => f[i + 1] = g[i + 1]
      <4>1. i # n => i + 1 \in D /\ m[i + 1] < m[i]
        OBVIOUS
      <4>2. QED
        BY <2>1, <4>1
    <3>3. CASE i = n
      BY <3>1, <3>3
    <3>4. CASE i # n
      BY <3>1, <3>2, <3>4
    <3>5. QED
      BY <3>3, <3>4
  <2>2. m \in [D -> Nat] /\ 0 \in D
    OBVIOUS
  <2> HIDE DEF m, D
  <2>3. SameOn(D, f, g)
    BY <2>1, <2>2, Agree
  <2>4. QED
    BY <2>2, <2>3 DEF SameOn
<1>5. g[0] = (\E i \in 0 .. n - 1 : i \in H)
  <2>1. 0 \in D
    OBVIOUS
  <2> HIDE DEF D
  <2>2. QED
    BY <1>1, <2>1, Zenon
<1>6. QED
  BY <1>3, <1>4, <1>5

LEMMA AllAnyNone ==
  ASSUME NEW u, NEW n \in Nat, NEW T
  PROVE  /\ E!all_of(u, n, T) = (\A i \in 0 .. n - 1 : u[i] \in T)
         /\ E!any_of(u, n, T) = (\E i \in 0 .. n - 1 : u[i] \in T)
         /\ E!none_of(u, n, T) = (\A i \in 0 .. n - 1 : u[i] \notin T)
<1> DEFINE H == {i \in 0 .. n : u[i] \in T}
           N == {i \in 0 .. n : u[i] \notin T}
           all[i \in 0 .. n] == i = n \/ (u[i] \in T /\ all[i + 1])
           any[i \in 0 .. n] == i < n /\ (u[i] \in T \/ any[i + 1])
           none[i \in 0 .. n] == i = n \/ (u[i] \notin T /\ none[i + 1])
<1>1. E!all_of(u, n, T) = all[0] /\ E!any_of(u, n, T) = any[0] /\ E!none_of(u, n, T) = none[0]
  BY DEF E!all_of, E!any_of, E!none_of
<1>2. \A i \in 0 .. n : (i \in H <=> u[i] \in T) /\ (i \in N <=> u[i] \notin T)
  OBVIOUS
<1>3. /\ 0 .. n - 1 \subseteq H <=> \A i \in 0 .. n - 1 : u[i] \in T
      /\ (\E i \in 0 .. n - 1 : i \in H) <=> \E i \in 0 .. n - 1 : u[i] \in T
      /\ 0 .. n - 1 \subseteq N <=> \A i \in 0 .. n - 1 : u[i] \notin T
  OBVIOUS
<1> HIDE DEF H, N
<1>4. all[0] = (0 .. n - 1 \subseteq H)
  <2>1. \A f : IsEvery(f, n, H) <=> f = [i \in 0 .. n |-> i = n \/ (u[i] \in T /\ f[i + 1])]
    BY <1>2 DEF IsEvery
  <2>2. (\E f : IsEvery(f, n, H)) /\ \A f : IsEvery(f, n, H) => f[0] = (0 .. n - 1 \subseteq H)
    BY Every
  <2>3. IsEvery(all, n, H)
    BY <2>1, <2>2
  <2> HIDE DEF all
  <2>4. QED
    BY <2>2, <2>3
<1>5. any[0] = (\E i \in 0 .. n - 1 : i \in H)
  <2>1. \A f : IsSome(f, n, H) <=> f = [i \in 0 .. n |-> i < n /\ (u[i] \in T \/ f[i + 1])]
    BY <1>2 DEF IsSome
  <2>2. (\E f : IsSome(f, n, H)) /\ \A f : IsSome(f, n, H) => f[0] = (\E i \in 0 .. n - 1 : i \in H)
    BY Some
  <2>3. IsSome(any, n, H)
    BY <2>1, <2>2
  <2> HIDE DEF any
  <2>4. QED
    BY <2>2, <2>3
<1>6. none[0] = (0 .. n - 1 \subseteq N)
  <2>1. \A f : IsEvery(f, n, N) <=> f = [i \in 0 .. n |-> i = n \/ (u[i] \notin T /\ f[i + 1])]
    BY <1>2 DEF IsEvery
  <2>2. (\E f : IsEvery(f, n, N)) /\ \A f : IsEvery(f, n, N) => f[0] = (0 .. n - 1 \subseteq N)
    BY Every
  <2>3. IsEvery(none, n, N)
    BY <2>1, <2>2
  <2> HIDE DEF none
  <2>4. QED
    BY <2>2, <2>3
<1> HIDE DEF all, any, none
<1>7. QED
  BY <1>1, <1>3, <1>4, <1>5, <1>6

LEMMA IsPartitioned ==
  ASSUME NEW u, NEW n \in Nat, NEW T
  PROVE  E!is_partitioned(u, n, T)
           = (\A i, j \in 0 .. n - 1 : i < j /\ u[j] \in T => u[i] \in T)
<1> DEFINE N == {i \in 0 .. n - 1 : u[i] \notin T}
           e == E!find_if_not(u, n, T)
           rest == [i \in 0 .. n - e - 1 |-> u[e + i]]
<1>1. E!is_partitioned(u, n, T) = E!none_of(rest, n - e, T)
  BY DEF E!is_partitioned
<1>2. e = LeastOr(N, n) /\ N \in SUBSET (0 .. n - 1)
  BY FindIfNot
<1>3. \A i \in 0 .. n - 1 : i \in N <=> u[i] \notin T
  OBVIOUS
<1> HIDE DEF e, N
<1>4. e \in 0 .. n /\ (\A i \in N : e <= i) /\ (e < n => e \in N)
  BY <1>2, LeastOrProps
<1>5. n - e \in Nat
  BY <1>4
<1>6. E!none_of(rest, n - e, T) = (\A i \in 0 .. n - e - 1 : rest[i] \notin T)
  <2> HIDE DEF rest
  <2> DEFINE k == n - e
  <2>1. k \in Nat
    BY <1>5
  <2> HIDE DEF k
  <2>2. E!none_of(rest, k, T) = (\A i \in 0 .. k - 1 : rest[i] \notin T)
    BY <2>1, AllAnyNone
  <2>3. QED
    BY <2>2 DEF k
<1>7. (\A i \in 0 .. n - e - 1 : rest[i] \notin T) <=> \A i \in e .. n - 1 : u[i] \notin T
  <2>1. \A i \in 0 .. n - e - 1 : rest[i] = u[e + i] /\ e + i \in e .. n - 1
    BY <1>4
  <2>2. \A i \in e .. n - 1 : i - e \in 0 .. n - e - 1 /\ e + (i - e) = i
    BY <1>4
  <2> HIDE DEF rest
  <2>3. QED
    BY <2>1, <2>2
<1>8. (\A i \in e .. n - 1 : u[i] \notin T)
      <=> \A i, j \in 0 .. n - 1 : i < j /\ u[j] \in T => u[i] \in T
  <2>1. ASSUME \A i \in e .. n - 1 : u[i] \notin T, NEW i \in 0 .. n - 1, NEW j \in 0 .. n - 1,
               i < j, u[j] \in T
        PROVE  u[i] \in T
    <3>1. j \notin e .. n - 1
      BY <2>1
    <3>2. j < e
      BY <1>4, <3>1
    <3>3. i < e
      BY <1>4, <2>1, <3>2
    <3>4. i \notin N
      BY <1>4, <3>3
    <3>5. QED
      BY <1>3, <3>4
  <2>2. ASSUME \A i, j \in 0 .. n - 1 : i < j /\ u[j] \in T => u[i] \in T,
               NEW i \in e .. n - 1
        PROVE  u[i] \notin T
    <3>1. e < n /\ i \in 0 .. n - 1 /\ e \in 0 .. n - 1
      BY <1>4
    <3>2. u[e] \notin T
      BY <1>3, <1>4, <3>1
    <3>3. CASE i = e
      BY <3>2, <3>3
    <3>4. CASE i # e
      <4>1. e < i
        BY <1>4, <3>4
      <4>2. QED
        BY <2>2, <3>1, <3>2, <4>1
    <3>5. QED
      BY <3>3, <3>4
  <2>3. QED
    BY <2>1, <2>2
<1>9. QED
  BY <1>1, <1>6, <1>7, <1>8
-----------------------------------------------------------------------------
(* Counting.                                                               *)

Places(u, i, n, T) == {k \in i .. n - 1 : u[k] \in T}
HowMany(u, i, n, T) == Cardinality(Places(u, i, n, T))

LEMMA PlacesFinite ==
  ASSUME NEW u, NEW i \in Int, NEW n \in Int, NEW T
  PROVE  IsFiniteSet(Places(u, i, n, T)) /\ HowMany(u, i, n, T) \in Nat
<1>1. IsFiniteSet(i .. n - 1)
  <2>1. n - 1 \in Int
    OBVIOUS
  <2>2. QED
    BY <2>1, FS_Interval
<1>2. Places(u, i, n, T) \in SUBSET (i .. n - 1)
  BY DEF Places
<1>3. IsFiniteSet(Places(u, i, n, T))
  BY <1>1, <1>2, FS_Subset
<1>4. QED
  BY <1>3, FS_CardinalityType DEF HowMany

LEMMA PlacesSplit ==
  ASSUME NEW u, NEW i \in Int, NEW k \in Int, NEW n \in Int, i <= k, k <= n, NEW T
  PROVE  HowMany(u, i, n, T) = HowMany(u, i, k, T) + HowMany(u, k, n, T)
<1> DEFINE A == Places(u, i, k, T)
           B == Places(u, k, n, T)
<1>1. IsFiniteSet(A) /\ IsFiniteSet(B) /\ Cardinality(A) \in Nat /\ Cardinality(B) \in Nat
  BY PlacesFinite DEF HowMany
<1>2. A \cap B = {}
  BY DEF Places
<1>3. A \cup B = Places(u, i, n, T)
  <2>1. \A l : l \in i .. n - 1 <=> l \in i .. k - 1 \/ l \in k .. n - 1
    OBVIOUS
  <2>2. QED
    BY <2>1 DEF Places
<1>4. HowMany(u, i, n, T) = Cardinality(A \cup B) /\ HowMany(u, i, k, T) = Cardinality(A)
      /\ HowMany(u, k, n, T) = Cardinality(B)
  BY <1>3 DEF HowMany
<1> HIDE DEF A, B
<1>5. Cardinality(A \cup B) = Cardinality(A) + Cardinality(B) - Cardinality(A \cap B)
  BY <1>1, FS_Union
<1>6. Cardinality(A \cap B) = 0
  BY <1>2, FS_EmptySet
<1>7. QED
  BY <1>1, <1>4, <1>5, <1>6

LEMMA PlacesNone ==
  ASSUME NEW u, NEW i, NEW n, NEW T, \A k \in i .. n - 1 : u[k] \notin T
  PROVE  HowMany(u, i, n, T) = 0
<1>1. Places(u, i, n, T) = {}
  BY DEF Places
<1>2. QED
  BY <1>1, FS_EmptySet DEF HowMany

LEMMA PlacesOne ==
  ASSUME NEW u, NEW i \in Int, NEW T
  PROVE  HowMany(u, i, i + 1, T) = IF u[i] \in T THEN 1 ELSE 0
<1>1. \A k : k \in i .. (i + 1) - 1 <=> k = i
  OBVIOUS
<1>2. CASE u[i] \in T
  <2>1. Places(u, i, i + 1, T) = {i}
    BY <1>1, <1>2 DEF Places
  <2>2. QED
    BY <1>2, <2>1, FS_Singleton DEF HowMany
<1>3. CASE u[i] \notin T
  <2>1. \A k \in i .. (i + 1) - 1 : u[k] \notin T
    BY <1>1, <1>3
  <2>2. HowMany(u, i, i + 1, T) = 0
    BY <2>1, PlacesNone
  <2>3. QED
    BY <1>3, <2>2
<1>4. QED
  BY <1>2, <1>3

LEMMA PlacesDown ==
  ASSUME NEW u, NEW i \in Int, NEW n \in Int, i < n, NEW T
  PROVE  HowMany(u, i, n, T) = (IF u[i] \in T THEN 1 ELSE 0) + HowMany(u, i + 1, n, T)
<1>1. i + 1 \in Int /\ i <= i + 1 /\ i + 1 <= n
  OBVIOUS
<1>2. HowMany(u, i, n, T) = HowMany(u, i, i + 1, T) + HowMany(u, i + 1, n, T)
  BY <1>1, PlacesSplit
<1>3. QED
  BY <1>2, PlacesOne

LEMMA PlacesUp ==
  ASSUME NEW u, NEW i \in Int, NEW n \in Int, i <= n, NEW T
  PROVE  HowMany(u, i, n + 1, T) = HowMany(u, i, n, T) + (IF u[n] \in T THEN 1 ELSE 0)
<1>1. n + 1 \in Int /\ n <= n + 1
  OBVIOUS
<1>2. HowMany(u, i, n + 1, T) = HowMany(u, i, n, T) + HowMany(u, n, n + 1, T)
  BY <1>1, PlacesSplit
<1>3. QED
  BY <1>2, PlacesOne

LEMMA PlacesSome ==
  ASSUME NEW u, NEW i \in Int, NEW n \in Int, NEW T, NEW k \in i .. n - 1, u[k] \in T
  PROVE  HowMany(u, i, n, T) >= 1
<1>1. k \in Int /\ i <= k /\ k <= n /\ k < n /\ k + 1 \in Int
  OBVIOUS
<1>2. HowMany(u, i, n, T) = HowMany(u, i, k, T) + HowMany(u, k, n, T)
  BY <1>1, PlacesSplit
<1>3. HowMany(u, k, n, T) = (IF u[k] \in T THEN 1 ELSE 0) + HowMany(u, k + 1, n, T)
  BY <1>1, PlacesDown
<1>4. HowMany(u, i, k, T) \in Nat /\ HowMany(u, k + 1, n, T) \in Nat
  BY <1>1, PlacesFinite
<1>5. HowMany(u, k, n, T) = 1 + HowMany(u, k + 1, n, T)
  BY <1>3
<1>6. QED
  BY <1>2, <1>4, <1>5

LEMMA CountIf ==
  ASSUME NEW u, NEW n \in Nat, NEW T
  PROVE  E!count_if(u, n, T) = HowMany(u, 0, n, T)
<1> DEFINE step == [i \in 1 .. n |-> [c \in Nat |-> IF u[i - 1] \in T THEN c + 1 ELSE c]]
           Good == {p \in (0 .. n) \X Nat : p[2] = HowMany(u, 0, p[1], T)}
           upto[i \in 0 .. n] ==
             IF i = 0 THEN 0 ELSE IF u[i - 1] \in T THEN upto[i - 1] + 1 ELSE upto[i - 1]
<1>1. E!count_if(u, n, T) = upto[n]
  BY DEF E!count_if
<1>2. step \in [1 .. n -> [Nat -> Nat]]
      /\ \A i \in 1 .. n : \A c \in Nat : step[i][c] = IF u[i - 1] \in T THEN c + 1 ELSE c
  OBVIOUS
<1>3. \A i, c : <<i, c>> \in Good <=> i \in 0 .. n /\ c \in Nat /\ c = HowMany(u, 0, i, T)
  OBVIOUS
<1> HIDE DEF step, Good
<1>4. <<0, 0>> \in Good
  <2>1. \A k \in 0 .. 0 - 1 : u[k] \notin T
    OBVIOUS
  <2>2. HowMany(u, 0, 0, T) = 0
    BY <2>1, PlacesNone
  <2>3. QED
    BY <1>3, <2>2
<1>5. ASSUME NEW i \in 1 .. n, NEW c \in Nat, <<i - 1, c>> \in Good
      PROVE  <<i, step[i][c]>> \in Good
  <2> DEFINE k == i - 1
  <2>1. k \in Int /\ 0 \in Int /\ 0 <= k /\ k + 1 = i /\ i \in 0 .. n
    OBVIOUS
  <2>2. c = HowMany(u, 0, k, T)
    BY <1>3, <1>5
  <2>3. step[i][c] = IF u[k] \in T THEN c + 1 ELSE c
    BY <1>2
  <2> HIDE DEF k
  <2>4. HowMany(u, 0, k + 1, T) = HowMany(u, 0, k, T) + (IF u[k] \in T THEN 1 ELSE 0)
    BY <2>1, PlacesUp
  <2>5. step[i][c] = HowMany(u, 0, i, T) /\ step[i][c] \in Nat
    BY <2>1, <2>2, <2>3, <2>4
  <2>6. QED
    BY <1>3, <2>1, <2>5
<1>6. /\ \E f : IsClimb(f, n, 0, step)
      /\ \A f : IsClimb(f, n, 0, step) => \A i \in 0 .. n : f[i] \in Nat /\ <<i, f[i]>> \in Good
  <2> DEFINE V == Nat
  <2>1. 0 \in V /\ step \in [1 .. n -> [V -> V]]
    BY <1>2
  <2>2. \A i \in 1 .. n : \A x \in V : <<i - 1, x>> \in Good => <<i, step[i][x]>> \in Good
    BY <1>5
  <2> HIDE DEF V
  <2>3. /\ \E f : IsClimb(f, n, 0, step)
        /\ \A f : IsClimb(f, n, 0, step) => \A i \in 0 .. n : f[i] \in V /\ <<i, f[i]>> \in Good
    BY <1>4, <2>1, <2>2, Climb
  <2>4. QED
    BY <2>3 DEF V
<1>7. PICK h : IsClimb(h, n, 0, step)
  BY <1>6
<1>8. \A i \in 0 .. n : h[i] \in Nat /\ h[i] = HowMany(u, 0, i, T)
  BY <1>3, <1>6, <1>7
<1>9. h = [i \in 0 .. n |-> IF i = 0 THEN 0 ELSE IF u[i - 1] \in T THEN h[i - 1] + 1 ELSE h[i - 1]]
  <2>1. ASSUME NEW i \in 0 .. n, i # 0
        PROVE  step[i][h[i - 1]] = IF u[i - 1] \in T THEN h[i - 1] + 1 ELSE h[i - 1]
    <3>1. i \in 1 .. n /\ i - 1 \in 0 .. n
      BY <2>1
    <3>2. h[i - 1] \in Nat
      BY <1>8, <3>1
    <3>3. QED
      BY <1>2, <3>1, <3>2
  <2>2. QED
    BY <1>7, <2>1 DEF IsClimb
<1>10. upto = [i \in 0 .. n |-> IF i = 0 THEN 0
                                ELSE IF u[i - 1] \in T THEN upto[i - 1] + 1 ELSE upto[i - 1]]
  BY <1>9
<1> HIDE DEF upto
<1>11. SameOn(0 .. n, upto, h)
  <2> DEFINE D == 0 .. n
             m == [i \in D |-> i]
  <2>1. m \in [D -> Nat] /\ \A i \in D : i # 0 => i - 1 \in D /\ m[i - 1] < m[i]
    OBVIOUS
  <2>2. ASSUME NEW i \in D, \A e \in D : m[e] < m[i] => upto[e] = h[e] PROVE upto[i] = h[i]
    <3>1. i # 0 => upto[i - 1] = h[i - 1]
      BY <2>1, <2>2
    <3>2. /\ upto[i] = IF i = 0 THEN 0
                       ELSE IF u[i - 1] \in T THEN upto[i - 1] + 1 ELSE upto[i - 1]
          /\ h[i] = IF i = 0 THEN 0 ELSE IF u[i - 1] \in T THEN h[i - 1] + 1 ELSE h[i - 1]
      BY <1>9, <1>10
    <3>3. QED
      BY <3>1, <3>2
  <2> HIDE DEF m, D
  <2>3. SameOn(D, upto, h)
    BY <2>1, <2>2, Agree
  <2>4. QED
    BY <2>3 DEF D
<1>12. upto[n] = HowMany(u, 0, n, T)
  <2>1. n \in 0 .. n
    OBVIOUS
  <2>2. QED
    BY <1>8, <1>11, <2>1 DEF SameOn
<1>13. QED
  BY <1>1, <1>12
-----------------------------------------------------------------------------
(* Bounds.                                                                 *)

(* Of the k places from f on, holds is true before p, and false from p on. *)
IsPoint(holds, f, k, p) ==
  p \in f .. f + k /\ (\A i \in f .. p - 1 : holds[i]) /\ \A i \in p .. f + k - 1 : ~holds[i]
Point(holds, f, k) == CHOOSE p : IsPoint(holds, f, k, p)

(* The precondition of a binary search: what holds of a place holds of all *)
(* those before it.                                                        *)
Falling(holds, first, n) ==
  \A i, j \in first .. first + n - 1 : i < j /\ holds[j] => holds[i]

LEMMA PointOnly ==
  ASSUME NEW holds, NEW f \in Int, NEW k \in Int, NEW p, IsPoint(holds, f, k, p)
  PROVE  Point(holds, f, k) = p
<1>1. ASSUME NEW x, NEW y, IsPoint(holds, f, k, x), IsPoint(holds, f, k, y), x < y PROVE FALSE
  <2>1. x \in Int /\ y \in Int /\ x \in f .. y - 1 /\ x \in x .. f + k - 1
    BY <1>1 DEF IsPoint
  <2>2. QED
    BY <1>1, <2>1 DEF IsPoint
<1>2. IsPoint(holds, f, k, Point(holds, f, k))
  BY DEF Point
<1>3. p \in Int /\ Point(holds, f, k) \in Int
  BY <1>2 DEF IsPoint
<1>4. QED
  BY <1>1, <1>2, <1>3

LEMMA PointIs ==
  ASSUME NEW holds, NEW first \in Int, NEW n \in Int, Falling(holds, first, n),
         NEW f \in Int, NEW k \in Nat, first <= f, f + k <= first + n
  PROVE  IsPoint(holds, f, k, Point(holds, f, k))
<1> DEFINE N == {i \in f .. f + k - 1 : ~holds[i]}
<1>1. CASE N = {}
  <2>1. f + k \in f .. f + k /\ (f + k) .. f + k - 1 = {}
    OBVIOUS
  <2>2. \A i \in f .. (f + k) - 1 : holds[i]
    BY <1>1
  <2>3. IsPoint(holds, f, k, f + k)
    BY <2>1, <2>2 DEF IsPoint
  <2>4. QED
    BY <2>3 DEF Point
<1>2. CASE N # {}
  <2>1. N \in SUBSET Int /\ \A i \in N : f <= i
    OBVIOUS
  <2>2. PICK p \in N : \A i \in N : p <= i
    <3> HIDE DEF N
    <3>1. QED
      BY <1>2, <2>1, LeastFrom
  <2>3. p \in f .. f + k - 1 /\ p \in f .. f + k /\ ~holds[p]
    OBVIOUS
  <2>4. \A i \in f .. p - 1 : i \in f .. f + k - 1 /\ ~(p <= i)
    BY <2>3
  <2>5. \A i \in f .. p - 1 : holds[i]
    BY <2>2, <2>4
  <2>6. ASSUME NEW i \in p .. f + k - 1 PROVE ~holds[i]
    <3>1. i \in first .. first + n - 1 /\ p \in first .. first + n - 1 /\ (i = p \/ p < i)
      BY <2>3
    <3>2. QED
      BY <2>3, <3>1 DEF Falling
  <2>7. IsPoint(holds, f, k, p)
    BY <2>3, <2>5, <2>6 DEF IsPoint
  <2>8. QED
    BY <2>7 DEF Point
<1>3. QED
  BY <1>1, <1>2

(* The point is in the part that a look at place f + h leaves.             *)
LEMMA PointHalf ==
  ASSUME NEW holds, NEW first \in Int, NEW n \in Int, Falling(holds, first, n),
         NEW f \in Int, NEW k \in Nat, first <= f, f + k <= first + n, NEW h \in 0 .. k - 1
  PROVE  /\ holds[f + h] => Point(holds, f, k) = Point(holds, f + h + 1, k - h - 1)
         /\ ~holds[f + h] => Point(holds, f, k) = Point(holds, f, h)
<1> DEFINE f2 == f + h + 1
           k2 == k - h - 1
<1>1. /\ f2 \in Int /\ k2 \in Nat /\ h \in Nat /\ first <= f2 /\ f2 + k2 <= first + n
      /\ f + h <= first + n /\ f2 + k2 = f + k /\ f + h \in f .. f + k - 1
  OBVIOUS
<1>2. f + h \in first .. first + n - 1 /\ \A i \in f .. f + k - 1 : i \in first .. first + n - 1
  OBVIOUS
<1>3. ASSUME holds[f + h] PROVE Point(holds, f, k) = Point(holds, f2, k2)
  <2> HIDE DEF f2, k2
  <2> DEFINE p == Point(holds, f2, k2)
  <2>1. IsPoint(holds, f2, k2, p)
    BY <1>1, PointIs
  <2> HIDE DEF p
  <2>2. p \in f .. f + k
    BY <1>1, <2>1 DEF IsPoint, f2, k2
  <2>3. ASSUME NEW i \in f .. p - 1 PROVE holds[i]
    <3>1. i \in f2 .. p - 1 \/ i = f + h \/ (i \in f .. f + k - 1 /\ i < f + h)
      BY <1>1, <2>2 DEF f2
    <3>2. QED
      BY <1>2, <1>3, <2>1, <3>1 DEF IsPoint, Falling
  <2>4. \A i \in p .. f + k - 1 : ~holds[i]
    BY <1>1, <2>1 DEF IsPoint
  <2>5. IsPoint(holds, f, k, p)
    BY <2>2, <2>3, <2>4 DEF IsPoint
  <2>6. Point(holds, f, k) = p
    BY <2>5, PointOnly
  <2>7. QED
    BY <2>6 DEF p
<1>4. ASSUME ~holds[f + h] PROVE Point(holds, f, k) = Point(holds, f, h)
  <2> DEFINE p == Point(holds, f, h)
  <2>1. IsPoint(holds, f, h, p)
    BY <1>1, PointIs
  <2> HIDE DEF p
  <2>2. p \in f .. f + h /\ p \in f .. f + k
    BY <1>1, <2>1 DEF IsPoint
  <2>3. ASSUME NEW i \in p .. f + k - 1 PROVE ~holds[i]
    <3>1. i \in p .. f + h - 1 \/ i = f + h \/ (i \in f .. f + k - 1 /\ f + h < i)
      BY <1>1, <2>2
    <3>2. QED
      BY <1>2, <1>4, <2>1, <3>1 DEF IsPoint, Falling
  <2>4. IsPoint(holds, f, k, p)
    BY <2>1, <2>2, <2>3 DEF IsPoint
  <2>5. Point(holds, f, k) = p
    BY <2>4, PointOnly
  <2>6. QED
    BY <2>5 DEF p
<1>5. QED
  BY <1>3, <1>4

LEMMA PartitionPointN ==
  ASSUME NEW holds, NEW first \in Int, NEW n \in Nat, Falling(holds, first, n)
  PROVE  S!partition_point_n(holds, first, n) = Point(holds, first, n)
<1> DEFINE D == 0 .. n
           R(k) == first .. first + n - k
           m == [k \in D |-> k]
           g == [k \in D |-> [f \in R(k) |-> Point(holds, f, k)]]
           body(k, f, h) ==
             LET half == k \div 2 IN
             IF k = 0 THEN f
             ELSE IF holds[f + half] THEN h[k - half - 1][f + half + 1] ELSE h[half][f]
           point[k \in 0 .. n] ==
             LET half == k \div 2 IN
             [f \in first .. first + n - k |->
                IF k = 0 THEN f
                ELSE IF holds[f + half] THEN point[k - half - 1][f + half + 1] ELSE point[half][f]]
<1>1. S!partition_point_n(holds, first, n) = point[n][first]
  BY DEF S!partition_point_n
<1>2. point = CHOOSE h : h = [k \in D |-> [f \in R(k) |-> body(k, f, h)]]
  OBVIOUS
<1> HIDE DEF point
<1>3. \A k \in D : \A f \in R(k) : g[k][f] = Point(holds, f, k)
  OBVIOUS
<1>4. /\ m \in [D -> Nat]
      /\ \A k \in D : k # 0 =>
           LET half == k \div 2 IN
           /\ half \in 0 .. k - 1
           /\ k - half - 1 \in D /\ m[k - half - 1] < m[k] /\ half \in D /\ m[half] < m[k]
           /\ \A f \in R(k) : f + half + 1 \in R(k - half - 1) /\ f \in R(half)
  OBVIOUS
<1>5. \A k \in D : k \in Nat /\ \A f \in R(k) : f \in Int /\ first <= f /\ f + k <= first + n
  OBVIOUS
<1> HIDE DEF g, m, D, R
<1>6. ASSUME NEW k \in D, NEW f \in R(k) PROVE Point(holds, f, k) = body(k, f, g)
  <2>1. CASE k = 0
    <3>1. f \in f .. f + 0 /\ f .. f - 1 = {} /\ f .. f + 0 - 1 = {}
      BY <1>5
    <3>2. IsPoint(holds, f, 0, f)
      BY <3>1 DEF IsPoint
    <3>3. f \in Int /\ 0 \in Int
      BY <1>5
    <3>4. Point(holds, f, 0) = f
      BY <3>2, <3>3, PointOnly
    <3>5. QED
      BY <2>1, <3>4
  <2>2. CASE k # 0
    <3> DEFINE half == k \div 2
    <3>1. /\ half \in 0 .. k - 1 /\ k - half - 1 \in D /\ half \in D
          /\ f + half + 1 \in R(k - half - 1) /\ f \in R(half)
      BY <1>4, <2>2
    <3>2. body(k, f, g) = IF holds[f + half] THEN g[k - half - 1][f + half + 1] ELSE g[half][f]
      BY <2>2
    <3>3. k \in Nat /\ f \in Int /\ first <= f /\ f + k <= first + n
      BY <1>5
    <3> HIDE DEF half, body
    <3>4. /\ holds[f + half] => Point(holds, f, k) = Point(holds, f + half + 1, k - half - 1)
          /\ ~holds[f + half] => Point(holds, f, k) = Point(holds, f, half)
      BY <3>1, <3>3, PointHalf
    <3>5. /\ g[k - half - 1][f + half + 1] = Point(holds, f + half + 1, k - half - 1)
          /\ g[half][f] = Point(holds, f, half)
      BY <1>3, <3>1
    <3>6. QED
      BY <3>2, <3>4, <3>5
  <2>3. QED
    BY <2>1, <2>2
<1>7. g = [k \in D |-> [f \in R(k) |-> body(k, f, g)]]
  <2>1. g = [k \in D |-> [f \in R(k) |-> Point(holds, f, k)]]
    BY DEF g
  <2> HIDE DEF body
  <2>2. \A k \in D : [f \in R(k) |-> Point(holds, f, k)] = [f \in R(k) |-> body(k, f, g)]
    BY <1>6
  <2>3. [k \in D |-> [f \in R(k) |-> Point(holds, f, k)]]
        = [k \in D |-> [f \in R(k) |-> body(k, f, g)]]
    BY <2>2
  <2>4. QED
    BY <2>1, <2>3
<1>8. point = [k \in D |-> [f \in R(k) |-> body(k, f, point)]]
  <2> HIDE DEF body
  <2>1. QED
    BY <1>2, <1>7
<1>9. ASSUME NEW k \in D, \A e \in D : m[e] < m[k] => point[e] = g[e] PROVE point[k] = g[k]
  <2>1. ASSUME NEW f \in R(k) PROVE body(k, f, point) = body(k, f, g)
    <3>1. CASE k = 0
      BY <3>1
    <3>2. CASE k # 0
      <4> DEFINE half == k \div 2
      <4>1. point[k - half - 1] = g[k - half - 1] /\ point[half] = g[half]
        BY <1>4, <1>9, <3>2
      <4>2. QED
        BY <4>1
    <3>3. QED
      BY <3>1, <3>2
  <2> HIDE DEF body
  <2>2. [f \in R(k) |-> body(k, f, point)] = [f \in R(k) |-> body(k, f, g)]
    BY <2>1
  <2>3. point[k] = [f \in R(k) |-> body(k, f, point)]
    BY <1>8
  <2>4. g[k] = [f \in R(k) |-> body(k, f, g)]
    BY <1>7
  <2>5. QED
    BY <2>2, <2>3, <2>4
<1>10. SameOn(D, point, g)
  BY <1>4, <1>9, Agree
<1>11. n \in D /\ first \in R(n)
  BY DEF D, R
<1>12. point[n][first] = Point(holds, first, n)
  BY <1>3, <1>10, <1>11 DEF SameOn
<1>13. QED
  BY <1>1, <1>12

LEMMA FallingPart ==
  ASSUME NEW holds, NEW first \in Int, NEW n \in Int, Falling(holds, first, n),
         NEW f \in Int, NEW k \in Int, first <= f, f + k <= first + n
  PROVE  Falling(holds, f, k)
<1>1. \A i \in f .. f + k - 1 : i \in first .. first + n - 1
  OBVIOUS
<1>2. QED
  BY <1>1 DEF Falling

(* Past a place where it holds, the point can be looked for from there.    *)
LEMMA PointStep ==
  ASSUME NEW holds, NEW first \in Int, NEW n \in Int, Falling(holds, first, n),
         NEW f \in Int, NEW k \in Nat, first <= f, f + k <= first + n, NEW h \in 0 .. k - 1
  PROVE  holds[f + h] => Point(holds, f, k) = Point(holds, f + h, k - h)
<1>1. ASSUME holds[f + h] PROVE Point(holds, f, k) = Point(holds, f + h, k - h)
  <2> DEFINE f2 == f + h
             k2 == k - h
  <2>1. Point(holds, f, k) = Point(holds, f + h + 1, k - h - 1)
    BY <1>1, PointHalf
  <2>2. /\ f2 \in Int /\ k2 \in Nat /\ first <= f2 /\ f2 + k2 <= first + n /\ 0 \in 0 .. k2 - 1
        /\ f2 + 0 = f2 /\ f2 + 0 + 1 = f + h + 1 /\ k2 - 0 - 1 = k - h - 1
    OBVIOUS
  <2>3. holds[f2 + 0]
    BY <1>1, <2>2
  <2> HIDE DEF f2, k2
  <2>4. Point(holds, f2, k2) = Point(holds, f2 + 0 + 1, k2 - 0 - 1)
    BY <2>2, <2>3, PointHalf
  <2>5. QED
    BY <2>1, <2>2, <2>4 DEF f2, k2
<1>2. QED
  BY <1>1

LEMMA PartitionPoint ==
  ASSUME NEW holds, NEW first \in Int, NEW n \in Nat, Falling(holds, first, n)
  PROVE  S!partition_point(holds, first, n) = Point(holds, first, n)
<1> DEFINE D == first .. first + n
           R == 1 .. 2 * n + 1
           m == [f \in D |-> first + n - f]
           g == [f \in D |-> [step \in R |-> Point(holds, f, first + n - f)]]
           body(f, step, h) ==
             LET left == first + n - f IN
             IF step >= left THEN S!partition_point_n(holds, f, left)
             ELSE IF ~holds[f + step] THEN S!partition_point_n(holds, f, step)
             ELSE h[f + step][2 * step]
           from[f \in first .. first + n] ==
             LET left == first + n - f IN
             [step \in 1 .. 2 * n + 1 |->
                IF step >= left THEN S!partition_point_n(holds, f, left)
                ELSE IF ~holds[f + step] THEN S!partition_point_n(holds, f, step)
                ELSE from[f + step][2 * step]]
<1>1. S!partition_point(holds, first, n) = from[first][1]
  BY DEF S!partition_point
<1>2. from = CHOOSE h : h = [f \in D |-> [step \in R |-> body(f, step, h)]]
  OBVIOUS
<1> HIDE DEF from
<1>3. \A f \in D : \A step \in R : g[f][step] = Point(holds, f, first + n - f)
  OBVIOUS
<1>4. /\ m \in [D -> Nat]
      /\ \A f \in D : \A step \in R : step < first + n - f =>
           f + step \in D /\ m[f + step] < m[f] /\ 2 * step \in R
  OBVIOUS
<1>5. \A f \in D : f \in Int /\ first <= f /\ first + n - f \in Nat /\ f + (first + n - f) <= first + n
  OBVIOUS
<1>6. \A step \in R : step \in Nat /\ step \in Int
  OBVIOUS
<1>7. ASSUME NEW f \in D, NEW k \in Nat, f + k <= first + n
      PROVE  S!partition_point_n(holds, f, k) = Point(holds, f, k)
  <2>1. f \in Int /\ first <= f /\ k \in Int
    BY <1>5
  <2>2. Falling(holds, f, k)
    BY <1>7, <2>1, FallingPart
  <2>3. QED
    BY <2>1, <2>2, PartitionPointN
<1> HIDE DEF g, m, D, R
<1>8. ASSUME NEW f \in D, NEW step \in R PROVE Point(holds, f, first + n - f) = body(f, step, g)
  <2> DEFINE left == first + n - f
  <2>1. f \in Int /\ first <= f /\ left \in Nat /\ f + left <= first + n /\ step \in Nat
    BY <1>5, <1>6
  <2>2. body(f, step, g) = IF step >= left THEN S!partition_point_n(holds, f, left)
                           ELSE IF ~holds[f + step] THEN S!partition_point_n(holds, f, step)
                           ELSE g[f + step][2 * step]
    OBVIOUS
  <2>3. step < left => f + step \in D /\ 2 * step \in R /\ first + n - (f + step) = left - step
    BY <1>4, <2>1
  <2> HIDE DEF left, body
  <2>4. CASE step >= left
    BY <1>7, <2>1, <2>2, <2>4 DEF left
  <2>5. CASE ~(step >= left)
    <3>1. step \in 0 .. left - 1 /\ f + step <= first + n /\ step < left
      BY <2>1, <2>5
    <3>2. CASE ~holds[f + step]
      <4>1. Point(holds, f, left) = Point(holds, f, step)
        BY <2>1, <3>1, <3>2, PointHalf
      <4>2. S!partition_point_n(holds, f, step) = Point(holds, f, step)
        BY <1>7, <2>1, <3>1
      <4>3. QED
        BY <2>2, <2>5, <3>2, <4>1, <4>2 DEF left
    <3>3. CASE holds[f + step]
      <4>1. Point(holds, f, left) = Point(holds, f + step, left - step)
        BY <2>1, <3>1, <3>3, PointStep
      <4>2. g[f + step][2 * step] = Point(holds, f + step, left - step)
        BY <1>3, <2>3, <3>1
      <4>3. QED
        BY <2>2, <2>5, <3>3, <4>1, <4>2 DEF left
    <3>4. QED
      BY <3>2, <3>3
  <2>6. QED
    BY <2>4, <2>5
<1>9. g = [f \in D |-> [step \in R |-> body(f, step, g)]]
  <2>1. g = [f \in D |-> [step \in R |-> Point(holds, f, first + n - f)]]
    BY DEF g
  <2> HIDE DEF body
  <2>2. \A f \in D : [step \in R |-> Point(holds, f, first + n - f)] = [step \in R |-> body(f, step, g)]
    BY <1>8
  <2>3. [f \in D |-> [step \in R |-> Point(holds, f, first + n - f)]]
        = [f \in D |-> [step \in R |-> body(f, step, g)]]
    BY <2>2
  <2>4. QED
    BY <2>1, <2>3
<1>10. from = [f \in D |-> [step \in R |-> body(f, step, from)]]
  <2> HIDE DEF body
  <2>1. QED
    BY <1>2, <1>9
<1>11. ASSUME NEW f \in D, \A e \in D : m[e] < m[f] => from[e] = g[e] PROVE from[f] = g[f]
  <2>1. ASSUME NEW step \in R PROVE body(f, step, from) = body(f, step, g)
    <3>1. CASE step >= first + n - f
      BY <3>1
    <3>2. CASE ~(step >= first + n - f)
      <4>1. step < first + n - f
        BY <1>5, <1>6, <3>2
      <4>2. from[f + step] = g[f + step]
        BY <1>4, <1>11, <4>1
      <4>3. QED
        BY <4>2
    <3>3. QED
      BY <3>1, <3>2
  <2> HIDE DEF body
  <2>2. [step \in R |-> body(f, step, from)] = [step \in R |-> body(f, step, g)]
    BY <2>1
  <2>3. from[f] = [step \in R |-> body(f, step, from)]
    BY <1>10
  <2>4. g[f] = [step \in R |-> body(f, step, g)]
    BY <1>9
  <2>5. QED
    BY <2>2, <2>3, <2>4
<1>12. SameOn(D, from, g)
  BY <1>4, <1>11, Agree
<1>13. first \in D /\ 1 \in R /\ first + n - first = n
  BY DEF D, R
<1>14. from[first][1] = Point(holds, first, n)
  BY <1>3, <1>12, <1>13 DEF SameOn
<1>15. QED
  BY <1>1, <1>14

(* The two bounds.                                                         *)
Ends(u, v, f, k) == <<Point(S!before(u, v), f, k), Point(S!not_after(u, v), f, k)>>

LEMMA SortedFalls ==
  ASSUME NEW n \in Nat, NEW u \in [0 .. n - 1 -> Int], Sorted(u), NEW v \in Int
  PROVE  Falling(S!before(u, v), 0, n) /\ Falling(S!not_after(u, v), 0, n)
<1>1. \A i \in 0 .. n - 1 : /\ u[i] \in Int
                            /\ S!before(u, v)[i] = (u[i] < v)
                            /\ S!not_after(u, v)[i] = ~(v < u[i])
  BY DEF S!before, S!not_after, less
<1>2. \A i, j \in 0 .. n - 1 : i < j => ~(u[j] < u[i])
  BY DEF Sorted, less
<1>3. \A i : i \in 0 .. 0 + n - 1 <=> i \in 0 .. n - 1
  OBVIOUS
<1>4. ASSUME NEW i \in 0 .. n - 1, NEW j \in 0 .. n - 1, i < j
      PROVE  /\ S!before(u, v)[j] => S!before(u, v)[i]
             /\ S!not_after(u, v)[j] => S!not_after(u, v)[i]
  <2>1. ~(u[j] < u[i]) /\ u[i] \in Int /\ u[j] \in Int
    BY <1>1, <1>2, <1>4
  <2>2. (u[j] < v => u[i] < v) /\ (~(v < u[j]) => ~(v < u[i]))
    BY <2>1
  <2>3. QED
    BY <1>1, <2>2
<1>5. QED
  BY <1>3, <1>4 DEF Falling

LEMMA BoundsAre ==
  ASSUME NEW n \in Nat, NEW u \in [0 .. n - 1 -> Int], Sorted(u), NEW v \in Int,
         NEW f \in Nat, NEW k \in Nat, f + k <= n
  PROVE  /\ S!lower_bound(u, f, k, v) = Point(S!before(u, v), f, k)
         /\ S!upper_bound(u, f, k, v) = Point(S!not_after(u, v), f, k)
<1>1. Falling(S!before(u, v), 0, n) /\ Falling(S!not_after(u, v), 0, n)
  BY SortedFalls
<1>2. 0 \in Int /\ n \in Int /\ f \in Int /\ k \in Int /\ 0 <= f /\ f + k <= 0 + n
  OBVIOUS
<1>3. Falling(S!before(u, v), f, k) /\ Falling(S!not_after(u, v), f, k)
  BY <1>1, <1>2, FallingPart
<1>4. QED
  BY <1>2, <1>3, PartitionPointN DEF S!lower_bound, S!upper_bound

(* A look at place f + h leaves both bounds in one part, or parts them.    *)
Parts(u, v, f, k, h) ==
  /\ u[f + h] < v => Ends(u, v, f, k) = Ends(u, v, f + h + 1, k - h - 1)
  /\ v < u[f + h] => Ends(u, v, f, k) = Ends(u, v, f, h)
  /\ ~(u[f + h] < v) /\ ~(v < u[f + h]) =>
       /\ Ends(u, v, f, k) = <<S!lower_bound(u, f, h, v), S!upper_bound(u, f + h + 1, k - h - 1, v)>>
       /\ Ends(u, v, f, k) = <<S!lower_bound(u, f, h, v), S!upper_bound(u, f + h, k - h, v)>>

LEMMA EndsHalf ==
  ASSUME NEW n \in Nat, NEW u \in [0 .. n - 1 -> Int], Sorted(u), NEW v \in Int,
         NEW f \in Nat, NEW k \in Nat, f + k <= n, NEW h \in 0 .. k - 1
  PROVE  Parts(u, v, f, k, h)
<1> DEFINE B == S!before(u, v)
           A == S!not_after(u, v)
<1>1. Falling(B, 0, n) /\ Falling(A, 0, n)
  BY SortedFalls
<1>2. f + h \in 0 .. n - 1 /\ u[f + h] \in Int
  OBVIOUS
<1>3. B[f + h] = (u[f + h] < v) /\ A[f + h] = ~(v < u[f + h])
  BY <1>2 DEF S!before, S!not_after, less
<1>4. \A i, j : Ends(u, v, i, j) = <<Point(B, i, j), Point(A, i, j)>>
  BY DEF Ends
<1>5. \A i \in Nat, j \in Nat : i + j <= n =>
        S!lower_bound(u, i, j, v) = Point(B, i, j) /\ S!upper_bound(u, i, j, v) = Point(A, i, j)
  BY BoundsAre
<1> HIDE DEF A, B
<1>6. /\ 0 \in Int /\ n \in Int /\ f \in Int /\ 0 <= f /\ f + k <= 0 + n
      /\ f + h + 1 \in Nat /\ k - h - 1 \in Nat /\ (f + h + 1) + (k - h - 1) <= n
      /\ f + h \in Nat /\ k - h \in Nat /\ (f + h) + (k - h) <= n /\ h \in Nat /\ f + h <= n
  OBVIOUS
<1>15. \A x : Falling(x, 0, n) =>
         /\ x[f + h] => Point(x, f, k) = Point(x, f + h + 1, k - h - 1)
         /\ ~x[f + h] => Point(x, f, k) = Point(x, f, h)
  <2>1. ASSUME NEW x, Falling(x, 0, n), x[f + h]
        PROVE  Point(x, f, k) = Point(x, f + h + 1, k - h - 1)
    BY <1>6, <2>1, PointHalf
  <2>2. ASSUME NEW x, Falling(x, 0, n), ~x[f + h]
        PROVE  Point(x, f, k) = Point(x, f, h)
    BY <1>6, <2>2, PointHalf
  <2>3. QED
    BY <2>1, <2>2
<1>7. /\ B[f + h] => Point(B, f, k) = Point(B, f + h + 1, k - h - 1)
      /\ ~B[f + h] => Point(B, f, k) = Point(B, f, h)
  BY <1>1, <1>15
<1>8. /\ A[f + h] => Point(A, f, k) = Point(A, f + h + 1, k - h - 1)
      /\ ~A[f + h] => Point(A, f, k) = Point(A, f, h)
  BY <1>1, <1>15
<1>9. A[f + h] => Point(A, f, k) = Point(A, f + h, k - h)
  BY <1>1, <1>6, PointStep, SMTT(30)
<1>10. /\ S!lower_bound(u, f, h, v) = Point(B, f, h)
       /\ S!upper_bound(u, f + h + 1, k - h - 1, v) = Point(A, f + h + 1, k - h - 1)
       /\ S!upper_bound(u, f + h, k - h, v) = Point(A, f + h, k - h)
  BY <1>5, <1>6
<1>11. ASSUME u[f + h] < v PROVE Ends(u, v, f, k) = Ends(u, v, f + h + 1, k - h - 1)
  <2>1. ~(v < u[f + h])
    BY <1>2, <1>11
  <2>2. QED
    BY <1>3, <1>4, <1>7, <1>8, <1>11, <2>1
<1>12. ASSUME v < u[f + h] PROVE Ends(u, v, f, k) = Ends(u, v, f, h)
  <2>1. ~(u[f + h] < v)
    BY <1>2, <1>12
  <2>2. QED
    BY <1>3, <1>4, <1>7, <1>8, <1>12, <2>1
<1>13. ASSUME ~(u[f + h] < v), ~(v < u[f + h])
       PROVE  /\ Ends(u, v, f, k) = <<S!lower_bound(u, f, h, v), S!upper_bound(u, f + h + 1, k - h - 1, v)>>
              /\ Ends(u, v, f, k) = <<S!lower_bound(u, f, h, v), S!upper_bound(u, f + h, k - h, v)>>
  BY <1>3, <1>4, <1>7, <1>8, <1>9, <1>10, <1>13
<1>14. QED
  BY <1>11, <1>12, <1>13 DEF Parts

LEMMA EqualRangeN ==
  ASSUME NEW n \in Nat, NEW u \in [0 .. n - 1 -> Int], Sorted(u), NEW v \in Int,
         NEW f \in Nat, NEW k \in Nat, f + k <= n
  PROVE  S!equal_range_n(u, f, k, v) = Ends(u, v, f, k)
<1> DEFINE D == 0 .. k
           R(d) == f .. f + k - d
           m == [d \in D |-> d]
           g == [d \in D |-> [i \in R(d) |-> Ends(u, v, i, d)]]
           body(d, i, h) ==
             LET half == d \div 2 IN
             IF d = 0 THEN <<i, i>>
             ELSE IF u[i + half] < v THEN h[d - half - 1][i + half + 1]
             ELSE IF v < u[i + half] THEN h[half][i]
             ELSE <<S!lower_bound(u, i, half, v), S!upper_bound(u, i + half + 1, d - half - 1, v)>>
           range[dist \in 0 .. k] ==
             LET half == dist \div 2 IN
             [i \in f .. f + k - dist |->
                IF dist = 0 THEN <<i, i>>
                ELSE IF u[i + half] < v THEN range[dist - half - 1][i + half + 1]
                ELSE IF v < u[i + half] THEN range[half][i]
                ELSE <<S!lower_bound(u, i, half, v), S!upper_bound(u, i + half + 1, dist - half - 1, v)>>]
<1>1. S!equal_range_n(u, f, k, v) = range[k][f]
  BY DEF S!equal_range_n, less
<1>2. range = CHOOSE h : h = [d \in D |-> [i \in R(d) |-> body(d, i, h)]]
  OBVIOUS
<1> HIDE DEF range
<1>3. \A d \in D : \A i \in R(d) : g[d][i] = Ends(u, v, i, d)
  OBVIOUS
<1>4. /\ m \in [D -> Nat]
      /\ \A d \in D : d # 0 =>
           LET half == d \div 2 IN
           /\ half \in 0 .. d - 1
           /\ d - half - 1 \in D /\ m[d - half - 1] < m[d] /\ half \in D /\ m[half] < m[d]
           /\ \A i \in R(d) : i + half + 1 \in R(d - half - 1) /\ i \in R(half)
  OBVIOUS
<1>5. \A d \in D : d \in Nat /\ \A i \in R(d) : i \in Nat /\ i + d <= n
  OBVIOUS
<1> HIDE DEF g, m, D, R
<1>6. ASSUME NEW d \in D, NEW i \in R(d) PROVE Ends(u, v, i, d) = body(d, i, g)
  <2>1. CASE d = 0
    <3>1. i \in i .. i + 0 /\ i .. i - 1 = {} /\ i .. i + 0 - 1 = {} /\ i \in Int /\ 0 \in Int
      BY <1>5
    <3>2. \A holds : IsPoint(holds, i, 0, i)
      BY <3>1 DEF IsPoint
    <3>3. \A holds : Point(holds, i, 0) = i
      BY <3>1, <3>2, PointOnly
    <3>4. QED
      BY <2>1, <3>3 DEF Ends
  <2>2. CASE d # 0
    <3> DEFINE half == d \div 2
    <3>1. /\ half \in 0 .. d - 1 /\ d - half - 1 \in D /\ half \in D
          /\ i + half + 1 \in R(d - half - 1) /\ i \in R(half)
      BY <1>4, <2>2
    <3>2. body(d, i, g) =
            IF u[i + half] < v THEN g[d - half - 1][i + half + 1]
            ELSE IF v < u[i + half] THEN g[half][i]
            ELSE <<S!lower_bound(u, i, half, v), S!upper_bound(u, i + half + 1, d - half - 1, v)>>
      BY <2>2
    <3>3. d \in Nat /\ i \in Nat /\ i + d <= n
      BY <1>5
    <3> HIDE DEF half, body
    <3>4. /\ u[i + half] < v => Ends(u, v, i, d) = Ends(u, v, i + half + 1, d - half - 1)
          /\ v < u[i + half] => Ends(u, v, i, d) = Ends(u, v, i, half)
          /\ ~(u[i + half] < v) /\ ~(v < u[i + half]) =>
               Ends(u, v, i, d)
               = <<S!lower_bound(u, i, half, v), S!upper_bound(u, i + half + 1, d - half - 1, v)>>
      <4>1. Parts(u, v, i, d, half)
        BY <3>1, <3>3, EndsHalf
      <4>2. QED
        BY <4>1 DEF Parts
    <3>5. /\ g[d - half - 1][i + half + 1] = Ends(u, v, i + half + 1, d - half - 1)
          /\ g[half][i] = Ends(u, v, i, half)
      BY <1>3, <3>1
    <3>6. QED
      BY <3>2, <3>4, <3>5
  <2>3. QED
    BY <2>1, <2>2
<1>7. g = [d \in D |-> [i \in R(d) |-> body(d, i, g)]]
  <2>1. g = [d \in D |-> [i \in R(d) |-> Ends(u, v, i, d)]]
    BY DEF g
  <2> HIDE DEF body
  <2>2. \A d \in D : [i \in R(d) |-> Ends(u, v, i, d)] = [i \in R(d) |-> body(d, i, g)]
    BY <1>6
  <2>3. [d \in D |-> [i \in R(d) |-> Ends(u, v, i, d)]] = [d \in D |-> [i \in R(d) |-> body(d, i, g)]]
    BY <2>2
  <2>4. QED
    BY <2>1, <2>3
<1>8. range = [d \in D |-> [i \in R(d) |-> body(d, i, range)]]
  <2> HIDE DEF body
  <2>1. QED
    BY <1>2, <1>7
<1>9. ASSUME NEW d \in D, \A e \in D : m[e] < m[d] => range[e] = g[e] PROVE range[d] = g[d]
  <2>1. ASSUME NEW i \in R(d) PROVE body(d, i, range) = body(d, i, g)
    <3>1. CASE d = 0
      BY <3>1
    <3>2. CASE d # 0
      <4> DEFINE half == d \div 2
      <4>1. range[d - half - 1] = g[d - half - 1] /\ range[half] = g[half]
        BY <1>4, <1>9, <3>2
      <4>2. QED
        BY <4>1
    <3>3. QED
      BY <3>1, <3>2
  <2> HIDE DEF body
  <2>2. [i \in R(d) |-> body(d, i, range)] = [i \in R(d) |-> body(d, i, g)]
    BY <2>1
  <2>3. range[d] = [i \in R(d) |-> body(d, i, range)]
    BY <1>8
  <2>4. g[d] = [i \in R(d) |-> body(d, i, g)]
    BY <1>7
  <2>5. QED
    BY <2>2, <2>3, <2>4
<1>10. SameOn(D, range, g)
  BY <1>4, <1>9, Agree
<1>11. k \in D /\ f \in R(k)
  BY DEF D, R
<1>12. range[k][f] = Ends(u, v, f, k)
  BY <1>3, <1>10, <1>11 DEF SameOn
<1>13. QED
  BY <1>1, <1>12

LEMMA EqualRange ==
  ASSUME NEW n \in Nat, NEW u \in [0 .. n - 1 -> Int], Sorted(u), NEW v \in Int
  PROVE  S!equal_range(u, 0, n, v) = Ends(u, v, 0, n)
<1> DEFINE D == 0 .. 0 + n
           R == 1 .. 2 * n + 1
           m == [f \in D |-> n - f]
           g == [f \in D |-> [dist \in R |-> Ends(u, v, f, 0 + n - f)]]
           body(f, dist, h) ==
             LET left == 0 + n - f IN
             IF dist >= left THEN S!equal_range_n(u, f, left, v)
             ELSE IF v < u[f + dist] THEN S!equal_range_n(u, f, dist, v)
             ELSE IF ~(u[f + dist] < v)
                  THEN <<S!lower_bound(u, f, dist, v), S!upper_bound(u, f + dist, left - dist, v)>>
             ELSE h[f + dist + 1][2 * dist]
           from[f \in 0 .. 0 + n] ==
             LET left == 0 + n - f IN
             [dist \in 1 .. 2 * n + 1 |->
                IF dist >= left THEN S!equal_range_n(u, f, left, v)
                ELSE IF v < u[f + dist] THEN S!equal_range_n(u, f, dist, v)
                ELSE IF ~(u[f + dist] < v)
                     THEN <<S!lower_bound(u, f, dist, v), S!upper_bound(u, f + dist, left - dist, v)>>
                ELSE from[f + dist + 1][2 * dist]]
<1>1. S!equal_range(u, 0, n, v) = from[0][1]
  BY DEF S!equal_range, less
<1>2. from = CHOOSE h : h = [f \in D |-> [dist \in R |-> body(f, dist, h)]]
  OBVIOUS
<1> HIDE DEF from
<1>3. \A f \in D : \A dist \in R : g[f][dist] = Ends(u, v, f, 0 + n - f)
  OBVIOUS
<1>4. /\ m \in [D -> Nat]
      /\ \A f \in D : \A dist \in R : dist < 0 + n - f =>
           f + dist + 1 \in D /\ m[f + dist + 1] < m[f] /\ 2 * dist \in R
  OBVIOUS
<1>5. \A f \in D : f \in Nat /\ 0 + n - f \in Nat /\ f + (0 + n - f) <= n
  OBVIOUS
<1>6. \A dist \in R : dist \in Nat /\ dist \in Int
  OBVIOUS
<1>7. ASSUME NEW f \in Nat, NEW k \in Nat, f + k <= n
      PROVE  S!equal_range_n(u, f, k, v) = Ends(u, v, f, k)
  BY <1>7, EqualRangeN
<1> HIDE DEF g, m, D, R
<1>8. ASSUME NEW f \in D, NEW dist \in R PROVE Ends(u, v, f, 0 + n - f) = body(f, dist, g)
  <2> DEFINE left == 0 + n - f
  <2>1. f \in Nat /\ left \in Nat /\ f + left <= n /\ dist \in Nat
    BY <1>5, <1>6
  <2>2. body(f, dist, g) =
          IF dist >= left THEN S!equal_range_n(u, f, left, v)
          ELSE IF v < u[f + dist] THEN S!equal_range_n(u, f, dist, v)
          ELSE IF ~(u[f + dist] < v)
               THEN <<S!lower_bound(u, f, dist, v), S!upper_bound(u, f + dist, left - dist, v)>>
          ELSE g[f + dist + 1][2 * dist]
    OBVIOUS
  <2>3. dist < left => f + dist + 1 \in D /\ 2 * dist \in R /\ 0 + n - (f + dist + 1) = left - dist - 1
    BY <1>4, <2>1
  <2> HIDE DEF left, body
  <2>4. CASE dist >= left
    BY <1>7, <2>1, <2>2, <2>4 DEF left
  <2>5. CASE ~(dist >= left)
    <3>1. dist \in 0 .. left - 1 /\ f + dist <= n /\ dist < left
      BY <2>1, <2>5
    <3>2. /\ u[f + dist] < v => Ends(u, v, f, left) = Ends(u, v, f + dist + 1, left - dist - 1)
          /\ v < u[f + dist] => Ends(u, v, f, left) = Ends(u, v, f, dist)
          /\ ~(u[f + dist] < v) /\ ~(v < u[f + dist]) =>
               Ends(u, v, f, left)
               = <<S!lower_bound(u, f, dist, v), S!upper_bound(u, f + dist, left - dist, v)>>
      <4>1. Parts(u, v, f, left, dist)
        BY <2>1, <3>1, EndsHalf
      <4>2. QED
        BY <4>1 DEF Parts
    <3>3. S!equal_range_n(u, f, dist, v) = Ends(u, v, f, dist)
      BY <1>7, <2>1, <3>1
    <3>4. g[f + dist + 1][2 * dist] = Ends(u, v, f + dist + 1, left - dist - 1)
      BY <1>3, <2>3, <3>1
    <3>5. u[f + dist] < v => ~(v < u[f + dist])
      <4>1. u[f + dist] \in Int
        BY <2>1, <3>1
      <4>2. QED
        BY <4>1
    <3>6. Ends(u, v, f, left) = body(f, dist, g)
      BY <2>2, <2>5, <3>2, <3>3, <3>4, <3>5
    <3>7. QED
      BY <3>6 DEF left
  <2>6. QED
    BY <2>4, <2>5
<1>9. g = [f \in D |-> [dist \in R |-> body(f, dist, g)]]
  <2>1. g = [f \in D |-> [dist \in R |-> Ends(u, v, f, 0 + n - f)]]
    BY DEF g
  <2> HIDE DEF body
  <2>2. \A f \in D : [dist \in R |-> Ends(u, v, f, 0 + n - f)] = [dist \in R |-> body(f, dist, g)]
    BY <1>8
  <2>3. [f \in D |-> [dist \in R |-> Ends(u, v, f, 0 + n - f)]]
        = [f \in D |-> [dist \in R |-> body(f, dist, g)]]
    BY <2>2
  <2>4. QED
    BY <2>1, <2>3
<1>10. from = [f \in D |-> [dist \in R |-> body(f, dist, from)]]
  <2> HIDE DEF body
  <2>1. QED
    BY <1>2, <1>9
<1>11. ASSUME NEW f \in D, \A e \in D : m[e] < m[f] => from[e] = g[e] PROVE from[f] = g[f]
  <2>1. ASSUME NEW dist \in R PROVE body(f, dist, from) = body(f, dist, g)
    <3>1. CASE dist >= 0 + n - f
      BY <3>1
    <3>2. CASE ~(dist >= 0 + n - f)
      <4>1. dist < 0 + n - f
        BY <1>5, <1>6, <3>2
      <4>2. from[f + dist + 1] = g[f + dist + 1]
        BY <1>4, <1>11, <4>1
      <4>3. QED
        BY <4>2
    <3>3. QED
      BY <3>1, <3>2
  <2> HIDE DEF body
  <2>2. [dist \in R |-> body(f, dist, from)] = [dist \in R |-> body(f, dist, g)]
    BY <2>1
  <2>3. from[f] = [dist \in R |-> body(f, dist, from)]
    BY <1>10
  <2>4. g[f] = [dist \in R |-> body(f, dist, g)]
    BY <1>9
  <2>5. QED
    BY <2>2, <2>3, <2>4
<1>12. SameOn(D, from, g)
  BY <1>4, <1>11, Agree
<1>13. 0 \in D /\ 1 \in R /\ 0 + n - 0 = n
  BY DEF D, R
<1>14. from[0][1] = Ends(u, v, 0, n)
  BY <1>3, <1>12, <1>13 DEF SameOn
<1>15. QED
  BY <1>1, <1>14

(* How many elements are before each bound.                                *)
LEMMA EndsCount ==
  ASSUME NEW n \in Nat, NEW u \in [0 .. n - 1 -> Int], Sorted(u), NEW v \in Int
  PROVE  /\ Point(S!before(u, v), 0, n) = Cardinality({i \in 0 .. n - 1 : u[i] < v})
         /\ Point(S!not_after(u, v), 0, n) = Cardinality({i \in 0 .. n - 1 : u[i] <= v})
<1>1. \A i \in 0 .. n - 1 : /\ u[i] \in Int
                            /\ S!before(u, v)[i] = (u[i] < v)
                            /\ S!not_after(u, v)[i] = ~(v < u[i])
  BY DEF S!before, S!not_after, less
<1>2. ASSUME NEW holds, NEW T, T \in SUBSET (0 .. n - 1), Falling(holds, 0, n),
             \A i \in 0 .. n - 1 : i \in T <=> holds[i]
      PROVE  Point(holds, 0, n) = Cardinality(T)
  <2> DEFINE p == Point(holds, 0, n)
  <2>1. 0 \in Int /\ n \in Int /\ 0 + n <= 0 + n /\ 0 <= 0
    OBVIOUS
  <2>2. IsPoint(holds, 0, n, p)
    BY <1>2, <2>1, PointIs
  <2> HIDE DEF p
  <2>3. p \in 0 .. n /\ (\A i \in 0 .. p - 1 : holds[i]) /\ \A i \in p .. n - 1 : ~holds[i]
    BY <2>2 DEF IsPoint
  <2>4. \A i : i \in 0 .. n - 1 <=> i \in 0 .. p - 1 \/ i \in p .. n - 1
    BY <2>3
  <2>5. T = 0 .. p - 1
    BY <1>2, <2>3, <2>4
  <2>6. p - 1 \in Int /\ 0 \in Int
    BY <2>3
  <2>7. Cardinality(0 .. p - 1) = IF 0 > p - 1 THEN 0 ELSE (p - 1) - 0 + 1
    BY <2>6, FS_Interval
  <2>8. Cardinality(T) = p
    BY <2>3, <2>5, <2>7
  <2>9. QED
    BY <2>8 DEF p
<1>3. Falling(S!before(u, v), 0, n) /\ Falling(S!not_after(u, v), 0, n)
  BY SortedFalls
<1>4. \A i \in 0 .. n - 1 : u[i] <= v <=> ~(v < u[i])
  BY <1>1
<1>5. Point(S!before(u, v), 0, n) = Cardinality({i \in 0 .. n - 1 : u[i] < v})
  <2> DEFINE T == {i \in 0 .. n - 1 : u[i] < v}
  <2>1. T \in SUBSET (0 .. n - 1) /\ \A i \in 0 .. n - 1 : i \in T <=> S!before(u, v)[i]
    BY <1>1
  <2> HIDE DEF T
  <2>2. Point(S!before(u, v), 0, n) = Cardinality(T)
    BY <1>2, <1>3, <2>1
  <2>3. QED
    BY <2>2 DEF T
<1>6. Point(S!not_after(u, v), 0, n) = Cardinality({i \in 0 .. n - 1 : u[i] <= v})
  <2> DEFINE T == {i \in 0 .. n - 1 : u[i] <= v}
  <2>1. T \in SUBSET (0 .. n - 1) /\ \A i \in 0 .. n - 1 : i \in T <=> S!not_after(u, v)[i]
    BY <1>1, <1>4
  <2> HIDE DEF T
  <2>2. Point(S!not_after(u, v), 0, n) = Cardinality(T)
    BY <1>2, <1>3, <2>1
  <2>3. QED
    BY <2>2 DEF T
<1>7. QED
  BY <1>5, <1>6

LEMMA BinarySearch ==
  ASSUME NEW n \in Nat, NEW u \in [0 .. n - 1 -> Int], Sorted(u), NEW v \in Int
  PROVE  E!binary_search(u, n, v) = (\E i \in 0 .. n - 1 : u[i] = v)
<1> DEFINE p == Point(S!before(u, v), 0, n)
<1>1. E!lower_bound(u, 0, n, v) = S!lower_bound(u, 0, n, v)
  BY DEF E!lower_bound, S!lower_bound, E!partition_point_n, S!partition_point_n, E!before, S!before
<1>2. S!lower_bound(u, 0, n, v) = p
  <2>1. 0 \in Nat /\ 0 + n <= n
    OBVIOUS
  <2>2. QED
    BY <2>1, BoundsAre
<1>3. E!binary_search(u, n, v) = (p # n /\ ~(v < u[p]))
  BY <1>1, <1>2 DEF E!binary_search, less
<1>4. IsPoint(S!before(u, v), 0, n, p)
  <2>1. 0 \in Int /\ n \in Int /\ 0 + n <= 0 + n /\ 0 <= 0
    OBVIOUS
  <2>2. Falling(S!before(u, v), 0, n)
    BY SortedFalls
  <2>3. QED
    BY <2>1, <2>2, PointIs
<1> HIDE DEF p
<1>5. \A i \in 0 .. n - 1 : u[i] \in Int /\ S!before(u, v)[i] = (u[i] < v)
  BY DEF S!before, less
<1>6. p \in 0 .. n /\ (\A i \in 0 .. p - 1 : i \in 0 .. n - 1 /\ u[i] < v)
      /\ \A i \in p .. n - 1 : i \in 0 .. n - 1 /\ ~(u[i] < v)
  <2>1. p \in 0 .. n
    <3>1. p \in 0 .. 0 + n
      BY <1>4 DEF IsPoint
    <3>2. QED
      BY <3>1
  <2>2. (\A i \in 0 .. p - 1 : i \in 0 .. n - 1) /\ \A i \in p .. n - 1 : i \in 0 .. n - 1
    BY <2>1
  <2>3. /\ \A i \in 0 .. p - 1 : S!before(u, v)[i]
        /\ \A i \in p .. 0 + n - 1 : ~S!before(u, v)[i]
    BY <1>4 DEF IsPoint
  <2>4. \A i \in p .. n - 1 : ~S!before(u, v)[i]
    BY <2>1, <2>3
  <2>5. QED
    BY <1>5, <2>1, <2>2, <2>3, <2>4
<1>7. ASSUME p # n, ~(v < u[p]) PROVE \E i \in 0 .. n - 1 : u[i] = v
  <2>1. p \in p .. n - 1 /\ p \in 0 .. n - 1
    BY <1>6, <1>7
  <2>2. u[p] = v
    BY <1>5, <1>6, <1>7, <2>1
  <2>3. QED
    BY <2>1, <2>2
<1>8. ASSUME NEW i \in 0 .. n - 1, u[i] = v PROVE p # n /\ ~(v < u[p])
  <2>1. u[i] \in Int /\ ~(u[i] < v)
    BY <1>5, <1>8
  <2>2. i \notin 0 .. p - 1
    BY <1>6, <2>1
  <2>3. p <= i /\ p # n /\ p \in 0 .. n - 1
    BY <1>6, <2>2
  <2>4. p < i => ~(u[i] < u[p])
    BY <2>3 DEF Sorted, less
  <2>5. QED
    BY <1>5, <1>8, <2>3, <2>4
<1>9. QED
  BY <1>3, <1>7, <1>8
-----------------------------------------------------------------------------
(* Multisets: includes and is_permutation.                                 *)

Copies(u, i, n, v) == HowMany(u, i, n, {v})

LEMMA CopiesDown ==
  ASSUME NEW u, NEW i \in Int, NEW n \in Int, NEW v
  PROVE  /\ Copies(u, i, n, v) \in Nat
         /\ i < n /\ u[i] = v => Copies(u, i, n, v) = Copies(u, i + 1, n, v) + 1
         /\ i < n /\ u[i] # v => Copies(u, i, n, v) = Copies(u, i + 1, n, v)
<1>1. i + 1 \in Int
  OBVIOUS
<1>2. Copies(u, i, n, v) \in Nat
  BY PlacesFinite DEF Copies
<1>3. Copies(u, i + 1, n, v) \in Nat
  BY <1>1, PlacesFinite DEF Copies
<1>4. ASSUME i < n PROVE Copies(u, i, n, v) = (IF u[i] \in {v} THEN 1 ELSE 0) + Copies(u, i + 1, n, v)
  <2> DEFINE T == {v}
  <2> HIDE DEF T
  <2>1. HowMany(u, i, n, T) = (IF u[i] \in T THEN 1 ELSE 0) + HowMany(u, i + 1, n, T)
    BY <1>4, PlacesDown
  <2>2. QED
    BY <2>1 DEF T, Copies
<1>5. QED
  BY <1>2, <1>3, <1>4

LEMMA NoCopies ==
  ASSUME NEW u, NEW i, NEW n, NEW v, \A k \in i .. n - 1 : u[k] # v
  PROVE  Copies(u, i, n, v) = 0
BY PlacesNone DEF Copies

(* From i and j on, every value is as often in u as in w, or more often.   *)
Covers(u, i, n, w, j, m, V) == \A v \in V : Copies(u, i, n, v) >= Copies(w, j, m, v)

LEMMA CoversStep ==
  ASSUME NEW V \in SUBSET Int, NEW n \in Nat, NEW m \in Nat,
         NEW u \in [0 .. n - 1 -> V], NEW w \in [0 .. m - 1 -> V], Sorted(u), Sorted(w),
         NEW i \in 0 .. n, NEW j \in 0 .. m
  PROVE  /\ j = m => Covers(u, i, n, w, j, m, V)
         /\ j # m /\ (i = n \/ w[j] < u[i]) => ~Covers(u, i, n, w, j, m, V)
         /\ j # m /\ i # n /\ ~(w[j] < u[i]) =>
              (Covers(u, i, n, w, j, m, V)
               <=> Covers(u, i + 1, n, w, IF u[i] < w[j] THEN j ELSE j + 1, m, V))
<1>1. /\ \A x \in 0 .. n - 1 : u[x] \in V /\ u[x] \in Int
      /\ \A x \in 0 .. m - 1 : w[x] \in V /\ w[x] \in Int
      /\ i \in Int /\ j \in Int /\ n \in Int /\ m \in Int /\ i + 1 \in Int /\ j + 1 \in Int
  <2>1. \A x \in V : x \in Int
    OBVIOUS
  <2>2. (\A x \in 0 .. n - 1 : u[x] \in V) /\ \A x \in 0 .. m - 1 : w[x] \in V
    OBVIOUS
  <2>3. i \in Int /\ j \in Int /\ n \in Int /\ m \in Int /\ i + 1 \in Int /\ j + 1 \in Int
    OBVIOUS
  <2>4. QED
    BY <2>1, <2>2, <2>3
<1>8. ASSUME NEW v
      PROVE  /\ Copies(u, i, n, v) \in Nat /\ Copies(u, i + 1, n, v) \in Nat
             /\ Copies(w, j, m, v) \in Nat /\ Copies(w, j + 1, m, v) \in Nat
  BY <1>1, CopiesDown
<1>2. \A x, y \in 0 .. n - 1 : x <= y => u[x] <= u[y]
  BY <1>1 DEF Sorted, less
<1>3. \A x, y \in 0 .. m - 1 : x <= y => w[x] <= w[y]
  BY <1>1 DEF Sorted, less
<1>4. ASSUME j = m PROVE Covers(u, i, n, w, j, m, V)
  <2>1. ASSUME NEW v PROVE Copies(w, j, m, v) = 0
    <3>1. \A k \in j .. m - 1 : w[k] # v
      BY <1>4
    <3>2. QED
      BY <3>1, NoCopies
  <2>2. ASSUME NEW v PROVE Copies(u, i, n, v) >= Copies(w, j, m, v)
    <3>1. Copies(u, i, n, v) \in Nat /\ Copies(w, j, m, v) = 0
      BY <1>8, <2>1
    <3>2. QED
      BY <3>1
  <2>3. QED
    BY <2>2 DEF Covers
<1>5. ASSUME j # m, i = n \/ w[j] < u[i] PROVE ~Covers(u, i, n, w, j, m, V)
  <2>1. j \in 0 .. m - 1 /\ j < m /\ w[j] \in V
    BY <1>1, <1>5
  <2>2. Copies(w, j, m, w[j]) = Copies(w, j + 1, m, w[j]) + 1 /\ Copies(w, j + 1, m, w[j]) \in Nat
    <3>1. \A v : w[j] = v => Copies(w, j, m, v) = Copies(w, j + 1, m, v) + 1
      BY <1>1, <2>1, CopiesDown
    <3>2. QED
      BY <1>8, <3>1
  <2>3. ASSUME NEW k \in i .. n - 1 PROVE u[k] # w[j]
    <3>1. i \in 0 .. n - 1 /\ k \in 0 .. n - 1 /\ i <= k /\ i # n
      BY <2>3
    <3>2. u[i] <= u[k] /\ w[j] < u[i] /\ u[i] \in Int /\ u[k] \in Int /\ w[j] \in Int
      BY <1>1, <1>2, <1>5, <2>1, <3>1
    <3>3. QED
      BY <3>2
  <2>4. Copies(u, i, n, w[j]) = 0
    BY <2>3, NoCopies
  <2>5. ~(Copies(u, i, n, w[j]) >= Copies(w, j, m, w[j]))
    BY <2>2, <2>4
  <2>6. QED
    BY <2>1, <2>5 DEF Covers
<1>6. ASSUME j # m, i # n, ~(w[j] < u[i])
      PROVE  Covers(u, i, n, w, j, m, V)
             <=> Covers(u, i + 1, n, w, IF u[i] < w[j] THEN j ELSE j + 1, m, V)
  <2>1. i \in 0 .. n - 1 /\ j \in 0 .. m - 1 /\ i < n /\ j < m /\ i + 1 \in Int /\ j + 1 \in Int
    BY <1>1, <1>6
  <2>2. u[i] \in V /\ u[i] \in Int /\ w[j] \in V /\ w[j] \in Int
    BY <1>1, <2>1
  <2>3. \A v : /\ u[i] = v => Copies(u, i, n, v) = Copies(u, i + 1, n, v) + 1
               /\ u[i] # v => Copies(u, i, n, v) = Copies(u, i + 1, n, v)
    BY <1>1, <2>1, CopiesDown
  <2>4. \A v : /\ w[j] = v => Copies(w, j, m, v) = Copies(w, j + 1, m, v) + 1
               /\ w[j] # v => Copies(w, j, m, v) = Copies(w, j + 1, m, v)
    BY <1>1, <2>1, CopiesDown
  <2>5. CASE u[i] < w[j]
    <3>1. ASSUME NEW k \in j .. m - 1 PROVE w[k] # u[i]
      <4>1. k \in 0 .. m - 1 /\ j <= k
        BY <2>1, <3>1
      <4>2. w[j] <= w[k] /\ w[k] \in Int
        BY <1>1, <1>3, <2>1, <4>1
      <4>3. QED
        BY <2>2, <2>5, <4>2
    <3>2. Copies(w, j, m, u[i]) = 0
      BY <3>1, NoCopies
    <3>3. ASSUME NEW v \in V
          PROVE  Copies(u, i, n, v) >= Copies(w, j, m, v)
                 <=> Copies(u, i + 1, n, v) >= Copies(w, j, m, v)
      <4>1. Copies(u, i + 1, n, v) \in Nat /\ Copies(u, i, n, v) \in Nat
        BY <1>8
      <4>2. CASE v = u[i]
        <5>1. Copies(w, j, m, v) = 0
          BY <3>2, <4>2
        <5>2. QED
          BY <4>1, <5>1
      <4>3. CASE v # u[i]
        BY <2>3, <4>3
      <4>4. QED
        BY <4>2, <4>3
    <3>4. QED
      BY <2>5, <3>3 DEF Covers
  <2>6. CASE ~(u[i] < w[j])
    <3>1. u[i] = w[j]
      BY <1>6, <2>2, <2>6
    <3>2. ASSUME NEW v \in V
          PROVE  Copies(u, i, n, v) >= Copies(w, j, m, v)
                 <=> Copies(u, i + 1, n, v) >= Copies(w, j + 1, m, v)
      <4>1. Copies(u, i + 1, n, v) \in Nat /\ Copies(w, j + 1, m, v) \in Nat
        BY <1>8
      <4>2. CASE v = u[i]
        <5>1. /\ Copies(u, i, n, v) = Copies(u, i + 1, n, v) + 1
              /\ Copies(w, j, m, v) = Copies(w, j + 1, m, v) + 1
          BY <2>3, <2>4, <3>1, <4>2
        <5>2. QED
          BY <4>1, <5>1
      <4>3. CASE v # u[i]
        <5>1. /\ Copies(u, i, n, v) = Copies(u, i + 1, n, v)
              /\ Copies(w, j, m, v) = Copies(w, j + 1, m, v)
          BY <2>3, <2>4, <3>1, <4>3
        <5>2. QED
          BY <5>1
      <4>4. QED
        BY <4>2, <4>3
    <3>3. QED
      BY <2>6, <3>2 DEF Covers
  <2>7. QED
    BY <2>5, <2>6
<1>7. QED
  BY <1>4, <1>5, <1>6

LEMMA Includes ==
  ASSUME NEW V \in SUBSET Int, NEW n \in Nat, NEW m \in Nat,
         NEW u \in [0 .. n - 1 -> V], NEW w \in [0 .. m - 1 -> V], Sorted(u), Sorted(w)
  PROVE  S!includes(u, n, w, m) = Covers(u, 0, n, w, 0, m, V)
<1> DEFINE D == 0 .. n
           R == 0 .. m
           g == [i \in D |-> [j \in R |-> Covers(u, i, n, w, j, m, V)]]
           meas == [i \in D |-> n - i]
           body(i, j, h) == IF j = m THEN TRUE
                            ELSE IF i = n \/ w[j] < u[i] THEN FALSE
                            ELSE h[i + 1][IF u[i] < w[j] THEN j ELSE j + 1]
           from[i \in 0 .. n] ==
             [j \in 0 .. m |->
                IF j = m THEN TRUE
                ELSE IF i = n \/ w[j] < u[i] THEN FALSE
                ELSE from[i + 1][IF u[i] < w[j] THEN j ELSE j + 1]]
<1>1. S!includes(u, n, w, m) = from[0][0]
  BY DEF S!includes, less
<1>2. from = CHOOSE h : h = [i \in D |-> [j \in R |-> body(i, j, h)]]
  OBVIOUS
<1> HIDE DEF from
<1>3. \A i \in D : \A j \in R : g[i][j] = Covers(u, i, n, w, j, m, V) /\ g[i][j] \in BOOLEAN
  BY DEF Covers
<1>4. /\ meas \in [D -> Nat]
      /\ \A i \in D : i # n => i + 1 \in D /\ meas[i + 1] < meas[i]
      /\ \A j \in R : j # m => j + 1 \in R
      /\ 0 \in D /\ 0 \in R
      /\ \A i \in D : i \in 0 .. n
      /\ \A j \in R : j \in 0 .. m
  OBVIOUS
<1> HIDE DEF g, meas, D, R
<1>5. ASSUME NEW i \in D, NEW j \in R PROVE Covers(u, i, n, w, j, m, V) = body(i, j, g)
  <2>1. i \in 0 .. n /\ j \in 0 .. m
    BY <1>4
  <2>2. /\ j = m => Covers(u, i, n, w, j, m, V)
        /\ j # m /\ (i = n \/ w[j] < u[i]) => ~Covers(u, i, n, w, j, m, V)
        /\ j # m /\ i # n /\ ~(w[j] < u[i]) =>
             (Covers(u, i, n, w, j, m, V)
              <=> Covers(u, i + 1, n, w, IF u[i] < w[j] THEN j ELSE j + 1, m, V))
    BY <2>1, CoversStep
  <2>3. Covers(u, i, n, w, j, m, V) \in BOOLEAN
    BY DEF Covers
  <2>4. CASE j = m
    BY <2>2, <2>3, <2>4
  <2>5. CASE j # m /\ (i = n \/ w[j] < u[i])
    BY <2>2, <2>3, <2>5
  <2>6. CASE j # m /\ ~(i = n \/ w[j] < u[i])
    <3> DEFINE l == IF u[i] < w[j] THEN j ELSE j + 1
    <3>1. i + 1 \in D /\ l \in R
      BY <1>4, <2>6
    <3>2. body(i, j, g) = g[i + 1][l]
      BY <2>6
    <3>3. Covers(u, i, n, w, j, m, V) <=> Covers(u, i + 1, n, w, l, m, V)
      BY <2>2, <2>6
    <3> HIDE DEF l, body
    <3>4. g[i + 1][l] = Covers(u, i + 1, n, w, l, m, V) /\ g[i + 1][l] \in BOOLEAN
      BY <1>3, <3>1
    <3>5. QED
      BY <2>3, <3>2, <3>3, <3>4
  <2>7. QED
    BY <2>4, <2>5, <2>6
<1>6. g = [i \in D |-> [j \in R |-> body(i, j, g)]]
  <2>1. g = [i \in D |-> [j \in R |-> Covers(u, i, n, w, j, m, V)]]
    BY DEF g
  <2> HIDE DEF body
  <2>2. \A i \in D : [j \in R |-> Covers(u, i, n, w, j, m, V)] = [j \in R |-> body(i, j, g)]
    BY <1>5
  <2>3. [i \in D |-> [j \in R |-> Covers(u, i, n, w, j, m, V)]]
        = [i \in D |-> [j \in R |-> body(i, j, g)]]
    BY <2>2
  <2>4. QED
    BY <2>1, <2>3
<1>7. from = [i \in D |-> [j \in R |-> body(i, j, from)]]
  <2> HIDE DEF body
  <2>1. QED
    BY <1>2, <1>6
<1>8. ASSUME NEW i \in D, \A e \in D : meas[e] < meas[i] => from[e] = g[e] PROVE from[i] = g[i]
  <2>1. ASSUME NEW j \in R PROVE body(i, j, from) = body(i, j, g)
    <3>1. CASE i = n
      BY <3>1
    <3>2. CASE i # n
      <4>1. from[i + 1] = g[i + 1]
        BY <1>4, <1>8, <3>2
      <4>2. QED
        BY <4>1
    <3>3. QED
      BY <3>1, <3>2
  <2> HIDE DEF body
  <2>2. [j \in R |-> body(i, j, from)] = [j \in R |-> body(i, j, g)]
    BY <2>1
  <2>3. from[i] = [j \in R |-> body(i, j, from)]
    BY <1>7
  <2>4. g[i] = [j \in R |-> body(i, j, g)]
    BY <1>6
  <2>5. QED
    BY <2>2, <2>3, <2>4
<1>9. SameOn(D, from, g)
  BY <1>4, <1>8, Agree
<1>10. from[0][0] = Covers(u, 0, n, w, 0, m, V)
  BY <1>3, <1>4, <1>9 DEF SameOn
<1>11. QED
  BY <1>1, <1>10

LEMMA PlacesWithout ==
  ASSUME NEW u, NEW i \in Int, NEW n \in Int, NEW T, NEW x \in T
  PROVE  HowMany(u, i, n, T) = HowMany(u, i, n, T \ {x}) + Copies(u, i, n, x)
<1> DEFINE A == Places(u, i, n, T \ {x})
           B == Places(u, i, n, {x})
<1>1. IsFiniteSet(A) /\ IsFiniteSet(B) /\ Cardinality(A) \in Nat /\ Cardinality(B) \in Nat
  BY PlacesFinite DEF HowMany
<1>2. A \cap B = {} /\ A \cup B = Places(u, i, n, T)
  BY DEF Places
<1>3. /\ HowMany(u, i, n, T) = Cardinality(A \cup B) /\ HowMany(u, i, n, T \ {x}) = Cardinality(A)
      /\ Copies(u, i, n, x) = Cardinality(B)
  BY <1>2 DEF HowMany, Copies
<1> HIDE DEF A, B
<1>4. Cardinality(A \cup B) = Cardinality(A) + Cardinality(B) - Cardinality(A \cap B)
  BY <1>1, FS_Union
<1>5. Cardinality(A \cap B) = 0
  BY <1>2, FS_EmptySet
<1>6. QED
  BY <1>1, <1>3, <1>4, <1>5

(* What is as often in both, value by value, is as often in both together. *)
LEMMA SumOfCopies ==
  ASSUME NEW u, NEW w, NEW i \in Int, NEW n \in Int, NEW W, IsFiniteSet(W),
         \A v \in W : Copies(u, i, n, v) = Copies(w, i, n, v)
  PROVE  HowMany(u, i, n, W) = HowMany(w, i, n, W)
<1> DEFINE D == SUBSET W
           m == [T \in D |-> Cardinality(T)]
           Good == {T \in D : HowMany(u, i, n, T) = HowMany(w, i, n, T)}
<1>1. \A T \in D : IsFiniteSet(T) /\ Cardinality(T) \in Nat
  <2>1. \A T \in D : IsFiniteSet(T)
    BY FS_Subset
  <2>2. QED
    BY <2>1, FS_CardinalityType
<1>2. m \in [D -> Nat]
  BY <1>1
<1>3. ASSUME NEW T \in D, \A U \in D : m[U] < m[T] => U \in Good PROVE T \in Good
  <2>1. CASE T = {}
    <3>1. HowMany(u, i, n, {}) = 0 /\ HowMany(w, i, n, {}) = 0
      BY PlacesNone
    <3>2. QED
      BY <2>1, <3>1
  <2>2. CASE T # {}
    <3>1. PICK x \in T : TRUE
      BY <2>2
    <3>2. T \ {x} \in D /\ x \in W
      OBVIOUS
    <3>3. Cardinality(T \ {x}) = Cardinality(T) - 1
      BY <1>1, FS_RemoveElement
    <3>4. m[T \ {x}] < m[T]
      <4>1. m[T \ {x}] = Cardinality(T \ {x}) /\ m[T] = Cardinality(T) /\ Cardinality(T) \in Nat
        BY <1>1, <3>2
      <4>2. QED
        BY <3>3, <4>1
    <3>5. HowMany(u, i, n, T \ {x}) = HowMany(w, i, n, T \ {x})
      BY <1>3, <3>2, <3>4
    <3>6. /\ HowMany(u, i, n, T) = HowMany(u, i, n, T \ {x}) + Copies(u, i, n, x)
          /\ HowMany(w, i, n, T) = HowMany(w, i, n, T \ {x}) + Copies(w, i, n, x)
      BY PlacesWithout
    <3>7. QED
      BY <3>2, <3>5, <3>6
  <2>3. QED
    BY <2>1, <2>2
<1>4. D \subseteq Good
  <2> HIDE DEF D, m, Good
  <2>1. QED
    BY <1>2, <1>3, ByMeasure
<1>5. QED
  BY <1>4

(* Of two ranges of equal length it is enough to count the values of one.  *)
LEMMA SameCopies ==
  ASSUME NEW u, NEW w, NEW i \in Int, NEW n \in Int,
         \A k \in i .. n - 1 : Copies(u, i, n, u[k]) = Copies(w, i, n, u[k])
  PROVE  \A v : Copies(u, i, n, v) = Copies(w, i, n, v)
<1> DEFINE D == i .. n - 1
           W == {u[k] : k \in D}
           f == [k \in D |-> u[k]]
<1>1. IsFiniteSet(D)
  <2>1. n - 1 \in Int
    OBVIOUS
  <2>2. QED
    BY <2>1, FS_Interval
<1>2. IsFiniteSet(W)
  <2>1. f \in Surjection(D, W)
    BY DEF Surjection
  <2> HIDE DEF f, D, W
  <2>2. QED
    BY <1>1, <2>1, FS_Surjection
<1>3. HowMany(u, i, n, W) = HowMany(w, i, n, W)
  <2>1. \A v \in W : Copies(u, i, n, v) = Copies(w, i, n, v)
    OBVIOUS
  <2> HIDE DEF W
  <2>2. QED
    BY <1>2, <2>1, SumOfCopies
<1>4. Places(u, i, n, W) = D
  BY DEF Places
<1>5. Places(w, i, n, W) = D
  <2>1. Places(w, i, n, W) \in SUBSET D
    BY DEF Places
  <2>2. Cardinality(D) = Cardinality(Places(w, i, n, W))
    BY <1>3, <1>4 DEF HowMany
  <2> HIDE DEF D, W
  <2>3. QED
    BY <1>1, <2>1, <2>2, FS_Subset
<1>6. \A k \in D : w[k] \in W
  BY <1>5 DEF Places
<1>7. ASSUME NEW v PROVE Copies(u, i, n, v) = Copies(w, i, n, v)
  <2>1. CASE v \in W
    BY <2>1
  <2>2. CASE v \notin W
    <3>1. (\A k \in i .. n - 1 : u[k] # v) /\ \A k \in i .. n - 1 : w[k] # v
      BY <1>6, <2>2
    <3>2. Copies(u, i, n, v) = 0 /\ Copies(w, i, n, v) = 0
      BY <3>1, NoCopies
    <3>3. QED
      BY <3>2
  <2>3. QED
    BY <2>1, <2>2
<1>8. QED
  BY <1>7

LEMMA CopiesSplit ==
  ASSUME NEW u, NEW i \in Int, NEW k \in Int, NEW n \in Int, i <= k, k <= n, NEW v
  PROVE  Copies(u, i, n, v) = Copies(u, i, k, v) + Copies(u, k, n, v)
BY PlacesSplit DEF Copies

(* The elements from f on are a permutation of those of the other range.   *)
EachCounted(u, w, f, n) ==
  \A i \in f .. n - 1 : \/ \E j \in f .. i - 1 : u[j] = u[i]
                        \/ /\ Copies(w, f, n, u[i]) # 0
                           /\ 1 + Copies(u, i + 1, n, u[i]) = Copies(w, f, n, u[i])

LEMMA Counted ==
  ASSUME NEW u, NEW w, NEW f \in Int, NEW n \in Int
  PROVE  EachCounted(u, w, f, n) <=> \A v : Copies(u, f, n, v) = Copies(w, f, n, v)
<1>0. EachCounted(u, w, f, n) <=>
        \A i \in f .. n - 1 : \/ \E j \in f .. i - 1 : u[j] = u[i]
                              \/ /\ Copies(w, f, n, u[i]) # 0
                                 /\ 1 + Copies(u, i + 1, n, u[i]) = Copies(w, f, n, u[i])
  BY DEF EachCounted
<1>1. ASSUME NEW i \in f .. n - 1, ~ \E j \in f .. i - 1 : u[j] = u[i]
      PROVE  Copies(u, f, n, u[i]) = 1 + Copies(u, i + 1, n, u[i]) /\ Copies(u, i + 1, n, u[i]) \in Nat
  <2> DEFINE v == u[i]
  <2>1. i \in Int /\ f <= i /\ i <= n /\ i < n /\ i + 1 \in Int
    OBVIOUS
  <2>2. Copies(u, f, n, v) = Copies(u, f, i, v) + Copies(u, i, n, v)
    BY <2>1, CopiesSplit
  <2>3. Copies(u, f, i, v) = 0
    <3>1. \A j \in f .. i - 1 : u[j] # v
      BY <1>1
    <3> HIDE DEF v
    <3>2. QED
      BY <3>1, NoCopies
  <2>4. u[i] = v
    OBVIOUS
  <2> HIDE DEF v
  <2>5. Copies(u, i, n, v) = Copies(u, i + 1, n, v) + 1
    BY <2>1, <2>4, CopiesDown
  <2>6. Copies(u, i + 1, n, v) \in Nat
    BY <2>1, CopiesDown
  <2>7. QED
    BY <2>2, <2>3, <2>5, <2>6 DEF v
<1>2. ASSUME \A v : Copies(u, f, n, v) = Copies(w, f, n, v),
             NEW i \in f .. n - 1, ~ \E j \in f .. i - 1 : u[j] = u[i]
      PROVE  /\ Copies(w, f, n, u[i]) # 0
             /\ 1 + Copies(u, i + 1, n, u[i]) = Copies(w, f, n, u[i])
  <2>1. Copies(u, f, n, u[i]) = 1 + Copies(u, i + 1, n, u[i]) /\ Copies(u, i + 1, n, u[i]) \in Nat
    BY <1>1, <1>2
  <2>2. Copies(u, f, n, u[i]) = Copies(w, f, n, u[i])
    BY <1>2
  <2>3. QED
    BY <2>1, <2>2
<1>3. ASSUME \A i \in f .. n - 1 : \/ \E j \in f .. i - 1 : u[j] = u[i]
                                   \/ /\ Copies(w, f, n, u[i]) # 0
                                      /\ 1 + Copies(u, i + 1, n, u[i]) = Copies(w, f, n, u[i]),
             NEW k \in f .. n - 1
      PROVE  Copies(u, f, n, u[k]) = Copies(w, f, n, u[k])
  <2> DEFINE T == {i \in f .. n - 1 : u[i] = u[k]}
  <2>1. T \in SUBSET Int /\ T # {} /\ \A i \in T : f <= i
    OBVIOUS
  <2>2. PICK i \in T : \A j \in T : i <= j
    <3> HIDE DEF T
    <3>1. QED
      BY <2>1, LeastFrom
  <2>3. i \in f .. n - 1 /\ u[i] = u[k]
    OBVIOUS
  <2>4. ~ \E j \in f .. i - 1 : u[j] = u[i]
    <3>1. ASSUME NEW j \in f .. i - 1, u[j] = u[i] PROVE FALSE
      <4>1. j \in T /\ ~(i <= j)
        BY <2>3, <3>1
      <4>2. QED
        BY <2>2, <4>1
    <3>2. QED
      BY <3>1
  <2>5. Copies(u, f, n, u[i]) = 1 + Copies(u, i + 1, n, u[i])
    BY <1>1, <2>3, <2>4
  <2>6. 1 + Copies(u, i + 1, n, u[i]) = Copies(w, f, n, u[i])
    BY <1>3, <2>3, <2>4
  <2>7. QED
    BY <2>3, <2>5, <2>6
<1>4. ASSUME \A k \in f .. n - 1 : Copies(u, f, n, u[k]) = Copies(w, f, n, u[k])
      PROVE  \A v : Copies(u, f, n, v) = Copies(w, f, n, v)
  BY <1>4, SameCopies
<1>5. QED
  BY <1>0, <1>2, <1>3, <1>4

LEMMA IsPermutation ==
  ASSUME NEW V, NEW n \in Nat, NEW m \in Nat,
         NEW u \in [0 .. n - 1 -> V], NEW w \in [0 .. m - 1 -> V]
  PROVE  S!is_permutation(u, n, w, m) <=> n = m /\ \A v \in V : Copies(u, 0, n, v) = Copies(w, 0, m, v)
<1> DEFINE c == S!mismatch(u, n, w, m)
           met(i) == \E j \in c .. i - 1 : u[j] = u[i]
           c2(i) == S!Cardinality({j \in c .. m - 1 : u[i] = w[j]})
           c1(i) == 1 + S!Cardinality({j \in i + 1 .. n - 1 : u[i] = u[j]})
<1>1. S!is_permutation(u, n, w, m)
      <=> IF c = n \/ c = m THEN n = m
          ELSE n = m /\ \A i \in c .. n - 1 : met(i) \/ (c2(i) # 0 /\ c1(i) = c2(i))
  BY DEF S!is_permutation, equal_to
<1>2. \A i : c2(i) = Copies(w, c, m, u[i]) /\ c1(i) = 1 + Copies(u, i + 1, n, u[i])
  <2>1. ASSUME NEW i
        PROVE  /\ {j \in c .. m - 1 : u[i] = w[j]} = Places(w, c, m, {u[i]})
               /\ {j \in i + 1 .. n - 1 : u[i] = u[j]} = Places(u, i + 1, n, {u[i]})
    BY DEF Places
  <2>2. \A T : S!Cardinality(T) = Cardinality(T)
    BY DEF S!Cardinality, Cardinality
  <2>3. QED
    BY <2>1, <2>2 DEF Copies, HowMany
<1>3. /\ c \in 0 .. n /\ Common(u, n, w, m, c)
      /\ \A k \in Nat : Common(u, n, w, m, k) => k <= c
  BY MismatchIs
<1> HIDE DEF c, c1, c2
<1>4. c \in Nat /\ c <= n /\ c <= m /\ \A i \in 0 .. c - 1 : u[i] = w[i]
  BY <1>3 DEF Common
<1>5. SUFFICES ASSUME n = m
               PROVE  S!is_permutation(u, n, w, m) <=> \A v \in V : Copies(u, 0, n, v) = Copies(w, 0, n, v)
  BY <1>1
<1>6. \A v : Copies(u, 0, n, v) = Copies(w, 0, n, v) <=> Copies(u, c, n, v) = Copies(w, c, n, v)
  <2>1. ASSUME NEW v
        PROVE  Copies(u, 0, n, v) = Copies(w, 0, n, v) <=> Copies(u, c, n, v) = Copies(w, c, n, v)
    <3>1. 0 \in Int /\ c \in Int /\ n \in Int /\ 0 <= c /\ c <= n
      BY <1>4
    <3>2. /\ Copies(u, 0, n, v) = Copies(u, 0, c, v) + Copies(u, c, n, v)
          /\ Copies(w, 0, n, v) = Copies(w, 0, c, v) + Copies(w, c, n, v)
      BY <3>1, CopiesSplit
    <3>3. Copies(u, 0, c, v) = Copies(w, 0, c, v)
      <4>1. Places(u, 0, c, {v}) = Places(w, 0, c, {v})
        BY <1>4 DEF Places
      <4>2. QED
        BY <4>1 DEF Copies, HowMany
    <3>4. /\ Copies(u, 0, c, v) \in Nat /\ Copies(u, c, n, v) \in Nat /\ Copies(w, c, n, v) \in Nat
      BY <3>1, CopiesDown
    <3>5. QED
      BY <3>2, <3>3, <3>4
  <2>2. QED
    BY <2>1
<1>7. (\A v \in V : Copies(u, 0, n, v) = Copies(w, 0, n, v))
      <=> \A v : Copies(u, c, n, v) = Copies(w, c, n, v)
  <2>1. ASSUME NEW v, v \notin V PROVE Copies(u, 0, n, v) = Copies(w, 0, n, v)
    <3>1. (\A k \in 0 .. n - 1 : u[k] # v) /\ \A k \in 0 .. n - 1 : w[k] # v
      BY <1>5, <2>1
    <3>2. Copies(u, 0, n, v) = 0 /\ Copies(w, 0, n, v) = 0
      BY <3>1, NoCopies
    <3>3. QED
      BY <3>2
  <2>2. QED
    BY <1>6, <2>1
<1>8. CASE c = n
  <2>1. ASSUME NEW v PROVE Copies(u, c, n, v) = Copies(w, c, n, v)
    <3>1. (\A k \in c .. n - 1 : u[k] # v) /\ \A k \in c .. n - 1 : w[k] # v
      BY <1>4, <1>8
    <3>2. Copies(u, c, n, v) = 0 /\ Copies(w, c, n, v) = 0
      BY <3>1, NoCopies
    <3>3. QED
      BY <3>2
  <2>2. QED
    BY <1>1, <1>5, <1>7, <1>8, <2>1
<1>9. CASE c # n
  <2>1. S!is_permutation(u, n, w, m)
        <=> \A i \in c .. n - 1 : met(i) \/ (c2(i) # 0 /\ c1(i) = c2(i))
    BY <1>1, <1>5, <1>9
  <2>2. S!is_permutation(u, n, w, m) <=> EachCounted(u, w, c, n)
    BY <1>2, <1>5, <2>1 DEF EachCounted
  <2>3. c \in Int /\ n \in Int
    BY <1>4
  <2>4. QED
    BY <1>7, <2>2, <2>3, Counted
<1>10. QED
  BY <1>8, <1>9
-----------------------------------------------------------------------------
(* What the comparisons return.                                            *)

(* The first k elements are a heap; one range is less than the other.      *)
HeapOf(u, k) == \A i \in 1 .. k - 1 : u[(i - 1) \div 2] >= u[i]
LessThan(u, n, w, m) ==
  \/ n < m /\ Common(u, n, w, m, n)
  \/ \E k \in (0 .. n - 1) \cap (0 .. m - 1) : Common(u, n, w, m, k) /\ u[k] < w[k]

LeastAt(u, n) == LeastOr({i \in 0 .. n - 1 : \A j \in 0 .. n - 1 : u[i] <= u[j]}, 0)
GreatestAt(u, n) == GreatestOr({i \in 0 .. n - 1 : \A j \in 0 .. n - 1 : u[i] >= u[j]}, 0)
FirstGreatestAt(u, n) == LeastOr({i \in 0 .. n - 1 : \A j \in 0 .. n - 1 : u[i] >= u[j]}, 0)
SortedTo(u, n) == Max({k \in 0 .. n : \A i \in 1 .. k - 1 : ~less(u[i], u[i - 1])})

(* What an answer has to be for Compares to hold of it: about two ranges,  *)
(* about the order of one, and about what is counted in one.               *)
ComparedPair(u, n, w, m, call, results) ==
  /\ call = "mismatch" => results = {Max({k \in 0 .. n : Common(u, n, w, m, k)})}
  /\ call = "equal" => results = {n = m /\ Common(u, n, w, m, n)}
  /\ call = "lexicographical_compare" => results = {LessThan(u, n, w, m)}
  /\ call = "is_permutation" => results = {n = m /\ \A v \in Keys : Count(u, v) = Count(w, v)}
  /\ call = "includes" => results = {\A v \in Keys : Count(u, v) >= Count(w, v)}

ComparedOrder(u, n, call, results) ==
  /\ call = "is_heap_until" => results = {Max({k \in 0 .. n : HeapOf(u, k)})}
  /\ call = "min_element" => results = {LeastAt(u, n)}
  /\ call = "max_element" => results = {GreatestAt(u, n)}
  /\ call = "minmax_element" => results = {<<LeastAt(u, n), GreatestAt(u, n)>>}
  /\ call = "min" => results = {LeastAt(u, n)}
  /\ call = "max" => results = {FirstGreatestAt(u, n)}
  /\ call = "minmax" => results = {<<LeastAt(u, n), GreatestAt(u, n)>>}
  /\ call = "is_sorted" => results = {<<SortedTo(u, n), SortedTo(u, n) = n>>}
  /\ call = "is_heap" => results = {HeapOf(u, n)}

ComparedKeys(u, n, call, arg, results) ==
  /\ call = "count_if" => results = {Cardinality({i \in 0 .. n - 1 : u[i] \in arg})}
  /\ call = "all_any_none" =>
       results = {<<Range(u) \subseteq arg, Range(u) \cap arg # {}, Range(u) \cap arg = {}>>}
  /\ call = "is_partitioned" =>
       results = {\A i, j \in 0 .. n - 1 : i < j /\ u[j] \in arg => u[i] \in arg}
  /\ call = "binary_search" => results = {(arg \in Range(u))}
  /\ call = "equal_range" =>
       results = {<<Cardinality({i \in 0 .. n - 1 : u[i] < arg}),
                    Cardinality({i \in 0 .. n - 1 : u[i] <= arg})>>}

ComparedBy(u, n, w, m, call, arg, results) ==
  /\ ComparedPair(u, n, w, m, call, results)
  /\ ComparedOrder(u, n, call, results)
  /\ ComparedKeys(u, n, call, arg, results)

LEMMA ComparedByAnswer ==
  Compares <=> ComparedBy(a, n1, b, n2, answer.call, answer.arg, answer.results)
<1>1. /\ \A k : Prefix(k) <=> Common(a, n1, b, n2, k)
      /\ \A k : HeapUpTo(k) <=> HeapOf(a, k)
  BY DEF Prefix, Common, HeapUpTo, HeapOf
<1>2. /\ {k \in 0 .. n1 : Prefix(k)} = {k \in 0 .. n1 : Common(a, n1, b, n2, k)}
      /\ {k \in 0 .. n1 : HeapUpTo(k)} = {k \in 0 .. n1 : HeapOf(a, k)}
  BY <1>1
<1>3. (\/ n1 < n2 /\ Prefix(n1)
       \/ \E k \in First \cap Second : Prefix(k) /\ a[k] < b[k]) = LessThan(a, n1, b, n2)
  BY <1>1 DEF LessThan, First, Second
<1>4. (n1 = n2 /\ Prefix(n1)) = (n1 = n2 /\ Common(a, n1, b, n2, n1))
  BY <1>1
<1>5. HeapUpTo(n1) = HeapOf(a, n1)
  BY DEF HeapUpTo, HeapOf
<1>6. ComparedPair(a, n1, b, n2, answer.call, answer.results)
      <=> /\ Only("mismatch", Max({k \in 0 .. n1 : Prefix(k)}))
          /\ Only("equal", n1 = n2 /\ Prefix(n1))
          /\ Only("lexicographical_compare",
                  \/ n1 < n2 /\ Prefix(n1)
                  \/ \E k \in First \cap Second : Prefix(k) /\ a[k] < b[k])
          /\ Only("is_permutation", n1 = n2 /\ \A v \in Keys : Count(a, v) = Count(b, v))
          /\ Only("includes", \A v \in Keys : Count(a, v) >= Count(b, v))
  BY <1>2, <1>3, <1>4 DEF ComparedPair, Only
<1> DEFINE least == LeastOr({i \in First : \A j \in First : a[i] <= a[j]}, 0)
           greatest == GreatestOr({i \in First : \A j \in First : a[i] >= a[j]}, 0)
           highest == LeastOr({i \in First : \A j \in First : a[i] >= a[j]}, 0)
           sorted == Max({k \in 0 .. n1 : \A i \in 1 .. k - 1 : ~less(a[i], a[i - 1])})
           heap == Max({k \in 0 .. n1 : HeapUpTo(k)})
           order == /\ Only("is_heap_until", heap)
                    /\ Only("min_element", least)
                    /\ Only("max_element", greatest)
                    /\ Only("minmax_element", <<least, greatest>>)
                    /\ Only("min", least)
                    /\ Only("max", highest)
                    /\ Only("minmax", <<least, greatest>>)
                    /\ Only("is_sorted", <<sorted, sorted = n1>>)
                    /\ Only("is_heap", HeapUpTo(n1))
           keys == /\ answer.call = "count_if" =>
                        answer.results = {Cardinality({i \in First : a[i] \in answer.arg})}
                   /\ answer.call = "all_any_none" =>
                        answer.results = {<<Range(a) \subseteq answer.arg, Range(a) \cap answer.arg # {},
                                            Range(a) \cap answer.arg = {}>>}
                   /\ answer.call = "is_partitioned" =>
                        answer.results = {\A i, j \in First : i < j /\ a[j] \in answer.arg
                                                              => a[i] \in answer.arg}
                   /\ answer.call = "binary_search" => answer.results = {answer.arg \in Range(a)}
                   /\ answer.call = "equal_range" =>
                        answer.results = {<<Cardinality({i \in First : a[i] < answer.arg}),
                                            Cardinality({i \in First : a[i] <= answer.arg})>>}
<1>7. /\ LeastAt(a, n1) = least /\ GreatestAt(a, n1) = greatest
      /\ FirstGreatestAt(a, n1) = highest /\ SortedTo(a, n1) = sorted
      /\ Max({k \in 0 .. n1 : HeapOf(a, k)}) = heap
  BY <1>2 DEF LeastAt, GreatestAt, FirstGreatestAt, SortedTo, First
<1>8. Compares
      <=> /\ ComparedPair(a, n1, b, n2, answer.call, answer.results)
          /\ order /\ keys
  BY <1>6 DEF Compares
<1>9. keys <=> ComparedKeys(a, n1, answer.call, answer.arg, answer.results)
  BY DEF ComparedKeys, First
<1> HIDE DEF least, greatest, highest, sorted, heap
<1>10. order <=> ComparedOrder(a, n1, answer.call, answer.results)
  BY <1>5, <1>7 DEF ComparedOrder, Only
<1> HIDE DEF order, keys
<1>11. QED
  BY <1>8, <1>9, <1>10 DEF ComparedBy

LEMMA ComparesNext ==
  ASSUME NEW call, NEW arg, NEW results, Answer(call, arg, results),
         ComparedBy(a, n1, b, n2, call, arg, results)
  PROVE  Compares'
<1>1. /\ answer'.call = call /\ answer'.arg = arg /\ answer'.results = results
      /\ a' = a /\ b' = b
  BY DEF Answer
<1>2. n1' = n1 /\ n2' = n2
  BY <1>1 DEF n1, n2
<1>3. ComparedBy(a, n1, b, n2, answer.call, answer.arg, answer.results)'
  BY <1>1, <1>2
<1>4. (Compares <=> ComparedBy(a, n1, b, n2, answer.call, answer.arg, answer.results))'
  BY ComparedByAnswer, PTL
<1>5. QED
  BY <1>3, <1>4

(* How often a value is in a range.                                        *)
LEMMA CountIs ==
  ASSUME NEW V, NEW n \in Nat, NEW u \in [0 .. n - 1 -> V], NEW v
  PROVE  Count(u, v) = Copies(u, 0, n, v)
<1>1. {i \in DOMAIN u : u[i] = v} = Places(u, 0, n, {v})
  BY DEF Places
<1>2. QED
  BY <1>1 DEF Count, Copies, HowMany

LEMMA LessThanIs ==
  ASSUME NEW n \in Nat, NEW m \in Nat, NEW u, NEW w
  PROVE  LessFrom(u, n, w, m, 0) <=> LessThan(u, n, w, m)
<1>1. (n < m /\ \A l \in 0 .. n - 1 : u[l] = w[l]) <=> (n < m /\ Common(u, n, w, m, n))
  BY DEF Common
<1>2. ASSUME NEW k \in 0 .. n - 1
      PROVE  (k < m /\ u[k] < w[k] /\ \A l \in 0 .. k - 1 : u[l] = w[l])
             <=> (k \in 0 .. m - 1 /\ Common(u, n, w, m, k) /\ u[k] < w[k])
  BY DEF Common
<1>3. QED
  BY <1>1, <1>2 DEF LessFrom, LessThan

LEMMA ComparesPair ==
  ASSUME InArrays, mismatch \/ equal \/ lexicographical_compare
  PROVE  Compares'
<1>1. n1 \in Nat /\ n2 \in Nat /\ a \in [0 .. n1 - 1 -> Int] /\ b \in [0 .. n2 - 1 -> Int]
  BY Lengths
<1>2. CASE mismatch
  <2> DEFINE c == S!mismatch(a, n1, b, n2)
             T == {k \in 0 .. n1 : Common(a, n1, b, n2, k)}
  <2>1. c \in T /\ T \in SUBSET Int /\ \A k \in T : k <= c
    BY <1>1, MismatchIs
  <2>2. Answer("mismatch", 0, {c})
    BY <1>2 DEF mismatch
  <2> HIDE DEF c, T
  <2>3. Max(T) = c
    BY <2>1, MaxIs
  <2>4. ComparedBy(a, n1, b, n2, "mismatch", 0, {c})
    BY <2>3 DEF ComparedBy, ComparedPair, ComparedOrder, ComparedKeys, T
  <2>5. QED
    BY <2>2, <2>4, ComparesNext
<1>3. CASE equal
  <2> DEFINE r == S!equal(a, n1, b, n2)
  <2>1. r = (n1 = n2 /\ Common(a, n1, b, n2, n1))
    <3>1. r \in BOOLEAN
      BY DEF S!equal
    <3>2. r <=> n1 = n2 /\ Common(a, n1, b, n2, n1)
      BY <1>1, EqualIs
    <3> HIDE DEF r
    <3>3. QED
      BY <3>1, <3>2
  <2>2. Answer("equal", 0, {r})
    BY <1>3 DEF equal
  <2> HIDE DEF r
  <2>3. ComparedBy(a, n1, b, n2, "equal", 0, {r})
    BY <2>1 DEF ComparedBy, ComparedPair, ComparedOrder, ComparedKeys
  <2>4. QED
    BY <2>2, <2>3, ComparesNext
<1>4. CASE lexicographical_compare
  <2> DEFINE r == S!lexicographical_compare(a, n1, b, n2)
  <2>1. r = LessThan(a, n1, b, n2)
    <3>1. r = LessFrom(a, n1, b, n2, 0)
      BY <1>1, LexicographicalCompareIs
    <3>2. LessFrom(a, n1, b, n2, 0) = LessThan(a, n1, b, n2)
      <4>1. LessFrom(a, n1, b, n2, 0) <=> LessThan(a, n1, b, n2)
        BY <1>1, LessThanIs
      <4>2. LessFrom(a, n1, b, n2, 0) \in BOOLEAN /\ LessThan(a, n1, b, n2) \in BOOLEAN
        BY DEF LessFrom, LessThan
      <4>3. QED
        BY <4>1, <4>2
    <3> HIDE DEF r
    <3>3. QED
      BY <3>1, <3>2
  <2>2. Answer("lexicographical_compare", 0, {r})
    BY <1>4 DEF lexicographical_compare
  <2> HIDE DEF r
  <2>3. ComparedBy(a, n1, b, n2, "lexicographical_compare", 0, {r})
    BY <2>1 DEF ComparedBy, ComparedPair, ComparedOrder, ComparedKeys
  <2>4. QED
    BY <2>2, <2>3, ComparesNext
<1>5. QED
  BY <1>2, <1>3, <1>4

LEMMA ComparesCounts ==
  ASSUME InArrays, is_permutation \/ includes
  PROVE  Compares'
<1>1. n1 \in Nat /\ n2 \in Nat /\ a \in [0 .. n1 - 1 -> Keys] /\ b \in [0 .. n2 - 1 -> Keys]
  BY Lengths
<1>2. \A v : Count(a, v) = Copies(a, 0, n1, v) /\ Count(b, v) = Copies(b, 0, n2, v)
  BY <1>1, CountIs
<1>3. CASE is_permutation
  <2> DEFINE r == S!is_permutation(a, n1, b, n2)
             same == n1 = n2 /\ \A v \in Keys : Count(a, v) = Count(b, v)
  <2>1. r = same
    <3>1. r \in BOOLEAN
      BY DEF S!is_permutation
    <3>2. r <=> n1 = n2 /\ \A v \in Keys : Copies(a, 0, n1, v) = Copies(b, 0, n2, v)
      BY <1>1, IsPermutation
    <3> HIDE DEF r
    <3>3. r <=> same
      BY <1>2, <3>2
    <3>4. same \in BOOLEAN
      OBVIOUS
    <3> HIDE DEF same
    <3>5. QED
      BY <3>1, <3>3, <3>4
  <2>2. Answer("is_permutation", 0, {r})
    BY <1>3 DEF is_permutation
  <2> HIDE DEF r
  <2>3. ComparedBy(a, n1, b, n2, "is_permutation", 0, {r})
    BY <2>1 DEF ComparedBy, ComparedPair, ComparedOrder, ComparedKeys
  <2>4. QED
    BY <2>2, <2>3, ComparesNext
<1>4. CASE includes
  <2> DEFINE r == S!includes(a, n1, b, n2)
             more == \A v \in Keys : Count(a, v) >= Count(b, v)
  <2>1. Sorted(a) /\ Sorted(b) /\ Keys \in SUBSET Int
    BY <1>4, QueriesAssumption DEF includes
  <2>2. r = more
    <3>1. r = Covers(a, 0, n1, b, 0, n2, Keys)
      BY <1>1, <2>1, Includes
    <3>2. Covers(a, 0, n1, b, 0, n2, Keys) = more
      BY <1>2 DEF Covers
    <3> HIDE DEF r, more
    <3>3. QED
      BY <3>1, <3>2
  <2>3. Answer("includes", 0, {r})
    BY <1>4 DEF includes
  <2> HIDE DEF r
  <2>4. ComparedBy(a, n1, b, n2, "includes", 0, {r})
    BY <2>2 DEF ComparedBy, ComparedPair, ComparedOrder, ComparedKeys
  <2>5. QED
    BY <2>3, <2>4, ComparesNext
<1>5. QED
  BY <1>3, <1>4

LEMMA ComparesHeap ==
  ASSUME InArrays, is_heap_until \/ is_heap
  PROVE  Compares'
<1> DEFINE H == Rises(a, n1)
           c == S!is_heap_until(a, n1)
<1>1. n1 \in Nat /\ a \in [0 .. n1 - 1 -> Int]
  BY Lengths
<1>2. H \in SUBSET (0 .. n1 - 1)
  BY DEF Rises
<1>3. c = LeastOr(H, n1)
  BY <1>1, HeapUntil
<1>4. ASSUME NEW k \in 0 .. n1 PROVE HeapOf(a, k) <=> \A i \in H : ~(i < k)
  <2>1. ASSUME NEW i \in 1 .. n1 - 1
        PROVE  a[(i - 1) \div 2] >= a[i] <=> i \notin H
    <3>1. (i - 1) \div 2 \in 0 .. n1 - 1 /\ i \in 0 .. n1 - 1
      BY <1>1
    <3>2. a[(i - 1) \div 2] \in Int /\ a[i] \in Int
      BY <1>1, <3>1
    <3>3. QED
      BY <3>2 DEF Rises
  <2>2. H \subseteq 1 .. n1 - 1
    BY DEF Rises
  <2>3. k \in Int /\ k <= n1 /\ n1 \in Int
    BY <1>1
  <2> HIDE DEF H
  <2>4. ASSUME HeapOf(a, k), NEW i \in H, i < k PROVE FALSE
    <3>1. i \in 1 .. n1 - 1 /\ i \in 1 .. k - 1
      BY <2>2, <2>3, <2>4
    <3>2. a[(i - 1) \div 2] >= a[i]
      BY <2>4, <3>1 DEF HeapOf
    <3>3. QED
      BY <2>1, <3>1, <3>2
  <2>5. ASSUME \A i \in H : ~(i < k), NEW i \in 1 .. k - 1 PROVE a[(i - 1) \div 2] >= a[i]
    <3>1. i \in 1 .. n1 - 1 /\ i < k
      BY <2>3
    <3>2. i \notin H
      BY <2>5, <3>1
    <3>3. QED
      BY <2>1, <3>1, <3>2
  <2>6. QED
    BY <2>4, <2>5 DEF HeapOf
<1> HIDE DEF H
<1>5. CASE is_heap_until
  <2>1. {k \in 0 .. n1 : HeapOf(a, k)} = {k \in 0 .. n1 : \A i \in H : ~(i < k)}
    BY <1>4
  <2>2. Max({k \in 0 .. n1 : HeapOf(a, k)}) = c
    <3>1. Max({k \in 0 .. n1 : \A i \in H : ~(i < k)}) = LeastOr(H, n1)
      BY <1>1, <1>2, MaxBefore
    <3> HIDE DEF c
    <3>2. QED
      BY <1>3, <2>1, <3>1
  <2>3. Answer("is_heap_until", 0, {c})
    BY <1>5 DEF is_heap_until
  <2> HIDE DEF c
  <2>4. ComparedBy(a, n1, b, n2, "is_heap_until", 0, {c})
    BY <2>2 DEF ComparedBy, ComparedPair, ComparedOrder, ComparedKeys
  <2>5. QED
    BY <2>3, <2>4, ComparesNext
<1>6. CASE is_heap
  <2>1. (c = n1) = HeapOf(a, n1)
    <3>1. HeapOf(a, n1) \in BOOLEAN
      BY DEF HeapOf
    <3>2. HeapOf(a, n1) <=> \A i \in H : ~(i < n1)
      BY <1>1, <1>4
    <3>3. \A i \in H : i \in Int /\ i < n1
      BY <1>1, <1>2
    <3>4. HeapOf(a, n1) <=> H = {}
      BY <3>2, <3>3
    <3> HIDE DEF c
    <3>5. \A i \in H : c <= i
      BY <1>1, <1>2, <1>3, LeastOrProps
    <3>6. H = {} => c = n1
      BY <1>3 DEF LeastOr
    <3>7. c = n1 => H = {}
      BY <1>1, <3>3, <3>5
    <3>8. QED
      BY <3>1, <3>4, <3>6, <3>7
  <2>2. Answer("is_heap", 0, {c = n1})
    BY <1>6 DEF is_heap
  <2> HIDE DEF c
  <2>3. Answer("is_heap", 0, {HeapOf(a, n1)})
    BY <2>1, <2>2
  <2>4. ComparedBy(a, n1, b, n2, "is_heap", 0, {HeapOf(a, n1)})
    BY DEF ComparedBy, ComparedPair, ComparedOrder, ComparedKeys
  <2>5. QED
    BY <2>3, <2>4, ComparesNext
<1>7. QED
  BY <1>5, <1>6

LEMMA ComparesSorted ==
  ASSUME InArrays, is_sorted
  PROVE  Compares'
<1> DEFINE H == {i \in 1 .. n1 - 1 : a[i] < a[i - 1]}
           c == E!is_sorted_until(a, n1)
<1>1. n1 \in Nat
  BY Lengths
<1>2. H \in SUBSET (0 .. n1 - 1) /\ \A i : i \in H <=> i \in 1 .. n1 - 1 /\ a[i] < a[i - 1]
  OBVIOUS
<1>3. c = LeastOr(H, n1)
  BY <1>1, SortedUntil
<1>4. Answer("is_sorted", 0, {<<c, c = n1>>})
  BY DEF is_sorted, E!is_sorted
<1> HIDE DEF H, c
<1>5. SortedTo(a, n1) = c
  <2>1. ASSUME NEW k \in 0 .. n1
        PROVE  (\A i \in 1 .. k - 1 : ~less(a[i], a[i - 1])) <=> \A i \in H : ~(i < k)
    BY <1>1, <1>2 DEF less
  <2>2. {k \in 0 .. n1 : \A i \in 1 .. k - 1 : ~less(a[i], a[i - 1])}
        = {k \in 0 .. n1 : \A i \in H : ~(i < k)}
    BY <2>1
  <2>3. Max({k \in 0 .. n1 : \A i \in H : ~(i < k)}) = LeastOr(H, n1)
    BY <1>1, <1>2, MaxBefore
  <2>4. QED
    BY <1>3, <2>2, <2>3 DEF SortedTo
<1>6. ComparedBy(a, n1, b, n2, "is_sorted", 0, {<<c, c = n1>>})
  BY <1>5 DEF ComparedBy, ComparedPair, ComparedOrder, ComparedKeys
<1>7. QED
  BY <1>4, <1>6, ComparesNext

(* The extreme elements: of an empty range, its end.                       *)
LEMMA ExtremesAt ==
  ASSUME NEW n \in Nat, NEW u \in [0 .. n - 1 -> Int]
  PROVE  /\ S!min_element(u, n) = LeastAt(u, n)
         /\ S!max_element(u, n) = GreatestAt(u, n)
         /\ S!minmax_element(u, n) = <<LeastAt(u, n), GreatestAt(u, n)>>
<1>1. CASE n = 0
  <2>1. {i \in 0 .. n - 1 : \A j \in 0 .. n - 1 : u[i] <= u[j]} = {}
        /\ {i \in 0 .. n - 1 : \A j \in 0 .. n - 1 : u[i] >= u[j]} = {}
    BY <1>1
  <2>2. LeastAt(u, n) = 0 /\ GreatestAt(u, n) = 0
    BY <2>1 DEF LeastAt, GreatestAt, LeastOr, GreatestOr
  <2>3. S!min_element(u, n) = 0 /\ S!max_element(u, n) = 0
    BY <1>1 DEF S!min_element, S!max_element
  <2>4. S!minmax_element(u, n) = <<0, 0>>
    BY <1>1, MinMaxElement
  <2>5. QED
    BY <2>2, <2>3, <2>4
<1>2. CASE n # 0
  <2>1. LeastAt(u, n) = S!min_element(u, n)
    BY <1>2, MinElement, FirstLeastIs DEF LeastAt
  <2>2. GreatestAt(u, n) = S!max_element(u, n)
    BY <1>2, MaxElement, LastGreatestIs DEF GreatestAt
  <2>3. S!minmax_element(u, n) = <<LeastAt(u, n), GreatestAt(u, n)>>
    <3> DEFINE r == S!minmax_element(u, n)
    <3>1. Extremes(u, n, r)
      BY <1>2, MinMaxElement
    <3> HIDE DEF r
    <3>2. r = <<r[1], r[2]>> /\ FirstLeast(u, n, r[1]) /\ LastGreatest(u, n, r[2])
      BY <3>1 DEF Extremes
    <3>3. LeastAt(u, n) = r[1] /\ GreatestAt(u, n) = r[2]
      BY <3>2, FirstLeastIs, LastGreatestIs DEF LeastAt, GreatestAt
    <3>4. r = <<LeastAt(u, n), GreatestAt(u, n)>>
      BY <3>2, <3>3
    <3>5. QED
      BY <3>4 DEF r
  <2>4. QED
    BY <2>1, <2>2, <2>3
<1>3. QED
  BY <1>1, <1>2

LEMMA ComparesElements ==
  ASSUME InArrays, min_element \/ max_element \/ minmax_element
  PROVE  Compares'
<1> DEFINE least == LeastAt(a, n1)
           greatest == GreatestAt(a, n1)
<1>1. n1 \in Nat /\ a \in [0 .. n1 - 1 -> Int]
  BY Lengths
<1>2. /\ S!min_element(a, n1) = least /\ S!max_element(a, n1) = greatest
      /\ S!minmax_element(a, n1) = <<least, greatest>>
  BY <1>1, ExtremesAt
<1> HIDE DEF least, greatest
<1>3. /\ ComparedBy(a, n1, b, n2, "min_element", 0, {least})
      /\ ComparedBy(a, n1, b, n2, "max_element", 0, {greatest})
      /\ ComparedBy(a, n1, b, n2, "minmax_element", 0, {<<least, greatest>>})
  BY DEF ComparedBy, ComparedPair, ComparedOrder, ComparedKeys, least, greatest
<1>4. \/ Answer("min_element", 0, {least})
      \/ Answer("max_element", 0, {greatest})
      \/ Answer("minmax_element", 0, {<<least, greatest>>})
  BY <1>2 DEF min_element, max_element, minmax_element
<1>5. QED
  BY <1>3, <1>4, ComparesNext

LEMMA OfTwo ==
  ASSUME NEW u \in [0 .. 1 -> Int]
  PROVE  /\ FirstGreatest(u, 2, E!max_of(u[0], u[1]))
         /\ FirstLeast(u, 2, E!min_of(u[0], u[1]))
         /\ Extremes(u, 2, E!minmax_of(u[0], u[1]))
<1>1. u[0] \in Int /\ u[1] \in Int /\ 0 .. 2 - 1 = {0, 1}
  OBVIOUS
<1>2. FirstGreatest(u, 2, E!max_of(u[0], u[1]))
  <2>1. CASE u[0] < u[1]
    <3>1. E!max_of(u[0], u[1]) = 1
      BY <2>1 DEF E!max_of, less
    <3>2. FirstGreatest(u, 2, 1)
      BY <1>1, <2>1 DEF FirstGreatest
    <3>3. QED
      BY <3>1, <3>2
  <2>2. CASE ~(u[0] < u[1])
    <3>1. E!max_of(u[0], u[1]) = 0
      BY <2>2 DEF E!max_of, less
    <3>2. FirstGreatest(u, 2, 0)
      BY <1>1, <2>2 DEF FirstGreatest
    <3>3. QED
      BY <3>1, <3>2
  <2>3. QED
    BY <2>1, <2>2
<1>3. FirstLeast(u, 2, E!min_of(u[0], u[1]))
  <2>1. CASE u[1] < u[0]
    <3>1. E!min_of(u[0], u[1]) = 1
      BY <2>1 DEF E!min_of, less
    <3>2. FirstLeast(u, 2, 1)
      BY <1>1, <2>1 DEF FirstLeast
    <3>3. QED
      BY <3>1, <3>2
  <2>2. CASE ~(u[1] < u[0])
    <3>1. E!min_of(u[0], u[1]) = 0
      BY <2>2 DEF E!min_of, less
    <3>2. FirstLeast(u, 2, 0)
      BY <1>1, <2>2 DEF FirstLeast
    <3>3. QED
      BY <3>1, <3>2
  <2>3. QED
    BY <2>1, <2>2
<1>4. Extremes(u, 2, E!minmax_of(u[0], u[1]))
  <2>1. E!minmax_of(u[0], u[1]) = IF u[1] < u[0] THEN <<1, 0>> ELSE <<0, 1>>
    BY DEF E!minmax_of, less
  <2>2. 2 \in Nat /\ u \in [0 .. 2 - 1 -> Int] /\ 2 <= 2
    BY <1>1
  <2>3. QED
    BY <2>1, <2>2, TwoFirst
<1>5. QED
  BY <1>2, <1>3, <1>4

LEMMA ComparesExtremes ==
  ASSUME InArrays, extremes
  PROVE  Compares'
<1> DEFINE least == LeastAt(a, n1)
           greatest == GreatestAt(a, n1)
           highest == FirstGreatestAt(a, n1)
<1>1. n1 \in Nat /\ a \in [0 .. n1 - 1 -> Int] /\ n1 # 0
  BY Lengths DEF extremes
<1>2. E!max(a, n1) = highest
  BY <1>1, MaxValue, FirstGreatestIs DEF FirstGreatestAt
<1>3. E!min(a, n1) = least
  <2>1. E!min(a, n1) = S!min_element(a, n1)
    BY <1>1 DEF E!min, S!min_element
  <2>2. QED
    BY <1>1, <2>1, ExtremesAt
<1>4. E!minmax(a, n1) = <<least, greatest>>
  <2> DEFINE r == E!minmax(a, n1)
  <2>1. Extremes(a, n1, r)
    BY <1>1, MinMaxValue
  <2> HIDE DEF r
  <2>2. r = <<r[1], r[2]>> /\ FirstLeast(a, n1, r[1]) /\ LastGreatest(a, n1, r[2])
    BY <2>1 DEF Extremes
  <2>3. least = r[1] /\ greatest = r[2]
    BY <1>1, <2>2, FirstLeastIs, LastGreatestIs DEF LeastAt, GreatestAt
  <2>4. r = <<least, greatest>>
    BY <2>2, <2>3
  <2>5. QED
    BY <2>4 DEF r
<1>5. ASSUME n1 = 2
      PROVE  /\ E!max_of(a[0], a[1]) = highest
             /\ E!min_of(a[0], a[1]) = least
             /\ E!minmax_of(a[0], a[1]) = <<least, greatest>>
  <2> DEFINE r == E!minmax_of(a[0], a[1])
  <2>1. a \in [0 .. 1 -> Int]
    BY <1>1, <1>5
  <2>2. /\ FirstGreatest(a, n1, E!max_of(a[0], a[1])) /\ FirstLeast(a, n1, E!min_of(a[0], a[1]))
        /\ Extremes(a, n1, r)
    BY <1>5, <2>1, OfTwo
  <2>3. E!max_of(a[0], a[1]) = highest
    BY <1>1, <2>2, FirstGreatestIs DEF FirstGreatestAt
  <2>4. E!min_of(a[0], a[1]) = least
    BY <1>1, <2>2, FirstLeastIs DEF LeastAt
  <2> HIDE DEF r
  <2>5. r = <<r[1], r[2]>> /\ FirstLeast(a, n1, r[1]) /\ LastGreatest(a, n1, r[2])
    BY <2>2 DEF Extremes
  <2>6. least = r[1] /\ greatest = r[2]
    BY <1>1, <2>5, FirstLeastIs, LastGreatestIs DEF LeastAt, GreatestAt
  <2>7. r = <<least, greatest>>
    BY <2>5, <2>6
  <2>8. QED
    BY <2>3, <2>4, <2>7 DEF r
<1> HIDE DEF least, greatest, highest
<1>6. \/ Answer("max", 0, {highest})
      \/ Answer("min", 0, {least})
      \/ Answer("minmax", 0, {<<least, greatest>>})
  <2>1. /\ {E!max(a, n1)} \cup (IF n1 = 2 THEN {E!max_of(a[0], a[1])} ELSE {}) = {highest}
        /\ {E!min(a, n1)} \cup (IF n1 = 2 THEN {E!min_of(a[0], a[1])} ELSE {}) = {least}
        /\ {E!minmax(a, n1)} \cup (IF n1 = 2 THEN {E!minmax_of(a[0], a[1])} ELSE {})
           = {<<least, greatest>>}
    BY <1>2, <1>3, <1>4, <1>5
  <2>2. QED
    BY <2>1 DEF extremes
<1>7. /\ ComparedBy(a, n1, b, n2, "max", 0, {highest})
      /\ ComparedBy(a, n1, b, n2, "min", 0, {least})
      /\ ComparedBy(a, n1, b, n2, "minmax", 0, {<<least, greatest>>})
  BY DEF ComparedBy, ComparedPair, ComparedOrder, ComparedKeys, least, greatest, highest
<1>8. QED
  BY <1>6, <1>7, ComparesNext

LEMMA ComparesInspect ==
  ASSUME InArrays, inspect
  PROVE  Compares'
<1>1. n1 \in Nat /\ a \in [0 .. n1 - 1 -> Keys]
  BY Lengths
<1>2. PICK T \in (IF Alone THEN SUBSET Keys ELSE {}) :
        \/ Answer("find_if", T, {E!find_if(a, n1, T)} \cup Value(T, [v \in Keys |-> E!find(a, n1, v)]))
        \/ Answer("find_if_not", T, {E!find_if_not(a, n1, T)})
        \/ Answer("count_if", T,
                  {E!count_if(a, n1, T)} \cup Value(T, [v \in Keys |-> E!count(a, n1, v)]))
        \/ Answer("all_any_none", T, {<<E!all_of(a, n1, T), E!any_of(a, n1, T), E!none_of(a, n1, T)>>})
        \/ Answer("is_partitioned", T, {E!is_partitioned(a, n1, T)})
  BY DEF inspect
<1>3. CASE Answer("count_if", T,
                  {E!count_if(a, n1, T)} \cup Value(T, [v \in Keys |-> E!count(a, n1, v)]))
  <2> DEFINE r == Cardinality({i \in 0 .. n1 - 1 : a[i] \in T})
             values == [v \in Keys |-> E!count(a, n1, v)]
  <2>1. E!count_if(a, n1, T) = r
    BY <1>1, CountIf DEF HowMany, Places
  <2>2. ASSUME NEW v \in Keys, T = {v} PROVE values[v] = r
    BY <2>1, <2>2 DEF E!count
  <2> HIDE DEF values, r
  <2>3. {r} \cup Value(T, values) = {r}
    BY <2>2, ValueIs
  <2>4. Answer("count_if", T, {r})
    BY <1>3, <2>1, <2>3 DEF values
  <2>5. ComparedBy(a, n1, b, n2, "count_if", T, {r})
    BY DEF ComparedBy, ComparedPair, ComparedOrder, ComparedKeys, r
  <2>6. QED
    BY <2>4, <2>5, ComparesNext
<1>4. CASE Answer("all_any_none", T, {<<E!all_of(a, n1, T), E!any_of(a, n1, T), E!none_of(a, n1, T)>>})
  <2> DEFINE all == Range(a) \subseteq T
             any == Range(a) \cap T # {}
             none == Range(a) \cap T = {}
  <2>1. /\ all <=> \A i \in 0 .. n1 - 1 : a[i] \in T
        /\ any <=> \E i \in 0 .. n1 - 1 : a[i] \in T
        /\ none <=> \A i \in 0 .. n1 - 1 : a[i] \notin T
    BY <1>1 DEF Range
  <2>2. all \in BOOLEAN /\ any \in BOOLEAN /\ none \in BOOLEAN
    OBVIOUS
  <2> HIDE DEF all, any, none
  <2>3. E!all_of(a, n1, T) = all /\ E!any_of(a, n1, T) = any /\ E!none_of(a, n1, T) = none
    <3>1. /\ E!all_of(a, n1, T) = (\A i \in 0 .. n1 - 1 : a[i] \in T)
          /\ E!any_of(a, n1, T) = (\E i \in 0 .. n1 - 1 : a[i] \in T)
          /\ E!none_of(a, n1, T) = (\A i \in 0 .. n1 - 1 : a[i] \notin T)
      BY <1>1, AllAnyNone
    <3>2. /\ (\A i \in 0 .. n1 - 1 : a[i] \in T) = all
          /\ (\E i \in 0 .. n1 - 1 : a[i] \in T) = any
          /\ (\A i \in 0 .. n1 - 1 : a[i] \notin T) = none
      BY <2>1, <2>2
    <3>3. QED
      BY <3>1, <3>2
  <2>4. Answer("all_any_none", T, {<<all, any, none>>})
    BY <1>4, <2>3
  <2>5. ComparedBy(a, n1, b, n2, "all_any_none", T, {<<all, any, none>>})
    BY DEF ComparedBy, ComparedPair, ComparedOrder, ComparedKeys, all, any, none
  <2>6. QED
    BY <2>4, <2>5, ComparesNext
<1>5. CASE Answer("is_partitioned", T, {E!is_partitioned(a, n1, T)})
  <2> DEFINE r == \A i, j \in 0 .. n1 - 1 : i < j /\ a[j] \in T => a[i] \in T
  <2>1. E!is_partitioned(a, n1, T) = r
    BY <1>1, IsPartitioned
  <2> HIDE DEF r
  <2>2. Answer("is_partitioned", T, {r})
    BY <1>5, <2>1
  <2>3. ComparedBy(a, n1, b, n2, "is_partitioned", T, {r})
    BY DEF ComparedBy, ComparedPair, ComparedOrder, ComparedKeys, r
  <2>4. QED
    BY <2>2, <2>3, ComparesNext
<1>6. \A results : /\ ComparedBy(a, n1, b, n2, "find_if", T, results)
                   /\ ComparedBy(a, n1, b, n2, "find_if_not", T, results)
  BY DEF ComparedBy, ComparedPair, ComparedOrder, ComparedKeys
<1>7. QED
  BY <1>2, <1>3, <1>4, <1>5, <1>6, ComparesNext

LEMMA ComparesBounds ==
  ASSUME InArrays, binary_search \/ equal_range
  PROVE  Compares'
<1>1. n1 \in Nat /\ a \in [0 .. n1 - 1 -> Int] /\ Keys \subseteq Int
  BY Lengths, QueriesAssumption
<1>2. CASE binary_search
  <2>1. PICK v \in Keys : Sorted(a) /\ Answer("binary_search", v, {E!binary_search(a, n1, v)})
    BY <1>2 DEF binary_search
  <2> DEFINE r == (v \in Range(a))
  <2>2. E!binary_search(a, n1, v) = r
    <3>1. v \in Int
      BY <1>1
    <3>2. E!binary_search(a, n1, v) = (\E i \in 0 .. n1 - 1 : a[i] = v)
      BY <1>1, <2>1, <3>1, BinarySearch
    <3>3. r <=> \E i \in 0 .. n1 - 1 : a[i] = v
      BY <1>1 DEF Range
    <3>4. r \in BOOLEAN
      OBVIOUS
    <3> HIDE DEF r
    <3>5. (\E i \in 0 .. n1 - 1 : a[i] = v) = r
      BY <3>3, <3>4
    <3>6. QED
      BY <3>2, <3>5
  <2> HIDE DEF r
  <2>3. Answer("binary_search", v, {r})
    BY <2>1, <2>2
  <2>4. ComparedBy(a, n1, b, n2, "binary_search", v, {r})
    BY DEF ComparedBy, ComparedPair, ComparedOrder, ComparedKeys, r
  <2>5. QED
    BY <2>3, <2>4, ComparesNext
<1>3. CASE equal_range
  <2>1. PICK v \in Keys :
          /\ Sorted(a)
          /\ Answer("equal_range", v,
               {S!equal_range(a, 0, n1, v), S!equal_range_n(a, 0, n1, v),
                <<S!lower_bound(a, 0, n1, v), S!upper_bound(a, 0, n1, v)>>,
                <<S!partition_point(S!before(a, v), 0, n1),
                  S!partition_point(S!not_after(a, v), 0, n1)>>})
    BY <1>3 DEF equal_range
  <2> DEFINE low == Point(S!before(a, v), 0, n1)
             high == Point(S!not_after(a, v), 0, n1)
  <2>2. v \in Int /\ 0 \in Nat /\ 0 \in Int /\ 0 + n1 <= n1 /\ Sorted(a)
    BY <1>1, <2>1
  <2>3. S!equal_range(a, 0, n1, v) = <<low, high>>
    BY <1>1, <2>2, EqualRange DEF Ends
  <2>4. S!equal_range_n(a, 0, n1, v) = <<low, high>>
    BY <1>1, <2>2, EqualRangeN DEF Ends
  <2>5. S!lower_bound(a, 0, n1, v) = low /\ S!upper_bound(a, 0, n1, v) = high
    BY <1>1, <2>2, BoundsAre
  <2>6. /\ S!partition_point(S!before(a, v), 0, n1) = low
        /\ S!partition_point(S!not_after(a, v), 0, n1) = high
    <3>1. Falling(S!before(a, v), 0, n1) /\ Falling(S!not_after(a, v), 0, n1)
      BY <1>1, <2>2, SortedFalls
    <3>2. QED
      BY <1>1, <2>2, <3>1, PartitionPoint
  <2>7. /\ low = Cardinality({i \in 0 .. n1 - 1 : a[i] < v})
        /\ high = Cardinality({i \in 0 .. n1 - 1 : a[i] <= v})
    BY <1>1, <2>2, EndsCount
  <2> HIDE DEF low, high
  <2>8. Answer("equal_range", v, {<<low, high>>})
    BY <2>1, <2>3, <2>4, <2>5, <2>6
  <2>9. ComparedBy(a, n1, b, n2, "equal_range", v, {<<low, high>>})
    BY <2>7 DEF ComparedBy, ComparedPair, ComparedOrder, ComparedKeys
  <2>10. QED
    BY <2>8, <2>9, ComparesNext
<1>4. QED
  BY <1>2, <1>3

(* The other calls do not compare.                                         *)
Comparing == {"mismatch", "equal", "lexicographical_compare", "is_permutation", "includes",
              "is_heap_until", "min_element", "max_element", "minmax_element", "min", "max",
              "minmax", "is_sorted", "is_heap", "count_if", "all_any_none", "is_partitioned",
              "binary_search", "equal_range"}

LEMMA ComparesOther ==
  ASSUME NEW Calls, Calls \cap Comparing = {}, CallIn(Calls)
  PROVE  Compares'
<1>1. PICK call \in Calls : \E arg, results : Answer(call, arg, results)
  BY DEF CallIn
<1>2. PICK arg, results : Answer(call, arg, results)
  BY <1>1
<1>3. call \notin Comparing
  OBVIOUS
<1>4. ComparedBy(a, n1, b, n2, call, arg, results)
  <2>1. ComparedPair(a, n1, b, n2, call, results)
    BY <1>3 DEF ComparedPair, Comparing
  <2>2. ComparedOrder(a, n1, call, results)
    BY <1>3 DEF ComparedOrder, Comparing
  <2>3. ComparedKeys(a, n1, call, arg, results)
    BY <1>3 DEF ComparedKeys, Comparing
  <2>4. QED
    BY <2>1, <2>2, <2>3 DEF ComparedBy
<1>5. QED
  BY <1>2, <1>4, ComparesNext

LEMMA ComparesStep ==
  ASSUME InArrays, Next
  PROVE  Compares'
<1>1. CASE mismatch \/ equal \/ lexicographical_compare \/ is_permutation \/ includes
  BY <1>1, ComparesPair, ComparesCounts
<1>2. CASE is_heap_until \/ is_heap \/ is_sorted \/ min_element \/ max_element \/ minmax_element
  BY <1>2, ComparesHeap, ComparesSorted, ComparesElements
<1>3. CASE extremes \/ inspect \/ binary_search \/ equal_range
  BY <1>3, ComparesExtremes, ComparesInspect, ComparesBounds
<1>4. CASE search \/ find_end \/ search_n \/ adjacent_find \/ find_first_of
  <2>1. PICK Calls : CallIn(Calls) /\ Calls \cap Comparing = {}
    BY <1>4, CallOf DEF Comparing
  <2>2. QED
    BY <2>1, ComparesOther
<1>5. CASE merge \/ set_union \/ set_intersection \/ set_difference \/ set_symmetric_difference
  <2>1. PICK Calls : CallIn(Calls) /\ Calls \cap Comparing = {}
    BY <1>5, CallOf DEF Comparing
  <2>2. QED
    BY <2>1, ComparesOther
<1>6. CASE unique_copy \/ partial_sort_copy \/ shuffle \/ copy_some \/ copy_all \/ sample
  <2>1. PICK Calls : CallIn(Calls) /\ Calls \cap Comparing = {}
    BY <1>6, CallOf DEF Comparing
  <2>2. QED
    BY <2>1, ComparesOther
<1>7. QED
  BY <1>1, <1>2, <1>3, <1>4, <1>5, <1>6 DEF Next

(* Whatever two arrays of integers a comparison, a count, a bound or a     *)
(* search for an extreme element is called with, each of its overloads     *)
(* returns what its definition on the whole range says: the longest common *)
(* start, the lexicographic order, the counts of each key, the first of    *)
(* the least and the last of the greatest elements (for max the first).    *)
THEOREM ComparesHolds == Spec => []Compares
<1> DEFINE Inv == InArrays /\ Compares
<1>1. Init => Inv
  <2>1. ASSUME Init PROVE ComparedBy(a, n1, b, n2, answer.call, answer.arg, answer.results)
    BY <2>1 DEF Init, ComparedBy, ComparedPair, ComparedOrder, ComparedKeys
  <2>2. QED
    BY <2>1, ComparedByAnswer DEF Init, InArrays
<1>2. Inv /\ [Next]_vars => Inv'
  <2> SUFFICES ASSUME Inv, [Next]_vars PROVE Inv'
    OBVIOUS
  <2>1. UNCHANGED <<a, b>>
    BY CallsChangeNothing DEF vars
  <2>2. CASE UNCHANGED vars
    <3>1. a' = a /\ b' = b /\ answer' = answer
      BY <2>2 DEF vars
    <3>2. ComparedBy(a, n1, b, n2, answer.call, answer.arg, answer.results)
      BY ComparedByAnswer
    <3>3. n1' = n1 /\ n2' = n2
      BY <3>1 DEF n1, n2
    <3>4. ComparedBy(a, n1, b, n2, answer.call, answer.arg, answer.results)'
      BY <3>1, <3>2, <3>3
    <3>5. (Compares <=> ComparedBy(a, n1, b, n2, answer.call, answer.arg, answer.results))'
      BY ComparedByAnswer, PTL
    <3>6. QED
      BY <2>1, <3>4, <3>5, ArraysStay
  <2>3. CASE Next
    BY <2>1, <2>3, ArraysStay, ComparesStep
  <2>4. QED
    BY <2>2, <2>3
<1>3. QED
  BY <1>1, <1>2, PTL DEF Spec
=============================================================================
