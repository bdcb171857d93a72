------------------------------ MODULE SearchOps ------------------------------
(***************************************************************************)
(* Algorithms of stl2/detail/algorithm that look at one or two ranges and  *)
(* change nothing, as functions and operators on arrays a and b of n1 and  *)
(* n2 elements, numbered from 0.  An iterator is the number of an element, *)
(* or the length of the range for its end.                                 *)
(***************************************************************************)
EXTENDS BoundOps, FiniteSets, FiniteSetsExt

CONSTANT pred(_, _)

Least(S, otherwise) == Min(S \cup {otherwise})

(* How many elements match, one by one, from a[i] and b[j] on.             *)
matched(a, i, n1, b, j, n2) ==
  LET run[k \in Nat] ==
        IF i + k < n1 /\ j + k < n2 /\ pred(a[i + k], b[j + k]) THEN run[k + 1] ELSE k
  IN run[0]

(* __search::unsized, which stops as soon as the first range runs out.     *)
search_unsized(a, n1, b, n2) ==
  LET from[i \in 0 .. n1] ==
        LET m == matched(a, i, n1, b, 0, n2) IN
        IF i = n1 THEN n1
        ELSE IF m = n2 THEN i
        ELSE IF m > 0 /\ i + m = n1 THEN n1 ELSE from[i + 1]
  IN IF n2 = 0 THEN 0 ELSE from[0]

(* __search::sized, which only looks where the second range still fits.    *)
search_sized(a, n1, b, n2) ==
  IF n2 = 0 THEN 0
  ELSE Least({i \in 0 .. n1 - n2 : matched(a, i, i + n2, b, 0, n2) = n2}, n1)

(* How many elements from a[i] on match v.                                 *)
run_of(a, i, n1, v) == Least({k \in 0 .. n1 - i : i + k < n1 /\ ~pred(a[i + k], v)}, n1 - i)

(* __search_n::unsized and __search_n::sized, which passes over a run that *)
(* is too short, and the element behind it.                                *)
search_n_unsized(a, n1, count, v) ==
  LET from[i \in 0 .. n1 + 1] ==
        IF i >= n1 THEN n1
        ELSE LET m == run_of(a, i, n1, v) IN IF m >= count THEN i ELSE from[i + m + 1]
  IN IF count <= 0 THEN 0 ELSE from[0]

(* A faulty search_n_sized: it gives up when just so many elements are left. *)
search_n_sized_early(a, n1, count, v) ==
  LET from[i \in 0 .. n1 + 1] ==
        IF n1 - i <= count THEN n1
        ELSE LET m == run_of(a, i, i + count, v) IN IF m = count THEN i ELSE from[i + m + 1]
  IN IF count <= 0 THEN 0 ELSE from[0]

search_n_sized(a, n1, count, v) ==
  LET from[i \in 0 .. n1 + 1] ==
        IF n1 - i < count THEN n1
        ELSE LET m == run_of(a, i, i + count, v) IN IF m = count THEN i ELSE from[i + m + 1]
  IN IF count <= 0 THEN 0 ELSE from[0]

(* find_end of forward iterators: the last match so far is in res.         *)
find_end_forward(a, n1, b, n2) ==
  LET from[i \in 0 .. n1] ==
        LET m == matched(a, i, n1, b, 0, n2) IN
        [res \in 0 .. n1 |->
           IF i = n1 THEN res
           ELSE IF m = n2 THEN from[i + 1][i]
           ELSE IF m > 0 /\ i + m = n1 THEN res ELSE from[i + 1][res]]
  IN IF n2 = 0 THEN n1 ELSE from[0][n1]

(* How many elements match, one by one, back from a[i - 1] and b[j - 1].   *)
matched_back(a, i, b, j) ==
  Least({k \in 0 .. j - 1 : k < i /\ ~pred(a[i - 1 - k], b[j - 1 - k])}, Min({i, j}))

(* find_end of bidirectional iterators, from the back.                     *)
find_end_bidirectional(a, n1, b, n2) ==
  LET back[i \in 0 .. n1] ==
        LET m == matched_back(a, i, b, n2) IN
        IF i = 0 THEN n1
        ELSE IF m = n2 THEN i - n2
        ELSE IF m > 0 /\ m = i THEN n1 ELSE back[i - 1]
  IN IF n2 = 0 THEN n1 ELSE back[n1]

(* find_end of random access iterators, which stops where b no longer fits. *)
find_end_random(a, n1, b, n2) ==
  IF n2 = 0 \/ n1 < n2 THEN n1
  ELSE LET ends == {i \in n2 .. n1 : matched_back(a, i, b, n2) = n2}
       IN IF ends = {} THEN n1 ELSE Max(ends) - n2

mismatch(a, n1, b, n2) == matched(a, 0, n1, b, 0, n2)

equal(a, n1, b, n2) == LET m == mismatch(a, n1, b, n2) IN m = n1 /\ m = n2

(* The first difference decides, or which range ends first.                *)
lexicographical_compare(a, n1, b, n2) ==
  LET from[i \in 0 .. Min({n1, n2})] ==
        IF i = n1 \/ i = n2 THEN i = n1 /\ i # n2
        ELSE comp(a[i], b[i]) \/ (~comp(b[i], a[i]) /\ from[i + 1])
  IN from[0]

(* includes: for sorted ranges, an element of a for each element of b.     *)
includes(a, n1, b, n2) ==
  LET from[i \in 0 .. n1] ==
        [j \in 0 .. n2 |->
           IF j = n2 THEN TRUE
           ELSE IF i = n1 \/ comp(b[j], a[i]) THEN FALSE
           ELSE from[i + 1][IF comp(a[i], b[j]) THEN j ELSE j + 1]]
  IN from[0][0]

(* is_permutation: behind the common start, every element that has not     *)
(* been met before is counted in both ranges.                              *)
is_permutation(a, n1, b, n2) ==
  LET first == mismatch(a, n1, b, n2)
      met(i) == \E j \in first .. i - 1 : pred(a[j], a[i])
      c2(i) == Cardinality({j \in first .. n2 - 1 : pred(a[i], b[j])})
      c1(i) == 1 + Cardinality({j \in i + 1 .. n1 - 1 : pred(a[i], a[j])})
  IN IF first = n1 \/ first = n2 THEN n1 = n2
     ELSE n1 = n2 /\ \A i \in first .. n1 - 1 : met(i) \/ (c2(i) # 0 /\ c1(i) = c2(i))

(* is_heap_until_n: parent p and its children, one parent after the other. *)
is_heap_until(a, n1) ==
  LET from[p \in Nat] ==
        LET c == 2 * p + 1 IN
        IF c >= n1 THEN n1
        ELSE IF comp(a[p], a[c]) THEN c
        ELSE IF c + 1 = n1 \/ comp(a[p], a[c + 1]) THEN c + 1
        ELSE from[p + 1]
  IN from[0]

min_element(a, n1) ==
  LET best[i \in 0 .. n1 - 1] ==
        IF i > 0 /\ ~comp(a[i], a[best[i - 1]]) THEN best[i - 1] ELSE i
  IN IF n1 = 0 THEN 0 ELSE best[n1 - 1]

max_element(a, n1) ==
  LET best[i \in 0 .. n1 - 1] ==
        IF i > 0 /\ comp(a[i], a[best[i - 1]]) THEN best[i - 1] ELSE i
  IN IF n1 = 0 THEN 0 ELSE best[n1 - 1]

(* minmax_element: two elements at a time, in three comparisons; r is the  *)
(* least and the greatest of the first i.                                  *)
minmax_element(a, n1) ==
  LET lesser(r, i)  == IF comp(a[i], a[r[1]]) THEN i ELSE r[1]
      greater(r, i) == IF comp(a[i], a[r[2]]) THEN r[2] ELSE i
      after[i \in 0 .. n1] ==
        LET r == after[i - 2] IN
        IF i < 2 THEN <<0, 0>>
        ELSE IF i = 2 THEN IF comp(a[1], a[0]) THEN <<1, 0>> ELSE <<0, 1>>
        ELSE IF comp(a[i - 1], a[i - 2])
             THEN <<lesser(r, i - 1), greater(r, i - 2)>>
             ELSE <<lesser(r, i - 2), greater(r, i - 1)>>
      r == after[n1 - 1]
  IN IF n1 < 3 \/ n1 % 2 = 0 THEN after[n1]
     ELSE IF comp(a[n1 - 1], a[r[1]]) THEN <<n1 - 1, r[2]>>
     ELSE <<r[1], greater(r, n1 - 1)>>
=============================================================================
