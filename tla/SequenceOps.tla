----------------------------- MODULE SequenceOps -----------------------------
(***************************************************************************)
(* The algorithms of stl2/detail/algorithm that look at the elements of a  *)
(* range one after the other, as operators on an array a of n elements,    *)
(* numbered from 0.  A predicate is the set T of the keys it holds for.    *)
(***************************************************************************)
EXTENDS BoundOps

CONSTANT pred(_, _)

(* The loop of find_if.hpp, with the test turned round in find_if_not.hpp. *)
find_if(a, n, T) ==
  LET from[i \in 0 .. n] == IF i = n \/ a[i] \in T THEN i ELSE from[i + 1] IN from[0]

find_if_not(a, n, T) ==
  LET from[i \in 0 .. n] == IF i = n \/ a[i] \notin T THEN i ELSE from[i + 1] IN from[0]

find(a, n, v) == find_if(a, n, {v})

(* For each element of the first range, every element of the second.       *)
find_first_of(a, n, b, n2) ==
  LET from[i \in 0 .. n] ==
        IF i = n \/ \E j \in 0 .. n2 - 1 : pred(a[i], b[j]) THEN i ELSE from[i + 1]
  IN from[0]

adjacent_find(a, n) ==
  LET from[i \in 1 .. n] ==
        IF i = n THEN n ELSE IF pred(a[i - 1], a[i]) THEN i - 1 ELSE from[i + 1]
  IN IF n = 0 THEN 0 ELSE from[1]

all_of(a, n, T) ==
  LET from[i \in 0 .. n] == i = n \/ (a[i] \in T /\ from[i + 1]) IN from[0]

any_of(a, n, T) ==
  LET from[i \in 0 .. n] == i < n /\ (a[i] \in T \/ from[i + 1]) IN from[0]

none_of(a, n, T) ==
  LET from[i \in 0 .. n] == i = n \/ (a[i] \notin T /\ from[i + 1]) IN from[0]

count_if(a, n, T) ==
  LET upto[i \in 0 .. n] ==
        IF i = 0 THEN 0 ELSE IF a[i - 1] \in T THEN upto[i - 1] + 1 ELSE upto[i - 1]
  IN upto[n]

count(a, n, v) == count_if(a, n, {v})

is_sorted_until(a, n) ==
  LET from[i \in 1 .. n] == IF i = n \/ comp(a[i], a[i - 1]) THEN i ELSE from[i + 1]
  IN IF n = 0 THEN 0 ELSE from[1]

is_sorted(a, n) == is_sorted_until(a, n) = n

(* Past the true elements, none_of what is left.                           *)
is_partitioned(a, n, T) ==
  LET first == find_if_not(a, n, T)
  IN none_of([i \in 0 .. n - first - 1 |-> a[first + i]], n - first, T)

binary_search(a, n, v) ==
  LET result == lower_bound(a, 0, n, v) IN result # n /\ ~comp(v, a[result])

-----------------------------------------------------------------------------
(* The extreme elements by value: which element of the range, or of two    *)
(* arguments, the value returned was copied from.  The range is not empty. *)

(* __max::impl: a later element replaces the result when it is greater.    *)
max(a, n) ==
  LET best[i \in 0 .. n - 1] ==
        IF i > 0 /\ ~comp(a[best[i - 1]], a[i]) THEN best[i - 1] ELSE i
  IN best[n - 1]

min(a, n) ==
  LET best[i \in 0 .. n - 1] ==
        IF i > 0 /\ ~comp(a[i], a[best[i - 1]]) THEN best[i - 1] ELSE i
  IN best[n - 1]

max_of(x, y) == IF comp(x, y) THEN 1 ELSE 0
min_of(x, y) == IF comp(y, x) THEN 1 ELSE 0
minmax_of(x, y) == IF comp(y, x) THEN <<1, 0>> ELSE <<0, 1>>

(* __minmax::impl: two elements at a time, r the least and the greatest of *)
(* those before i; the second element is compared with the first only.     *)
minmax(a, n) ==
  LET lesser(r, i)  == IF comp(a[i], a[r[1]]) THEN i ELSE r[1]
      greater(r, i) == IF comp(a[i], a[r[2]]) THEN r[2] ELSE i
      from[i \in 2 .. n] ==
        [r \in (0 .. n - 1) \X (0 .. n - 1) |->
           IF i = n THEN r
           ELSE IF i + 1 = n
                THEN IF comp(a[i], a[r[1]]) THEN <<i, r[2]>> ELSE <<r[1], greater(r, i)>>
           ELSE IF comp(a[i + 1], a[i])
                THEN from[i + 2][<<lesser(r, i + 1), greater(r, i)>>]
                ELSE from[i + 2][<<lesser(r, i), greater(r, i + 1)>>]]
  IN IF n = 1 THEN <<0, 0>> ELSE from[2][IF comp(a[1], a[0]) THEN <<1, 0>> ELSE <<0, 1>>]
=============================================================================
