------------------------------ MODULE BoundOps -------------------------------
(***************************************************************************)
(* Binary searches (stl2/detail/algorithm: partition_point.hpp,            *)
(* lower_bound.hpp, upper_bound.hpp, equal_range.hpp) in the n elements of *)
(* an array a from first on.                                               *)
(***************************************************************************)
EXTENDS Integers

CONSTANT comp(_, _)

(* ext::partition_point_n: the first of n places where the predicate, a    *)
(* function on places, does not hold.                                      *)
partition_point_n(holds, first, n) ==
  LET point[k \in 0 .. n] ==
        LET half == k \div 2 IN
        [f \in first .. first + n - k |->
           IF k = 0 THEN f
           ELSE IF holds[f + half] THEN point[k - half - 1][f + half + 1] ELSE point[half][f]]
  IN point[n][first]

(* partition_point without the length: steps that double, as long as the   *)
(* predicate holds where they lead, then a search in the last of them.     *)
partition_point(holds, first, n) ==
  LET from[f \in first .. first + n] ==
        LET left == first + n - f IN
        [step \in 1 .. 2 * n + 1 |->
           IF step >= left THEN partition_point_n(holds, f, left)
           ELSE IF ~holds[f + step] THEN partition_point_n(holds, f, step)
           ELSE from[f + step][2 * step]]
  IN from[first][1]

before(a, v) == [i \in DOMAIN a |-> comp(a[i], v)]
not_after(a, v) == [i \in DOMAIN a |-> ~comp(v, a[i])]

lower_bound(a, first, n, v) == partition_point_n(before(a, v), first, n)
upper_bound(a, first, n, v) == partition_point_n(not_after(a, v), first, n)

(* A faulty equal_range_n: the upper half begins with the equal element,   *)
(* and its length does not.                                                *)
equal_range_n_short(a, first, n, v) ==
  LET range[dist \in 0 .. n] ==
        LET half == dist \div 2 IN
        [f \in first .. first + n - dist |->
           IF dist = 0 THEN <<f, f>>
           ELSE IF comp(a[f + half], v) THEN range[dist - half - 1][f + half + 1]
           ELSE IF comp(v, a[f + half]) THEN range[half][f]
           ELSE <<lower_bound(a, f, half, v), upper_bound(a, f + half, dist - half - 1, v)>>]
  IN range[n][first]

(* ext::equal_range_n: both bounds, apart as soon as an equal one is met.  *)
equal_range_n(a, first, n, v) ==
  LET range[dist \in 0 .. n] ==
        LET half == dist \div 2 IN
        [f \in first .. first + n - dist |->
           IF dist = 0 THEN <<f, f>>
           ELSE IF comp(a[f + half], v) THEN range[dist - half - 1][f + half + 1]
           ELSE IF comp(v, a[f + half]) THEN range[half][f]
           ELSE <<lower_bound(a, f, half, v), upper_bound(a, f + half + 1, dist - half - 1, v)>>]
  IN range[n][first]

(* equal_range without the length, in steps that double.                   *)
equal_range(a, first, n, v) ==
  LET from[f \in first .. first + n] ==
        LET left == first + n - f IN
        [dist \in 1 .. 2 * n + 1 |->
           IF dist >= left THEN equal_range_n(a, f, left, v)
           ELSE IF comp(v, a[f + dist]) THEN equal_range_n(a, f, dist, v)
           ELSE IF ~comp(a[f + dist], v)
                THEN <<lower_bound(a, f, dist, v), upper_bound(a, f + dist, left - dist, v)>>
           ELSE from[f + dist + 1][2 * dist]]
  IN from[first][1]
=============================================================================
