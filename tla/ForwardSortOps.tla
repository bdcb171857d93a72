--------------------------- MODULE ForwardSortOps ----------------------------
(***************************************************************************)
(* The sort and the stable partition of forward iterators, which know the  *)
(* lengths of their ranges and no way back (stl2/detail/algorithm:         *)
(* forward_sort.hpp), as operators on a memory m laid out as in MergeOps.  *)
(***************************************************************************)
EXTENDS MergeOps

merge_n_with_buffer(m, f0, n0, f1, n1) ==
  merge(move(m, f0, n0, buffer, 1), buffer, n0, f1, n1, f0, 1)

(* merge_n_step_0 and merge_n_step_1: halve the longer range, find where   *)
(* its middle element belongs in the other, and rotate it to its place,    *)
(* between a left pair of ranges and a right pair.                         *)
RECURSIVE merge_n_adaptive(_, _, _, _, _)
merge_n_adaptive(m, f0, n0, f1, n1) ==
  LET shorter == n0 < n1
      f0_1 == IF shorter THEN f0 + n0 \div 2
                         ELSE upper_bound(m, f0, n0, m[f1 + n1 \div 2])
      f1_1 == IF shorter THEN lower_bound(m, f1, n1, m[f0_1])
                         ELSE f1 + n1 \div 2 + 1
      n0_0 == f0_1 - f0
      n0_1 == IF shorter THEN f1_1 - f1 ELSE n1 \div 2
      n1_0 == IF shorter THEN n0 - n0_0 - 1 ELSE n0 - n0_0
      n1_1 == IF shorter THEN n1 - n0_1 ELSE n1 - n0_1 - 1
      f1_0 == rotated(f0_1, f1, f1_1) + (IF shorter THEN 1 ELSE 0)
      r    == rotate(m, f0_1, f1, f1_1, category, trivial)
  IN IF n0 = 0 \/ n1 = 0 THEN m
     ELSE IF n0 <= size THEN merge_n_with_buffer(m, f0, n0, f1, n1)
     ELSE merge_n_adaptive(merge_n_adaptive(r, f0, n0_0, f0_1, n0_1), f1_0, n1_0, f1_1, n1_1)

RECURSIVE sort_n_adaptive(_, _, _)
sort_n_adaptive(m, first, n) ==
  LET half_n == n \div 2
      halves == sort_n_adaptive(sort_n_adaptive(m, first, half_n), first + half_n, n - half_n)
  IN IF half_n = 0 THEN m
     ELSE merge_n_adaptive(halves, first, half_n, first + half_n, n - half_n)
=============================================================================
