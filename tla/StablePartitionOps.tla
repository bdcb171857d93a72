------------------------- MODULE StablePartitionOps --------------------------
(***************************************************************************)
(* stl2/detail/algorithm/stable_partition.hpp as operators on a memory m   *)
(* laid out as in MergeOps.  Most of them return the memory and a point.   *)
(***************************************************************************)
EXTENDS MoveOps, FiniteSets, FiniteSetsExt

CONSTANTS
  pred(_),
  buffer, size,       \* where the temporary buffer is, and its size
  category, trivial   \* of the iterator; of the elements (see rotate)

Result(m, point) == [mem |-> m, point |-> point]

(* Past the elements at first, up to end, that satisfy pred.               *)
skip_true(m, first, end) == Min({i \in first .. end - 1 : ~pred(m[i])} \cup {end})

(* Back to the last element of [first, end) that satisfies pred, but not   *)
(* looking at first.                                                       *)
skip_false(m, first, end) == Max({i \in first + 1 .. end - 1 : pred(m[i])} \cup {first})

(* Move [first, last) to out_true or to out_false (partition_copy.hpp).    *)
partition_copy(m, first, last, out_true, out_false) ==
  LET done[i \in first .. last] ==
        IF i = first THEN [mem |-> m, t |-> out_true, f |-> out_false]
        ELSE LET was == done[i - 1] IN
             IF pred(was.mem[i - 1])
             THEN [was EXCEPT !.mem = move1(was.mem, i - 1, was.t), !.t = @ + 1]
             ELSE [was EXCEPT !.mem = move1(was.mem, i - 1, was.f), !.f = @ + 1]
  IN done[last]

(* *first is false: it goes to the buffer before the others.               *)
forward_buffer(m, first, n) ==
  LET split == partition_copy(move1(m, first, buffer), first + 1, first + n, first, buffer + 1)
  IN Result(move(split.mem, buffer, split.f - buffer, split.t, 1), split.t)

(* *first is false, and *last, the last of the range, is true.             *)
bidirectional_buffer(m, first, last) ==
  LET split == partition_copy(move1(m, first, buffer), first + 1, last, first, buffer + 1)
      moved == move1(split.mem, last, split.t)
  IN Result(move(moved, buffer, split.f - buffer, split.t + 1, 1), split.t + 1)

(* forward and forward_reduce: halve, partition the halves, and rotate the *)
(* false elements of the first behind the true ones of the second.         *)
RECURSIVE forward(_, _, _), forward_reduce(_, _, _)
forward(m, first, n) ==
  LET middle == first + n \div 2
      res1 == forward(m, first, n \div 2)
      res2 == forward_reduce(res1.mem, middle, n - n \div 2)
  IN IF n = 1 THEN Result(m, first)
     ELSE IF n <= size THEN forward_buffer(m, first, n)
     ELSE Result(rotate(res2.mem, res1.point, middle, res2.point, category, trivial),
                 rotated(res1.point, middle, res2.point))

forward_reduce(m, first, n) ==
  LET from == skip_true(m, first, first + n)
      left == first + n - from
  IN IF left < 2 THEN Result(m, from) ELSE forward(m, from, left)

(* The same with the range shrunk from both ends: last is in the range.    *)
RECURSIVE bidirectional(_, _, _), reduce_front(_, _, _), reduce_back(_, _, _)
bidirectional(m, first, last) ==
  LET n == last - first
      middle == first + n \div 2
      pp1 == reduce_back(m, first, middle)
      pp2 == reduce_front(pp1.mem, middle, last)
  IN IF n = 1 THEN Result(iter_swap(m, first, last), last)
     ELSE IF n <= size THEN bidirectional_buffer(m, first, last)
     ELSE Result(rotate(pp2.mem, pp1.point, middle, pp2.point, category, trivial),
                 rotated(pp1.point, middle, pp2.point))

reduce_front(m, first, last) ==
  LET from == skip_true(m, first, last)
  IN IF from = last THEN Result(m, last + 1) ELSE bidirectional(m, from, last)

reduce_back(m, first, end) ==
  LET last == skip_false(m, first, end)
  IN IF last = first THEN Result(m, first) ELSE bidirectional(m, first, last)

(* The forward and the bidirectional overload of stable_partition_n.       *)
stable_partition_forward(m, first, end) == forward_reduce(m, first, end - first)

stable_partition_bidirectional(m, first, end) ==
  LET from == skip_true(m, first, end)
  IN IF from = end THEN Result(m, from) ELSE reduce_back(m, from, end)

stable_partition(m, first, end) ==
  IF category = "forward" THEN stable_partition_forward(m, first, end)
                          ELSE stable_partition_bidirectional(m, first, end)
=============================================================================
