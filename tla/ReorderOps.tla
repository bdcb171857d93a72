----------------------------- MODULE ReorderOps ------------------------------
(***************************************************************************)
(* Algorithms of stl2/detail/algorithm that reorder a range in place       *)
(* (partition.hpp, reverse.hpp, next_permutation.hpp, prev_permutation.hpp,*)
(* unique.hpp, remove_if.hpp, nth_element.hpp), as operators on a memory m *)
(* laid out as in MergeOps.  A scan that the code leaves unguarded is one  *)
(* here too: past an end of the range it has no value.                     *)
(***************************************************************************)
EXTENDS MoveOps, FiniteSets, FiniteSetsExt

CONSTANTS
  comp(_, _), pred(_),
  buffer, size     \* where the temporary buffer is, and its size

Result(m, point) == [mem |-> m, point |-> point]

(* partition: the first false element changes places with each true one.   *)
partition_forward(m, first, last) ==
  LET from == Min({i \in first .. last - 1 : ~pred(m[i])} \cup {last})
      done[i \in from .. last] ==
        IF i = from THEN Result(m, from)
        ELSE LET was == done[i - 1] IN
             IF pred(was.mem[i - 1])
             THEN Result(iter_swap(was.mem, was.point, i - 1), was.point + 1) ELSE was
  IN done[last]

(* partition of bidirectional iterators: from both ends.                   *)
RECURSIVE partition_bidirectional(_, _, _)
partition_bidirectional(m, first, last) ==
  LET f == Min({i \in first .. last - 1 : ~pred(m[i])} \cup {last})
      trues == {i \in f + 1 .. last - 1 : pred(m[i])}
  IN IF f = last \/ trues = {} THEN Result(m, f)
     ELSE partition_bidirectional(iter_swap(m, f, Max(trues)), f + 1, Max(trues))

(* reverse of bidirectional iterators.                                     *)
RECURSIVE reverse(_, _, _)
reverse(m, first, last) ==
  IF last - first < 2 THEN m ELSE reverse(iter_swap(m, first, last - 1), first + 1, last - 1)

(* __swap_ranges::impl; step2 is -1 for a reverse_iterator.                *)
swap_ranges(m, first1, n, first2, step1) ==
  LET swapped[k \in 0 .. n] ==
        IF k = 0 THEN m
        ELSE iter_swap(swapped[k - 1], first1 + step1 * (k - 1), first2 + k - 1)
  IN swapped[n]

(* The first half goes to the buffer and, backwards, to the second half,   *)
(* and what was there backwards to the first.                              *)
reverse_n_with_half_buffer(m, first, n) ==
  LET half == n \div 2
      out  == move(m, first, half, buffer, 1)
      crossed == swap_ranges(out, buffer + half - 1, half, first + half + (n % 2), -1)
  IN move(crossed, buffer, half, first, 1)

RECURSIVE reverse_n_adaptive(_, _, _)
reverse_n_adaptive(m, first, n) ==
  LET half_n == n \div 2
      first2 == first + half_n + (n % 2)
      halves == reverse_n_adaptive(reverse_n_adaptive(m, first, half_n), first2, half_n)
  IN IF n < 2 THEN m
     ELSE IF half_n <= size THEN reverse_n_with_half_buffer(m, first, n)
     ELSE swap_ranges(halves, first, half_n, first2, 1)

(* next_permutation, and with the comparison turned round prev_permutation; *)
(* the point is 1 for true.                                                *)
permutation(m, first, end, next) ==
  LET less(x, y) == IF next THEN comp(x, y) ELSE comp(y, x)
      rises == {i \in first .. end - 2 : less(m[i], m[i + 1])}
      i == Max(rises)
      j == Max({k \in i + 1 .. end - 1 : less(m[i], m[k])})
  IN IF end - first < 2 THEN Result(m, 0)
     ELSE IF rises = {} THEN Result(reverse(m, first, end), 0)
     ELSE Result(reverse(iter_swap(m, i, j), i + 1, end), 1)

(* A faulty next_permutation: the exchange is with the first above m[i].   *)
next_permutation_first(m, first, end) ==
  LET rises == {i \in first .. end - 2 : comp(m[i], m[i + 1])}
      i == Max(rises)
      j == Min({k \in i + 1 .. end - 1 : comp(m[i], m[k])})
  IN IF end - first < 2 THEN Result(m, 0)
     ELSE IF rises = {} THEN Result(reverse(m, first, end), 0)
     ELSE Result(reverse(iter_swap(m, i, j), i + 1, end), 1)

next_permutation(m, first, end) == permutation(m, first, end, TRUE)
prev_permutation(m, first, end) == permutation(m, first, end, FALSE)

equivalent(x, y) == ~comp(x, y) /\ ~comp(y, x)

(* unique: keep what differs from the last element kept.                   *)
unique(m, first, last) ==
  LET from == Min({i \in first .. last - 2 : equivalent(m[i], m[i + 1])} \cup {last})
      done[i \in from + 2 .. last] ==
        IF i = from + 2 THEN Result(m, from)
        ELSE LET was == done[i - 1] IN
             IF equivalent(was.mem[was.point], was.mem[i - 1]) THEN was
             ELSE Result(move1(was.mem, i - 1, was.point + 1), was.point + 1)
  IN IF from = last THEN Result(m, last) ELSE Result(done[last].mem, done[last].point + 1)

remove_if(m, first, last) ==
  LET from == Min({i \in first .. last - 1 : pred(m[i])} \cup {last})
      done[i \in from + 1 .. last] ==
        IF i = from + 1 THEN Result(m, from)
        ELSE LET was == done[i - 1] IN
             IF pred(was.mem[i - 1]) THEN was
             ELSE Result(move1(was.mem, i - 1, was.point), was.point + 1)
  IN IF from = last THEN Result(m, last) ELSE done[last]

-----------------------------------------------------------------------------
(* nth_element.hpp                                                         *)

(* Sort three elements; the point is the number of swaps.                  *)
sort3(m, x, y, z) ==
  LET yz == iter_swap(m, y, z)
      xy == iter_swap(m, x, y)
  IN IF ~comp(m[y], m[x])
     THEN IF ~comp(m[z], m[y]) THEN Result(m, 0)
          ELSE IF comp(yz[y], yz[x]) THEN Result(iter_swap(yz, x, y), 2) ELSE Result(yz, 1)
     ELSE IF comp(m[z], m[y]) THEN Result(iter_swap(m, x, z), 1)
          ELSE IF comp(xy[z], xy[y]) THEN Result(iter_swap(xy, y, z), 2) ELSE Result(xy, 1)

selection_sort(m, begin, end) ==
  LET least(s, i) == Min({j \in i .. end - 1 : \A k \in i .. end - 1 : ~comp(s[k], s[j])})
      sorted[i \in begin .. end] ==
        IF i = begin THEN m
        ELSE iter_swap(sorted[i - 1], i - 1, least(sorted[i - 1], i - 1))
  IN sorted[end]

(* The first place from i up, and the first below j down, where a predicate *)
(* fails that is a function on places.                                     *)
scan_up(holds, i) ==
  LET at[k \in DOMAIN holds] == IF holds[k] THEN at[k + 1] ELSE k IN at[i]
scan_down(holds, j) ==
  LET at[k \in DOMAIN holds] == IF holds[k] THEN at[k - 1] ELSE k IN at[j - 1]

(* Partition [i, j) around *mid: both scans run into a guard.  Where mid   *)
(* is moved by a swap it is followed.                                      *)
RECURSIVE split(_, _, _, _, _)
split(m, i, j, mid, swaps) ==
  LET below == [k \in DOMAIN m |-> comp(m[k], m[mid])]
      up == scan_up(below, i)
      down == scan_down([k \in DOMAIN m |-> ~below[k]], j)
  IN IF up >= down THEN [mem |-> m, i |-> up, mid |-> mid, swaps |-> swaps]
     ELSE split(iter_swap(m, up, down), up + 1, down,
                IF mid = up THEN down ELSE mid, swaps + 1)

(* Partition [i, j) into what equals *first and what is greater.           *)
RECURSIVE split_equal(_, _, _, _)
split_equal(m, first, i, j) ==
  LET greater == [k \in DOMAIN m |-> comp(m[first], m[k])]
      up == scan_up([k \in DOMAIN m |-> ~greater[k]], i)
      down == scan_down(greater, j)
  IN IF up >= down THEN Result(m, up)
     ELSE split_equal(iter_swap(m, up, down), first, up + 1, down)

Ordered(m, first, last) == \A k \in first + 1 .. last - 1 : ~comp(m[k], m[k - 1])

(* What is left of the range is [first, end); what is no longer than limit *)
(* (7 in the code) is sorted.                                              *)
RECURSIVE nth_element(_, _, _, _, _), nth_of_equal(_, _, _, _, _)
nth_element(m, first, nth, end, limit) ==
  LET len == end - first
      middle == first + len \div 2
      lm1 == end - 1
      s == sort3(m, first, middle, lm1)
      guarded == comp(s.mem[first], s.mem[middle])
      guards == {j \in first + 1 .. lm1 - 1 : comp(s.mem[j], s.mem[middle])}
      g == Max(guards)
      from == IF guarded THEN s.mem ELSE iter_swap(s.mem, first, g)
      j == IF guarded THEN lm1 ELSE g
      swaps == IF guarded THEN s.point ELSE s.point + 1
      p == IF first + 1 < j THEN split(from, first + 1, j, middle, swaps)
           ELSE [mem |-> from, i |-> first + 1, mid |-> middle, swaps |-> swaps]
      last_swap == p.i # p.mid /\ comp(p.mem[p.mid], p.mem[p.i])
      q == IF last_swap THEN iter_swap(p.mem, p.i, p.mid) ELSE p.mem
      untouched == p.swaps = 0 /\ ~last_swap
  IN IF nth = end \/ len < 2 THEN m
     ELSE IF len = 2 THEN IF comp(m[lm1], m[first]) THEN iter_swap(m, first, lm1) ELSE m
     ELSE IF len = 3 THEN sort3(m, first, first + 1, lm1).mem
     ELSE IF len <= limit THEN selection_sort(m, first, end)
     ELSE IF ~guarded /\ guards = {} THEN nth_of_equal(s.mem, first, nth, end, limit)
     ELSE IF nth = p.i THEN q
     ELSE IF untouched /\ (IF nth < p.i THEN Ordered(q, first, p.i) ELSE Ordered(q, p.i, end)) THEN q
     ELSE IF nth < p.i THEN nth_element(q, first, nth, p.i, limit)
     ELSE nth_element(q, p.i + 1, nth, end, limit)

(* No element is less than *first: put those that equal it in front.       *)
nth_of_equal(m, first, nth, end, limit) ==
  LET j == end - 1
      equal_last == ~comp(m[first], m[j])
      greater == {k \in first + 1 .. j - 1 : comp(m[first], m[k])}
      i == IF equal_last THEN Min(greater) + 1 ELSE first + 1
      from == IF equal_last THEN iter_swap(m, Min(greater), j) ELSE m
      p == split_equal(from, first, i, j)
  IN IF equal_last /\ greater = {} THEN m
     ELSE IF i = j THEN from
     ELSE IF nth < p.point THEN p.mem
     ELSE nth_element(p.mem, p.point, nth, end, limit)
=============================================================================
