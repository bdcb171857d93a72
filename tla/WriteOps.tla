------------------------------ MODULE WriteOps -------------------------------
(***************************************************************************)
(* The algorithms of stl2/detail/algorithm that write over a range in      *)
(* place, from values of it or from others, as operators on a memory m, a  *)
(* function from addresses to elements.  A predicate is the set T of the   *)
(* elements it holds for.                                                  *)
(***************************************************************************)
EXTENDS MoveOps, FiniteSets, FiniteSetsExt

(* A faulty copy_backward that goes from the front.                        *)
copy_backward_forward(m, first, last, out) ==
  LET n == last - first
      copied[k \in 0 .. n] ==
        IF k = 0 THEN m ELSE [copied[k - 1] EXCEPT ![out - n + k - 1] = copied[k - 1][first + k - 1]]
  IN copied[n]

copy(m, first, last, result) ==
  LET copied[k \in 0 .. last - first] ==
        IF k = 0 THEN m ELSE [copied[k - 1] EXCEPT ![result + k - 1] = copied[k - 1][first + k - 1]]
  IN copied[last - first]

copy_backward(m, first, last, out) ==
  LET copied[k \in 0 .. last - first] ==
        IF k = 0 THEN m ELSE [copied[k - 1] EXCEPT ![out - k] = copied[k - 1][last - k]]
  IN copied[last - first]

move_backward(m, first, last, result) == move(m, last - 1, last - first, result - 1, -1)

(* swap_ranges, until one of the two ends.                                 *)
swap_two_ranges(m, first1, last1, first2, last2) ==
  LET swapped[k \in Nat] ==
        IF k = 0 THEN m ELSE iter_swap(swapped[k - 1], first1 + k - 1, first2 + k - 1)
  IN swapped[Min({last1 - first1, last2 - first2})]

(* Past the first element that is removed, keep what is not; the result is *)
(* the memory and the end of what is kept.                                 *)
remove(m, first, last, T) ==
  LET from == Min({i \in first .. last - 1 : m[i] \in T} \cup {last})
      kept[i \in from + 1 .. last] ==
        LET was == kept[i - 1] IN
        IF i = from + 1 THEN <<m, from>>
        ELSE IF m[i - 1] \in T THEN was
        ELSE <<move1(was[1], i - 1, was[2]), was[2] + 1>>
  IN IF from = last THEN <<m, last>> ELSE kept[last]

replace_if(m, first, last, T, new_value) ==
  [i \in DOMAIN m |-> IF i \in first .. last - 1 /\ m[i] \in T THEN new_value ELSE m[i]]

fill_n(m, first, n, value) == [i \in DOMAIN m |-> IF i \in first .. first + n - 1 THEN value ELSE m[i]]
fill(m, first, last, value) == fill_n(m, first, last - first, value)

(* What the generator yields are the numbers from next on.                 *)
generate_n(m, first, n, next) ==
  LET done[k \in Nat] ==
        IF k = 0 THEN m ELSE [done[k - 1] EXCEPT ![first + k - 1] = next + k - 1]
  IN done[IF n > 0 THEN n ELSE 0]
generate(m, first, last, next) == generate_n(m, first, last - first, next)
=============================================================================
