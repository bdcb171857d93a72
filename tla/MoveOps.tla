------------------------------ MODULE MoveOps --------------------------------
(***************************************************************************)
(* Moving elements about: stl2/detail/algorithm/move.hpp and rotate.hpp    *)
(* as operators on a memory m, a function from addresses to elements.      *)
(***************************************************************************)
EXTENDS Integers

CONSTANTS
  Moved,           \* what a move leaves behind: an object without a value
  SelfMoveKeeps    \* whether `x = std::move(x)' leaves x its value

move1(m, from, to) ==
  IF from # to THEN [m EXCEPT ![to] = m[from], ![from] = Moved]
  ELSE IF SelfMoveKeeps THEN m ELSE [m EXCEPT ![to] = Moved]

(* Move n elements one after the other; step is -1 under a reverse_iterator. *)
move(m, first, n, result, step) ==
  LET moved[k \in 0 .. n] ==
        IF k = 0 THEN m
        ELSE move1(moved[k - 1], first + step * (k - 1), result + step * (k - 1))
  IN moved[n]

iter_swap(m, i, j) == [m EXCEPT ![i] = m[j], ![j] = m[i]]

(* A faulty rotate_left: the element held in a local is not put back.      *)
rotate_left_drops(m, first, last) == move(m, first + 1, last - first - 1, first, 1)

rotate_left(m, first, last) ==
  LET shifted == move(m, first + 1, last - first - 1, first, 1)
  IN [shifted EXCEPT ![last - 1] = m[first]]

rotate_right(m, first, last) ==
  LET shifted == move(m, last - 2, last - first - 1, last - 1, -1)
  IN [shifted EXCEPT ![first] = m[last - 1]]

(* Swap [first, middle) with what j runs through, again and again: when j  *)
(* reaches last, the elements from middle on are still to be brought here. *)
RECURSIVE swap_over(_, _, _, _, _)
swap_over(m, first, middle, j, last) ==
  LET s == iter_swap(m, first, j)
      caught_up == first + 1 = middle
  IN IF j + 1 = last
     THEN IF caught_up THEN s ELSE swap_over(s, first + 1, middle, middle, last)
     ELSE swap_over(s, first + 1, IF caught_up THEN j + 1 ELSE middle, j + 1, last)

rotate_forward(m, first, middle, last) == swap_over(m, first, middle, middle, last)

RECURSIVE gcd(_, _)
gcd(x, y) == IF x % y = 0 THEN y ELSE gcd(y, x % y)

(* Follow the cycle of p, each element taking the place m1 before it.      *)
RECURSIVE cycle(_, _, _, _, _, _)
cycle(m, first, middle, last, p, p1) ==
  LET m1 == middle - first
      p2 == IF m1 < last - p1 THEN p1 + m1 ELSE first + (m1 - (last - p1))
  IN IF p2 = p THEN m ELSE cycle(iter_swap(m, p1, p2), first, middle, last, p, p2)

rotate_gcd(m, first, middle, last) ==
  IF middle - first = last - middle
  THEN [i \in DOMAIN m |-> IF i \in first .. middle - 1 THEN m[i + (middle - first)]
                           ELSE IF i \in middle .. last - 1 THEN m[i - (middle - first)]
                           ELSE m[i]]
  ELSE LET g == gcd(middle - first, last - middle)
           cycled[k \in 0 .. g] ==
             IF k = 0 THEN m
             ELSE cycle(cycled[k - 1], first, middle, last, first + g - k, first + g - k)
       IN cycled[g]

(* What the overload for an iterator of the category does; trivial says    *)
(* that the elements are trivially move assignable.                        *)
rotate_as(m, first, middle, last, category, trivial) ==
  IF trivial /\ first + 1 = middle /\ category # "unbounded"
  THEN rotate_left(m, first, last)
  ELSE IF trivial /\ middle + 1 = last /\ category \in {"bidirectional", "random"}
  THEN rotate_right(m, first, last)
  ELSE IF trivial /\ category = "random" THEN rotate_gcd(m, first, middle, last)
  ELSE rotate_forward(m, first, middle, last)

rotate(m, first, middle, last, category, trivial) ==
  IF first = middle \/ middle = last THEN m
  ELSE rotate_as(m, first, middle, last, category, trivial)

(* Where the element that was first is: rotate(...).begin().               *)
rotated(first, middle, last) == first + (last - middle)
=============================================================================
