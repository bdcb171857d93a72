------------------------------- MODULE SetOps --------------------------------
(***************************************************************************)
(* Algorithms of stl2/detail/algorithm that copy elements of one or two    *)
(* ranges to an output: merge.hpp, set_union.hpp, set_intersection.hpp,    *)
(* set_difference.hpp, set_symmetric_difference.hpp, unique_copy.hpp and   *)
(* sample.hpp.  The output is a sequence of <<1, i>> for element a[i] of   *)
(* the first range and <<2, j>> for b[j] of the second.                    *)
(***************************************************************************)
EXTENDS Integers, Sequences

CONSTANTS pred(_, _), comp(_, _)

(* copy what is left of a range of n elements, from i on.                  *)
copy(range, i, n) == [k \in 1 .. n - i |-> <<range, i + k - 1>>]

merge(a, n1, b, n2) ==
  LET from[i \in 0 .. n1] ==
        [j \in 0 .. n2 |->
           IF i = n1 THEN copy(2, j, n2)
           ELSE IF j = n2 THEN copy(1, i, n1)
           ELSE IF comp(a[i], b[j]) THEN <<<<1, i>>>> \o from[i + 1][j]
           ELSE <<<<2, j>>>> \o from[i][j + 1]]
  IN from[0][0]

(* A faulty set_union: it does not pass over the equivalent element.       *)
set_union_keeps_both(a, n1, b, n2) == merge(a, n1, b, n2)

(* One of two equivalent elements is passed over: that of the first range. *)
set_union(a, n1, b, n2) ==
  LET from[i \in 0 .. n1] ==
        [j \in 0 .. n2 |->
           IF i = n1 THEN copy(2, j, n2)
           ELSE IF j = n2 THEN copy(1, i, n1)
           ELSE IF comp(a[i], b[j]) THEN <<<<1, i>>>> \o from[i + 1][j]
           ELSE <<<<2, j>>>> \o from[IF comp(b[j], a[i]) THEN i ELSE i + 1][j + 1]]
  IN from[0][0]

set_intersection(a, n1, b, n2) ==
  LET from[i \in 0 .. n1] ==
        [j \in 0 .. n2 |->
           IF i = n1 \/ j = n2 THEN <<>>
           ELSE IF comp(a[i], b[j]) THEN from[i + 1][j]
           ELSE IF comp(b[j], a[i]) THEN from[i][j + 1]
           ELSE <<<<1, i>>>> \o from[i + 1][j + 1]]
  IN from[0][0]

set_difference(a, n1, b, n2) ==
  LET from[i \in 0 .. n1] ==
        [j \in 0 .. n2 |->
           IF i = n1 \/ j = n2 THEN copy(1, i, n1)
           ELSE IF comp(a[i], b[j]) THEN <<<<1, i>>>> \o from[i + 1][j]
           ELSE from[IF comp(b[j], a[i]) THEN i ELSE i + 1][j + 1]]
  IN from[0][0]

set_symmetric_difference(a, n1, b, n2) ==
  LET from[i \in 0 .. n1] ==
        [j \in 0 .. n2 |->
           IF i = n1 THEN copy(2, j, n2)
           ELSE IF j = n2 THEN copy(1, i, n1)
           ELSE IF comp(a[i], b[j]) THEN <<<<1, i>>>> \o from[i + 1][j]
           ELSE IF comp(b[j], a[i]) THEN <<<<2, j>>>> \o from[i][j + 1]
           ELSE from[i + 1][j + 1]]
  IN from[0][0]

(* unique_copy: compare with the last element copied, at m.                *)
unique_copy(a, n1) ==
  LET from[i \in 0 .. n1] ==
        [m \in 0 .. n1 |->
           IF i = n1 THEN <<>>
           ELSE IF i > 0 /\ pred(a[i], a[m]) THEN from[i + 1][m]
           ELSE <<<<1, i>>>> \o from[i + 1][i]]
  IN from[0][0]

(* The outcomes of __sample::sized_impl: of the elements left each is as   *)
(* likely to be drawn, and one in front of the count wanted is taken.      *)
sample_sized(n1, count) ==
  LET from[i \in 0 .. n1] ==
        [wanted \in 0 .. n1 |->
           IF i = n1 \/ wanted = 0 THEN {<<>>}
           ELSE UNION {IF drawn < wanted THEN {<<<<1, i>>>> \o s : s \in from[i + 1][wanted - 1]}
                                         ELSE from[i + 1][wanted] : drawn \in 0 .. n1 - i - 1}]
  IN from[0][IF count > n1 THEN n1 ELSE count]

(* A faulty sample without the length: every later element takes a place.  *)
sample_unsized_replaces(n1, count) ==
  LET after[i \in 0 .. n1] ==
        IF i <= count THEN {copy(1, 0, i)}
        ELSE UNION {{[s EXCEPT ![drawn + 1] = <<1, i - 1>>] : s \in after[i - 1]}
                      : drawn \in 0 .. count - 1}
  IN IF count <= 0 THEN {<<>>} ELSE after[n1]

(* The outcomes of sample without the length: the first count elements,    *)
(* each replaced when a later one draws its place.                         *)
sample_unsized(n1, count) ==
  LET after[i \in 0 .. n1] ==
        IF i <= count THEN {copy(1, 0, i)}
        ELSE UNION {IF drawn < count THEN {[s EXCEPT ![drawn + 1] = <<1, i - 1>>] : s \in after[i - 1]}
                                     ELSE after[i - 1] : drawn \in 0 .. i - 1}
  IN IF count <= 0 THEN {<<>>} ELSE after[n1]
=============================================================================
