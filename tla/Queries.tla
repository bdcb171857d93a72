------------------------------- MODULE Queries -------------------------------
(***************************************************************************)
(* One call, on any two arrays, of an algorithm of stl2 that changes       *)
(* neither: it searches, compares or bounds, or copies to an output.       *)
(* Where an algorithm has several overloads, the answer holds what each of *)
(* them returns.                                                           *)
(***************************************************************************)
EXTENDS Integers, Sequences, FiniteSets, FiniteSetsExt, Functions

CONSTANTS Arrays, Keys    \* the arrays there may be: functions from 0 .. n - 1 to Keys
ASSUME QueriesAssumption ==
  /\ Keys \subseteq Int
  /\ \A x \in Arrays : IsFiniteSet(DOMAIN x) /\ x \in [0 .. Cardinality(DOMAIN x) - 1 -> Keys]

VARIABLES
  a, b,      \* the ranges
  answer     \* the call, its argument, and the set of what its overloads return
vars == <<a, b, answer>>

n1 == Cardinality(DOMAIN a)
n2 == Cardinality(DOMAIN b)
First == 0 .. n1 - 1
Second == 0 .. n2 - 1

equal_to(x, y) == x = y
less(x, y) == x < y

S == INSTANCE SearchOps WITH pred <- equal_to, comp <- less
C == INSTANCE SetOps WITH pred <- equal_to, comp <- less
E == INSTANCE SequenceOps WITH pred <- equal_to, comp <- less
O == INSTANCE CopyOps WITH comp <- less

Sorted(x) == \A i, j \in DOMAIN x : i < j => ~less(x[j], x[i])

Init == a \in Arrays /\ b \in Arrays /\ answer = [call |-> "none", arg |-> 0, results |-> {}]

Answer(call, arg, results) ==
  /\ answer' = [call |-> call, arg |-> arg, results |-> results]
  /\ UNCHANGED <<a, b>>

(* Searches for a whole range.                                             *)
search == Answer("search", 0, {S!search_unsized(a, n1, b, n2), S!search_sized(a, n1, b, n2)})

find_end ==
  Answer("find_end", 0, {S!find_end_forward(a, n1, b, n2), S!find_end_bidirectional(a, n1, b, n2),
                         S!find_end_random(a, n1, b, n2)})

(* The range searched for is the first so many times the value v.          *)
search_n ==
  \E count \in 0 .. n1 + 1, v \in Keys :
    Answer("search_n", <<count, v>>,
           {S!search_n_unsized(a, n1, count, v), S!search_n_sized(a, n1, count, v)})

mismatch == Answer("mismatch", 0, {S!mismatch(a, n1, b, n2)})
equal == Answer("equal", 0, {S!equal(a, n1, b, n2)})
lexicographical_compare ==
  Answer("lexicographical_compare", 0, {S!lexicographical_compare(a, n1, b, n2)})
is_permutation == Answer("is_permutation", 0, {S!is_permutation(a, n1, b, n2)})
includes == Sorted(a) /\ Sorted(b) /\ Answer("includes", 0, {S!includes(a, n1, b, n2)})

is_heap_until == Answer("is_heap_until", 0, {S!is_heap_until(a, n1)})
min_element == Answer("min_element", 0, {S!min_element(a, n1)})
max_element == Answer("max_element", 0, {S!max_element(a, n1)})
minmax_element == Answer("minmax_element", 0, {S!minmax_element(a, n1)})

(* A call on one range is made where the other one is empty.               *)
Alone == n2 = 0

(* The values: each with how its overload for two arguments does.          *)
extremes ==
  /\ n1 > 0 /\ Alone
  /\ \/ Answer("max", 0, {E!max(a, n1)} \cup (IF n1 = 2 THEN {E!max_of(a[0], a[1])} ELSE {}))
     \/ Answer("min", 0, {E!min(a, n1)} \cup (IF n1 = 2 THEN {E!min_of(a[0], a[1])} ELSE {}))
     \/ Answer("minmax", 0, {E!minmax(a, n1)} \cup (IF n1 = 2 THEN {E!minmax_of(a[0], a[1])} ELSE {}))

is_sorted == Alone /\ Answer("is_sorted", 0, {<<E!is_sorted_until(a, n1), E!is_sorted(a, n1)>>})
is_heap == Alone /\ Answer("is_heap", 0, {S!is_heap_until(a, n1) = n1})
adjacent_find == Alone /\ Answer("adjacent_find", 0, {E!adjacent_find(a, n1)})
find_first_of == Answer("find_first_of", 0, {E!find_first_of(a, n1, b, n2)})

(* A predicate is the set T of the keys it holds for; of one key, find and *)
(* count look for the value.                                               *)
Value(T, result) == {result[v] : v \in {v \in Keys : T = {v}}}

inspect ==
  \E T \in IF Alone THEN SUBSET Keys ELSE {} :
    \/ Answer("find_if", T, {E!find_if(a, n1, T)} \cup Value(T, [v \in Keys |-> E!find(a, n1, v)]))
    \/ Answer("find_if_not", T, {E!find_if_not(a, n1, T)})
    \/ Answer("count_if", T, {E!count_if(a, n1, T)} \cup Value(T, [v \in Keys |-> E!count(a, n1, v)]))
    \/ Answer("all_any_none", T, {<<E!all_of(a, n1, T), E!any_of(a, n1, T), E!none_of(a, n1, T)>>})
    \/ Answer("is_partitioned", T, {E!is_partitioned(a, n1, T)})

(* The precondition of a bound is a range sorted by the same comparison.   *)
binary_search ==
  \E v \in Keys : Alone /\ Sorted(a) /\ Answer("binary_search", v, {E!binary_search(a, n1, v)})

equal_range ==
  \E v \in Keys :
    /\ Sorted(a)
    /\ Answer("equal_range", v,
         {S!equal_range(a, 0, n1, v), S!equal_range_n(a, 0, n1, v),
          <<S!lower_bound(a, 0, n1, v), S!upper_bound(a, 0, n1, v)>>,
          <<S!partition_point(S!before(a, v), 0, n1),
            S!partition_point(S!not_after(a, v), 0, n1)>>})

Combine(call, result) == Sorted(a) /\ Sorted(b) /\ Answer(call, 0, {result})

merge == Combine("merge", C!merge(a, n1, b, n2))
set_union == Combine("set_union", C!set_union(a, n1, b, n2))
set_intersection == Combine("set_intersection", C!set_intersection(a, n1, b, n2))
set_difference == Combine("set_difference", C!set_difference(a, n1, b, n2))
set_symmetric_difference ==
  Combine("set_symmetric_difference", C!set_symmetric_difference(a, n1, b, n2))

unique_copy == Answer("unique_copy", 0, {C!unique_copy(a, n1)})

copy_some ==
  \E T \in IF Alone THEN SUBSET Keys ELSE {} :
    \/ Answer("copy_if", T, {O!copy_if(a, n1, T)})
    \/ Answer("remove_copy_if", T,
              {O!remove_copy_if(a, n1, T)} \cup Value(T, [v \in Keys |-> O!remove_copy(a, n1, v)]))
    \/ Answer("replace_copy_if", T,
              {O!replace_copy_if(a, n1, T)} \cup Value(T, [v \in Keys |-> O!replace_copy(a, n1, v)]))

copy_all ==
  \/ Alone /\ Answer("copy", 0, {O!copy(0, n1), O!for_each(n1), O!transform(n1)})
  \/ Answer("transform_pairs", 0, {O!transform_pairs(n1, n2)})
  \/ Alone /\ Answer("reverse_copy", 0, {O!reverse_copy(n1)})
  \/ \E middle \in 0 .. n1 : Alone /\ Answer("rotate_copy", middle, {O!rotate_copy(n1, middle)})

(* The second range is written to: only its length counts.                 *)
partial_sort_copy == Answer("partial_sort_copy", 0, {O!partial_sort_copy(a, n1, n2)})

(* All the outcomes that the random engine can bring about.                *)
shuffle == Alone /\ Answer("shuffle", 0, {O!shuffle(n1, draws) : draws \in O!Draws(n1)})

sample ==
  \E count \in 0 .. n1 + 1 :
    \/ Answer("sample", count, C!sample_sized(n1, count))
    \/ Answer("sample_unsized", count, C!sample_unsized(n1, count))

Next ==
  /\ answer.call = "none"
  /\ \/ search \/ find_end \/ search_n
     \/ mismatch \/ equal \/ lexicographical_compare \/ is_permutation \/ includes
     \/ is_heap_until \/ min_element \/ max_element \/ minmax_element
     \/ equal_range \/ merge \/ set_union \/ set_intersection \/ set_difference
     \/ set_symmetric_difference \/ unique_copy \/ sample
     \/ extremes \/ is_sorted \/ is_heap \/ adjacent_find \/ find_first_of \/ inspect
     \/ binary_search \/ copy_some \/ copy_all \/ partial_sort_copy \/ shuffle

Spec == Init /\ [][Next]_vars

-----------------------------------------------------------------------------
Only(call, value) == answer.call = call => answer.results = {value}

LeastOr(T, otherwise) == IF T = {} THEN otherwise ELSE Min(T)
GreatestOr(T, otherwise) == IF T = {} THEN otherwise ELSE Max(T)

(* Where all of b is found in a.                                           *)
Matches == {i \in 0 .. n1 - n2 : \A k \in Second : a[i + k] = b[k]}
Runs(count, v) == {i \in 0 .. n1 - count : \A k \in i .. i + count - 1 : a[k] = v}

(* Every search finds the first match, find_end the last, and the end of   *)
(* the range if there is none, whichever overload is called.               *)
Finds ==
  /\ Only("search", LeastOr(Matches, n1))
  /\ Only("find_end", IF n2 = 0 THEN n1 ELSE GreatestOr(Matches, n1))
  /\ answer.call = "search_n" =>
       answer.results = {LeastOr(Runs(answer.arg[1], answer.arg[2]), n1)}
  /\ Only("adjacent_find", LeastOr({i \in First : i + 1 < n1 /\ a[i] = a[i + 1]}, n1))
  /\ Only("find_first_of", LeastOr({i \in First : \E j \in Second : a[i] = b[j]}, n1))
  /\ answer.call = "find_if" => answer.results = {LeastOr({i \in First : a[i] \in answer.arg}, n1)}
  /\ answer.call = "find_if_not" => answer.results = {LeastOr({i \in First : a[i] \notin answer.arg}, n1)}

HeapUpTo(k) == \A i \in 1 .. k - 1 : a[(i - 1) \div 2] >= a[i]
Count(x, v) == Cardinality({i \in DOMAIN x : x[i] = v})
Prefix(k) == k <= n1 /\ k <= n2 /\ \A i \in 0 .. k - 1 : a[i] = b[i]

(* The comparisons of two ranges, and the bounds and the extreme elements  *)
(* of one, agree with their definitions; the last of several greatest      *)
(* elements counts (for max, the first), and the first of several least.   *)
Compares ==
  /\ Only("mismatch", Max({k \in 0 .. n1 : Prefix(k)}))
  /\ Only("equal", n1 = n2 /\ Prefix(n1))
  /\ Only("lexicographical_compare",
          \/ n1 < n2 /\ Prefix(n1)
          \/ \E k \in First \cap Second : Prefix(k) /\ a[k] < b[k])
  /\ Only("is_permutation", n1 = n2 /\ \A v \in Keys : Count(a, v) = Count(b, v))
  /\ Only("includes", \A v \in Keys : Count(a, v) >= Count(b, v))
  /\ Only("is_heap_until", Max({k \in 0 .. n1 : HeapUpTo(k)}))
  /\ LET least == LeastOr({i \in First : \A j \in First : a[i] <= a[j]}, 0)
         greatest == GreatestOr({i \in First : \A j \in First : a[i] >= a[j]}, 0)
     IN /\ Only("min_element", least)
        /\ Only("max_element", greatest)
        /\ Only("minmax_element", <<least, greatest>>)
        /\ Only("min", least)
        /\ Only("max", LeastOr({i \in First : \A j \in First : a[i] >= a[j]}, 0))
        /\ Only("minmax", <<least, greatest>>)
  /\ LET sorted == Max({k \in 0 .. n1 : \A i \in 1 .. k - 1 : ~less(a[i], a[i - 1])})
     IN Only("is_sorted", <<sorted, sorted = n1>>)
  /\ Only("is_heap", HeapUpTo(n1))
  /\ answer.call = "count_if" => answer.results = {Cardinality({i \in First : a[i] \in answer.arg})}
  /\ answer.call = "all_any_none" =>
       answer.results = {<<Range(a) \subseteq answer.arg, Range(a) \cap answer.arg # {},
                           Range(a) \cap answer.arg = {}>>}
  /\ answer.call = "is_partitioned" =>
       answer.results = {\A i, j \in First : i < j /\ a[j] \in answer.arg => a[i] \in answer.arg}
  /\ answer.call = "binary_search" => answer.results = {answer.arg \in Range(a)}
  /\ answer.call = "equal_range" =>
       answer.results = {<<Cardinality({i \in First : a[i] < answer.arg}),
                           Cardinality({i \in First : a[i] <= answer.arg})>>}

KeyAt(s) == IF s[1] = 1 THEN a[s[2]] ELSE b[s[2]]

(* How often a key is in the output, when it is in a c1 and in b c2 times. *)
Times(call, c1, c2) ==
  CASE call = "merge" -> c1 + c2
    [] call = "set_union" -> Max({c1, c2})
    [] call = "set_intersection" -> Min({c1, c2})
    [] call = "set_difference" -> Max({c1 - c2, 0})
    [] call = "set_symmetric_difference" -> Max({c1 - c2, c2 - c1})

Combines == {"merge", "set_union", "set_intersection", "set_difference", "set_symmetric_difference"}

(* The output of a merge or a set operation is sorted, has every element   *)
(* once, those of one range in their order, and each key as often as the   *)
(* operation on multisets says.                                            *)
CombinesSets ==
  answer.call \in Combines => \A out \in answer.results :
    /\ \A i, j \in DOMAIN out : i < j =>
         /\ ~less(KeyAt(out[j]), KeyAt(out[i]))
         /\ out[i][1] = out[j][1] => out[i][2] < out[j][2]
    /\ \A v \in Keys :
         Cardinality({i \in DOMAIN out : KeyAt(out[i]) = v}) = Times(answer.call, Count(a, v), Count(b, v))

(* The output has the chosen elements in their order: those of the range   *)
(* for which the predicate holds, does not hold, or all.                   *)
InOrder(T, out) ==
  /\ {out[k] : k \in DOMAIN out} = T
  /\ \A j, k \in DOMAIN out : j < k => out[j] < out[k]

(* What each of the calls that write every element they have to is to      *)
(* write; a shuffle can bring about every arrangement, and no arrangement  *)
(* in two ways, so that all are equally likely.                            *)
CopiesRange ==
  \A out \in answer.results :
    /\ answer.call = "copy_if" => InOrder({i \in First : a[i] \in answer.arg}, out)
    /\ answer.call = "remove_copy_if" => InOrder({i \in First : a[i] \notin answer.arg}, out)
    /\ answer.call = "replace_copy_if" =>
         out = [k \in 1 .. n1 |-> IF a[k - 1] \in answer.arg THEN n1 ELSE k - 1]
    /\ answer.call = "copy" => InOrder(First, out)
    /\ answer.call = "transform_pairs" => out = [k \in 1 .. Min({n1, n2}) |-> <<k - 1, k - 1>>]
    /\ answer.call = "reverse_copy" => out = [k \in 1 .. n1 |-> n1 - k]
    /\ answer.call = "rotate_copy" => out = [k \in 1 .. n1 |-> (k - 1 + answer.arg) % n1]
    /\ answer.call = "partial_sort_copy" =>
         LET written == {out[k] : k \in DOMAIN out} IN
         /\ Len(out) = Min({n1, n2}) /\ Cardinality(written) = Len(out)
         /\ \A k \in 1 .. Len(out) - 1 : ~less(a[out[k + 1]], a[out[k]])
         /\ \A i \in First \ written, w \in written : ~less(a[i], a[w])
    /\ answer.call = "shuffle" =>
         /\ Range(out) = First
         /\ Cardinality(answer.results) = Cardinality(O!Draws(n1))

Chosen(out) == {out[i][2] : i \in DOMAIN out}

(* A sample has as many different elements as were wanted and there are,   *)
(* and any choice of them may come out; one of a range whose length is     *)
(* known keeps their order, as unique_copy does that keeps the first of    *)
(* each run of equal elements.  The copies that filter, replace, reverse,  *)
(* rotate or sort write each element they have to, once and in its place;  *)
(* partial_sort_copy writes the least, in order, as many as there is room. *)
CopiesSome ==
  /\ CopiesRange
  /\ answer.call \in {"sample", "sample_unsized"} =>
       LET wanted == Min({answer.arg, n1}) IN
       /\ {Chosen(out) : out \in answer.results} = {T \in SUBSET First : Cardinality(T) = wanted}
       /\ \A out \in answer.results : Len(out) = wanted
  /\ answer.call \in {"sample", "unique_copy"} =>
       \A out \in answer.results : \A i, j \in DOMAIN out : i < j => out[i][2] < out[j][2]
  /\ answer.call = "unique_copy" =>
       {Chosen(out) : out \in answer.results} = {{i \in First : i = 0 \/ a[i - 1] # a[i]}}
=============================================================================
