------------------------------ MODULE Rearrange ------------------------------
(***************************************************************************)
(* One call, on any array, of an algorithm of stl2 that rearranges it:     *)
(* sorts, merges, partitions, selects, reverses, permutes, removes, makes  *)
(* a heap or writes over a part.  An algorithm that can use a temporary    *)
(* buffer asks for one and takes what std::get_temporary_buffer grants,    *)
(* also nothing.                                                           *)
(***************************************************************************)
EXTENDS Integers, FiniteSets, FiniteSetsExt, Functions, TLC

CONSTANTS
  Arrays,          \* the arrays there may be: functions from 0 .. n - 1 to keys
  Moved,           \* a moved-from object
  SelfMoveKeeps,   \* whether a self-move keeps the value of an element
  insertion_limit, merge_sort_chunk_size,  \* see MergeOps
  Limits,          \* what nth_element may sort at once ({7})
  PermutationLimit \* the longest array whose arrangements are enumerated
ASSUME RearrangeAssumption ==
  /\ SelfMoveKeeps \in BOOLEAN
  /\ Limits \subseteq Nat \ 0 .. 2
  /\ insertion_limit \in Nat \ {0, 1}
  /\ merge_sort_chunk_size \in Nat \ {0}

VARIABLES
  key,     \* key[x]: what the comparison and the predicate look at
  a,       \* the array: its elements, numbered as they were before the call
  done     \* the call made, the buffer it was granted, and the point it returned
vars == <<key, a, done>>

n == Cardinality(DOMAIN key)
Indices == DOMAIN key

less(x, y) == x # Moved /\ y # Moved /\ key[x] < key[y]
is_odd(x) == x # Moved /\ key[x] % 2 = 1

Sort(size, category, trivial) ==
  INSTANCE ForwardSortOps WITH comp <- less, buffer <- n
Part(size, category, trivial) ==
  INSTANCE StablePartitionOps WITH pred <- is_odd, buffer <- n

Reorder(size) ==
  INSTANCE ReorderOps WITH comp <- less, pred <- is_odd, buffer <- n

LOCAL W == INSTANCE WriteOps
LOCAL H == INSTANCE HeapOps WITH comp <- less

(* The array and, behind it, a buffer that holds no elements yet.          *)
Memory(size) == [i \in 0 .. n + size - 1 |-> IF i < n THEN a[i] ELSE Moved]

Return(call, size, mem, point) ==
  /\ a' = [i \in Indices |-> mem[i]]
  /\ done' = [call |-> call, size |-> size, point |-> point]
  /\ UNCHANGED key

Sorted(b, first, last) == \A i, j \in first .. last - 1 : i < j => ~less(b[j], b[i])

Init ==
  /\ key \in Arrays
  /\ a = [i \in Indices |-> i]
  /\ done = [call |-> "none", size |-> 0, point |-> 0]

(* Elements that are trivial keep their value in a self-move.              *)
Trivial == IF SelfMoveKeeps THEN BOOLEAN ELSE {FALSE}

stable_sort ==
  \E size \in 0 .. n, trivial \in Trivial :
    Return("stable_sort", size,
           Sort(size, "random", trivial)!stable_sort(Memory(size), 0, n), n)

(* stable_sort of a forward range: fsort::sort_n, with half the buffer.    *)
sort_n ==
  \E size \in 0 .. n \div 2, trivial \in Trivial :
    Return("sort_n", size,
           Sort(size, "forward", trivial)!sort_n_adaptive(Memory(size), 0, n), n)

(* Only elements that are trivial go through a buffer.                     *)
inplace_merge ==
  \E middle \in 0 .. n, size \in 0 .. n, trivial \in Trivial,
     category \in {"bidirectional", "random"} :
    /\ Sorted(a, 0, middle) /\ Sorted(a, middle, n)
    /\ size > 0 => trivial /\ size <= middle /\ size <= n - middle
    /\ Return("inplace_merge", size,
              Sort(size, category, trivial)!merge_adaptive(Memory(size), 0, middle, n), n)

stable_partition ==
  \E size \in 0 .. n, trivial \in Trivial, category \in {"forward", "bidirectional", "random"} :
    LET P == Part(size, category, trivial)!stable_partition(Memory(size), 0, n)
    IN Return("stable_partition", size, P.mem, P.point)

partition ==
  \/ LET P == Reorder(0)!partition_forward(a, 0, n) IN Return("partition", 0, P.mem, P.point)
  \/ LET P == Reorder(0)!partition_bidirectional(a, 0, n)
     IN Return("partition", 0, P.mem, P.point)

reverse ==
  \/ Return("reverse", 0, Reorder(0)!reverse(a, 0, n), n)
  \/ \E size \in 0 .. n \div 2 :
       Return("reverse", size, Reorder(size)!reverse_n_adaptive(Memory(size), 0, n), n)

permute ==
  \/ LET P == Reorder(0)!next_permutation(a, 0, n)
     IN Return("next_permutation", 0, P.mem, P.point)
  \/ LET P == Reorder(0)!prev_permutation(a, 0, n)
     IN Return("prev_permutation", 0, P.mem, P.point)

unique == LET P == Reorder(0)!unique(a, 0, n) IN Return("unique", 0, P.mem, P.point)
remove_if == LET P == Reorder(0)!remove_if(a, 0, n) IN Return("remove_if", 0, P.mem, P.point)

nth_element ==
  \E nth \in 0 .. n, limit \in Limits :
    Return("nth_element", 0, Reorder(0)!nth_element(a, 0, nth, n, limit), nth)

rotate ==
  \E middle \in 0 .. n, trivial \in Trivial,
     category \in {"unbounded", "forward", "bidirectional", "random"} :
    Return("rotate", 0,
           Sort(0, category, trivial)!rotate(a, 0, middle, n, category, trivial),
           Sort(0, category, trivial)!rotated(0, middle, n))

(* The front of so many elements is a heap.                                *)
HeapUpTo(b, k) == \A i \in 1 .. k - 1 : ~less(b[(i - 1) \div 2], b[i])

(* The preconditions: push_heap finds a heap but for the last element,     *)
(* pop_heap and sort_heap find a heap.                                     *)
make_heap == Return("make_heap", 0, H!make_heap_n(a, 0, n), n)
push_heap == n > 0 /\ HeapUpTo(a, n - 1) /\ Return("push_heap", 0, H!sift_up_n(a, 0, n), n)
pop_heap == n > 0 /\ HeapUpTo(a, n) /\ Return("pop_heap", 0, H!pop_heap_n(a, 0, n), n - 1)
sort_heap == HeapUpTo(a, n) /\ Return("sort_heap", 0, H!sort_heap_n(a, 0, n), n)
partial_sort ==
  \E middle \in 1 .. n : Return("partial_sort", 0, H!partial_sort(a, 0, middle, n), middle)

(* The comparison of a heap algorithm throws.                              *)
heap_throws ==
  \E b \in H!make_heap_n_thrown(a, 0, n)
         \cup (IF n > 0 /\ HeapUpTo(a, n - 1) THEN H!sift_up_n_thrown(a, 0, n) ELSE {})
         \cup (IF HeapUpTo(a, n) THEN H!pop_heap_n_thrown(a, 0, n) \cup H!sort_heap_n_thrown(a, 0, n)
               ELSE {})
         \cup UNION {H!partial_sort_thrown(a, 0, middle, n) : middle \in 1 .. n} :
    Return("threw", 0, b, n)

(* What is copied does not depend on the keys.                             *)
Keyless == \A i \in Indices : key[i] = 0

(* The precondition of copy: the result does not start inside the source;  *)
(* that of copy_backward and move_backward: it does not end inside.  The   *)
(* ranges of swap_ranges are apart.                                        *)
copy ==
  \E first, last \in 0 .. n, to \in 0 .. n :
    /\ Keyless /\ first <= last
    /\ \/ /\ to \notin first .. last - 1 /\ to + (last - first) <= n
          /\ \/ Return("copy", 0, W!copy(a, first, last, to), <<first, last, to>>)
             \/ Return("move", 0, W!move(a, first, last - first, to, 1), <<first, last, to>>)
       \/ /\ to \notin first + 1 .. last /\ to - (last - first) >= 0
          /\ LET point == <<first, last, to - (last - first)>> IN
             \/ Return("copy", 0, W!copy_backward(a, first, last, to), point)
             \/ Return("move", 0, W!move_backward(a, first, last, to), point)
swap_ranges ==
  \E first1, last1, first2, last2 \in 0 .. n :
    /\ Keyless /\ first1 <= last1 /\ last1 <= first2 /\ first2 <= last2
    /\ Return("swap_ranges", 0, W!swap_two_ranges(a, first1, last1, first2, last2),
              <<first1, last1, first2, last2>>)

(* The new value is n, and what a generator yields is n, n + 1 and so on.  *)
fill ==
  \E first, last \in 0 .. n :
    /\ Keyless /\ first <= last
    /\ \/ Return("fill", 0, W!fill(a, first, last, n), <<first, last>>)
       \/ Return("fill", 0, W!fill_n(a, first, last - first, n), <<first, last>>)
       \/ Return("generate", 0, W!generate(a, first, last, n), <<first, last>>)
       \/ Return("generate", 0, W!generate_n(a, first, last - first, n), <<first, last>>)

Odd == {x \in Indices : is_odd(x)}
replace_if == Return("replace_if", 0, W!replace_if(a, 0, n, Odd, n), n)

(* remove takes a value: that of the odd keys, where there is one.         *)
remove ==
  LET R == W!remove(a, 0, n, Odd) IN
  Cardinality({key[x] : x \in Odd}) = 1 /\ Return("remove_if", 0, R[1], R[2])

Next ==
  /\ done.call = "none"
  /\ \/ stable_sort \/ sort_n \/ inplace_merge \/ stable_partition
     \/ partition \/ reverse \/ permute \/ unique \/ remove_if \/ nth_element \/ rotate
     \/ make_heap \/ push_heap \/ pop_heap \/ sort_heap \/ partial_sort \/ heap_throws
     \/ copy \/ swap_ranges \/ fill \/ replace_if \/ remove
Spec == Init /\ [][Next]_vars

-----------------------------------------------------------------------------
Removes == {"unique", "remove_if"}
Sorts == {"stable_sort", "sort_n", "inplace_merge"}
Writes == {"copy", "move", "fill", "generate", "replace_if"}
Partitions == {"stable_partition", "partition"}

(* No call loses, duplicates or leaves behind in its buffer an element,    *)
(* but for those that write over some; what unique and remove_if do not    *)
(* remove they keep, in its order; a heap algorithm whose comparison       *)
(* throws loses one element at most, and has its moved-from object instead.*)
KeepsElements ==
  LET Kept(x) == IF done.call = "remove_if" THEN ~is_odd(x)
                 ELSE x = 0 \/ key[x - 1] # key[x]
  IN IF done.call = "threw"
     THEN \/ Range(a) = Indices
          \/ \E x \in Indices : Range(a) = (Indices \ {x}) \cup {Moved}
     ELSE IF done.call \in Removes
     THEN LET kept == [i \in 0 .. done.point - 1 |-> a[i]] IN
          /\ Range(kept) = {x \in Indices : Kept(x)}
          /\ \A i \in 1 .. done.point - 1 : kept[i - 1] < kept[i]
     ELSE done.call \notin Writes => Range(a) = Indices

(* Whether the keys of array b come before those of array c in the order   *)
(* of lexicographical_compare.                                             *)
Before(b, c) ==
  \E i \in Indices : b[i] < c[i] /\ \A j \in 0 .. i - 1 : b[j] = c[j]

(* The array now and before the call, and the keys as they may be arranged. *)
Now == [i \in Indices |-> key[a[i]]]
Arranged == {[i \in Indices |-> key[p[i]]] : p \in Permutations(Indices)}

(* The next in a cycle of all the arrangements, from one end to the other. *)
Follows(b, c, wrapped) ==
  IF wrapped THEN \A d \in Arranged : ~Before(d, c) /\ ~Before(b, d)
  ELSE Before(b, c) /\ \A d \in Arranged : ~(Before(b, d) /\ Before(d, c))

(* Every call does what it is for, whatever buffer it was granted: a sort  *)
(* and a merge leave the array sorted; a partition returns where the true  *)
(* elements end; nth_element puts the nth in its place; a reversal and a   *)
(* rotation put every element where it belongs; a permutation is the next; *)
(* the heap algorithms leave a heap, pop_heap a greatest element behind    *)
(* it, and sort_heap and partial_sort the least elements in order.         *)
Delivers ==
  /\ done.call \in Sorts \cup {"sort_heap"} => Sorted(a, 0, n)
  /\ done.call \in {"make_heap", "push_heap", "pop_heap"} => HeapUpTo(a, done.point)
  /\ done.call = "pop_heap" => \A i \in Indices : ~less(a[n - 1], a[i])
  /\ done.call = "partial_sort" =>
       /\ Sorted(a, 0, done.point)
       /\ \A i, j \in Indices : i < done.point /\ done.point <= j => ~less(a[j], a[i])
  /\ done.call \in Partitions => \A i \in Indices : is_odd(a[i]) <=> i < done.point
  /\ done.call = "nth_element" =>
       \A i, j \in Indices : i <= done.point /\ done.point <= j /\ done.point < n => ~less(a[j], a[i])
  /\ done.call = "reverse" => \A i \in Indices : a[i] = n - 1 - i
  /\ done.call = "rotate" => \A i \in Indices : a[i] = (i + n - done.point) % n
  /\ done.call = "next_permutation" /\ n \in 1 .. PermutationLimit => Follows(key, Now, done.point = 0)
  /\ done.call = "prev_permutation" /\ n \in 1 .. PermutationLimit => Follows(Now, key, done.point = 0)

InRange(i, first, length) == i \in first .. first + length - 1

(* A copy, a move and an exchange deliver the values that were there before *)
(* the call, however source and destination overlap, and touch nothing     *)
(* else; a moved-from element is left only where nothing was moved to; a   *)
(* generator's values arrive in the order of its calls.                    *)
WritesInPlace ==
  LET p == done.point IN
  /\ done.call \in {"copy", "move"} => \A i \in Indices :
       a[i] = IF InRange(i, p[3], p[2] - p[1]) THEN i - p[3] + p[1]
              ELSE IF done.call = "move" /\ InRange(i, p[1], p[2] - p[1]) THEN Moved ELSE i
  /\ done.call = "swap_ranges" =>
       LET length == Min({p[2] - p[1], p[4] - p[3]}) IN \A i \in Indices :
       a[i] = IF InRange(i, p[1], length) THEN i - p[1] + p[3]
              ELSE IF InRange(i, p[3], length) THEN i - p[3] + p[1] ELSE i
  /\ done.call \in {"fill", "generate"} => \A i \in Indices :
       a[i] = IF ~InRange(i, p[1], p[2] - p[1]) THEN i
              ELSE IF done.call = "fill" THEN n ELSE n + i - p[1]
  /\ done.call = "replace_if" => \A i \in Indices : a[i] = IF is_odd(i) THEN n ELSE i

(* No element has passed another one of its class.                         *)
KeepsOrder(class(_)) ==
  \A i, j \in Indices : i < j /\ class(a[i]) = class(a[j]) => a[i] < a[j]

KeyOf(x) == key[x]

(* stable_partition keeps the order among the odd elements and among the   *)
(* others, with any buffer; the sorts and inplace_merge keep the order of  *)
(* equivalent elements when they have none.                                *)
Stable ==
  /\ done.call = "stable_partition" => KeepsOrder(is_odd)
  /\ done.call \in Sorts /\ done.size = 0 => KeepsOrder(KeyOf)

(* stable_sort.hpp, by its name and section (`stable_sort [stable.sort]'): *)
(* the sort keeps the order of equivalent elements.                        *)
StableSortIsStable == done.call = "stable_sort" => KeepsOrder(KeyOf)
=============================================================================
