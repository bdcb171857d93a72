------------------------------ MODULE Iterators -------------------------------
(***************************************************************************)
(* A client of the iterators of stl2.  It holds two iterators of one range *)
(* and calls the operations that their type has, where their preconditions *)
(* hold; the range is an array, iota or repeat under any stack of views    *)
(* and adaptors.                                                           *)
(***************************************************************************)
EXTENDS IteratorOps, Sequences, FiniteSetsExt, SequencesExt

CONSTANTS
  Ranges,   \* the ranges there may be, records as Begin reads them
  Length,   \* the elements of an array, and those of iota that are looked at
  Moved     \* what is left of a value that was moved
ASSUME IteratorsAssumption == Length \in Nat /\ Moved \notin Int

VARIABLES
  r,        \* the range
  a,        \* the array beneath it
  x, y,     \* the iterators
  answer,   \* the last call, its argument, and what was returned
  seen      \* auxiliary: the range and the iterators as a client means them
vars == <<r, a, x, y, answer, seen>>

FirstOfIota == 10
Repeated == 20

-----------------------------------------------------------------------------
(* begin(r) and end(r), where "reverse" stands for rbegin and rend.        *)
RECURSIVE Begin(_), End(_)
Begin(v) ==
  CASE v.view = "array" -> pointer(v.cat, Length, 0)
    [] v.view = "iota" -> iota(FirstOfIota)
    [] v.view = "repeat" -> repeat(Repeated)
    [] v.view = "take_exactly" -> counted_iterator(Begin(v.base), v.n)
    [] v.view = "reverse" -> reverse_iterator(next_to(Begin(v.base), End(v.base)))
    [] v.view = "move" -> move_iterator(Begin(v.base))
    [] v.view = "common" -> common_iterator(Begin(v.base), Begin(v.base), End(v.base))
End(v) ==
  CASE v.view = "array" -> IF v.bounded THEN pointer(v.cat, Length, Length) ELSE array_end(Length)
    [] v.view = "take_exactly" -> default_sentinel
    [] v.view = "reverse" -> reverse_iterator(Begin(v.base))
    [] v.view = "move" ->
         IF SameType(End(v.base), Begin(v.base)) THEN move_iterator(End(v.base))
         ELSE move_sentinel(End(v.base))
    [] v.view = "common" -> common_iterator(End(v.base), Begin(v.base), End(v.base))

(* The elements of the range, as the views are meant.                      *)
RECURSIVE Elements(_, _)
Elements(v, from) ==
  CASE v.view = "array" -> from
    [] v.view = "iota" -> [k \in 1 .. Length |-> FirstOfIota + k - 1]
    [] v.view = "repeat" -> [k \in 1 .. Length |-> Repeated]
    [] v.view = "take_exactly" -> SubSeq(Elements(v.base, from), 1, v.n)
    [] v.view = "reverse" -> Reverse(Elements(v.base, from))
    [] v.view \in {"move", "common"} -> Elements(v.base, from)

(* The position of an iterator: how many increments of the first one give  *)
(* it, in all its parts; -1 where none do.                                 *)
Position(v, size, i) ==
  IF i = End(v) THEN size
  ELSE LET reached == {k \in 0 .. size : increments(Begin(v), k) = i}
       IN IF reached = {} THEN -1 ELSE Min(reached)

Seen(v, from, i, j) ==
  LET elements == Elements(v, from)
  IN [elements |-> elements, owned |-> OwnsElements(Begin(v)),
      x |-> Position(v, Len(elements), i), y |-> Position(v, Len(elements), j)]

size == Len(seen.elements)
Steps == -size .. size
InRange(p) == p \in 0 .. size

(* The array is read by its index from 0 on.                               *)
array == [k \in 0 .. Length - 1 |-> a[k + 1]]
Intact == a = [k \in 1 .. Length |-> k]

-----------------------------------------------------------------------------
None == [call |-> "none", n |-> 0, results |-> {}]

Init ==
  /\ r \in Ranges
  /\ a = [k \in 1 .. Length |-> k]
  /\ x = Begin(r) /\ y = Begin(r)
  /\ answer = None
  /\ seen = Seen(r, a, x, y)

Answer(call, n, results) == answer = None /\ answer' = [call |-> call, n |-> n, results |-> results]
Observe == seen' = Seen(r', a', x', y')
Move(call, n, i, results) ==
  Answer(call, n, results) /\ x' = i /\ UNCHANGED <<r, a, y>> /\ Observe
Ask(call, n, results) == Answer(call, n, results) /\ UNCHANGED <<r, a, x, y, seen>>

(* *x++ and *--x                                                           *)
increment == seen.x < size /\ Move("++", 0, inc(x), read(array, x))

decrement ==
  /\ Cursor(x) >= Bidirectional /\ seen.x > 0
  /\ Move("--", 0, dec(x), read(array, dec(x)))

jump ==
  /\ Cursor(x) = RandomAccess
  /\ \E n \in Steps : InRange(seen.x + n)
                      /\ (Move("+=", n, plus(x, n), {}) \/ Move("-=", n, minus(x, -n), {}))

(* By n, backwards only where the category allows it.                      *)
May(n) == InRange(seen.x + n) /\ (n < 0 => Category(x) >= Bidirectional)

advance_by ==
  \E n \in Steps :
    /\ May(n)
    /\ \/ Move("advance", n, IF x.kind = "counted" THEN advance_counted(x, n) ELSE advance(x, n), {})
       \/ Move("next", n, next(x, n), {})
       \/ Category(x) >= Bidirectional /\ Move("prev", n, prev(x, -n), {})
       \/ /\ x.kind = "counted"
          /\ Move("recounted", n, recounted(x, next(x.base, n), n), {})

advance_to_bound ==
  \/ seen.x <= seen.y /\ Move("advance_to", 0, next_to(x, y), {})
  \/ Move("advance_to", 1, next_to(x, End(r)), {})

(* Backwards the loop takes a first step before it looks at the bound.     *)
advance_until_bound ==
  \E n \in Steps, toEnd \in BOOLEAN :
    LET bound == IF toEnd THEN End(r) ELSE y
        d == (IF toEnd THEN size ELSE seen.y) - seen.x
        stop == advance_until(x, n, bound)
    IN /\ IF n < 0 THEN d <= 0 /\ SameType(bound, x) /\ Category(x) >= Bidirectional
          ELSE n = 0 \/ 0 <= d
       /\ n < 0 /\ d = 0 => SizedSentinel(bound, x)
       /\ n = 0 /\ d < 0 => ~SizedSentinel(bound, x)
       /\ Move(IF toEnd THEN "advance_until_end" ELSE "advance_until", n, stop.i, {stop.n})

exchange == Answer("swap", 0, {}) /\ x' = y /\ y' = x /\ UNCHANGED <<r, a>> /\ Observe

compare ==
  \/ Ask("==", 0, {equal(x, y)})
  \/ Ask("== end", 0, {equal(x, End(r))})
  \/ Ordered(x) /\ Ask("<", 0, {less(x, y)})
  \/ Ordered(x) /\ Ask("<=", 0, {~less(y, x)})

(* The last one is the distance of the whole range.                        *)
measure ==
  \/ SizedSentinel(x, x) /\ Ask("-", 0, {difference(x, y)})
  \/ SizedSentinel(End(r), x) /\ Ask("- end", 0, {-difference(End(r), x)})
  \/ /\ SizedSentinel(y, x) \/ seen.x <= seen.y
     /\ Ask("distance", 0, distance(x, y) \cup {enumerate(x, y).n})
  \/ Ask("distance", 1, distance(x, End(r)) \cup {enumerate(x, End(r)).n})
  \/ Ask("distance", 2, distance(Begin(r), End(r)))

read_element ==
  \/ seen.x < size /\ Ask("*", 0, read(array, x))
  \/ \E n \in Steps : /\ Cursor(x) = RandomAccess
                      /\ seen.x + n \in 0 .. size - 1
                      /\ Ask("[]", n, subscript(array, x, n))

(* A value is moved out, or two elements are exchanged, once.              *)
take ==
  /\ Intact /\ seen.x < size
  /\ Answer("iter_move", 0, read(array, x))
  /\ a' = IF seen.owned THEN [k \in DOMAIN a |-> IF k - 1 \in element(x) THEN Moved ELSE a[k]]
          ELSE a
  /\ UNCHANGED <<r, x, y>> /\ Observe

exchange_elements ==
  /\ Intact /\ seen.owned /\ seen.x < size /\ seen.y < size
  /\ Answer("iter_swap", 0, {})
  /\ \E i \in element(x), j \in element(y) :
       a' = [a EXCEPT ![i + 1] = a[j + 1], ![j + 1] = a[i + 1]]
  /\ UNCHANGED <<r, x, y>> /\ Observe

proceed == answer # None /\ answer' = None /\ UNCHANGED <<r, a, x, y, seen>>

Next == \/ increment \/ decrement \/ jump \/ advance_by \/ advance_to_bound
        \/ advance_until_bound \/ exchange \/ compare \/ measure \/ read_element
        \/ take \/ exchange_elements \/ proceed

Spec == Init /\ [][Next]_vars

-----------------------------------------------------------------------------
(* Every operation of every stack of adaptors does to positions, and       *)
(* answers, what arithmetic on positions says; no check of the code        *)
(* refuses a call that its preconditions allow, and no iterator leaves the *)
(* array or comes apart from its count.                                    *)
Abstract == INSTANCE Positions WITH elements <- seen.elements, owned <- seen.owned,
                                    x <- seen.x, y <- seen.y
Implements == Abstract!Spec
=============================================================================
