----------------------------- MODULE IteratorOps ------------------------------
(***************************************************************************)
(* The iterators of stl2 and what is done with them.  An adaptor is a      *)
(* record around its base, so adaptors nest as the class templates do:     *)
(*   pointer     the iterator of an array of len elements, of category cat *)
(*   iota        the integers from some value on                           *)
(*   repeat      one value, for ever: all its positions are equal          *)
(*   counted, reverse, move                                                *)
(*   common      holds an iterator or a sentinel; the types of both say     *)
(*               what cat it is of, and whether it is sized                *)
(* and the sentinels end (of an array), default (of a counted iterator)    *)
(* and move_sentinel.  An operation that is refused by an STL2_EXPECT, or  *)
(* leaves the array, gives Broken; a value is given as a set, empty then.  *)
(***************************************************************************)
EXTENDS Integers

Input == 1
Forward == 2
Bidirectional == 3
RandomAccess == 4

Sentinels == {"end", "default", "move_sentinel"}

Broken == [kind |-> "broken"]
Expect(condition, i) == IF condition THEN i ELSE Broken

pointer(cat, len, at) == Expect(at \in 0 .. len, [kind |-> "pointer", cat |-> cat, len |-> len, at |-> at])
iota(value) == [kind |-> "iota", at |-> value]
repeat(value) == [kind |-> "repeat", at |-> value]
counted_iterator(base, cnt) ==
  Expect(base # Broken, [kind |-> "counted", base |-> base, cnt |-> cnt])
Adapt(kind, base) == Expect(base # Broken, [kind |-> kind, base |-> base])
reverse_iterator(base) == Adapt("reverse", base)
move_iterator(base) == Adapt("move", base)
CommonOf(base, cat, sized) ==
  Expect(base # Broken, [kind |-> "common", cat |-> cat, sized |-> sized, base |-> base])
move_sentinel(base) == Adapt("move_sentinel", base)
array_end(len) == [kind |-> "end", at |-> len]
default_sentinel == [kind |-> "default"]

HoldsIterator(i) == i.base.kind \notin Sentinels

-----------------------------------------------------------------------------
(* What an iterator can do: its category, and what its cursor has.         *)
RECURSIVE Category(_)
Category(i) ==
  CASE i.kind \in {"pointer", "common"} -> i.cat
    [] i.kind \in {"iota", "repeat"} -> RandomAccess
    [] i.kind \in {"counted", "reverse"} -> Category(i.base)
    [] i.kind = "move" -> Input

(* An iterator that is a move_iterator has the operations of its base.     *)
Cursor(i) == IF i.kind = "move" THEN Category(i.base) ELSE Category(i)

(* SizedSentinel<S, I> and SizedSentinel<I, I>.                            *)
RECURSIVE SizedSentinel(_, _)
SizedSentinel(s, i) ==
  CASE s.kind = "end" -> FALSE
    [] s.kind = "pointer" -> i.cat = RandomAccess
    [] s.kind \in {"default", "iota", "repeat", "counted"} -> TRUE
    [] s.kind \in {"move_sentinel", "reverse", "move"} -> SizedSentinel(s.base, i.base)
    [] s.kind = "common" -> s.sized

(* i < j is there.                                                         *)
Ordered(i) == i.kind # "common" /\ SizedSentinel(i, i)

(* A common_iterator that holds base, which is an iterator of the type of  *)
(* i or a sentinel of the type of s.                                       *)
common_iterator(base, i, s) ==
  CommonOf(base, IF Category(i) >= Forward THEN Forward ELSE Input, SizedSentinel(s, i))

-----------------------------------------------------------------------------
(* ++i, --i                                                                *)
RECURSIVE inc(_), dec(_)
inc(i) ==
  CASE i.kind = "broken" -> i
    [] i.kind = "pointer" -> pointer(i.cat, i.len, i.at + 1)
    [] i.kind = "iota" -> iota(i.at + 1)
    [] i.kind = "repeat" -> i
    [] i.kind = "counted" -> Expect(i.cnt > 0, counted_iterator(inc(i.base), i.cnt - 1))
    [] i.kind = "reverse" -> reverse_iterator(dec(i.base))
    [] i.kind = "move" -> move_iterator(inc(i.base))
    [] i.kind = "common" -> Expect(HoldsIterator(i), CommonOf(inc(i.base), i.cat, i.sized))
dec(i) ==
  CASE i.kind = "broken" -> i
    [] i.kind = "pointer" -> pointer(i.cat, i.len, i.at - 1)
    [] i.kind = "iota" -> iota(i.at - 1)
    [] i.kind = "repeat" -> i
    [] i.kind = "counted" -> counted_iterator(dec(i.base), i.cnt + 1)
    [] i.kind = "reverse" -> reverse_iterator(inc(i.base))
    [] i.kind = "move" -> move_iterator(dec(i.base))

(* i += n, i -= n                                                          *)
RECURSIVE plus(_, _), minus(_, _)
plus(i, n) ==
  CASE i.kind = "broken" -> i
    [] i.kind = "pointer" -> pointer(i.cat, i.len, i.at + n)
    [] i.kind = "iota" -> iota(i.at + n)
    [] i.kind = "repeat" -> i
    [] i.kind = "counted" -> Expect(n <= i.cnt, counted_iterator(plus(i.base, n), i.cnt - n))
    [] i.kind = "reverse" -> reverse_iterator(minus(i.base, n))
    [] i.kind = "move" -> move_iterator(plus(i.base, n))
minus(i, n) ==
  IF i.kind = "counted"
  THEN Expect(-n <= i.cnt, counted_iterator(minus(i.base, n), i.cnt + n))
  ELSE plus(i, -n)

(* i == s, of two iterators or of an iterator and a sentinel.              *)
RECURSIVE equal(_, _)
equal(i, s) ==
  CASE i.kind \in {"pointer", "iota"} -> i.at = s.at
    [] i.kind = "repeat" -> TRUE
    [] i.kind = "counted" -> IF s.kind = "default" THEN i.cnt = 0 ELSE i.cnt = s.cnt
    [] i.kind \in {"reverse", "move"} -> equal(i.base, s.base)
    [] i.kind = "common" ->
         IF HoldsIterator(i) THEN equal(i.base, s.base)
         ELSE HoldsIterator(s) => equal(s.base, i.base)

(* s - i                                                                   *)
RECURSIVE difference(_, _)
difference(s, i) ==
  CASE i.kind \in {"pointer", "iota"} -> s.at - i.at
    [] i.kind = "repeat" -> 0
    [] i.kind = "counted" -> IF s.kind = "default" THEN i.cnt ELSE i.cnt - s.cnt
    [] i.kind = "reverse" -> -difference(s.base, i.base)
    [] i.kind = "move" -> difference(s.base, i.base)
    [] i.kind = "common" ->
         IF HoldsIterator(i) THEN difference(s.base, i.base)
         ELSE IF HoldsIterator(s) THEN -difference(i.base, s.base) ELSE 0

(* i < j                                                                   *)
RECURSIVE less(_, _)
less(i, j) ==
  CASE i.kind \in {"pointer", "iota", "repeat"} -> difference(i, j) < 0
    [] i.kind = "counted" -> j.cnt < i.cnt
    [] i.kind = "reverse" -> less(j.base, i.base)
    [] i.kind = "move" -> less(i.base, j.base)

-----------------------------------------------------------------------------
(* advance(i, n): the overloads for the categories.                        *)
RECURSIVE increments(_, _), decrements(_, _)
increments(i, n) == IF n = 0 THEN i ELSE increments(inc(i), n - 1)
decrements(i, n) == IF n + 1 = 0 THEN dec(i) ELSE decrements(dec(i), n + 1)

advance(i, n) ==
  IF i = Broken THEN i
  ELSE IF Category(i) = RandomAccess THEN plus(i, n)
  ELSE IF Category(i) = Bidirectional /\ n < 0 THEN decrements(i, n)
  ELSE Expect(0 <= n, increments(i, n))

(* advance of a counted_iterator moves the base and counts.                *)
RECURSIVE advance_counted(_, _)
advance_counted(i, n) ==
  IF Category(i) = RandomAccess THEN plus(i, n)
  ELSE Expect(n <= i.cnt,
              counted_iterator(IF i.base.kind = "counted" THEN advance_counted(i.base, n)
                               ELSE advance(i.base, n), i.cnt - n))

(* Any number of increments that end where the bound is, or break.         *)
RECURSIVE increments_to(_, _)
increments_to(i, bound) ==
  IF i = Broken \/ equal(i, bound) THEN i ELSE increments_to(inc(i), bound)

(* A bound of the type of the iterator is assigned; so is a sentinel that  *)
(* is converted to a common_iterator.                                      *)
SameType(bound, i) == bound.kind = i.kind

advance_to(i, bound) ==
  IF SameType(bound, i) THEN bound
  ELSE IF SizedSentinel(bound, i)
       THEN LET d == difference(bound, i) IN Expect(0 <= d, advance(i, d))
       ELSE increments_to(i, bound)

(* advance(i, n, bound): the iterator, and what is left of n.  The faulty  *)
(* one takes a bound behind the iterator for one it does not reach.        *)
Stop(i, n) == [i |-> i, n |-> n]

RECURSIVE increments_until(_, _, _)
increments_until(i, n, bound) ==
  IF n = 0 \/ i = Broken \/ equal(i, bound) THEN Stop(i, n)
  ELSE increments_until(inc(i), n - 1, bound)

RECURSIVE decrements_until(_, _, _)
decrements_until(i, n, bound) ==
  LET j == dec(i)
  IN IF n + 1 = 0 \/ j = Broken \/ equal(j, bound) THEN Stop(j, n + 1)
     ELSE decrements_until(j, n + 1, bound)

LOCAL AdvanceUntil(i, n, bound, reaches) ==
  LET d == difference(bound, i)
      either_way == SameType(bound, i) /\ Category(i) >= Bidirectional
      may == IF either_way /\ n < 0 THEN d <= 0 ELSE 0 <= n /\ 0 <= d
  IN IF SizedSentinel(bound, i)
     THEN IF ~may THEN Stop(Broken, n)
          ELSE IF reaches THEN Stop(advance_to(i, bound), n - d)
          ELSE Stop(advance(i, n), 0)
     ELSE IF either_way /\ n < 0 THEN decrements_until(i, n, bound)
     ELSE IF n < 0 THEN Stop(Broken, n)
     ELSE increments_until(i, n, bound)

advance_until_forwards(i, n, bound) == AdvanceUntil(i, n, bound, difference(bound, i) <= n)

advance_until(i, n, bound) ==
  AdvanceUntil(i, n, bound, LET d == difference(bound, i) IN IF 0 <= n THEN d <= n ELSE d >= n)

next(i, n) == advance(i, n)
next_to(i, bound) == advance_to(i, bound)
prev(i, n) == advance(i, -n)

-----------------------------------------------------------------------------
(* What an iterator refers to: an index of the array, or, where there is   *)
(* none, a value.                                                          *)
RECURSIVE OwnsElements(_)
OwnsElements(i) == IF i.kind \in {"pointer", "iota", "repeat"} THEN i.kind = "pointer" ELSE OwnsElements(i.base)

RECURSIVE element(_)
element(i) ==
  CASE i.kind = "broken" -> {}
    [] i.kind = "pointer" -> {i.at} \ {i.len}
    [] i.kind \in {"iota", "repeat"} -> {i.at}
    [] i.kind \in {"counted", "move"} -> element(i.base)
    [] i.kind = "reverse" -> element(prev(i.base, 1))
    [] i.kind = "common" -> IF HoldsIterator(i) THEN element(i.base) ELSE {}

(* *i, of an array a                                                       *)
read(a, i) == IF OwnsElements(i) THEN {a[k] : k \in element(i)} ELSE element(i)

(* i[n]: a counted_iterator asks its base.                                 *)
RECURSIVE subscript(_, _, _)
subscript(a, i, n) ==
  IF i.kind = "counted" THEN IF n <= i.cnt THEN subscript(a, i.base, n) ELSE {}
  ELSE LET j == plus(i, n) IN IF j = Broken THEN {} ELSE read(a, j)

(* ext::enumerate: how far the bound is, and where the counting ended.     *)
RECURSIVE counted_to(_, _, _)
counted_to(i, n, bound) ==
  IF i = Broken \/ equal(i, bound) THEN Stop(i, n) ELSE counted_to(inc(i), n + 1, bound)

enumerate(i, bound) ==
  LET d == difference(bound, i)
      j == next_to(i, bound)
  IN IF SizedSentinel(bound, i)
     THEN IF SameType(bound, i) \/ d >= 0 THEN Stop(j, d) ELSE Stop(Broken, d)
     ELSE IF SizedSentinel(i, i) THEN Stop(j, difference(j, i))
     ELSE counted_to(i, 0, bound)

distance(i, bound) ==
  LET d == difference(bound, i)
  IN IF SizedSentinel(bound, i) THEN IF SameType(bound, i) \/ d >= 0 THEN {d} ELSE {}
     ELSE LET counted == enumerate(i, bound)
          IN IF counted.i = Broken THEN {} ELSE {counted.n}

(* ext::uncounted and ext::recounted: n steps with the base, then a count. *)
recounted(o, i, n) == Expect(i = next(o.base, n), counted_iterator(i, o.cnt - n))
=============================================================================
