------------------------------ MODULE Positions -------------------------------
(***************************************************************************)
(* What a range of iterators promises: an iterator is a position in a      *)
(* sequence of elements, and every operation is arithmetic on positions.   *)
(* A client holds two iterators, x and y; it makes a call and then takes   *)
(* the answer, the set of the values that were returned.                   *)
(***************************************************************************)
EXTENDS Integers, Sequences, FiniteSetsExt

CONSTANT Moved   \* what is left of a value that was moved

VARIABLES
  elements,  \* the elements of the range
  owned,     \* whether they are objects, and not computed when they are read
  x, y,      \* the iterators: positions from 0 on
  answer

size == Len(elements)
Positions == 0 .. size
Steps == -size .. size
ElementAt(p) == {elements[p + 1]}

None == [call |-> "none", n |-> 0, results |-> {}]

Answer(call, n, results) ==
  answer = None /\ answer'.call = call /\ answer'.n = n /\ answer'.results = results

(* A call that moves x, and one that does not.                             *)
Move(call, n, to, results) ==
  /\ to \in Positions
  /\ Answer(call, n, results)
  /\ x' = to
  /\ UNCHANGED <<elements, owned, y>>

Ask(call, n, results) == Answer(call, n, results) /\ UNCHANGED <<elements, owned, x, y>>

Init ==
  /\ x = 0 /\ y = 0 /\ answer = None

(* *x++ and *--x                                                           *)
Increment == x < size /\ Move("++", 0, x + 1, ElementAt(x))
Decrement == x > 0 /\ Move("--", 0, x - 1, ElementAt(x - 1))

Advance == \E n \in Steps, call \in {"+=", "-=", "advance", "next", "prev", "recounted"} :
             Move(call, n, x + n, {})

AdvanceTo == \/ Move("advance_to", 0, y, {})
             \/ Move("advance_to", 1, size, {})

(* No further than the bound, which lies on the way; the answer is what is *)
(* left of the steps.                                                      *)
AdvanceUntil ==
  \E n \in Steps, bound \in {y, size}, call \in {"advance_until", "advance_until_end"} :
    /\ call = "advance_until_end" => bound = size
    /\ call = "advance_until" => bound = y
    /\ IF n < 0 THEN bound <= x ELSE n = 0 \/ x <= bound
    /\ LET to == IF n < 0 THEN Max({x + n, bound}) ELSE IF n = 0 THEN x ELSE Min({x + n, bound})
       IN Move(call, n, to, {n - (to - x)})

Exchange ==
  /\ Answer("swap", 0, {})
  /\ x' = y /\ y' = x
  /\ UNCHANGED <<elements, owned>>

Compare ==
  \/ Ask("==", 0, {x = y})
  \/ Ask("== end", 0, {x = size})
  \/ Ask("<", 0, {x < y})
  \/ Ask("<=", 0, {x <= y})

Measure ==
  \/ Ask("-", 0, {x - y})
  \/ Ask("- end", 0, {x - size})
  \/ Ask("distance", 0, {y - x})
  \/ Ask("distance", 1, {size - x})
  \/ Ask("distance", 2, {size})

Read ==
  \/ x < size /\ Ask("*", 0, ElementAt(x))
  \/ \E n \in Steps : x + n \in 0 .. size - 1 /\ Ask("[]", n, ElementAt(x + n))

(* Moving a value out of the range, and exchanging two elements.           *)
Take ==
  /\ x < size
  /\ Answer("iter_move", 0, ElementAt(x))
  /\ elements' = IF owned THEN [elements EXCEPT ![x + 1] = Moved] ELSE elements
  /\ UNCHANGED <<owned, x, y>>

Swap ==
  /\ owned /\ x < size /\ y < size
  /\ Answer("iter_swap", 0, {})
  /\ elements' = [elements EXCEPT ![x + 1] = elements[y + 1], ![y + 1] = elements[x + 1]]
  /\ UNCHANGED <<owned, x, y>>

Proceed == answer # None /\ answer' = None /\ UNCHANGED <<elements, owned, x, y>>

Next == \/ Increment \/ Decrement \/ Advance \/ AdvanceTo \/ AdvanceUntil \/ Exchange
        \/ Compare \/ Measure \/ Read \/ Take \/ Swap \/ Proceed

Spec == Init /\ [][Next]_<<elements, owned, x, y, answer>>
===============================================================================
