------------------------- MODULE UninitializedMemory -------------------------
(***************************************************************************)
(* The algorithms of stl2/detail/memory: uninitialized_copy, _move, _fill, *)
(* _default_construct and _value_construct, their exception guard          *)
(* (detail::destroy_guard), and destroy().  One client calls them, one     *)
(* after the other, on blocks of one array of cells.                       *)
(*                                                                         *)
(* Any constructor may throw, and so may reading, comparing and advancing  *)
(* a source iterator (it is only an InputIterator); the operations of the  *)
(* destination iterator do not throw (__NoThrowForwardIterator).  Copying  *)
(* a source iterator into the returned pair is taken not to throw.         *)
(***************************************************************************)
EXTENDS Integers

CONSTANT N           \* the number of cells of the array
ASSUME NAssumption == N \in Nat

Cells == 0 .. N - 1

Forms   == {"copy", "move", "fill", "default_construct", "value_construct"}
Sourced == {"copy", "move"}      \* the forms that read a source range

VARIABLES
  pc,           \* "idle", "loop", "advance", "unwind" or "destroy"
  form,         \* which algorithm was called last, or "destroy"
  cell,         \* cell[i] = TRUE iff cell i holds an object
  lo, hi,       \* the block of the call: [lo, hi)
  result,       \* the destination iterator that the loop advances
  taken,        \* how many source elements the loop has passed
  moved,        \* the source elements whose value was moved away
  guard,        \* destroy_guard::first_, or NoGuard when last_ is null
  it, last,     \* the two iterators of destroy()
  outcome       \* "pending"; "returned"; "threw" once an exception is out

vars == <<pc, form, cell, lo, hi, result, taken, moved, guard, it, last, outcome>>

call == <<form, lo, hi>>         \* the arguments, fixed for a whole call

NoGuard == -1

-----------------------------------------------------------------------------
Init ==
  /\ pc = "idle" /\ form = "copy"
  /\ cell = [i \in Cells |-> FALSE]
  /\ lo = 0 /\ hi = 0 /\ result = 0 /\ taken = 0
  /\ moved = {}
  /\ guard = NoGuard
  /\ it = 0 /\ last = 0 /\ outcome = "returned"

(* The client calls form f on raw cells; the guard copies the start of the *)
(* block and keeps the address of the loop's own iterator.                 *)
Call(f, l, h) ==
  /\ pc = "idle"
  /\ \A i \in l .. h - 1 : ~cell[i]
  /\ pc' = "loop" /\ form' = f /\ lo' = l /\ hi' = h
  /\ result' = l /\ guard' = l
  /\ taken' = 0 /\ moved' = {} /\ outcome' = "pending"
  /\ UNCHANGED <<cell, it, last>>

(* __construct_at on the cell of result succeeds.                          *)
Construct ==
  /\ pc = "loop" /\ result # hi
  /\ cell' = [cell EXCEPT ![result] = TRUE]
  /\ moved' = IF form = "move" THEN moved \cup {taken} ELSE moved
  /\ pc' = "advance"
  /\ UNCHANGED <<call, result, taken, guard, it, last, outcome>>

(* `++result, (void)++first': the destination goes first.                  *)
Advance ==
  /\ pc = "advance"
  /\ result' = result + 1
  /\ taken' = taken + 1
  /\ pc' = "loop"
  /\ UNCHANGED <<call, cell, moved, guard, it, last, outcome>>

(* A faulty Advance in which the throwing source iterator goes first.      *)
AdvanceThrowsSourceFirst ==
  /\ pc = "advance" /\ form \in Sourced
  /\ pc' = "unwind" /\ outcome' = "threw"
  /\ UNCHANGED <<call, cell, result, taken, moved, guard, it, last>>

(* ++first throws; result has been advanced already.                       *)
AdvanceThrows ==
  /\ pc = "advance" /\ form \in Sourced
  /\ result' = result + 1
  /\ pc' = "unwind" /\ outcome' = "threw"
  /\ UNCHANGED <<call, cell, taken, moved, guard, it, last>>

(* A faulty Throws in which the loop swallows the exception and goes on.   *)
ThrowsSwallowed ==
  /\ pc = "loop" /\ result # hi
  /\ moved' \in IF form = "move" THEN {moved, moved \cup {taken}} ELSE {moved}
  /\ pc' = "advance"
  /\ UNCHANGED <<call, cell, result, taken, guard, it, last, outcome>>

(* The loop's test or the element's constructor throws.  A constructor     *)
(* that was given an rvalue may have taken the source's value before.      *)
Throws ==
  /\ pc = "loop"
  /\ form \in Sourced \/ result # hi
  /\ moved' \in IF form = "move" /\ result # hi
                THEN {moved, moved \cup {taken}} ELSE {moved}
  /\ pc' = "unwind" /\ outcome' = "threw"
  /\ UNCHANGED <<call, cell, result, taken, guard, it, last>>

(* A faulty Return that forgets guard.release().                           *)
ReturnUnreleased ==
  /\ pc = "loop" /\ result = hi
  /\ pc' = "unwind"
  /\ outcome' = "returned"
  /\ UNCHANGED <<call, cell, result, taken, moved, guard, it, last>>

(* first == last: release the guard and return.                            *)
Return ==
  /\ pc = "loop" /\ result = hi
  /\ guard' = NoGuard
  /\ pc' = "idle"
  /\ outcome' = "returned"
  /\ UNCHANGED <<call, cell, result, taken, moved, it, last>>

(* A faulty destructor that destroys the whole block of the call.          *)
UnwindWholeBlock ==
  /\ pc = "unwind" /\ guard # NoGuard
  /\ it' = guard /\ last' = hi
  /\ guard' = NoGuard
  /\ pc' = "destroy"
  /\ UNCHANGED <<call, cell, result, taken, moved, outcome>>

(* ~destroy_guard(), as the exception leaves the function: destroy from    *)
(* first_ to where the loop's iterator, which last_ points to, is by now.  *)
Unwind ==
  /\ pc = "unwind" /\ guard # NoGuard
  /\ it' = guard /\ last' = result
  /\ guard' = NoGuard
  /\ pc' = "destroy"
  /\ UNCHANGED <<call, cell, result, taken, moved, outcome>>

(* The client destroys a block of objects.                                 *)
CallDestroy(l, h) ==
  /\ pc = "idle"
  /\ \A i \in l .. h - 1 : cell[i]
  /\ pc' = "destroy" /\ outcome' = "pending" /\ form' = "destroy"
  /\ lo' = l /\ hi' = h
  /\ it' = l /\ last' = h
  /\ UNCHANGED <<cell, result, taken, moved, guard>>

(* A faulty loop of destroy() that does not advance.                       *)
DestroyOneStuck ==
  /\ pc = "destroy" /\ it # last
  /\ cell' = [cell EXCEPT ![it] = FALSE]
  /\ UNCHANGED <<pc, call, it, result, taken, moved, guard, last, outcome>>

(* One turn of the loop of destroy().                                      *)
DestroyOne ==
  /\ pc = "destroy" /\ it # last
  /\ cell' = [cell EXCEPT ![it] = FALSE]
  /\ it' = it + 1
  /\ UNCHANGED <<pc, call, result, taken, moved, guard, last, outcome>>

DestroyDone ==
  /\ pc = "destroy" /\ it = last
  /\ pc' = "idle"
  /\ outcome' = IF form = "destroy" THEN "returned" ELSE outcome
  /\ UNCHANGED <<call, cell, result, taken, moved, guard, it, last>>

Running ==
  \/ Construct \/ Advance \/ AdvanceThrows \/ Throws \/ Return
  \/ Unwind \/ DestroyOne \/ DestroyDone

Client ==
  \E l, h \in 0 .. N :
    /\ l <= h
    /\ \/ CallDestroy(l, h)
       \/ \E f \in Forms : Call(f, l, h)

Next == Running \/ Client

(* A call that has started is run by its thread to the end.                *)
Spec == Init /\ [][Next]_vars /\ WF_vars(Running)

-----------------------------------------------------------------------------
TypeOK ==
  /\ pc \in {"idle", "loop", "advance", "unwind", "destroy"}
  /\ form \in Forms \cup {"destroy"}
  /\ cell \in [Cells -> BOOLEAN]
  /\ lo \in 0 .. N /\ hi \in lo .. N
  /\ result \in 0 .. N
  /\ taken \in 0 .. N
  /\ moved \subseteq Cells
  /\ guard \in 0 .. N \cup {NoGuard}
  /\ it \in 0 .. N /\ last \in 0 .. N
  /\ outcome \in {"pending", "returned", "threw"}

(* Inside a call, exactly the cells the loop has passed hold objects, the  *)
(* guard covers the block from its start, and source and destination walk  *)
(* in step.                                                                *)
LoopInv ==
  pc \in {"loop", "advance", "unwind"} =>
    /\ guard = lo /\ result \in lo .. hi
    /\ pc = "advance" => result < hi
    /\ \A i \in lo .. hi - 1 :
         cell[i] <=> i < result \/ (pc = "advance" /\ i = result)
    /\ pc # "unwind" => result = lo + taken

(* destroy() works on a sub-block of the call's block; what is left of it  *)
(* holds objects and the rest of the block holds none.                     *)
DestroyInv ==
  pc = "destroy" =>
    /\ guard = NoGuard
    /\ lo <= it /\ it <= last /\ last <= hi
    /\ \A i \in lo .. hi - 1 : cell[i] <=> it <= i /\ i < last

IdleInv == pc = "idle" => guard = NoGuard /\ outcome # "pending"

(* An exception is out exactly while a call is being unwound; destroy()    *)
(* itself does not throw.                                                  *)
OutcomeInv ==
  /\ pc \in {"loop", "advance"} => form # "destroy" /\ outcome = "pending"
  /\ pc = "unwind" => form # "destroy" /\ outcome = "threw"
  /\ pc = "destroy" => outcome = IF form = "destroy" THEN "pending" ELSE "threw"

(* The inductive invariant.                                                *)
Inv == TypeOK /\ LoopInv /\ DestroyInv /\ IdleInv /\ OutcomeInv

(* No constructor runs in a cell that holds an object, and no destructor   *)
(* in one that holds none (__construct_at, destroy_at), whatever threw     *)
(* before.                                                                 *)
LifetimesNest ==
  /\ pc = "loop" /\ result # hi => ~cell[result]
  /\ pc = "destroy" /\ it # last => cell[it]

(* An element of a moved-from source range that has lost its value lives   *)
(* in the destination, except for the one element whose constructor threw  *)
(* - until the guard destroys the block (uninitialized_move).              *)
MovedValuesAreHeld ==
  pc \in {"loop", "advance"} /\ form = "move" =>
    \A i \in moved : lo + i < hi /\ cell[lo + i]

(* What a caller sees: the cells with objects, and how the last call ended. *)
(* The block of a call in progress is hidden.                              *)
visible == {i \in Cells : cell[i] /\ (pc = "idle" \/ i < lo \/ hi <= i)}

Abstract ==
  INSTANCE AllOrNothing
    WITH live    <- visible,
         form    <- IF form = "destroy" THEN form ELSE "create",
         outcome <- IF pc = "idle" THEN outcome ELSE "pending"

(* A call that returns has created all its objects; one that throws leaves *)
(* none of them behind; neither disturbs an object outside of its block.   *)
AllOrNothing == Abstract!Spec

(* Every call comes back to its caller, normally or by exception.          *)
CallsReturn == (pc # "idle") ~> (pc = "idle")
=============================================================================
