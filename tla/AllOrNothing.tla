---------------------------- MODULE AllOrNothing ----------------------------
(***************************************************************************)
(* What the uninitialized-memory algorithms promise their callers, without *)
(* loops, guards or exceptions: a call that returns has created an object  *)
(* in every cell of its block, a call that throws in none of them, and     *)
(* destroy() always returns, the objects of its block being gone.          *)
(***************************************************************************)
EXTENDS Integers

CONSTANT N           \* the number of cells of the array

VARIABLES
  live,              \* the cells that hold an object, outside the block of
                     \* a call in progress
  form, lo, hi,      \* the last call: "create" or "destroy", and its block
  outcome            \* "pending", "returned" or "threw"

Cells == 0 .. N - 1

Block(l, h) == {i \in Cells : l <= i /\ i < h}

Init ==
  /\ live = {} /\ form = "create" /\ lo = 0 /\ hi = 0 /\ outcome = "returned"

Ask(f, l, h) ==
  /\ outcome # "pending"
  /\ f = "create"  => Block(l, h) \cap live = {}
  /\ f = "destroy" => Block(l, h) \subseteq live
  /\ live' = live \ Block(l, h)
  /\ form' = f /\ lo' = l /\ hi' = h
  /\ outcome' = "pending"

Succeed ==
  /\ outcome = "pending" /\ outcome' = "returned"
  /\ live' = IF form = "create" THEN live \cup Block(lo, hi) ELSE live
  /\ UNCHANGED <<form, lo, hi>>

Fail ==
  /\ outcome = "pending" /\ outcome' = "threw"
  /\ form = "create"
  /\ UNCHANGED <<live, form, lo, hi>>

Next ==
  \/ \E f \in {"create", "destroy"}, l, h \in 0 .. N : l <= h /\ Ask(f, l, h)
  \/ Succeed \/ Fail

Spec == Init /\ [][Next]_<<live, form, lo, hi, outcome>>
=============================================================================
