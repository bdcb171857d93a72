----------------------------- MODULE MC_Variant -----------------------------
(* Two variants of two alternatives with two values each, so that both     *)
(* operands of every operation may agree or differ in alternative and in   *)
(* value, and either may be invalid.                                       *)
EXTENDS Variant

CONSTANTS a, b, u, w
MC_Vars   == {a, b}
MC_Values == {u, w}

(* Alternatives that throw from everything, from nothing, from all but     *)
(* moving, from assignments and swaps and copies, from those but not from  *)
(* copies, and from all but copies.                                        *)
Copies == {"copy_construct", "copy_assign"}
MC_Templates == {{}, Traits, Moves, {"move_construct"}, {"move_construct"} \cup Copies, Copies}
=============================================================================
