----------------------------- MODULE MC_Optional -----------------------------
(* Two optionals, or two boxes, and two values: both operands of every     *)
(* operation may agree or differ in being engaged and in value.            *)
EXTENDS Optional

CONSTANTS a, b, u, w
MC_Opts   == {a, b}
MC_Values == {u, w}

(* Every T there can be: with and without an assignment, and with any of  *)
(* its operations promising not to throw.                                  *)
MC_Templates ==
  {Template(boxed, nothrow, assignable) :
     boxed, assignable \in BOOLEAN, nothrow \in SUBSET Traits}

(* An optional of a type that promises not to throw when copied, although  *)
(* it may when moved: the constructor's clause has a run of its own.       *)
Copies == {"copy_construct", "copy_assign", "swap"}
MC_CopyingOptional == {Template(FALSE, Copies, TRUE)}
=============================================================================
