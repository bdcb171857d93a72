------------------------------- MODULE Variant -------------------------------
(***************************************************************************)
(* stl2/variant.hpp: a variant is storage for one object of one of its     *)
(* alternatives and the index of that alternative, -1 when it holds none   *)
(* ("invalid").  The two are changed in separate steps, any of which the   *)
(* constructors and assignments of the alternatives may leave by an        *)
(* exception; index_guard writes the index on the way out.                 *)
(*                                                                         *)
(* A call is a list of steps, `todo'.  An exception skips the steps that   *)
(* are left, except the destructors of the guards and of the temporary; if *)
(* the function that was called is noexcept it terminates the program.     *)
(* Destructors do not throw (Destructible).                                *)
(***************************************************************************)
EXTENDS Integers, Sequences

CONSTANTS
  Vars,              \* the client's variants
  Alternatives,      \* the number of alternatives
  Values,            \* the values of an alternative
  Templates,         \* what the alternatives promise: which of Traits do not throw
  tmp,               \* the temporary of a call
  Unspecified,       \* the value of a moved-from object
  Raw,               \* storage that holds no object
  Absent,            \* a variant outside of its lifetime
  Invalid            \* a variant that holds no object

Traits == {"copy_construct", "move_construct", "copy_assign", "move_assign", "swap"}
Moves == {"move_construct", "move_assign", "swap"}

Indices == 0 .. Alternatives - 1
invalid_index == -1

Slots == Vars \cup {tmp}

Object(i, v) == [alt |-> i, val |-> v]
Objects == [alt : Indices, val : Values \cup {Unspecified}]

ASSUME VariantAssumption ==
  /\ Alternatives \in Nat \ {0}
  /\ Templates \subseteq SUBSET Traits
  /\ tmp \notin Vars /\ Unspecified \notin Values
  /\ {Raw, Absent, Invalid} \cap Objects = {} /\ Absent # Invalid

VARIABLES
  nothrow,      \* the traits of the alternatives that the template is given; settled
  alive,        \* the variants within their lifetime
  storage,      \* storage[x]: an object or Raw
  index,        \* index[x]: base::index_
  guard,        \* guard[x]: the index an index_guard will write, or NoGuard
  todo,         \* the steps left of the call in progress
  strict,       \* the function that was called is noexcept
  threw,        \* the call in progress, or the last one, has thrown
  terminated,   \* an exception has met a noexcept function
  called,       \* the last call, with its arguments
  before        \* what the client's variants held at that call

vars == <<nothrow, alive, storage, index, guard, todo, strict, threw, terminated, called, before>>

NoGuard == -2

valid(x) == index[x] >= 0

(* What a client finds in its variants.                                    *)
Contents ==
  [x \in Vars |-> IF x \notin alive THEN Absent
                  ELSE IF valid(x) THEN storage[x] ELSE Invalid]

-----------------------------------------------------------------------------
(* The steps.  `how' is "copy", "move" or, for a constructor from other    *)
(* arguments, "new"; `trait' is the operation of an alternative.           *)

Constructs(how) ==
  CASE how = "copy" -> "copy_construct" [] how = "move" -> "move_construct" [] how = "new" -> "new"
Assigns(how) == IF how = "copy" THEN "copy_assign" ELSE "move_assign"

SetIndex(x, i)       == [do |-> "set_index", to |-> x, i |-> i]
Guard(x)             == [do |-> "guard", to |-> x]
Clear(x)             == [do |-> "clear", to |-> x]
Make(x, o, how)      == [do |-> "make", to |-> x, object |-> o, trait |-> Constructs(how)]
Build(x, y, how)     == [do |-> "build", to |-> x, from |-> y, how |-> how,
                         trait |-> Constructs(how)]
Unguard(x)           == [do |-> "unguard", to |-> x]
Born(x)              == [do |-> "born", to |-> x]
Drop(x)              == [do |-> "drop", to |-> x]
Transfer(x, y, how)  == [do |-> "transfer", to |-> x, from |-> y, how |-> how]
Assign(x, y, how)    == [do |-> "assign", to |-> x, from |-> y, how |-> how]
AssignAlt(x, v, how) == [do |-> "assign_alt", to |-> x, val |-> v, trait |-> Assigns(how)]
AssignFrom(x, y, how) == [do |-> "assign_from", to |-> x, from |-> y, how |-> how,
                         trait |-> Assigns(how)]
CopyArgument         == [do |-> "copy_argument", trait |-> "copy_construct"]
SwapAlts(x, y)       == [do |-> "swap_alts", to |-> x, from |-> y, trait |-> "swap"]
Exchange(x, y)       == [do |-> "exchange", to |-> x, from |-> y]
Visit(x)             == [do |-> "visit", to |-> x]

emplace(x, o, how) == <<Guard(x), Clear(x), Make(x, o, how), Unguard(x)>>

step == Head(todo)
Doing(s) == todo # <<>> /\ step.do = s

(* Go on with steps s in place of the current one.                         *)
Continue(s) == todo' = s \o Tail(todo) /\ UNCHANGED <<nothrow, strict, threw, terminated, called, before>>

(* The variants whose index_guard is in scope.                             *)
Guarded == {x \in Slots : guard[x] # NoGuard}

(* A faulty unwinding, the guards being no longer active objects.          *)
UnwindingDropsOnly == IF tmp \in alive THEN <<Drop(tmp)>> ELSE <<>>

(* What is left to do when an exception passes: the destructors of what is *)
(* in scope, the innermost first.                                          *)
Unwinding ==
  (IF Guarded = {} THEN <<>> ELSE <<Unguard(CHOOSE x \in Guarded : TRUE)>>)
  \o (IF tmp \in alive THEN <<Drop(tmp)>> ELSE <<>>)

(* A program that terminates may unwind the stack before it does, or not.  *)
Throw ==
  /\ step.trait \notin nothrow
  /\ todo' = Unwinding
  /\ threw' = TRUE
  /\ terminated' = strict
  /\ UNCHANGED <<nothrow, alive, index, guard, strict, called, before>>

Noexcept(traits) == traits \subseteq nothrow

-----------------------------------------------------------------------------
(* The operations a client may call.                                       *)

(* A call of op on x, with y or o, by copying or by moving.                *)
Request(op, x, y, o, how) ==
  [op |-> op, x |-> x, y |-> y, o |-> o, how |-> how]

Requests ==
  [op : {"in_place", "construct", "destroy", "emplace", "assign_value",
         "assign", "swap", "compare"},
   x : Vars, y : Vars, o : Objects \cup {Raw}, how : {"new", "copy", "move"}]

Init ==
  /\ nothrow \in Templates
  /\ alive = {}
  /\ storage = [x \in Slots |-> Raw]
  /\ index = [x \in Slots |-> invalid_index]
  /\ guard = [x \in Slots |-> NoGuard]
  /\ todo = <<>> /\ strict = FALSE /\ threw = FALSE /\ terminated = FALSE
  /\ called \in {Request("destroy", x, x, Raw, "new") : x \in Vars}
  /\ before = [x \in Vars |-> Absent]

Call(request, noexcept, steps) ==
  /\ todo = <<>> /\ ~terminated
  /\ todo' = steps
  /\ strict' = noexcept
  /\ threw' = FALSE
  /\ called' = request
  /\ before' = Contents
  /\ UNCHANGED <<nothrow, alive, storage, index, guard, terminated>>

(* variant(in_place_index<i>, v): no guard, the index comes first.         *)
InPlace(x, o) ==
  /\ x \notin alive
  /\ Call(Request("in_place", x, x, o, "new"), FALSE,
          <<SetIndex(x, o.alt), Make(x, o, "new"), Born(x)>>)

(* variant(const variant&) and variant(variant&&).                         *)
Construct(x, y, how) ==
  /\ x \notin alive /\ y \in alive
  /\ Call(Request("construct", x, y, Raw, how), Noexcept({Constructs(how)}),
          <<Transfer(x, y, how), Born(x)>>)

(* ~variant().                                                             *)
Destroy(x) ==
  x \in alive /\ Call(Request("destroy", x, x, Raw, "new"), TRUE, <<Drop(x)>>)

Emplace(x, o) ==
  /\ x \in alive
  /\ Call(Request("emplace", x, x, o, "new"), FALSE, emplace(x, o, "new"))

(* What operator=(T&&) and operator=(const T&) say that they need.         *)
AssignValueNoexcept(how) ==
  Noexcept({"move_construct", Constructs(how), Assigns(how)})

(* A faulty operator=(const T&) that emplaces straight from its argument.  *)
AssignValueDirect(x, o, how) ==
  /\ x \in alive
  /\ Call(Request("assign_value", x, x, o, how), AssignValueNoexcept(how),
          IF index[x] = o.alt THEN <<AssignAlt(x, o.val, how)>>
          ELSE emplace(x, o, how))

(* operator=(T&&) and operator=(const T&): assign to the alternative T if  *)
(* it is the active one, else emplace - from a temporary T{t} if t is      *)
(* const, so that a throwing copy leaves *this alone.                      *)
AssignValue(x, o, how) ==
  /\ x \in alive
  /\ Call(Request("assign_value", x, x, o, how), AssignValueNoexcept(how),
          IF index[x] = o.alt THEN <<AssignAlt(x, o.val, how)>>
          ELSE IF how = "move" THEN emplace(x, o, "move")
          ELSE <<CopyArgument>> \o emplace(x, o, "move"))

(* operator=(const variant&) and operator=(variant&&).  Neither noexcept   *)
(* clause asks about more than its own kind.                               *)
AssignVariant(x, y, how) ==
  /\ {x, y} \subseteq alive
  /\ Call(Request("assign", x, y, Raw, how),
          Noexcept({Assigns(how), Constructs(how)}), <<Assign(x, y, how)>>)

(* A faulty swap() that asks about the construction of its temporary only. *)
SwapHalfNoexcept(x, y) ==
  /\ {x, y} \subseteq alive
  /\ Call(Request("swap", x, y, Raw, "move"), Noexcept({"move_construct"}), <<Exchange(x, y)>>)

Swap(x, y) ==
  /\ {x, y} \subseteq alive
  /\ Call(Request("swap", x, y, Raw, "move"), Noexcept(Moves), <<Exchange(x, y)>>)

(* operator== and operator<: visit the alternative if the indices agree.   *)
Compare(x, y) ==
  /\ {x, y} \subseteq alive /\ index[x] = index[y]
  /\ Call(Request("compare", x, y, Raw, "new"), FALSE, <<Visit(y)>>)

Client ==
  \E x \in Vars :
    \/ Destroy(x)
    \/ \E i \in Indices, v \in Values :
         \/ InPlace(x, Object(i, v)) \/ Emplace(x, Object(i, v))
         \/ \E how \in {"copy", "move"} : AssignValue(x, Object(i, v), how)
    \/ \E y \in Vars :
         \/ Swap(x, y) \/ Compare(x, y)
         \/ \E how \in {"copy", "move"} :
              Construct(x, y, how) \/ AssignVariant(x, y, how)

-----------------------------------------------------------------------------
(* The steps, one action each.                                             *)

DoSetIndex ==
  /\ Doing("set_index") /\ Continue(<<>>)
  /\ index' = [index EXCEPT ![step.to] = step.i]
  /\ UNCHANGED <<alive, storage, guard>>

(* index_guard{*this}                                                      *)
DoGuard ==
  /\ Doing("guard") /\ Continue(<<>>)
  /\ guard' = [guard EXCEPT ![step.to] = invalid_index]
  /\ UNCHANGED <<alive, storage, index>>

(* clear_(): end the lifetime of the active alternative, if any; the index *)
(* stays as it is.                                                         *)
DoClear ==
  /\ Doing("clear") /\ Continue(<<>>)
  /\ storage' = IF valid(step.to) THEN [storage EXCEPT ![step.to] = Raw]
                ELSE storage
  /\ UNCHANGED <<alive, index, guard>>

(* Construct an object in the storage, then tell the guard its index.      *)
Hold(x, o) ==
  /\ storage' = [storage EXCEPT ![x] = o]
  /\ guard' = IF guard[x] = NoGuard THEN guard
              ELSE [guard EXCEPT ![x] = o.alt]
  /\ UNCHANGED <<alive, index>>

(* A faulty construct that tells the guard before the constructor is done. *)
DoMakeGuardFirst ==
  /\ Doing("make")
  /\ \/ Continue(<<>>) /\ Hold(step.to, step.object)
     \/ /\ step.trait \notin nothrow
        /\ todo' = Unwinding /\ threw' = TRUE /\ terminated' = strict
        /\ guard' = [guard EXCEPT ![step.to] = step.object.alt]
        /\ UNCHANGED <<nothrow, alive, storage, index, strict, called, before>>

DoMake ==
  /\ Doing("make")
  /\ \/ Continue(<<>>) /\ Hold(step.to, step.object)
     \/ Throw /\ UNCHANGED storage

(* The storage after y's object has been used as the source of a copy or a *)
(* move.                                                                   *)
Used(s, y, how) == IF how = "move" THEN [s EXCEPT ![y].val = Unspecified] ELSE s

(* A throwing constructor may have moved the source's value away.          *)
DoBuild ==
  /\ Doing("build")
  /\ LET y == step.from IN
       \/ /\ Continue(<<>>)
          /\ storage' = [Used(storage, y, step.how) EXCEPT ![step.to] = storage[y]]
          /\ guard' = [guard EXCEPT ![step.to] = storage[y].alt]
          /\ UNCHANGED <<alive, index>>
       \/ Throw /\ storage' \in {storage, Used(storage, y, step.how)}

(* A faulty step that is never done with.                                  *)
DoUnguardForever ==
  /\ Doing("unguard")
  /\ index' = [index EXCEPT ![step.to] = guard[step.to]]
  /\ UNCHANGED <<nothrow, alive, storage, guard, todo, strict, threw, terminated, called, before>>

(* ~index_guard()                                                          *)
DoUnguard ==
  /\ Doing("unguard") /\ Continue(<<>>)
  /\ index' = [index EXCEPT ![step.to] = guard[step.to]]
  /\ guard' = [guard EXCEPT ![step.to] = NoGuard]
  /\ UNCHANGED <<alive, storage>>

(* A constructor has returned.                                             *)
DoBorn ==
  /\ Doing("born") /\ Continue(<<>>)
  /\ alive' = alive \cup {step.to}
  /\ UNCHANGED <<storage, index, guard>>

(* ~destruct_base(): clear_().                                             *)
DoDrop ==
  /\ Doing("drop") /\ Continue(<<>>)
  /\ alive' = alive \ {step.to}
  /\ storage' = IF valid(step.to) THEN [storage EXCEPT ![step.to] = Raw]
                ELSE storage
  /\ UNCHANGED <<index, guard>>

(* copy_move_from: into storage that holds no object.                      *)
DoTransfer ==
  /\ Doing("transfer")
  /\ LET x == step.to  y == step.from IN
       Continue(<<Guard(x)>>
                \o (IF valid(y) THEN <<Build(x, y, step.how)>> ELSE <<>>)
                \o <<Unguard(x)>>)
  /\ UNCHANGED <<alive, storage, index, guard>>

(* move_assign_from and copy_assign_from: the alternatives' own assignment *)
(* if both hold the same one; else clear and construct, from a temporary   *)
(* copy if the source is const.                                            *)
DoAssign ==
  /\ Doing("assign")
  /\ LET x == step.to  y == step.from IN
       \/ /\ index[x] = index[y]
          /\ Continue(IF valid(x)
                      THEN <<AssignFrom(x, y, step.how)>>
                      ELSE <<>>)
       \/ /\ index[x] # index[y] /\ step.how = "move"
          /\ Continue(<<Clear(x), Transfer(x, y, "move")>>)
       \/ /\ index[x] # index[y] /\ step.how = "copy"
          /\ Continue(<<Transfer(tmp, y, "copy"), Born(tmp), Clear(x),
                        Transfer(x, tmp, "move"), Drop(tmp)>>)
  /\ UNCHANGED <<alive, storage, index, guard>>

(* The alternative's own assignment; one that throws leaves any value.     *)
DoAssignAlt ==
  /\ Doing("assign_alt")
  /\ LET Valued(v) == [storage EXCEPT ![step.to].val = v] IN
       \/ /\ Continue(<<>>) /\ storage' = Valued(step.val)
          /\ UNCHANGED <<alive, index, guard>>
       \/ Throw /\ storage' \in {storage, Valued(Unspecified)}

DoAssignFrom ==
  /\ Doing("assign_from")
  /\ LET x == step.to  y == step.from
         after == Used(storage, y, step.how)
     IN \/ /\ Continue(<<>>)
           /\ storage' = IF x = y THEN after
                         ELSE [after EXCEPT ![x] = storage[y]]
           /\ UNCHANGED <<alive, index, guard>>
        \/ /\ Throw
           /\ storage' \in {storage, after,
                            [after EXCEPT ![x].val = Unspecified]}

(* T{t} in operator=(const T&).                                            *)
DoCopyArgument ==
  /\ Doing("copy_argument")
  /\ \/ Continue(<<>>) /\ UNCHANGED <<alive, index, guard>>
     \/ Throw
  /\ UNCHANGED storage

(* A faulty swap() that keeps the old value of x nowhere.                  *)
DoExchangeNoTemporary ==
  /\ Doing("exchange")
  /\ LET x == step.to  y == step.from IN
       \/ /\ index[x] = index[y]
          /\ Continue(IF valid(x) THEN <<SwapAlts(x, y)>> ELSE <<>>)
       \/ /\ index[x] # index[y]
          /\ Continue(<<Assign(x, y, "move"), Assign(y, x, "move")>>)
  /\ UNCHANGED <<alive, storage, index, guard>>

(* swap(): of the alternatives if both hold the same one; else             *)
(* `b = exchange(a, move(b))' on the whole variants.                       *)
DoExchange ==
  /\ Doing("exchange")
  /\ LET x == step.to  y == step.from IN
       \/ /\ index[x] = index[y]
          /\ Continue(IF valid(x) THEN <<SwapAlts(x, y)>> ELSE <<>>)
       \/ /\ index[x] # index[y]
          /\ Continue(<<Transfer(tmp, x, "move"), Born(tmp), Assign(x, y, "move"),
                        Assign(y, tmp, "move"), Drop(tmp)>>)
  /\ UNCHANGED <<alive, storage, index, guard>>

(* The alternatives' own swap; one that throws leaves any values.          *)
DoSwapAlts ==
  /\ Doing("swap_alts")
  /\ LET x == step.to  y == step.from IN
       \/ /\ Continue(<<>>)
          /\ storage' = [storage EXCEPT ![x] = storage[y], ![y] = storage[x]]
          /\ UNCHANGED <<alive, index, guard>>
       \/ /\ Throw
          /\ storage' \in {storage, [storage EXCEPT ![x].val = Unspecified,
                                                    ![y].val = Unspecified]}

DoVisit ==
  /\ Doing("visit") /\ Continue(<<>>)
  /\ UNCHANGED <<alive, storage, index, guard>>

Running ==
  \/ DoSetIndex \/ DoGuard \/ DoClear \/ DoMake \/ DoBuild \/ DoUnguard
  \/ DoBorn \/ DoDrop \/ DoTransfer \/ DoAssign \/ DoAssignAlt
  \/ DoAssignFrom \/ DoCopyArgument \/ DoExchange \/ DoSwapAlts \/ DoVisit

(* The program is over.                                                    *)
Terminated == terminated /\ todo = <<>> /\ UNCHANGED vars

Next == Client \/ Running \/ Terminated

(* A call that has started is run by its thread to the end.                *)
Spec == Init /\ [][Next]_vars /\ WF_vars(Running)

-----------------------------------------------------------------------------
TypeOK ==
  /\ nothrow \in Templates
  /\ alive \subseteq Slots
  /\ storage \in [Slots -> Objects \cup {Raw}]
  /\ index \in [Slots -> Indices \cup {invalid_index}]
  /\ guard \in [Slots -> Indices \cup {invalid_index, NoGuard}]
  /\ strict \in BOOLEAN /\ threw \in BOOLEAN /\ terminated \in BOOLEAN
  /\ called \in Requests
  /\ before \in [Vars -> Objects \cup {Absent, Invalid}]

(* Between calls the index of every variant tells the alternative that its *)
(* storage holds, or -1 if it holds none, whatever was thrown before; and  *)
(* no temporary, no guard and no object outside of a variant is left.      *)
IndexAgrees ==
  todo = <<>> =>
    /\ tmp \notin alive
    /\ \A x \in Slots :
         /\ guard[x] = NoGuard
         /\ IF x \in alive /\ valid(x)
            THEN storage[x] # Raw /\ storage[x].alt = index[x]
            ELSE storage[x] = Raw

(* In the midst of a call, too, an object is only destroyed as what it is  *)
(* (clear_), constructed in storage that holds none (emplace,              *)
(* copy_move_from), and copied or assigned when it exists.                 *)
LifetimesNest ==
  todo # <<>> =>
    /\ step.do \in {"clear", "drop"} /\ valid(step.to) =>
         storage[step.to] # Raw /\ storage[step.to].alt = index[step.to]
    /\ step.do \in {"make", "build"} => storage[step.to] = Raw
    /\ step.do \in {"build", "assign_from", "swap_alts"} =>
         storage[step.from] # Raw /\ storage[step.from].alt = index[step.from]
    /\ step.do \in {"assign_alt", "assign_from", "swap_alts"} =>
         storage[step.to] # Raw /\ storage[step.to].alt = index[step.to]

(* Between calls the client finds its variants as the contract says, after *)
(* a normal return and after every kind of exception.                      *)
Contract ==
  INSTANCE HolderContract
    WITH MoveThrows <- ~Noexcept(Moves),
         content <- IF todo = <<>> THEN Contents ELSE before,
         request <- called,
         status  <- IF todo # <<>> THEN "pending"
                    ELSE IF threw THEN "threw" ELSE "returned"

ValueSemantics == Contract!Spec

(* If constructing an alternative from an rvalue does not throw, only      *)
(* emplace may leave a variant invalid, whatever else throws: assignment   *)
(* and swap keep an old value or have a new one.  If no move or swap       *)
(* throws, swap always exchanges.                                          *)
NothrowMoveKeepsValid ==
  todo = <<>> /\ called.op \in {"assign", "assign_value", "swap"} =>
    /\ Noexcept({"move_construct"}) /\ (\A x \in Vars : before[x] # Invalid)
         => \A x \in Vars : Contents[x] # Invalid
    /\ Noexcept(Moves) /\ called.op = "swap" =>
         Contents = [before EXCEPT ![called.x] = before[called.y],
                                   ![called.y] = before[called.x]]

(* What the noexcept clauses say is so: no exception meets a function that *)
(* is declared noexcept(...) with a true condition.                        *)
NoexceptHonoured == ~terminated

(* That is so of all but one: whatever the alternatives promise, only the  *)
(* copy assignment, which asks whether copies throw but moves its          *)
(* temporary in, ends the program.                                         *)
CopyAssignmentMoves(r) ==
  /\ r.op = "assign" /\ r.how = "copy"
  /\ {"copy_construct", "copy_assign"} \subseteq nothrow /\ "move_construct" \notin nothrow

OnlyOneClauseFails == terminated => CopyAssignmentMoves(called)

(* Only a variant that holds a value is visited: the assertion             *)
(* STL2_EXPECT(v.valid()) of the dispatcher.                               *)
VisitsValid == Doing("visit") => valid(step.to)

(* Every call comes back to its caller, normally or by exception.          *)
CallsReturn == (todo # <<>>) ~> (todo = <<>>)
=============================================================================
