------------------------------ MODULE Optional ------------------------------
(***************************************************************************)
(* stl2/optional.hpp: storage for an object of type T and a flag, engaged_ *)
(* that tells whether it is there; and stl2/detail/semiregular_box.hpp,    *)
(* which wraps an optional to give any object an assignment.               *)
(*                                                                         *)
(* T is known by the traits that the noexcept clauses ask for: the set of  *)
(* its operations that do not throw, and whether it has an assignment.     *)
(* `template' tells which class the client has made of it.  A call is a    *)
(* list of steps, `todo'; an exception skips those left, and if the        *)
(* function that was called is noexcept it terminates the program.         *)
(***************************************************************************)
EXTENDS Integers, Sequences

CONSTANTS
  Opts,              \* the client's optionals and boxes
  Values,            \* the values of T
  Templates,         \* the optionals and boxes of a T that clients make
  Unspecified,       \* the value of a moved-from object
  Raw,               \* storage that holds no object
  Absent,            \* an optional outside of its lifetime
  Empty              \* a disengaged optional

Traits == {"copy_construct", "move_construct", "copy_assign", "move_assign", "swap"}

(* An optional, or a box of an optional, of a T with these traits.         *)
Template(boxed, nothrow, assignable) ==
  [boxed |-> boxed, nothrow |-> nothrow, assignable |-> assignable]

Object(v) == [alt |-> 0, val |-> v]
Objects == [alt : {0}, val : Values \cup {Unspecified}]

ASSUME OptionalAssumption ==
  /\ Templates \subseteq
       [boxed : BOOLEAN, nothrow : SUBSET Traits, assignable : BOOLEAN]
  /\ Unspecified \notin Values
  /\ {Raw, Absent, Empty} \cap Objects = {} /\ Absent # Empty


VARIABLES
  template,     \* the class of all optionals of the client; it never changes
  alive,        \* the optionals within their lifetime
  item,         \* item[x]: an object or Raw
  engaged,      \* engaged[x]: engaged_
  todo,         \* the steps left of the call in progress
  strict,       \* the function that was called is noexcept
  threw,        \* the call in progress, or the last one, has thrown
  terminated,   \* an exception has met a noexcept function
  called,       \* the last call, with its arguments
  before        \* what the client's optionals held at that call

vars == <<template, alive, item, engaged, todo, strict, threw, terminated, called, before>>

Boxes      == IF template.boxed THEN Opts ELSE {}
NoThrow    == template.nothrow
Assignable == template.assignable

Contents ==
  [x \in Opts |-> IF x \notin alive THEN Absent
                  ELSE IF engaged[x] THEN item[x] ELSE Empty]

-----------------------------------------------------------------------------
(* The steps.  `trait' is the operation of T that a step performs, "new" a *)
(* constructor from other arguments.                                       *)
Constructs(how) == IF how = "copy" THEN "copy_construct" ELSE "move_construct"
Assigns(how)    == IF how = "copy" THEN "copy_assign" ELSE "move_assign"

Begin(x)           == [do |-> "begin", to |-> x]
Make(x, o, trait)  == [do |-> "make", to |-> x, object |-> o, trait |-> trait]
Build(x, y, how)   == [do |-> "build", to |-> x, from |-> y, how |-> how,
                       trait |-> Constructs(how)]
Set(x, o, how)     == [do |-> "set", to |-> x, object |-> o,
                       trait |-> Assigns(how)]
SetFrom(x, y, how) == [do |-> "set_from", to |-> x, from |-> y, how |-> how,
                       trait |-> Assigns(how)]
SwapItems(x, y)    == [do |-> "swap_items", to |-> x, from |-> y, trait |-> "swap"]
Reset(x)           == [do |-> "reset", to |-> x]
Born(x)            == [do |-> "born", to |-> x]
Drop(x)            == [do |-> "drop", to |-> x]
Pass               == [do |-> "pass"]

step == Head(todo)
Doing(s) == todo # <<>> /\ step.do = s

Continue ==
  /\ todo' = Tail(todo)
  /\ UNCHANGED <<template, strict, threw, terminated, called, before>>

Throw ==
  /\ step.trait \notin NoThrow
  /\ todo' = <<>>
  /\ threw' = TRUE
  /\ terminated' = strict
  /\ UNCHANGED <<template, alive, engaged, strict, called, before>>

Noexcept(traits) == traits \subseteq NoThrow

-----------------------------------------------------------------------------
(* The operations a client may call.                                       *)
Request(op, x, y, o, how) == [op |-> op, x |-> x, y |-> y, o |-> o, how |-> how]

Requests ==
  [op : {"in_place", "construct", "destroy", "emplace", "reset",
         "assign_value", "assign", "swap"},
   x : Opts, y : Opts, o : Objects \cup {Empty}, how : {"new", "copy", "move"}]

Init ==
  /\ template \in Templates
  /\ alive = {}
  /\ item = [x \in Opts |-> Raw]
  /\ engaged = [x \in Opts |-> FALSE]
  /\ todo = <<>> /\ strict = FALSE /\ threw = FALSE /\ terminated = FALSE
  /\ called \in {Request("destroy", x, x, Empty, "new") : x \in Opts}
  /\ before = [x \in Opts |-> Absent]

Call(request, noexcept, steps) ==
  /\ todo = <<>> /\ ~terminated
  /\ todo' = steps
  /\ strict' = noexcept
  /\ threw' = FALSE
  /\ called' = request
  /\ before' = Contents
  /\ UNCHANGED <<template, alive, item, engaged, terminated>>

(* optional(), and semiregular_box() = default, which leaves the box of a T *)
(* that is not default constructible empty.  The box of another T comes    *)
(* with an object; its constructor is an InPlace.                          *)
Default(x) ==
  /\ x \notin alive
  /\ Call(Request("in_place", x, x, Empty, "new"), TRUE, <<Begin(x), Born(x)>>)

(* optional(in_place, args...) and semiregular_box(in_place, args...).     *)
InPlace(x, o) ==
  /\ x \notin alive
  /\ Call(Request("in_place", x, x, o, "new"), FALSE,
          <<Begin(x), Make(x, o, "new"), Born(x)>>)

(* semiregular_box(const T&) and semiregular_box(T&&).                     *)
BoxFrom(x, o, how) ==
  /\ x \in Boxes \ alive
  /\ Call(Request("in_place", x, x, o, how), Noexcept({Constructs(how)}),
          <<Begin(x), Make(x, o, Constructs(how)), Born(x)>>)

ConstructSteps(x, y, how) ==
  IF engaged[y] THEN <<Begin(x), Build(x, y, how), Born(x)>> ELSE <<Begin(x), Born(x)>>

(* optional(const optional&) and optional(optional&&), and those of boxes. *)
(* Both have the same noexcept clause, that of smf_layer.                  *)
Construct(x, y, how) ==
  /\ x \notin alive /\ y \in alive
  /\ Call(Request("construct", x, y, Empty, how), Noexcept({"copy_construct"}),
          ConstructSteps(x, y, how))

(* optional(const optional<U>&) and optional(optional<U>&&).               *)
ConvertOptional(x, y, how) ==
  /\ x \notin alive \cup Boxes /\ y \in alive \ Boxes
  /\ Call(Request("construct", x, y, Empty, how), Noexcept({Constructs(how)}),
          ConstructSteps(x, y, how))

Destroy(x) ==
  x \in alive /\ Call(Request("destroy", x, x, Empty, "new"), TRUE, <<Drop(x)>>)

(* A faulty emplace() that constructs over the object it replaces.         *)
EmplaceOver(x, o) ==
  /\ x \in alive \ Boxes
  /\ Call(Request("emplace", x, x, o, "new"), FALSE, <<Make(x, o, "new")>>)

Emplace(x, o) ==
  /\ x \in alive \ Boxes
  /\ Call(Request("emplace", x, x, o, "new"), FALSE,
          <<Reset(x), Make(x, o, "new")>>)

(* reset() and operator=(nullopt_t).                                       *)
ResetOptional(x) ==
  /\ x \in alive \ Boxes
  /\ Call(Request("reset", x, x, Empty, "new"), TRUE, <<Reset(x)>>)

(* operator=(U&&), as an optional does it.                                 *)
SetOrMake(x, o, how) ==
  IF engaged[x] THEN <<Set(x, o, how)>> ELSE <<Make(x, o, Constructs(how))>>

(* A faulty operator=(U&&) that does not forward an rvalue as one.         *)
AssignValueCopies(x, o, how) ==
  /\ Assignable /\ x \in alive \ Boxes
  /\ Call(Request("assign_value", x, x, o, how),
          Noexcept({Constructs(how), Assigns(how)}),
          SetOrMake(x, o, "copy"))

AssignValue(x, o, how) ==
  /\ Assignable /\ x \in alive \ Boxes
  /\ Call(Request("assign_value", x, x, o, how),
          Noexcept({Constructs(how), Assigns(how)}),
          SetOrMake(x, o, how))

(* A faulty operator=(const T&) of a box that emplaces in any case.        *)
BoxAssignEmplaces(x, o, how) ==
  /\ x \in alive \cap Boxes
  /\ Call(Request("assign_value", x, x, o, how), FALSE,
          <<Reset(x), Make(x, o, Constructs(how))>>)

(* A box's operator=(const T&) and operator=(T&&).  For a T that can be    *)
(* assigned both say `o_ = t', where t is an lvalue; the noexcept clause   *)
(* asks for T's own copy or move assignment, whatever the box holds.  For  *)
(* another T they emplace.                                                 *)
BoxAssign(x, o, how) ==
  /\ x \in alive \cap Boxes
  /\ \/ /\ Assignable
        /\ Call(Request("assign_value", x, x, o, how), Noexcept({Assigns(how)}),
                SetOrMake(x, o, "copy"))
     \/ /\ ~Assignable
        /\ Call(Request("emplace", x, x, o, how), Noexcept({Constructs(how)}),
                <<Reset(x), Make(x, o, Constructs(how))>>)

(* A faulty assignment from an empty optional, which leaves *this alone.   *)
AssignOptionalIgnoresEmpty(x, y, how) ==
  /\ Assignable /\ {x, y} \subseteq alive
  /\ Call(Request("assign", x, y, Empty, how),
          Noexcept({Constructs(how), Assigns(how)}),
          IF engaged[y] THEN IF engaged[x] THEN <<SetFrom(x, y, how)>>
                             ELSE <<Build(x, y, how)>>
          ELSE <<Pass>>)

(* operator=(const optional&) and operator=(optional&&), of boxes too, and *)
(* from an optional<U>.                                                    *)
AssignOptional(x, y, how) ==
  /\ Assignable /\ {x, y} \subseteq alive
  /\ Call(Request("assign", x, y, Empty, how),
          Noexcept({Constructs(how), Assigns(how)}),
          IF engaged[y] THEN IF engaged[x] THEN <<SetFrom(x, y, how)>>
                             ELSE <<Build(x, y, how)>>
          ELSE <<Reset(x)>>)

(* swap(): of the objects if both hold one; else the one object goes over. *)
SwapOptionals(x, y) ==
  /\ {x, y} \subseteq alive \ Boxes
  /\ Call(Request("swap", x, y, Empty, "move"), Noexcept({"swap", "move_construct"}),
          IF engaged[x] /\ engaged[y] THEN <<SwapItems(x, y)>>
          ELSE IF engaged[x] THEN <<Build(y, x, "move"), Reset(x)>>
          ELSE IF engaged[y] THEN <<Build(x, y, "move"), Reset(y)>>
          ELSE <<Pass>>)

Client ==
  \E x \in Opts :
    \/ Default(x) \/ Destroy(x) \/ ResetOptional(x)
    \/ \E v \in Values :
         \/ InPlace(x, Object(v)) \/ Emplace(x, Object(v))
         \/ \E how \in {"copy", "move"} :
              \/ BoxFrom(x, Object(v), how)
              \/ AssignValue(x, Object(v), how) \/ BoxAssign(x, Object(v), how)
    \/ \E y \in Opts :
         \/ SwapOptionals(x, y)
         \/ \E how \in {"copy", "move"} :
              \/ Construct(x, y, how) \/ ConvertOptional(x, y, how)
              \/ AssignOptional(x, y, how)

-----------------------------------------------------------------------------
(* The steps, one action each.                                             *)

(* A new optional: engaged_ is initialised to false.                       *)
DoBegin ==
  /\ Doing("begin") /\ Continue
  /\ engaged' = [engaged EXCEPT ![step.to] = FALSE]
  /\ UNCHANGED <<alive, item>>

(* A faulty construct() that sets engaged_ before it constructs.           *)
DoMakeEngagedFirst ==
  /\ Doing("make")
  /\ \/ /\ Continue
        /\ item' = [item EXCEPT ![step.to] = step.object]
        /\ engaged' = [engaged EXCEPT ![step.to] = TRUE]
        /\ UNCHANGED alive
     \/ /\ step.trait \notin NoThrow
        /\ todo' = <<>> /\ threw' = TRUE /\ terminated' = strict
        /\ engaged' = [engaged EXCEPT ![step.to] = TRUE]
        /\ UNCHANGED <<template, alive, item, strict, called, before>>

(* construct(): the object first, engaged_ next.                           *)
DoMake ==
  /\ Doing("make")
  /\ \/ /\ Continue
        /\ item' = [item EXCEPT ![step.to] = step.object]
        /\ engaged' = [engaged EXCEPT ![step.to] = TRUE]
        /\ UNCHANGED alive
     \/ Throw /\ UNCHANGED item

(* The storage after y's object has been used as the source of a copy or a *)
(* move.                                                                   *)
Used(s, y, how) == IF how = "move" THEN [s EXCEPT ![y].val = Unspecified] ELSE s

(* construct_from(): a throwing constructor may have moved the source.     *)
DoBuild ==
  /\ Doing("build")
  /\ LET x == step.to  y == step.from  after == Used(item, y, step.how) IN
       \/ /\ Continue
          /\ item' = [after EXCEPT ![x] = item[y]]
          /\ engaged' = [engaged EXCEPT ![x] = TRUE]
          /\ UNCHANGED alive
       \/ Throw /\ item' \in {item, after}

(* T's own assignment; one that throws leaves any value.                   *)
DoSet ==
  /\ Doing("set")
  /\ \/ /\ Continue
        /\ item' = [item EXCEPT ![step.to] = step.object]
        /\ UNCHANGED <<alive, engaged>>
     \/ /\ Throw
        /\ item' \in {item, [item EXCEPT ![step.to].val = Unspecified]}

DoSetFrom ==
  /\ Doing("set_from")
  /\ LET x == step.to  y == step.from  after == Used(item, y, step.how) IN
       \/ /\ Continue
          /\ item' = IF x = y THEN after ELSE [after EXCEPT ![x] = item[y]]
          /\ UNCHANGED <<alive, engaged>>
       \/ /\ Throw
          /\ item' \in {item, after, [after EXCEPT ![x].val = Unspecified]}

DoSwapItems ==
  /\ Doing("swap_items")
  /\ LET x == step.to  y == step.from IN
       \/ /\ Continue
          /\ item' = [item EXCEPT ![x] = item[y], ![y] = item[x]]
          /\ UNCHANGED <<alive, engaged>>
       \/ /\ Throw
          /\ item' \in {item, [item EXCEPT ![x].val = Unspecified,
                                          ![y].val = Unspecified]}

(* reset(): clear() if engaged_, which is false from then on.              *)
DoReset ==
  /\ Doing("reset") /\ Continue
  /\ item' = IF engaged[step.to] THEN [item EXCEPT ![step.to] = Raw] ELSE item
  /\ engaged' = [engaged EXCEPT ![step.to] = FALSE]
  /\ UNCHANGED alive

(* A constructor has returned.                                             *)
DoBorn ==
  /\ Doing("born") /\ Continue
  /\ alive' = alive \cup {step.to}
  /\ UNCHANGED <<item, engaged>>

(* ~storage_destruct_layer()                                               *)
DoDrop ==
  /\ Doing("drop") /\ Continue
  /\ alive' = alive \ {step.to}
  /\ item' = IF engaged[step.to] THEN [item EXCEPT ![step.to] = Raw] ELSE item
  /\ UNCHANGED engaged

(* Nothing to do.                                                          *)
DoPass ==
  /\ Doing("pass") /\ Continue
  /\ UNCHANGED <<alive, item, engaged>>

Running ==
  \/ DoBegin \/ DoMake \/ DoBuild \/ DoSet \/ DoSetFrom \/ DoSwapItems
  \/ DoReset \/ DoBorn \/ DoDrop \/ DoPass

(* The program is over.                                                    *)
Terminated == terminated /\ UNCHANGED vars

Next == Client \/ Running \/ Terminated

Spec == Init /\ [][Next]_vars

-----------------------------------------------------------------------------
(* Between calls, also after an exception, an object is there exactly if   *)
(* engaged_ says so (construct, reset), and a construction that threw has  *)
(* left none.                                                              *)
EngagedAgrees ==
  todo = <<>> =>
    \A x \in Opts : item[x] # Raw <=> x \in alive /\ engaged[x]

(* In the midst of a call, too, an object is constructed where none is     *)
(* (construct), and destroyed, copied or assigned where one is.            *)
LifetimesNest ==
  todo # <<>> =>
    /\ step.do \in {"make", "build"} => item[step.to] = Raw
    /\ step.do \in {"reset", "drop"} /\ engaged[step.to] => item[step.to] # Raw
    /\ step.do \in {"build", "set_from", "swap_items"} => item[step.from] # Raw
    /\ step.do \in {"set", "set_from", "swap_items"} => item[step.to] # Raw

(* Between calls the client finds its optionals and boxes as the contract  *)
(* says, after a normal return and after every kind of exception.  A call  *)
(* that ended the program has done neither.                                *)
Contract ==
  INSTANCE HolderContract
    WITH Vars <- Opts, Invalid <- Empty,
         MoveThrows <- ~({"move_construct", "move_assign", "swap"} \subseteq NoThrow),
         content <- IF todo = <<>> /\ ~terminated THEN Contents ELSE before,
         request <- called,
         status  <- IF todo # <<>> \/ terminated THEN "pending"
                    ELSE IF threw THEN "threw" ELSE "returned"

ValueSemantics == Contract!Spec

(* What the noexcept clauses say is so: no exception meets a function that *)
(* is declared noexcept(...) with a true condition.                        *)
NoexceptHonoured == ~terminated

(* The calls r whose clause leaves out what they do, given what the boxes  *)
(* and optionals hold: the move constructor, which asks about copying; and *)
(* the assignment of a value to a box, which asks about T's assignment of  *)
(* that kind, but copies, and constructs if the box is empty.              *)
FalseClause(r, held) ==
  \/ /\ r.op = "construct" /\ r.how = "move"
     /\ "copy_construct" \in NoThrow /\ "move_construct" \notin NoThrow
  \/ /\ r.op = "assign_value" /\ r.x \in Boxes /\ Assignable
     /\ Assigns(r.how) \in NoThrow
     /\ IF held[r.x] = Empty THEN "copy_construct" \notin NoThrow
        ELSE "copy_assign" \notin NoThrow

(* Whatever T promises, only these calls end the program: the clauses of   *)
(* all others cover every step that the state they find makes them take.   *)
OnlyThreeClausesFail == terminated => FalseClause(called, before)

(* A box that holds an object (get() has the precondition STL2_EXPECT(o_)) *)
(* holds one after the next call, whatever threw, unless it was destroyed, *)
(* was assigned an empty box, or is of a T without an assignment and the   *)
(* emplacement that replaces one threw.                                    *)
BoxesKeepObjects ==
  todo = <<>> =>
    \A x \in alive \cap Boxes :
      before[x] \in Objects /\ ~engaged[x] =>
        /\ called.x = x
        /\ \/ called.op = "assign" /\ before[called.y] = Empty
           \/ called.op = "emplace" /\ ~Assignable /\ threw
=============================================================================
