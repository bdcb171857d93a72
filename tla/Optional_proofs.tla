--------------------------- MODULE Optional_proofs ---------------------------
(***************************************************************************)
(* That engaged_ tells whether there is an object, in the midst of calls   *)
(* and after every exception, that boxes keep their objects, which of the  *)
(* noexcept clauses can fail, and that optionals and boxes implement       *)
(* HolderContract; for any number of optionals, any values and any         *)
(* template.                                                               *)
(***************************************************************************)
EXTENDS Optional, TLAPS

TypeInv ==
  /\ template \in Templates
  /\ alive \subseteq Opts
  /\ item \in [Opts -> Objects \cup {Raw}]
  /\ engaged \in [Opts -> BOOLEAN]
  /\ strict \in BOOLEAN /\ threw \in BOOLEAN /\ terminated \in BOOLEAN
  /\ called \in Requests
  /\ before \in [Opts -> Objects \cup {Absent, Empty}]

(* Of every optional but one under construction: engaged_ agrees.          *)
Agrees(z)  == item[z] # Raw <=> z \in alive /\ engaged[z]
AgreeOff(S) == \A z \in Opts \ S : Agrees(z)

(* What z holds, be it alive or not.                                       *)
Held(z) == IF engaged[z] THEN item[z] ELSE Empty

(* An object whose value has been moved away.                              *)
MovedOf(o) == IF o \in Objects THEN [o EXCEPT !.val = Unspecified] ELSE o

(* What has been asked for.                                                *)
Put   == [before EXCEPT ![called.x] = called.o]
Taken == [before EXCEPT ![called.x] = before[called.y],
                        ![called.y] = IF called.how = "move" THEN MovedOf(before[called.y])
                                      ELSE before[called.y]]

-----------------------------------------------------------------------------
(* Where a call may be, one definition for each list of steps left.        *)
Idle == todo = <<>>

Started == Contents = before /\ AgreeOff({})

AtBegin ==
  LET x == called.x  y == called.y  o == called.o IN
  /\ Started /\ x \notin alive
  /\ \/ /\ called.op = "in_place" /\ o \in Objects
        /\ \E t \in Traits \cup {"new"} : todo = <<Begin(x), Make(x, o, t), Born(x)>>
     \/ /\ called.op = "in_place" /\ o = Empty
        /\ todo = <<Begin(x), Born(x)>>
     \/ /\ called.op = "construct" /\ y \in alive
        /\ todo = ConstructSteps(x, y, called.how)

AtConstructor ==
  LET x == called.x  y == called.y  o == called.o IN
  /\ Started /\ x \notin alive
  /\ \/ /\ called.op = "in_place" /\ o \in Objects
        /\ \E t \in Traits \cup {"new"} : todo = <<Make(x, o, t), Born(x)>>
     \/ /\ called.op = "construct" /\ y \in alive /\ engaged[y]
        /\ todo = <<Build(x, y, called.how), Born(x)>>

AtBorn ==
  LET x == called.x IN
  /\ todo = <<Born(x)>> /\ x \notin alive
  /\ called.op \in {"in_place", "construct"}
  /\ AgreeOff({x}) /\ (item[x] # Raw <=> engaged[x])
  /\ before[x] = Absent /\ (called.op = "construct" => before[called.y] # Absent)
  /\ [Contents EXCEPT ![x] = Held(x)] = IF called.op = "in_place" THEN Put ELSE Taken

AtDrop ==
  /\ Started /\ called.op = "destroy" /\ called.x \in alive
  /\ todo = <<Drop(called.x)>>

(* Only boxes of a T without an assignment are emplaced into.              *)
EmplacesBox == called.x \in Boxes => ~Assignable

AtReset ==
  LET x == called.x  y == called.y  o == called.o IN
  /\ Started /\ x \in alive
  /\ \/ /\ called.op = "emplace" /\ o \in Objects /\ EmplacesBox
        /\ \E t \in Traits \cup {"new"} : todo = <<Reset(x), Make(x, o, t)>>
     \/ called.op = "reset" /\ o = Empty /\ x \notin Boxes /\ todo = <<Reset(x)>>
     \/ called.op = "assign" /\ y \in alive /\ ~engaged[y] /\ todo = <<Reset(x)>>

AtEmplace ==
  LET x == called.x  o == called.o IN
  /\ called.op = "emplace" /\ EmplacesBox /\ x \in alive /\ ~engaged[x] /\ o \in Objects
  /\ AgreeOff({}) /\ Contents = [before EXCEPT ![x] = Empty]
  /\ \E t \in Traits \cup {"new"} : todo = <<Make(x, o, t)>>

(* A box is assigned a copy, whatever its clause asks about.               *)
CopiesIntoBox == called.x \in Boxes /\ (Assigns(called.how) \in NoThrow => strict)

AtAssign ==
  LET x == called.x  y == called.y  o == called.o IN
  /\ Started /\ x \in alive
  /\ \/ /\ called.op = "assign_value" /\ o \in Objects
        /\ \E how \in {"copy", "move"} :
             todo = SetOrMake(x, o, how) /\ (how = called.how \/ CopiesIntoBox)
     \/ /\ called.op = "assign" /\ y \in alive /\ engaged[y]
        /\ todo = IF engaged[x] THEN <<SetFrom(x, y, called.how)>>
                  ELSE <<Build(x, y, called.how)>>

AtSwap ==
  LET x == called.x  y == called.y IN
  /\ Started /\ {x, y} \subseteq alive \ Boxes /\ called.op = "swap"
  /\ \/ engaged[x] /\ engaged[y] /\ todo = <<SwapItems(x, y)>>
     \/ engaged[x] /\ ~engaged[y] /\ todo = <<Build(y, x, "move"), Reset(x)>>
     \/ engaged[y] /\ ~engaged[x] /\ todo = <<Build(x, y, "move"), Reset(y)>>
     \/ ~engaged[x] /\ ~engaged[y] /\ todo = <<Pass>>

(* The object of v has gone over to u; what is left in v is reset.         *)
AtSwapped ==
  LET x == called.x  y == called.y IN
  /\ called.op = "swap" /\ {x, y} \subseteq alive \ Boxes /\ AgreeOff({})
  /\ \E u, v \in {x, y} :
       /\ {u, v} = {x, y} /\ u # v /\ todo = <<Reset(v)>>
       /\ before[u] = Empty
       /\ Contents = [before EXCEPT ![u] = before[v], ![v] = MovedOf(before[v])]

Place ==
  \/ Idle /\ AgreeOff({})
  \/ /\ ~threw
     /\ \/ AtBegin \/ AtConstructor \/ AtBorn \/ AtDrop \/ AtReset
        \/ AtEmplace \/ AtAssign \/ AtSwap \/ AtSwapped

IInv == TypeInv /\ Place

-----------------------------------------------------------------------------
(* A call begins.                                                          *)
LEMMA InitInv == Init => IInv
<1> SUFFICES ASSUME Init PROVE IInv
  OBVIOUS
<1>1. called \in Requests
  BY DEF Init, Requests, Request
<1>2. TypeInv
  BY <1>1 DEF Init, TypeInv
<1>3. Place
  BY DEF Init, Place, Idle, AgreeOff, Agrees
<1>4. QED
  BY <1>2, <1>3 DEF IInv

(* What comes next, from each of the places.                               *)
LEMMA Nexts ==
  /\ AtBegin => todo # <<>> /\ step.do = "begin" /\ step.to = called.x
  /\ AtConstructor => todo # <<>> /\ step.do \in {"make", "build"}
  /\ AtBorn => todo # <<>> /\ step.do = "born" /\ step.to = called.x
  /\ AtDrop => todo # <<>> /\ step.do = "drop" /\ step.to = called.x
  /\ AtReset => todo # <<>> /\ step.do = "reset"
  /\ AtEmplace => todo # <<>> /\ step.do = "make"
  /\ AtAssign => todo # <<>> /\ step.do \in {"set", "make", "set_from", "build"}
  /\ AtSwap => todo # <<>> /\ step.do \in {"swap_items", "build", "pass"}
  /\ AtSwapped => todo # <<>> /\ step.do = "reset"
<1>1. AtBegin => todo # <<>> /\ step.do = "begin" /\ step.to = called.x
  BY DEF AtBegin, step, Begin, ConstructSteps
<1>2. AtConstructor => todo # <<>> /\ step.do \in {"make", "build"}
  BY DEF AtConstructor, step, Make, Build
<1>3. AtBorn => todo # <<>> /\ step.do = "born" /\ step.to = called.x
  BY DEF AtBorn, step, Born
<1>4. AtDrop => todo # <<>> /\ step.do = "drop" /\ step.to = called.x
  BY DEF AtDrop, step, Drop
<1>5. AtReset => todo # <<>> /\ step.do = "reset"
  BY DEF AtReset, step, Reset
<1>6. AtEmplace => todo # <<>> /\ step.do = "make"
  BY DEF AtEmplace, step, Make
<1>7. AtAssign => todo # <<>> /\ step.do \in {"set", "make", "set_from", "build"}
  BY DEF AtAssign, step, SetOrMake, Set, Make, SetFrom, Build
<1>8. AtSwap => todo # <<>> /\ step.do \in {"swap_items", "build", "pass"}
  BY DEF AtSwap, step, SwapItems, Build, Pass
<1>9. AtSwapped => todo # <<>> /\ step.do = "reset"
  BY DEF AtSwapped, step, Reset
<1>10. QED
  BY <1>1, <1>2, <1>3, <1>4, <1>5, <1>6, <1>7, <1>8, <1>9

LEMMA IdleState == IInv /\ todo = <<>> => AgreeOff({})
  BY Nexts DEF IInv, Place

LEMMA ContentsType ==
  TypeInv /\ AgreeOff({}) => Contents \in [Opts -> Objects \cup {Absent, Empty}]
  BY DEF TypeInv, AgreeOff, Agrees, Contents

LEMMA RequestType ==
  ASSUME NEW op \in {"in_place", "construct", "destroy", "emplace", "reset",
                     "assign_value", "assign", "swap"},
         NEW x \in Opts, NEW y \in Opts, NEW o \in Objects \cup {Empty},
         NEW how \in {"new", "copy", "move"}
  PROVE  LET r == Request(op, x, y, o, how) IN
         r \in Requests /\ r.op = op /\ r.x = x /\ r.y = y /\ r.o = o /\ r.how = how
  BY DEF Request, Requests

LEMMA Asked ==
  ASSUME IInv, NEW r \in Requests, NEW n \in BOOLEAN, NEW s, Call(r, n, s)
  PROVE  /\ TypeInv' /\ Started'
         /\ ~threw' /\ called' = r /\ todo' = s
         /\ UNCHANGED <<template, alive, item, engaged, terminated>>
         /\ strict' = n
<1>1. TypeInv /\ AgreeOff({})
  BY IdleState DEF IInv, Call
<1>2. Contents \in [Opts -> Objects \cup {Absent, Empty}] /\ Contents' = Contents
  BY <1>1, ContentsType DEF Call, Contents
<1>3. QED
  BY <1>1, <1>2 DEF Call, TypeInv, Started, AgreeOff, Agrees

LEMMA ObjectType == \A v \in Values : Object(v) \in Objects
  BY DEF Object, Objects

LEMMA ConstructingInv ==
  ASSUME IInv, NEW x \in Opts, NEW y \in Opts, NEW o \in Objects,
         NEW how \in {"copy", "move"},
         \/ Default(x) \/ InPlace(x, o) \/ BoxFrom(x, o, how)
         \/ Construct(x, y, how) \/ ConvertOptional(x, y, how)
  PROVE  IInv'
<1>1. CASE Default(x)
  <2> DEFINE r == Request("in_place", x, x, Empty, "new")
  <2>1. r \in Requests /\ r.op = "in_place" /\ r.x = x /\ r.o = Empty
    BY RequestType
  <2> HIDE DEF r
  <2>2. /\ Call(r, TRUE, <<Begin(x), Born(x)>>) /\ x \notin alive
    BY <1>1 DEF Default, r
  <2>3. AtBegin' /\ TypeInv' /\ ~threw'
    BY <2>1, <2>2, Asked DEF AtBegin, Boxes
  <2>4. QED
    BY <2>3 DEF IInv, Place
<1>2. CASE InPlace(x, o)
  <2> DEFINE r == Request("in_place", x, x, o, "new")
  <2>1. r \in Requests /\ r.op = "in_place" /\ r.x = x /\ r.o = o
    BY RequestType
  <2> HIDE DEF r
  <2>2. Call(r, FALSE, <<Begin(x), Make(x, o, "new"), Born(x)>>) /\ x \notin alive
    BY <1>2 DEF InPlace, r
  <2>3. AtBegin' /\ TypeInv' /\ ~threw'
    BY <2>1, <2>2, Asked DEF AtBegin, Boxes
  <2>4. QED
    BY <2>3 DEF IInv, Place
<1>3. CASE BoxFrom(x, o, how)
  <2> DEFINE r == Request("in_place", x, x, o, how)
  <2>1. r \in Requests /\ r.op = "in_place" /\ r.x = x /\ r.o = o
    BY RequestType
  <2> HIDE DEF r
  <2>2. /\ Call(r, Noexcept({Constructs(how)}), <<Begin(x), Make(x, o, Constructs(how)), Born(x)>>)
        /\ x \notin alive
    BY <1>3 DEF BoxFrom, r
  <2>3. Constructs(how) \in Traits /\ Noexcept({Constructs(how)}) \in BOOLEAN
    BY DEF Constructs, Traits, Noexcept
  <2>4. AtBegin' /\ TypeInv' /\ ~threw'
    BY <2>1, <2>2, <2>3, Asked DEF AtBegin
  <2>5. QED
    BY <2>4 DEF IInv, Place
<1>4. CASE Construct(x, y, how) \/ ConvertOptional(x, y, how)
  <2> DEFINE r == Request("construct", x, y, Empty, how)
  <2>1. r \in Requests /\ r.op = "construct" /\ r.x = x /\ r.y = y /\ r.how = how
    BY RequestType
  <2> HIDE DEF r
  <2>2. PICK n \in BOOLEAN : Call(r, n, ConstructSteps(x, y, how))
    BY <1>4 DEF Construct, ConvertOptional, r, Noexcept
  <2>3. x \notin alive /\ y \in alive
    BY <1>4 DEF Construct, ConvertOptional
  <2>4. AtBegin' /\ TypeInv' /\ ~threw'
    BY <2>1, <2>2, <2>3, Asked DEF AtBegin, ConstructSteps
  <2>5. QED
    BY <2>4 DEF IInv, Place
<1>5. QED
  BY <1>1, <1>2, <1>3, <1>4

LEMMA ResettingInv ==
  ASSUME IInv, NEW x \in Opts, NEW o \in Objects, NEW how \in {"copy", "move"},
         \/ Destroy(x) \/ ResetOptional(x) \/ Emplace(x, o)
         \/ BoxAssign(x, o, how) /\ ~Assignable
  PROVE  IInv'
<1>1. CASE Destroy(x)
  <2> DEFINE r == Request("destroy", x, x, Empty, "new")
  <2>1. r \in Requests /\ r.op = "destroy" /\ r.x = x
    BY RequestType
  <2> HIDE DEF r
  <2>2. Call(r, TRUE, <<Drop(x)>>) /\ x \in alive
    BY <1>1 DEF Destroy, r
  <2>3. AtDrop' /\ TypeInv' /\ ~threw'
    BY <2>1, <2>2, Asked DEF AtDrop
  <2>4. QED
    BY <2>3 DEF IInv, Place
<1>2. CASE ResetOptional(x)
  <2> DEFINE r == Request("reset", x, x, Empty, "new")
  <2>1. r \in Requests /\ r.op = "reset" /\ r.x = x /\ r.o = Empty
    BY RequestType
  <2> HIDE DEF r
  <2>2. Call(r, TRUE, <<Reset(x)>>) /\ x \in alive /\ x \notin Boxes
    BY <1>2 DEF ResetOptional, r
  <2>3. AtReset' /\ TypeInv' /\ ~threw'
    BY <2>1, <2>2, Asked DEF AtReset, EmplacesBox, Boxes
  <2>4. QED
    BY <2>3 DEF IInv, Place
<1>3. CASE Emplace(x, o)
  <2> DEFINE r == Request("emplace", x, x, o, "new")
  <2>1. r \in Requests /\ r.op = "emplace" /\ r.x = x /\ r.o = o
    BY RequestType
  <2> HIDE DEF r
  <2>2. Call(r, FALSE, <<Reset(x), Make(x, o, "new")>>) /\ x \in alive /\ x \notin Boxes
    BY <1>3 DEF Emplace, r
  <2>3. AtReset' /\ TypeInv' /\ ~threw'
    BY <2>1, <2>2, Asked DEF AtReset, EmplacesBox, Boxes
  <2>4. QED
    BY <2>3 DEF IInv, Place
<1>4. CASE BoxAssign(x, o, how) /\ ~Assignable
  <2> DEFINE r == Request("emplace", x, x, o, how)
  <2>1. r \in Requests /\ r.op = "emplace" /\ r.x = x /\ r.o = o
    BY RequestType
  <2> HIDE DEF r
  <2>2. /\ Call(r, Noexcept({Constructs(how)}), <<Reset(x), Make(x, o, Constructs(how))>>)
        /\ x \in alive /\ ~Assignable
    BY <1>4 DEF BoxAssign, r
  <2>3. Constructs(how) \in Traits /\ Noexcept({Constructs(how)}) \in BOOLEAN
    BY DEF Constructs, Traits, Noexcept
  <2>4. AtReset' /\ TypeInv' /\ ~threw'
    BY <2>1, <2>2, <2>3, Asked DEF AtReset, EmplacesBox, Assignable
  <2>5. QED
    BY <2>4 DEF IInv, Place
<1>5. QED
  BY <1>1, <1>2, <1>3, <1>4

LEMMA AssigningInv ==
  ASSUME IInv, NEW x \in Opts, NEW y \in Opts, NEW o \in Objects, NEW how \in {"copy", "move"},
         \/ AssignValue(x, o, how)
         \/ BoxAssign(x, o, how) /\ Assignable
         \/ AssignOptional(x, y, how) \/ SwapOptionals(x, y)
  PROVE  IInv'
<1>1. CASE AssignValue(x, o, how) \/ (BoxAssign(x, o, how) /\ Assignable)
  <2> DEFINE r == Request("assign_value", x, x, o, how)
  <2>1. r \in Requests /\ r.op = "assign_value" /\ r.x = x /\ r.o = o /\ r.how = how
    BY RequestType
  <2> HIDE DEF r
  <2>2. PICK n \in BOOLEAN, h \in {"copy", "move"} :
          /\ Call(r, n, SetOrMake(x, o, h)) /\ x \in alive
          /\ h = how \/ (x \in Boxes /\ (Assigns(how) \in NoThrow => n))
    BY <1>1 DEF AssignValue, BoxAssign, r, Noexcept
  <2>3. SetOrMake(x, o, h)' = SetOrMake(x, o, h)
    BY <2>1, <2>2, Asked DEF SetOrMake
  <2>4. AtAssign' /\ TypeInv' /\ ~threw'
    BY <2>1, <2>2, <2>3, Asked DEF AtAssign, CopiesIntoBox, Boxes, NoThrow
  <2>5. QED
    BY <2>4 DEF IInv, Place
<1>2. CASE AssignOptional(x, y, how)
  <2> DEFINE r == Request("assign", x, y, Empty, how)
  <2>1. r \in Requests /\ r.op = "assign" /\ r.x = x /\ r.y = y /\ r.how = how
    BY RequestType
  <2> HIDE DEF r
  <2>2. PICK n \in BOOLEAN :
          /\ Call(r, n, IF engaged[y] THEN IF engaged[x] THEN <<SetFrom(x, y, how)>>
                                           ELSE <<Build(x, y, how)>>
                        ELSE <<Reset(x)>>)
          /\ x \in alive /\ y \in alive /\ Assignable
    BY <1>2 DEF AssignOptional, r, Noexcept
  <2>3. (AtAssign' \/ AtReset') /\ TypeInv' /\ ~threw'
    <3>1. CASE engaged[y]
      BY <2>1, <2>2, <3>1, Asked DEF AtAssign
    <3>2. CASE ~engaged[y]
      BY <2>1, <2>2, <3>2, Asked DEF AtReset
    <3>3. QED
      BY <3>1, <3>2
  <2>4. QED
    BY <2>3 DEF IInv, Place
<1>3. CASE SwapOptionals(x, y)
  <2> DEFINE r == Request("swap", x, y, Empty, "move")
  <2>1. r \in Requests /\ r.op = "swap" /\ r.x = x /\ r.y = y
    BY RequestType
  <2> HIDE DEF r
  <2>2. PICK n \in BOOLEAN :
          /\ Call(r, n, IF engaged[x] /\ engaged[y] THEN <<SwapItems(x, y)>>
                        ELSE IF engaged[x] THEN <<Build(y, x, "move"), Reset(x)>>
                        ELSE IF engaged[y] THEN <<Build(x, y, "move"), Reset(y)>>
                        ELSE <<Pass>>)
          /\ {x, y} \subseteq alive \ Boxes
    BY <1>3 DEF SwapOptionals, r, Noexcept
  <2>3. AtSwap' /\ TypeInv' /\ ~threw'
    BY <2>1, <2>2, Asked DEF AtSwap, Boxes, IInv, TypeInv
  <2>4. QED
    BY <2>3 DEF IInv, Place
<1>4. QED
  BY <1>1, <1>2, <1>3

-----------------------------------------------------------------------------
(* The steps of a call.                                                    *)
LEMMA Going ==
  ASSUME TypeInv, Continue
  PROVE  /\ UNCHANGED <<template, strict, threw, terminated, called, before>>
         /\ todo' = Tail(todo)
  BY DEF Continue

(* What is left of a call that has thrown.                                 *)
LEMMA Thrown ==
  ASSUME IInv, Throw, item' \in [Opts -> Objects \cup {Raw}], AgreeOff({})'
  PROVE  IInv' /\ threw' /\ todo' = <<>>
<1>1. TypeInv'
  BY DEF IInv, TypeInv, Throw
<1>2. QED
  BY <1>1 DEF Throw, IInv, Place, Idle

LEMMA BeginInv == IInv /\ DoBegin => IInv'
<1> SUFFICES ASSUME IInv, DoBegin PROVE IInv'
  OBVIOUS
<1> DEFINE x == called.x  y == called.y
<1>1. AtBegin /\ ~threw
  BY Nexts DEF IInv, Place, DoBegin, Doing, Idle
<1>2. /\ step.to = x /\ x \in Opts /\ x \notin alive
      /\ Started
  BY <1>1, Nexts DEF AtBegin, IInv, TypeInv, Requests
<1>3. TypeInv'
  BY <1>2, Going DEF IInv, TypeInv, DoBegin
<1>5. Started'
  BY <1>2, Going DEF IInv, TypeInv, DoBegin, Started, Contents, AgreeOff, Agrees
<1>6. AtConstructor' \/ AtBorn'
  <2>1. ASSUME called.op = "in_place", called.o \in Objects, NEW t \in Traits \cup {"new"},
               todo = <<Begin(x), Make(x, called.o, t), Born(x)>>
        PROVE  AtConstructor'
    <3>1. todo' = <<Make(x, called.o, t), Born(x)>> /\ UNCHANGED <<alive, called>>
      BY <2>1, Going DEF DoBegin, IInv
    <3>2. QED
      BY <1>2, <1>5, <2>1, <3>1 DEF AtConstructor
  <2>2. ASSUME called.op = "construct", y \in alive, engaged[y],
               todo = <<Begin(x), Build(x, y, called.how), Born(x)>>
        PROVE  AtConstructor'
    <3>1. /\ todo' = <<Build(x, y, called.how), Born(x)>> /\ UNCHANGED <<alive, called>>
          /\ engaged' = [engaged EXCEPT ![x] = FALSE]
      BY <1>2, <2>2, Going DEF DoBegin, IInv
    <3>2. QED
      BY <1>2, <1>5, <2>2, <3>1 DEF AtConstructor, IInv, TypeInv
  <2>3. ASSUME todo = <<Begin(x), Born(x)>>,
               \/ called.op = "in_place" /\ called.o = Empty
               \/ called.op = "construct" /\ y \in alive /\ ~engaged[y]
        PROVE  AtBorn'
    <3>1. /\ todo' = <<Born(x)>> /\ UNCHANGED <<template, alive, item, called, before>>
          /\ engaged' = [engaged EXCEPT ![x] = FALSE]
      BY <1>2, <2>3, Going DEF DoBegin, IInv
    <3>2. ~engaged'[x] /\ item'[x] = Raw /\ Held(x)' = Empty
      BY <1>2, <3>1 DEF Started, AgreeOff, Agrees, IInv, TypeInv, Held
    <3>3. before[x] = Absent /\ (called.op = "construct" => before[y] # Absent)
      <4>1. CASE called.op = "construct"
        <5>1. before[y] = Empty
          BY <1>2, <2>3, <4>1, OptionalAssumption DEF Started, Contents, IInv, TypeInv, Requests
        <5>2. QED
          BY <1>2, <5>1, OptionalAssumption DEF Started, Contents
      <4>2. CASE called.op # "construct"
        BY <1>2, <4>2 DEF Started, Contents
      <4>3. QED
        BY <4>1, <4>2
    <3>4. [Contents EXCEPT ![x] = Held(x)]' = IF called.op = "in_place" THEN Put ELSE Taken
      <4>1. CASE called.op = "in_place"
        BY <1>2, <1>5, <2>3, <3>1, <3>2, <4>1 DEF Started, Put
      <4>2. CASE called.op = "construct"
        <5>1. before[y] = Empty /\ MovedOf(before[y]) = Empty
          BY <1>2, <2>3, <4>2, OptionalAssumption DEF Started, MovedOf, Contents, IInv, TypeInv, Requests
        <5>2. Taken = [before EXCEPT ![x] = Empty]
          BY <5>1 DEF Taken, IInv, TypeInv
        <5>3. QED
          BY <1>5, <3>1, <3>2, <4>2, <5>2 DEF Started
      <4>3. QED
        BY <2>3, <4>1, <4>2
    <3>5. QED
      BY <1>2, <1>5, <2>3, <3>1, <3>2, <3>3, <3>4
      DEF AtBorn, Started, AgreeOff, Agrees, Put, Taken
  <2>4. QED
    BY <1>1, <2>1, <2>2, <2>3 DEF AtBegin, ConstructSteps
<1>7. QED
  BY <1>1, <1>3, <1>6, Going DEF IInv, Place, DoBegin

LEMMA CallType ==
  ASSUME TypeInv
  PROVE  /\ called.x \in Opts /\ called.y \in Opts
         /\ called.o \in Objects \cup {Empty} /\ called.how \in {"new", "copy", "move"}
  BY DEF TypeInv, Requests

(* Where an object is constructed, and from what.                          *)
LEMMA MakePlace ==
  ASSUME IInv, Doing("make")
  PROVE  /\ ~threw /\ called.o \in Objects /\ step.object = called.o /\ step.to = called.x
         /\ \/ /\ AtConstructor /\ called.op = "in_place"
               /\ Tail(todo) = <<Born(called.x)>>
            \/ /\ AtEmplace \/ (AtAssign /\ called.op = "assign_value")
               /\ AgreeOff({}) /\ called.x \in alive /\ ~engaged[called.x]
               /\ Tail(todo) = <<>>
               /\ AtAssign => \E how \in {"copy", "move"} :
                    step.trait = Constructs(how) /\ (how = called.how \/ CopiesIntoBox)
<1>1. ~threw /\ (AtConstructor \/ AtEmplace \/ AtAssign)
  BY Nexts DEF IInv, Place, Idle, Doing
<1>2. CASE AtConstructor
  <2>1. todo # <<Build(called.x, called.y, called.how), Born(called.x)>>
    BY DEF Doing, step, Build
  <2>2. PICK t \in Traits \cup {"new"} :
          /\ called.op = "in_place" /\ called.o \in Objects
          /\ todo = <<Make(called.x, called.o, t), Born(called.x)>>
    BY <1>2, <2>1 DEF AtConstructor
  <2>3. QED
    BY <1>1, <1>2, <2>2 DEF step, Make
<1>3. CASE AtEmplace
  <2>1. PICK t \in Traits \cup {"new"} : todo = <<Make(called.x, called.o, t)>>
    BY <1>3 DEF AtEmplace
  <2>2. ~AtAssign
    BY <1>3 DEF AtAssign, AtEmplace
  <2>3. QED
    BY <1>1, <1>3, <2>1, <2>2 DEF AtEmplace, step, Make
<1>4. CASE AtAssign
  <2>1. todo \notin {<<SetFrom(called.x, called.y, called.how)>>, <<Build(called.x, called.y, called.how)>>}
    BY DEF Doing, step, SetFrom, Build
  <2>2. PICK how \in {"copy", "move"} :
          /\ called.op = "assign_value" /\ called.o \in Objects
          /\ todo = SetOrMake(called.x, called.o, how)
          /\ how = called.how \/ CopiesIntoBox
    BY <1>4, <2>1 DEF AtAssign
  <2>3. ~engaged[called.x] /\ todo = <<Make(called.x, called.o, Constructs(how))>>
    BY <2>2 DEF Doing, step, SetOrMake, Set
  <2>4. QED
    BY <1>1, <1>4, <2>2, <2>3 DEF step, Make, AtAssign, Started
<1>5. QED
  BY <1>1, <1>2, <1>3, <1>4

LEMMA MakeInv == IInv /\ DoMake => IInv'
<1> SUFFICES ASSUME IInv, DoMake PROVE IInv'
  OBVIOUS
<1> DEFINE x == called.x  o == called.o
<1>1. /\ ~threw /\ o \in Objects /\ step.object = o /\ step.to = x /\ x \in Opts
      /\ \/ /\ AtConstructor /\ called.op = "in_place" /\ Tail(todo) = <<Born(x)>>
         \/ AgreeOff({}) /\ x \in alive /\ ~engaged[x] /\ Tail(todo) = <<>>
  BY MakePlace, CallType DEF DoMake, IInv
<1>2. o # Raw
  BY <1>1, OptionalAssumption
<1>3. CASE Throw /\ UNCHANGED item
  <2>1. AgreeOff({})
    BY <1>1 DEF AtConstructor, Started
  <2>2. QED
    BY <1>3, <2>1, Thrown DEF IInv, TypeInv, AgreeOff, Agrees, Throw
<1>4. CASE /\ Continue /\ item' = [item EXCEPT ![x] = o]
           /\ engaged' = [engaged EXCEPT ![x] = TRUE] /\ UNCHANGED alive
  <2>1. TypeInv' /\ ~threw'
    BY <1>1, <1>4, Going DEF IInv, TypeInv
  <2>2. item'[x] = o /\ engaged'[x] /\ Held(x)' = o
    BY <1>1, <1>4, Going DEF IInv, TypeInv, Held
  <2>3. CASE AtConstructor /\ called.op = "in_place" /\ Tail(todo) = <<Born(x)>>
    <3>1. [Contents EXCEPT ![x] = Held(x)]' = Put'
      BY <1>1, <1>4, <2>2, <2>3, Going DEF AtConstructor, Started, Contents, Put, IInv, TypeInv
    <3>2. AgreeOff({x})'
      BY <1>1, <1>4, <2>3, Going DEF AtConstructor, Started, AgreeOff, Agrees, IInv, TypeInv
    <3>3. before[x] = Absent
      BY <1>1, <2>3 DEF AtConstructor, Started, Contents
    <3>4. AtBorn'
      BY <1>2, <1>4, <2>2, <2>3, <3>1, <3>2, <3>3, Going DEF AtBorn, AtConstructor, IInv
    <3>5. QED
      BY <2>1, <3>4 DEF IInv, Place
  <2>4. CASE AgreeOff({}) /\ x \in alive /\ Tail(todo) = <<>>
    <3>1. AgreeOff({})'
      BY <1>1, <1>2, <1>4, <2>4 DEF AgreeOff, Agrees, IInv, TypeInv
    <3>2. QED
      BY <1>4, <2>1, <2>4, <3>1, Going DEF IInv, Place, Idle
  <2>5. QED
    BY <1>1, <2>3, <2>4
<1>5. QED
  BY <1>1, <1>3, <1>4 DEF DoMake

(* Where an object is constructed from another one.                        *)
LEMMA BuildPlace ==
  ASSUME IInv, Doing("build")
  PROVE  LET x == called.x  y == called.y  how == called.how  to == step.to  from == step.from IN
         /\ ~threw /\ Started /\ from \in alive /\ engaged[from] /\ from # to /\ to \in Opts
         /\ step.how \in {"new", "copy", "move"} /\ step.trait = Constructs(step.how)
         /\ \/ /\ called.op = "construct" /\ to = x /\ from = y /\ step.how = how
               /\ x \notin alive /\ Tail(todo) = <<Born(x)>>
            \/ /\ called.op = "assign" /\ to = x /\ from = y /\ step.how = how
               /\ x \in alive /\ ~engaged[x] /\ Tail(todo) = <<>>
            \/ /\ called.op = "swap" /\ {to, from} = {x, y} /\ step.how = "move"
               /\ {x, y} \subseteq alive \ Boxes /\ ~engaged[to] /\ Tail(todo) = <<Reset(from)>>
<1> DEFINE x == called.x  y == called.y  how == called.how
<1>1. ~threw /\ (AtConstructor \/ AtAssign \/ AtSwap)
  BY Nexts DEF IInv, Place, Idle, Doing
<1>2. x \in Opts /\ y \in Opts /\ how \in {"new", "copy", "move"}
  BY CallType DEF IInv
<1>3. CASE AtConstructor
  <2>1. \A t : todo # <<Make(x, called.o, t), Born(x)>>
    BY DEF Doing, step, Make
  <2>2. todo = <<Build(x, y, how), Born(x)>>
    BY <1>3, <2>1 DEF AtConstructor
  <2>3. called.op = "construct"
    BY <1>3, <2>1 DEF AtConstructor
  <2>4. QED
    BY <1>1, <1>2, <1>3, <2>2, <2>3 DEF AtConstructor, step, Build
<1>4. CASE AtAssign
  <2>1. /\ todo # <<SetFrom(x, y, how)>>
        /\ \A h : todo # SetOrMake(x, called.o, h)
    BY DEF Doing, step, SetFrom, SetOrMake, Set, Make
  <2>2. called.op = "assign" /\ ~engaged[x] /\ engaged[y] /\ todo = <<Build(x, y, how)>>
    BY <1>4, <2>1 DEF AtAssign
  <2>3. QED
    BY <1>1, <1>2, <1>4, <2>2 DEF AtAssign, step, Build
<1>5. CASE AtSwap
  <2>1. todo # <<SwapItems(x, y)>> /\ todo # <<Pass>>
    BY DEF Doing, step, SwapItems, Pass
  <2>2. CASE engaged[x] /\ ~engaged[y] /\ todo = <<Build(y, x, "move"), Reset(x)>>
    BY <1>1, <1>2, <1>5, <2>2 DEF AtSwap, step, Build
  <2>3. CASE engaged[y] /\ ~engaged[x] /\ todo = <<Build(x, y, "move"), Reset(y)>>
    BY <1>1, <1>2, <1>5, <2>3 DEF AtSwap, step, Build
  <2>4. QED
    BY <1>5, <2>1, <2>2, <2>3 DEF AtSwap
<1>6. QED
  BY <1>1, <1>3, <1>4, <1>5

(* The storage after an object has been copied or moved from.              *)
LEMMA UsedType ==
  ASSUME TypeInv, NEW y \in Opts, item[y] # Raw, NEW how
  PROVE  LET u == Used(item, y, how) IN
         /\ u \in [Opts -> Objects \cup {Raw}]
         /\ u[y] = IF how = "move" THEN MovedOf(item[y]) ELSE item[y]
         /\ u[y] # Raw
         /\ \A z \in Opts \ {y} : u[z] = item[z]
<1>1. item[y] \in Objects
  BY DEF TypeInv
<1>2. [item[y] EXCEPT !.val = Unspecified] \in Objects
  BY <1>1 DEF Objects
<1>3. QED
  BY <1>1, <1>2, OptionalAssumption DEF TypeInv, Used, MovedOf

LEMMA BuildInv == IInv /\ DoBuild => IInv'
<1> SUFFICES ASSUME IInv, DoBuild, NEW to, NEW from, NEW x, NEW y,
                    to = step.to, from = step.from, x = called.x, y = called.y
             PROVE  IInv'
  OBVIOUS
<1> DEFINE used == Used(item, from, step.how)
<1>1. /\ ~threw /\ Started /\ from \in alive /\ engaged[from] /\ from # to /\ to \in Opts
      /\ \/ /\ called.op = "construct" /\ to = x /\ from = y /\ step.how = called.how
            /\ x \notin alive /\ Tail(todo) = <<Born(x)>>
         \/ /\ called.op = "assign" /\ to = x /\ from = y /\ step.how = called.how
            /\ x \in alive /\ ~engaged[x] /\ Tail(todo) = <<>>
         \/ /\ called.op = "swap" /\ {to, from} = {x, y} /\ step.how = "move"
            /\ {x, y} \subseteq alive \ Boxes /\ ~engaged[to] /\ Tail(todo) = <<Reset(from)>>
  BY BuildPlace DEF DoBuild
<1>2. from \in Opts /\ item[from] \in Objects /\ item[from] # Raw
  BY <1>1 DEF IInv, TypeInv, Started, AgreeOff, Agrees
<1>3. /\ used \in [Opts -> Objects \cup {Raw}] /\ used[from] # Raw
      /\ used[from] = IF step.how = "move" THEN MovedOf(item[from]) ELSE item[from]
      /\ \A z \in Opts \ {from} : used[z] = item[z]
  BY <1>2, UsedType DEF IInv
<1> HIDE DEF used
<1>4. CASE Throw /\ item' \in {item, used}
  <2>1. AgreeOff({})'
    BY <1>1, <1>2, <1>3, <1>4 DEF Started, AgreeOff, Agrees, Throw
  <2>2. QED
    BY <1>3, <1>4, <2>1, Thrown DEF IInv, TypeInv
<1>5. CASE /\ Continue /\ item' = [used EXCEPT ![to] = item[from]]
           /\ engaged' = [engaged EXCEPT ![to] = TRUE] /\ UNCHANGED alive
  <2>1. TypeInv' /\ ~threw'
    BY <1>1, <1>2, <1>3, <1>5, Going DEF IInv, TypeInv
  <2>2. /\ item'[to] = item[from] /\ item'[from] = used[from] /\ engaged'[to] /\ engaged'[from]
        /\ \A z \in Opts \ {to, from} : item'[z] = item[z]
        /\ \A z \in Opts \ {to} : engaged'[z] = engaged[z]
    BY <1>1, <1>2, <1>3, <1>5 DEF IInv, TypeInv
  <2>3. AgreeOff({to})' /\ (to \in alive => AgreeOff({})')
    <3>1. \A z \in Opts \ {to} : Agrees(z)'
      BY <1>1, <1>2, <1>3, <1>5, <2>2 DEF Started, AgreeOff, Agrees
    <3>2. to \in alive => Agrees(to)'
      BY <1>1, <1>2, <1>5, <2>2 DEF Agrees
    <3>3. QED
      BY <3>1, <3>2, <1>1 DEF AgreeOff
  <2>4. CASE called.op = "construct"
    <3>1. [Contents EXCEPT ![x] = Held(x)]' = Taken'
      <4>1. before[y] = item[y] /\ x # y /\ x \in Opts /\ y \in Opts
        BY <1>1, <1>2, <2>4 DEF Started, Contents
      <4>2. /\ UNCHANGED <<called, before, alive>> /\ Held(x)' = item[y]
            /\ \A z \in Opts \ {x, y} : Contents'[z] = before[z]
            /\ Contents'[y] = used[y] /\ Contents' = [z \in Opts |-> Contents'[z]]
        BY <1>1, <1>2, <1>5, <2>2, <2>4, <4>1, Going DEF Started, Contents, Held, IInv
      <4>3. Contents'[y] = IF called.how = "move" THEN MovedOf(before[y]) ELSE before[y]
        BY <1>1, <1>3, <2>4, <4>1, <4>2
      <4>4. Taken' = [before EXCEPT ![x] = before[y], ![y] = Contents'[y]]
        BY <4>2, <4>3 DEF Taken
      <4>5. [Contents EXCEPT ![x] = Held(x)]' = [Contents' EXCEPT ![x] = before[y]]
        BY <4>1, <4>2
      <4>6. before = [z \in Opts |-> before[z]]
        BY DEF IInv, TypeInv
      <4>7. QED
        BY <4>1, <4>2, <4>4, <4>5, <4>6
    <3>2. before[x] = Absent /\ before[y] # Absent
      <4>1. x \in Opts /\ y = from
        BY <1>1, <2>4
      <4>2. before[x] = Absent /\ before[y] = item[y]
        BY <1>1, <1>2, <2>4, <4>1 DEF Started, Contents
      <4>3. QED
        BY <1>2, <4>1, <4>2, OptionalAssumption
    <3>3. AtBorn'
      BY <1>1, <1>2, <1>5, <2>2, <2>3, <2>4, <3>1, <3>2, Going DEF AtBorn, IInv
    <3>4. QED
      BY <2>1, <3>3 DEF IInv, Place
  <2>5. CASE called.op = "assign"
    BY <1>1, <1>5, <2>1, <2>3, <2>5, Going DEF IInv, Place, Idle
  <2>6. CASE called.op = "swap"
    <3>1. AtSwapped'
      <4>1. before[to] = Empty /\ before[from] = item[from] /\ to \in alive
        BY <1>1, <1>2, <2>6 DEF Started, Contents
      <4>2. /\ UNCHANGED <<template, called, before, alive>>
            /\ \A z \in Opts \ {to, from} : Contents'[z] = before[z]
            /\ Contents'[from] = used[from] /\ Contents'[to] = item[from]
            /\ Contents' = [z \in Opts |-> Contents'[z]]
        BY <1>1, <1>2, <1>5, <2>2, <4>1, Going DEF Started, Contents, IInv
      <4>3. Contents' = [before EXCEPT ![to] = before[from], ![from] = MovedOf(before[from])]
        BY <1>1, <1>2, <1>3, <2>6, <4>1, <4>2 DEF IInv, TypeInv
      <4>4. todo' = <<Reset(from)>>
        BY <1>1, <1>5, <2>6, Going DEF IInv
      <4>5. QED
        <5>1. /\ called'.op = "swap" /\ {called'.x, called'.y} \subseteq alive' \ Boxes' /\ AgreeOff({})'
              /\ {to, from} = {called'.x, called'.y} /\ to # from
          BY <1>1, <2>3, <2>6, <4>1, <4>2 DEF Boxes
        <5>2. /\ before'[to] = Empty
              /\ Contents' = [before' EXCEPT ![to] = before'[from], ![from] = MovedOf(before'[from])]
          BY <4>1, <4>2, <4>3
        <5>3. to \in {called'.x, called'.y} /\ from \in {called'.x, called'.y}
          BY <5>1
        <5>4. \E u, v \in {called'.x, called'.y} :
                /\ {u, v} = {called'.x, called'.y} /\ u # v /\ todo' = <<Reset(v)>>
                /\ before'[u] = Empty
                /\ Contents' = [before' EXCEPT ![u] = before'[v], ![v] = MovedOf(before'[v])]
          <6> WITNESS to \in {called'.x, called'.y}, from \in {called'.x, called'.y}
          <6> QED
            BY <4>4, <5>1, <5>2
        <5>5. QED
          BY <5>1, <5>4 DEF AtSwapped
    <3>2. QED
      BY <2>1, <3>1 DEF IInv, Place
  <2>7. QED
    BY <1>1, <2>4, <2>5, <2>6
<1>6. QED
  BY <1>1, <1>4, <1>5 DEF DoBuild, used

(* Where an object is assigned to, or objects are swapped.                 *)
LEMMA SetPlace ==
  ASSUME IInv, Doing("set")
  PROVE  LET x == called.x IN
         /\ ~threw /\ Started /\ called.op = "assign_value" /\ x \in alive /\ engaged[x]
         /\ step.to = x /\ step.object = called.o /\ called.o \in Objects
         /\ Tail(todo) = <<>>
         /\ \E how \in {"copy", "move"} :
              step.trait = Assigns(how) /\ (how = called.how \/ CopiesIntoBox)
<1>1. ~threw /\ AtAssign
  BY Nexts DEF IInv, Place, Idle, Doing
<1>2. /\ todo # <<SetFrom(called.x, called.y, called.how)>>
      /\ todo # <<Build(called.x, called.y, called.how)>>
  BY DEF Doing, step, SetFrom, Build
<1>3. PICK how \in {"copy", "move"} :
        /\ called.op = "assign_value" /\ called.o \in Objects /\ todo = SetOrMake(called.x, called.o, how)
        /\ how = called.how \/ CopiesIntoBox
  BY <1>1, <1>2 DEF AtAssign
<1>4. engaged[called.x] /\ todo = <<Set(called.x, called.o, how)>>
  BY <1>3 DEF Doing, step, SetOrMake, Make
<1>5. QED
  BY <1>1, <1>3, <1>4 DEF step, Set, AtAssign

LEMMA SetFromPlace ==
  ASSUME IInv, Doing("set_from")
  PROVE  LET x == called.x  y == called.y IN
         /\ ~threw /\ Started /\ called.op = "assign" /\ {x, y} \subseteq alive
         /\ engaged[x] /\ engaged[y]
         /\ step.to = x /\ step.from = y /\ step.how = called.how
         /\ step.trait = Assigns(called.how) /\ Tail(todo) = <<>>
<1>1. ~threw /\ AtAssign
  BY Nexts DEF IInv, Place, Idle, Doing
<1>2. /\ \A h : todo # SetOrMake(called.x, called.o, h)
      /\ todo # <<Build(called.x, called.y, called.how)>>
  BY DEF Doing, step, SetOrMake, Make, Set, Build
<1>3. /\ called.op = "assign" /\ engaged[called.y] /\ engaged[called.x] /\ called.y \in alive
      /\ todo = <<SetFrom(called.x, called.y, called.how)>>
  BY <1>1, <1>2 DEF AtAssign
<1>4. QED
  BY <1>1, <1>3 DEF step, SetFrom, AtAssign

LEMMA SwapPlace ==
  ASSUME IInv, Doing("swap_items")
  PROVE  LET x == called.x  y == called.y IN
         /\ ~threw /\ Started /\ called.op = "swap" /\ {x, y} \subseteq alive \ Boxes
         /\ engaged[x] /\ engaged[y]
         /\ step.to = x /\ step.from = y /\ step.trait = "swap" /\ Tail(todo) = <<>>
<1>1. ~threw /\ AtSwap
  BY Nexts DEF IInv, Place, Idle, Doing
<1>2. /\ todo # <<Build(called.x, called.y, "move"), Reset(called.y)>>
      /\ todo # <<Build(called.y, called.x, "move"), Reset(called.x)>>
      /\ todo # <<Pass>>
  BY DEF Doing, step, Build, Pass
<1>3. engaged[called.y] /\ engaged[called.x] /\ todo = <<SwapItems(called.x, called.y)>>
  BY <1>1, <1>2 DEF AtSwap
<1>4. QED
  BY <1>1, <1>3 DEF step, SwapItems, AtSwap

LEMMA PassPlace ==
  ASSUME IInv, Doing("pass")
  PROVE  LET x == called.x  y == called.y IN
         /\ ~threw /\ Started /\ called.op = "swap" /\ {x, y} \subseteq alive
         /\ ~engaged[x] /\ ~engaged[y] /\ Tail(todo) = <<>>
<1>1. ~threw /\ AtSwap
  BY Nexts DEF IInv, Place, Idle, Doing
<1>2. /\ todo # <<Build(called.x, called.y, "move"), Reset(called.y)>>
      /\ todo # <<Build(called.y, called.x, "move"), Reset(called.x)>>
      /\ todo # <<SwapItems(called.x, called.y)>>
  BY DEF Doing, step, Build, SwapItems
<1>3. ~engaged[called.y] /\ ~engaged[called.x] /\ todo = <<Pass>>
  BY <1>1, <1>2 DEF AtSwap
<1>4. QED
  BY <1>1, <1>3 DEF AtSwap

(* A step that only changes the values of objects.                         *)
LEMMA RevaluedInv ==
  ASSUME IInv, item' \in [Opts -> Objects \cup {Raw}], AgreeOff({}), Tail(todo) = <<>>,
         \A z \in Opts : item'[z] # Raw <=> item[z] # Raw,
         UNCHANGED <<alive, engaged>>, Continue \/ Throw
  PROVE  IInv'
<1>1. AgreeOff({})'
  BY DEF AgreeOff, Agrees
<1>2. CASE Throw
  BY <1>1, <1>2, Thrown
<1>3. CASE Continue
  BY <1>1, <1>3, Going DEF IInv, TypeInv, Place, Idle
<1>4. QED
  BY <1>2, <1>3

(* The object of x with a value that is lost.                              *)
LEMMA LostType ==
  ASSUME NEW s \in [Opts -> Objects \cup {Raw}], NEW x \in Opts, s[x] \in Objects
  PROVE  LET l == [s EXCEPT ![x].val = Unspecified] IN
         /\ l \in [Opts -> Objects \cup {Raw}]
         /\ l[x] \in Objects /\ l[x] = MovedOf(s[x])
         /\ \A z \in Opts \ {x} : l[z] = s[z]
<1>1. [s[x] EXCEPT !.val = Unspecified] \in Objects
  BY DEF Objects
<1>2. QED
  BY <1>1 DEF MovedOf

LEMMA SetInv == IInv /\ DoSet => IInv'
<1> SUFFICES ASSUME IInv, DoSet, NEW x, x = called.x PROVE IInv'
  OBVIOUS
<1>1. /\ Started /\ x \in Opts /\ x \in alive /\ engaged[x] /\ step.to = x
      /\ step.object \in Objects /\ Tail(todo) = <<>>
  BY SetPlace, CallType DEF DoSet, IInv
<1>2. item \in [Opts -> Objects \cup {Raw}] /\ item[x] \in Objects /\ AgreeOff({})
  BY <1>1 DEF Started, AgreeOff, Agrees, IInv, TypeInv
<1>3. CASE Throw /\ item' \in {item, [item EXCEPT ![x].val = Unspecified]}
  <2>1. /\ item' \in [Opts -> Objects \cup {Raw}]
        /\ \A z \in Opts : item'[z] # Raw <=> item[z] # Raw
    BY <1>1, <1>2, <1>3, LostType, OptionalAssumption
  <2>2. QED
    BY <1>1, <1>2, <1>3, <2>1, RevaluedInv DEF Throw
<1>4. CASE Continue /\ item' = [item EXCEPT ![x] = step.object] /\ UNCHANGED <<alive, engaged>>
  <2>1. /\ item' \in [Opts -> Objects \cup {Raw}]
        /\ \A z \in Opts : item'[z] # Raw <=> item[z] # Raw
    BY <1>1, <1>2, <1>4, OptionalAssumption
  <2>2. QED
    BY <1>1, <1>2, <1>4, <2>1, RevaluedInv
<1>5. QED
  BY <1>1, <1>3, <1>4 DEF DoSet

LEMMA SetFromInv == IInv /\ DoSetFrom => IInv'
<1> SUFFICES ASSUME IInv, DoSetFrom, NEW x, NEW y, x = called.x, y = called.y PROVE IInv'
  OBVIOUS
<1> DEFINE used == Used(item, y, step.how)
<1>1. /\ Started /\ x \in Opts /\ y \in Opts /\ {x, y} \subseteq alive /\ engaged[x] /\ engaged[y]
      /\ step.to = x /\ step.from = y /\ Tail(todo) = <<>>
  BY SetFromPlace, CallType DEF DoSetFrom, IInv
<1>2. /\ item \in [Opts -> Objects \cup {Raw}] /\ item[x] \in Objects /\ item[y] \in Objects
      /\ AgreeOff({})
  BY <1>1 DEF Started, AgreeOff, Agrees, IInv, TypeInv
<1>3. /\ used \in [Opts -> Objects \cup {Raw}] /\ used[y] # Raw
      /\ \A z \in Opts \ {y} : used[z] = item[z]
  BY <1>1, <1>2, UsedType, OptionalAssumption DEF IInv
<1> HIDE DEF used
<1>4. used[x] \in Objects
  BY <1>1, <1>2, <1>3
<1>5. CASE Throw /\ item' \in {item, used, [used EXCEPT ![x].val = Unspecified]}
  <2>1. /\ item' \in [Opts -> Objects \cup {Raw}]
        /\ \A z \in Opts : item'[z] # Raw <=> item[z] # Raw
    BY <1>1, <1>2, <1>3, <1>4, <1>5, LostType, OptionalAssumption
  <2>2. QED
    BY <1>1, <1>2, <1>5, <2>1, RevaluedInv DEF Throw
<1>6. CASE /\ Continue /\ UNCHANGED <<alive, engaged>>
           /\ item' = IF x = y THEN used ELSE [used EXCEPT ![x] = item[y]]
  <2>1. /\ item' \in [Opts -> Objects \cup {Raw}]
        /\ \A z \in Opts : item'[z] # Raw <=> item[z] # Raw
    BY <1>1, <1>2, <1>3, <1>6, OptionalAssumption
  <2>2. QED
    BY <1>1, <1>2, <1>6, <2>1, RevaluedInv
<1>7. QED
  BY <1>1, <1>5, <1>6 DEF DoSetFrom, used

LEMMA SwapInv == IInv /\ DoSwapItems => IInv'
<1> SUFFICES ASSUME IInv, DoSwapItems, NEW x, NEW y, x = called.x, y = called.y PROVE IInv'
  OBVIOUS
<1> DEFINE lost == [item EXCEPT ![x].val = Unspecified, ![y].val = Unspecified]
<1>1. /\ Started /\ x \in Opts /\ y \in Opts /\ {x, y} \subseteq alive /\ engaged[x] /\ engaged[y]
      /\ step.to = x /\ step.from = y /\ Tail(todo) = <<>>
  BY SwapPlace, CallType DEF DoSwapItems, IInv
<1>2. /\ item \in [Opts -> Objects \cup {Raw}] /\ item[x] \in Objects /\ item[y] \in Objects
      /\ AgreeOff({})
  BY <1>1 DEF Started, AgreeOff, Agrees, IInv, TypeInv
<1>3. CASE Throw /\ item' \in {item, lost}
  <2> DEFINE one == [item EXCEPT ![x].val = Unspecified]
  <2>1. /\ one \in [Opts -> Objects \cup {Raw}] /\ one[x] \in Objects
        /\ \A z \in Opts \ {x} : one[z] = item[z]
    BY <1>1, <1>2, LostType
  <2>2. one[y] \in Objects /\ lost = [one EXCEPT ![y].val = Unspecified]
    BY <1>1, <1>2, <2>1
  <2> DEFINE two == [one EXCEPT ![y].val = Unspecified]
  <2> HIDE DEF one
  <2>3. /\ two \in [Opts -> Objects \cup {Raw}] /\ two[y] \in Objects
        /\ \A z \in Opts \ {y} : two[z] = one[z]
    BY <1>1, <2>1, <2>2, LostType
  <2> HIDE DEF two, lost
  <2>4. /\ item' \in [Opts -> Objects \cup {Raw}]
        /\ \A z \in Opts : item'[z] # Raw <=> item[z] # Raw
    BY <1>1, <1>2, <1>3, <2>1, <2>2, <2>3, OptionalAssumption DEF two
  <2>5. QED
    BY <1>1, <1>2, <1>3, <2>4, RevaluedInv DEF Throw
<1>4. CASE /\ Continue /\ item' = [item EXCEPT ![x] = item[y], ![y] = item[x]]
           /\ UNCHANGED <<alive, engaged>>
  <2>1. /\ item' \in [Opts -> Objects \cup {Raw}]
        /\ \A z \in Opts : item'[z] # Raw <=> item[z] # Raw
    BY <1>1, <1>2, <1>4, OptionalAssumption
  <2>2. QED
    BY <1>1, <1>2, <1>4, <2>1, RevaluedInv
<1>5. QED
  BY <1>1, <1>3, <1>4 DEF DoSwapItems

LEMMA PassInv == IInv /\ DoPass => IInv'
<1> SUFFICES ASSUME IInv, DoPass PROVE IInv'
  OBVIOUS
<1>1. Started /\ Tail(todo) = <<>>
  BY PassPlace DEF DoPass
<1>2. QED
  BY <1>1, RevaluedInv DEF DoPass, Started, IInv, TypeInv

LEMMA BornInv == IInv /\ DoBorn => IInv'
<1> SUFFICES ASSUME IInv, DoBorn, NEW x, x = called.x PROVE IInv'
  OBVIOUS
<1>1. ~threw /\ AtBorn
  BY Nexts DEF IInv, Place, DoBorn, Doing, Idle
<1>2. step.to = x /\ x \in Opts /\ Tail(todo) = <<>>
  BY <1>1, Nexts, CallType DEF IInv, AtBorn
<1>3. UNCHANGED <<item, engaged>> /\ alive' = alive \cup {x} /\ todo' = <<>>
  BY <1>2, Going DEF DoBorn, IInv
<1>4. AgreeOff({})'
  BY <1>1, <1>2, <1>3 DEF AtBorn, AgreeOff, Agrees
<1>5. TypeInv'
  BY <1>1, <1>2, <1>3, Going DEF DoBorn, AtBorn, IInv, TypeInv
<1>6. QED
  BY <1>3, <1>4, <1>5 DEF IInv, Place, Idle

LEMMA DropInv == IInv /\ DoDrop => IInv'
<1> SUFFICES ASSUME IInv, DoDrop, NEW x, x = called.x PROVE IInv'
  OBVIOUS
<1>1. ~threw /\ AtDrop
  BY Nexts DEF IInv, Place, DoDrop, Doing, Idle
<1>2. Started /\ step.to = x /\ x \in Opts /\ x \in alive /\ Tail(todo) = <<>>
  BY <1>1, Nexts, CallType DEF IInv, AtDrop
<1>3. /\ UNCHANGED engaged /\ alive' = alive \ {x} /\ todo' = <<>>
      /\ item' = IF engaged[x] THEN [item EXCEPT ![x] = Raw] ELSE item
  BY <1>2, Going DEF DoDrop, IInv
<1>4. AgreeOff({})'
  BY <1>2, <1>3 DEF Started, AgreeOff, Agrees, IInv, TypeInv
<1>5. TypeInv'
  BY <1>2, <1>3, Going DEF DoDrop, IInv, TypeInv
<1>6. QED
  BY <1>3, <1>4, <1>5 DEF IInv, Place, Idle

(* Where an optional is emptied.                                           *)
LEMMA ResetPlace ==
  ASSUME IInv, Doing("reset")
  PROVE  LET x == called.x  y == called.y  z == step.to IN
         /\ ~threw /\ z \in alive /\ z \in Opts /\ AgreeOff({})
         /\ \/ /\ Started /\ z = x /\ called.op = "emplace" /\ called.o \in Objects /\ EmplacesBox
               /\ \E t \in Traits \cup {"new"} : Tail(todo) = <<Make(x, called.o, t)>>
            \/ /\ Started /\ z = x /\ called.op = "reset" /\ called.o = Empty /\ x \notin Boxes
               /\ Tail(todo) = <<>>
            \/ /\ Started /\ z = x /\ called.op = "assign" /\ y \in alive /\ ~engaged[y]
               /\ Tail(todo) = <<>>
            \/ /\ called.op = "swap" /\ Tail(todo) = <<>> /\ {x, y} \cap Boxes = {}
               /\ \E u \in {x, y} :
                    /\ {u, z} = {x, y} /\ u # z /\ before[u] = Empty
                    /\ Contents = [before EXCEPT ![u] = before[z], ![z] = MovedOf(before[z])]
<1> DEFINE x == called.x  y == called.y
<1>1. ~threw /\ (AtReset \/ AtSwapped)
  BY Nexts DEF IInv, Place, Idle, Doing
<1>2. x \in Opts /\ y \in Opts
  BY CallType DEF IInv
<1>3. CASE AtReset
  <2>1. step.to = x
    BY <1>3 DEF AtReset, step, Reset
  <2>2. CASE called.op = "emplace"
    <3>1. PICK t \in Traits \cup {"new"} :
            called.o \in Objects /\ EmplacesBox /\ todo = <<Reset(x), Make(x, called.o, t)>>
      BY <1>3, <2>2 DEF AtReset
    <3>2. Tail(todo) = <<Make(x, called.o, t)>>
      BY <3>1
    <3>3. QED
      BY <1>1, <1>2, <1>3, <2>1, <2>2, <3>1, <3>2 DEF AtReset, Started
  <2>3. CASE called.op \in {"reset", "assign"}
    <3>1. todo = <<Reset(x)>> /\ (called.op = "reset" => called.o = Empty /\ x \notin Boxes)
          /\ (called.op = "assign" => y \in alive /\ ~engaged[y])
      BY <1>3, <2>3 DEF AtReset
    <3>2. Tail(todo) = <<>>
      BY <3>1
    <3>3. QED
      BY <1>1, <1>2, <1>3, <2>1, <2>3, <3>1, <3>2 DEF AtReset, Started
  <2>4. QED
    BY <1>3, <2>2, <2>3 DEF AtReset
<1>4. CASE AtSwapped
  <2>1. PICK u, v \in {x, y} :
          /\ {u, v} = {x, y} /\ u # v /\ todo = <<Reset(v)>> /\ before[u] = Empty
          /\ Contents = [before EXCEPT ![u] = before[v], ![v] = MovedOf(before[v])]
    BY <1>4 DEF AtSwapped
  <2>2. step.to = v /\ Tail(todo) = <<>>
    BY <2>1 DEF step, Reset
  <2>3. called.op = "swap" /\ {x, y} \cap Boxes = {} /\ {x, y} \subseteq alive /\ AgreeOff({})
    BY <1>4 DEF AtSwapped
  <2>4. QED
    BY <1>1, <1>2, <2>1, <2>2, <2>3
<1>5. QED
  BY <1>1, <1>3, <1>4

LEMMA ResetInv == IInv /\ DoReset => IInv'
<1> SUFFICES ASSUME IInv, DoReset, NEW x, NEW z, x = called.x, z = step.to PROVE IInv'
  OBVIOUS
<1>1. /\ ~threw /\ z \in alive /\ z \in Opts /\ AgreeOff({})
      /\ \/ /\ Started /\ z = x /\ called.op = "emplace" /\ called.o \in Objects /\ EmplacesBox
            /\ \E t \in Traits \cup {"new"} : Tail(todo) = <<Make(x, called.o, t)>>
         \/ Tail(todo) = <<>>
  BY ResetPlace DEF DoReset
<1>2. /\ UNCHANGED <<alive, template, called, before, threw>> /\ todo' = Tail(todo)
      /\ engaged' = [engaged EXCEPT ![z] = FALSE]
      /\ item' = IF engaged[z] THEN [item EXCEPT ![z] = Raw] ELSE item
  BY Going DEF DoReset, IInv
<1>3. AgreeOff({})'
  BY <1>1, <1>2 DEF AgreeOff, Agrees, IInv, TypeInv
<1>4. TypeInv'
  BY <1>1, <1>2, Going DEF DoReset, IInv, TypeInv
<1>5. CASE Tail(todo) = <<>>
  BY <1>2, <1>3, <1>4, <1>5 DEF IInv, Place, Idle
<1>6. CASE /\ Started /\ z = x /\ called.op = "emplace" /\ called.o \in Objects /\ EmplacesBox
           /\ \E t \in Traits \cup {"new"} : Tail(todo) = <<Make(x, called.o, t)>>
  <2>1. Contents' = [before' EXCEPT ![x] = Empty] /\ ~engaged'[x]
    BY <1>1, <1>2, <1>6 DEF Started, Contents, IInv, TypeInv
  <2>2. AtEmplace'
    BY <1>1, <1>2, <1>3, <1>6, <2>1 DEF AtEmplace, EmplacesBox, Boxes, Assignable
  <2>3. QED
    BY <1>1, <1>2, <1>4, <2>2 DEF IInv, Place
<1>7. QED
  BY <1>1, <1>5, <1>6

-----------------------------------------------------------------------------
LEMMA ClientInv == IInv /\ Client => IInv'
<1> SUFFICES ASSUME IInv, NEW x \in Opts,
                    \/ Default(x) \/ Destroy(x) \/ ResetOptional(x)
                    \/ \E v \in Values :
                         \/ InPlace(x, Object(v)) \/ Emplace(x, Object(v))
                         \/ \E how \in {"copy", "move"} :
                              \/ BoxFrom(x, Object(v), how)
                              \/ AssignValue(x, Object(v), how) \/ BoxAssign(x, Object(v), how)
                    \/ \E y \in Opts :
                         \/ SwapOptionals(x, y)
                         \/ \E how \in {"copy", "move"} :
                              \/ Construct(x, y, how) \/ ConvertOptional(x, y, how)
                              \/ AssignOptional(x, y, how)
             PROVE  IInv'
  BY DEF Client
<1>1. Object(Unspecified) \in Objects
  BY DEF Object, Objects
<1>2. CASE Default(x) \/ Destroy(x) \/ ResetOptional(x)
  BY <1>1, <1>2, ConstructingInv, ResettingInv
<1>3. ASSUME NEW v \in Values, InPlace(x, Object(v)) \/ Emplace(x, Object(v)) PROVE IInv'
  BY <1>3, ObjectType, ConstructingInv, ResettingInv
<1>4. ASSUME NEW v \in Values, NEW how \in {"copy", "move"},
             \/ BoxFrom(x, Object(v), how)
             \/ AssignValue(x, Object(v), how) \/ BoxAssign(x, Object(v), how)
      PROVE  IInv'
  <2>1. CASE BoxFrom(x, Object(v), how)
    BY <2>1, ObjectType, ConstructingInv
  <2>2. CASE AssignValue(x, Object(v), how)
    BY <2>2, ObjectType, AssigningInv
  <2>3. CASE BoxAssign(x, Object(v), how)
    BY <2>3, ObjectType, AssigningInv, ResettingInv DEF Assignable
  <2>4. QED
    BY <1>4, <2>1, <2>2, <2>3
<1>5. ASSUME NEW y \in Opts, SwapOptionals(x, y) PROVE IInv'
  BY <1>1, <1>5, AssigningInv
<1>6. ASSUME NEW y \in Opts, NEW how \in {"copy", "move"},
             \/ Construct(x, y, how) \/ ConvertOptional(x, y, how)
             \/ AssignOptional(x, y, how)
      PROVE  IInv'
  BY <1>1, <1>6, ConstructingInv, AssigningInv
<1>7. QED
  BY <1>2, <1>3, <1>4, <1>5, <1>6

LEMMA NextInv == IInv /\ [Next]_vars => IInv'
<1>1. ASSUME IInv, UNCHANGED vars PROVE IInv'
  <2>1. /\ Boxes' = Boxes /\ Assignable' = Assignable /\ Contents' = Contents
        /\ NoThrow' = NoThrow /\ Put' = Put /\ Taken' = Taken /\ Started' = Started /\ AgreeOff({})' = AgreeOff({})
    BY <1>1 DEF vars, Boxes, Assignable, NoThrow, Contents, Put, Taken, Started, AgreeOff, Agrees
  <2>2. TypeInv'
    BY <1>1, <2>1 DEF vars, IInv, TypeInv
  <2>3. /\ AtBegin => AtBegin'
        /\ AtConstructor => AtConstructor'
        /\ AtReset => AtReset'
    BY <1>1, <2>1 DEF vars, AtBegin, AtConstructor, AtReset, EmplacesBox, ConstructSteps
  <2>4. /\ AtBorn => AtBorn'
        /\ AtDrop => AtDrop'
        /\ AtEmplace => AtEmplace'
    BY <1>1, <2>1 DEF vars, AtBorn, AtDrop, AtEmplace, EmplacesBox, AgreeOff, Agrees, Held
  <2>5. /\ AtAssign => AtAssign'
        /\ AtSwap => AtSwap'
        /\ AtSwapped => AtSwapped'
    BY <1>1, <2>1 DEF vars, AtAssign, CopiesIntoBox, AtSwap, AtSwapped, SetOrMake
  <2>6. QED
    BY <1>1, <2>1, <2>2, <2>3, <2>4, <2>5 DEF vars, IInv, Place, Idle
<1>2. IInv /\ Running => IInv'
  BY BeginInv, MakeInv, BuildInv, SetInv, SetFromInv, SwapInv, ResetInv, BornInv, DropInv, PassInv
  DEF Running
<1>3. QED
  BY <1>1, <1>2, ClientInv DEF Next, Terminated

THEOREM Invariance == Spec => []IInv
<1>1. QED
  BY InitInv, NextInv, PTL DEF Spec

(* A client's call is a request, and asks for something.                   *)
LEMMA ClientCalls ==
  Client => todo = <<>> /\ ~terminated /\ todo' # <<>> /\ before' = Contents /\ UNCHANGED template
<1> DEFINE Asks ==
      todo = <<>> /\ ~terminated /\ todo' # <<>> /\ before' = Contents /\ UNCHANGED template
<1>1. ASSUME NEW x, Default(x) \/ Destroy(x) \/ ResetOptional(x) PROVE Asks
  BY <1>1 DEF Default, Destroy, ResetOptional, Call
<1>2. ASSUME NEW x, NEW o, NEW how,
             \/ InPlace(x, o) \/ Emplace(x, o)
             \/ BoxFrom(x, o, how) \/ AssignValue(x, o, how) \/ BoxAssign(x, o, how)
      PROVE  Asks
  BY <1>2 DEF InPlace, Emplace, BoxFrom, AssignValue, BoxAssign, SetOrMake, Call
<1>3. ASSUME NEW x, NEW y, NEW how,
             \/ SwapOptionals(x, y) \/ Construct(x, y, how) \/ ConvertOptional(x, y, how)
             \/ AssignOptional(x, y, how)
      PROVE  Asks
  BY <1>3 DEF SwapOptionals, Construct, ConvertOptional, ConstructSteps, AssignOptional, Call
<1>4. QED
  BY <1>1, <1>2, <1>3 DEF Client

(* A constructor does not end where it begins.                             *)
LEMMA BeginsMore ==
  ASSUME IInv, todo' = <<>>
  PROVE  ~DoBegin
<1>1. SUFFICES ASSUME DoBegin PROVE FALSE
  OBVIOUS
<1>2. AtBegin
  BY <1>1, Nexts DEF IInv, Place, DoBegin, Doing, Idle
<1>3. (\E a, b : todo = <<a, b>>) \/ (\E a, b, c : todo = <<a, b, c>>)
  BY <1>2 DEF AtBegin, ConstructSteps
<1>4. Tail(todo) # <<>>
  <2>1. ASSUME NEW a, NEW b, todo = <<a, b>> PROVE Tail(todo) # <<>>
    BY <2>1
  <2>2. ASSUME NEW a, NEW b, NEW c, todo = <<a, b, c>> PROVE Tail(todo) # <<>>
    BY <2>2
  <2>3. QED
    BY <1>3, <2>1, <2>2
<1>5. QED
  BY <1>1, <1>4 DEF DoBegin, Continue

(* Whatever has been called and whatever has thrown: between calls an      *)
(* object is there exactly if engaged_ says so.                            *)
THEOREM Agreement == Spec => []EngagedAgrees
<1>1. IInv => EngagedAgrees
  BY IdleState DEF EngagedAgrees, AgreeOff, Agrees
<1>2. QED
  BY <1>1, Invariance, PTL

(* No step constructs over an object, or destroys, copies or assigns where *)
(* there is none.                                                          *)
THEOREM Lifetimes == Spec => []LifetimesNest
<1>1. ASSUME IInv, todo # <<>> PROVE LifetimesNest
  <2>1. step.do = "make" => item[step.to] = Raw
    BY <1>1, MakePlace, CallType DEF Doing, IInv, AtConstructor, Started, AgreeOff, Agrees
  <2>2. step.do = "build" => item[step.to] = Raw /\ item[step.from] # Raw
    BY <1>1, BuildPlace, CallType DEF Doing, IInv, TypeInv, Started, AgreeOff, Agrees
  <2>3. step.do = "set" => item[step.to] # Raw
    BY <1>1, SetPlace, CallType DEF Doing, IInv, Started, AgreeOff, Agrees
  <2>4. step.do = "set_from" => item[step.to] # Raw /\ item[step.from] # Raw
    BY <1>1, SetFromPlace, CallType DEF Doing, IInv, Started, AgreeOff, Agrees
  <2>5. step.do = "swap_items" => item[step.to] # Raw /\ item[step.from] # Raw
    BY <1>1, SwapPlace, CallType DEF Doing, IInv, Started, AgreeOff, Agrees
  <2>6. step.do = "reset" /\ engaged[step.to] => item[step.to] # Raw
    BY <1>1, ResetPlace DEF Doing, AgreeOff, Agrees
  <2>7. step.do = "drop" /\ engaged[step.to] => item[step.to] # Raw
    BY <1>1, Nexts, CallType DEF IInv, Place, Idle, AtDrop, Started, AgreeOff, Agrees
  <2>8. QED
    BY <2>1, <2>2, <2>3, <2>4, <2>5, <2>6, <2>7 DEF LifetimesNest
<1>2. IInv => LifetimesNest
  BY <1>1 DEF LifetimesNest
<1>3. QED
  BY <1>2, Invariance, PTL

(* A call that ends with an exception has changed no box that it has not   *)
(* emplaced in.                                                            *)
LEMMA KeptByThrow ==
  ASSUME IInv, Throw, NEW z \in Opts, Started \/ AtEmplace,
         z \in alive, z \in Boxes, before[z] \in Objects, ~engaged[z]
  PROVE  called.x = z /\ called.op = "emplace" /\ ~Assignable
<1>1. Contents[z] = Empty /\ before[z] # Empty
  BY OptionalAssumption DEF Contents
<1>2. AtEmplace
  BY <1>1 DEF Started
<1>3. Contents = [before EXCEPT ![called.x] = Empty] /\ called.op = "emplace" /\ EmplacesBox
  BY <1>2 DEF AtEmplace
<1>4. called.x = z
  BY <1>1, <1>3 DEF IInv, TypeInv
<1>5. QED
  BY <1>3, <1>4 DEF EmplacesBox

(* Where a step may throw, the call has not changed anything yet, or has   *)
(* just emptied what it emplaces in.                                       *)
LEMMA ThrowPlace ==
  ASSUME IInv, \E s \in {"make", "build", "set", "set_from", "swap_items"} : Doing(s)
  PROVE  Started \/ AtEmplace
<1>1. CASE Doing("make")
  BY <1>1, MakePlace DEF AtConstructor, AtAssign
<1>2. CASE Doing("build")
  BY <1>2, BuildPlace
<1>3. CASE Doing("set") \/ Doing("set_from") \/ Doing("swap_items")
  BY <1>3, SetPlace, SetFromPlace, SwapPlace
<1>4. QED
  BY <1>1, <1>2, <1>3

(* Nor has a call that ends with anything else than a reset or a birth     *)
(* emptied one.                                                            *)
LEMMA KeptByOthers ==
  ASSUME IInv, Started \/ AtEmplace, NEW z \in Opts, z \in alive, before[z] \in Objects,
         ~engaged[z]
  PROVE  AtEmplace /\ z = called.x
<1>1. Contents[z] = Empty /\ before[z] # Empty
  BY OptionalAssumption DEF Contents
<1>2. QED
  BY <1>1 DEF Started, AtEmplace, IInv, TypeInv

LEMMA KeptByBirth ==
  ASSUME IInv, DoBorn, NEW z \in Opts, z \in alive', before[z] \in Objects
  PROVE  engaged'[z]
<1> SUFFICES ASSUME NEW x, NEW y, x = called.x, y = called.y, ~engaged[z] PROVE FALSE
  BY DEF DoBorn
<1>1. /\ AtBorn /\ x \in Opts /\ y \in Opts /\ TypeInv
      /\ before = [v \in Opts |-> before[v]]
  BY Nexts, CallType DEF IInv, Place, DoBorn, Doing, Idle, TypeInv
<1>2. alive' = alive \cup {x} /\ z # x
  BY <1>1, Nexts, OptionalAssumption DEF DoBorn, AtBorn
<1>3. Contents[z] = Empty /\ [Contents EXCEPT ![x] = Held(x)][z] = Empty
  BY <1>1, <1>2 DEF Contents
<1>4. CASE called.op = "in_place"
  <2>1. Put[z] = before[z]
    BY <1>1, <1>2 DEF Put
  <2>2. QED
    BY <1>1, <1>3, <1>4, <2>1, OptionalAssumption DEF AtBorn
<1>5. CASE called.op = "construct"
  <2>1. Taken[z] \in {before[z], MovedOf(before[z])}
    BY <1>1, <1>2 DEF Taken
  <2>2. MovedOf(before[z]) \in Objects
    BY DEF MovedOf, Objects
  <2>3. QED
    BY <1>1, <1>3, <1>5, <2>1, <2>2, OptionalAssumption DEF AtBorn
<1>6. QED
  BY <1>1, <1>4, <1>5 DEF AtBorn

(* A reset that is the last step of a call is that of an optional, or an   *)
(* assignment from an empty one.                                           *)
LEMMA KeptByReset ==
  ASSUME IInv, DoReset, todo' = <<>>, NEW z \in Opts,
         z \in alive, z \in Boxes, before[z] \in Objects, ~engaged'[z]
  PROVE  called.x = z /\ called.op = "assign" /\ before[called.y] = Empty
<1> SUFFICES ASSUME NEW x, NEW y, NEW v, x = called.x, y = called.y, v = step.to
             PROVE  x = z /\ called.op = "assign" /\ before[y] = Empty
  OBVIOUS
<1>1. /\ v \in alive /\ v \in Opts /\ x \in Opts /\ y \in Opts
      /\ TypeInv /\ before[z] # Empty
  BY ResetPlace, CallType, OptionalAssumption DEF DoReset, IInv
<1>2. Tail(todo) = <<>> /\ engaged' = [engaged EXCEPT ![v] = FALSE]
  BY DEF DoReset, Continue
<1>3. Contents[z] = Empty \/ z = v
  BY <1>1, <1>2 DEF Contents, TypeInv
<1>4. CASE Started /\ v = x /\ x \notin Boxes
  BY <1>1, <1>3, <1>4 DEF Started
<1>5. CASE Started /\ v = x /\ called.op = "assign" /\ y \in alive /\ ~engaged[y]
  <2>1. before[y] = Empty
    BY <1>1, <1>5 DEF Started, Contents
  <2>2. QED
    BY <1>1, <1>3, <1>5, <2>1 DEF Started
<1>6. CASE /\ {x, y} \cap Boxes = {}
           /\ \E u \in {x, y} :
                /\ {u, v} = {x, y} /\ u # v /\ before[u] = Empty
                /\ Contents = [before EXCEPT ![u] = before[v], ![v] = MovedOf(before[v])]
  <2>1. PICK u \in {x, y} :
          /\ {u, v} = {x, y}
          /\ Contents = [before EXCEPT ![u] = before[v], ![v] = MovedOf(before[v])]
    BY <1>6
  <2>2. z # u /\ z # v
    BY <1>6, <2>1
  <2>3. Contents[z] = before[z]
    BY <1>1, <2>1, <2>2 DEF TypeInv
  <2>4. QED
    BY <1>1, <1>3, <2>2, <2>3
<1>7. ~\E t : Tail(todo) = <<Make(x, called.o, t)>>
  BY <1>2
<1>8. QED
  BY <1>4, <1>5, <1>6, <1>7, ResetPlace DEF DoReset

LEMMA KeptByRunning == IInv /\ Running => BoxesKeepObjects'
<1> SUFFICES ASSUME IInv, Running, todo' = <<>>, NEW z \in Opts, z \in alive', z \in Boxes',
                    before'[z] \in Objects, ~engaged'[z]
             PROVE  /\ called'.x = z
                    /\ \/ called'.op = "assign" /\ before'[called'.y] = Empty
                       \/ called'.op = "emplace" /\ ~Assignable' /\ threw'
  BY DEF BoxesKeepObjects, Boxes, IInv, TypeInv
<1>1. UNCHANGED <<template, called, before>> /\ todo # <<>>
  BY DEF Running, DoBegin, DoMake, DoBuild, DoSet, DoSetFrom, DoSwapItems, DoReset, DoBorn,
         DoDrop, DoPass, Doing, Continue, Throw
<1>2. z \in Boxes /\ before[z] \in Objects /\ Assignable' = Assignable
  BY <1>1 DEF Boxes, Assignable
<1>3. CASE DoReset
  BY <1>1, <1>2, <1>3, KeptByReset DEF DoReset
<1>4. CASE DoBorn
  BY <1>1, <1>2, <1>4, KeptByBirth
<1>5. CASE Throw /\ \E s \in {"make", "build", "set", "set_from", "swap_items"} : Doing(s)
  <2>1. threw' /\ UNCHANGED <<alive, engaged>>
    BY <1>5 DEF Throw
  <2>2. Started \/ AtEmplace
    BY <1>5, ThrowPlace
  <2>3. QED
    BY <1>1, <1>2, <1>5, <2>1, <2>2, KeptByThrow
<1>6. CASE DoMake /\ Continue
  <2>1. /\ step.to = called.x /\ called.x \in Opts
        /\ Started \/ AtEmplace
    BY <1>6, MakePlace, CallType, ThrowPlace DEF DoMake, IInv
  <2>2. CASE engaged' = [engaged EXCEPT ![called.x] = TRUE] /\ UNCHANGED alive
    <3>1. ~engaged[z] /\ z # called.x
      BY <2>1, <2>2 DEF IInv, TypeInv
    <3>2. QED
      BY <1>2, <2>1, <2>2, <3>1, KeptByOthers
  <2>3. CASE Throw /\ Doing("make")
    BY <1>5, <2>3
  <2>4. QED
    BY <1>6, <2>1, <2>2, <2>3 DEF DoMake
<1>7. CASE DoBuild /\ Continue
  <2>1. Started /\ step.to \in Opts
    BY <1>7, BuildPlace DEF DoBuild
  <2>2. CASE engaged' = [engaged EXCEPT ![step.to] = TRUE] /\ UNCHANGED alive
    <3>1. ~engaged[z] /\ z # step.to
      BY <2>1, <2>2 DEF IInv, TypeInv
    <3>2. Contents[z] = Empty
      BY <2>2, <3>1 DEF Contents
    <3>3. QED
      BY <1>2, <2>1, <3>2, OptionalAssumption DEF Started
  <2>3. CASE Throw /\ Doing("build")
    BY <1>5, <2>3
  <2>4. QED
    BY <1>7, <2>2, <2>3 DEF DoBuild
<1>8. CASE /\ Continue /\ UNCHANGED engaged /\ alive' \subseteq alive
           /\ Started
  <2>1. Contents[z] = Empty
    BY <1>8 DEF Contents
  <2>2. QED
    BY <1>2, <1>8, <2>1, OptionalAssumption DEF Started
<1>9. CASE DoSet \/ DoSetFrom \/ DoSwapItems
  BY <1>5, <1>8, <1>9, SetPlace, SetFromPlace, SwapPlace DEF DoSet, DoSetFrom, DoSwapItems
<1>10. CASE DoPass \/ DoDrop
  <2>1. Started
    BY <1>10, PassPlace, Nexts DEF DoPass, DoDrop, Doing, IInv, Place, Idle, AtDrop
  <2>2. QED
    BY <1>8, <1>10, <2>1 DEF DoPass, DoDrop
<1>11. ~DoBegin
  BY BeginsMore
<1>12. DoMake => Continue \/ (Throw /\ Doing("make"))
  BY DEF DoMake
<1>13. DoBuild => Continue \/ (Throw /\ Doing("build"))
  BY DEF DoBuild
<1>14. QED
  BY <1>3, <1>4, <1>5, <1>6, <1>7, <1>9, <1>10, <1>11, <1>12, <1>13 DEF Running

(* Whatever is called and whatever throws: a box keeps its object unless   *)
(* it is destroyed, assigned an empty box, or, of a T without assignment,  *)
(* emplaced in with an exception.                                          *)
THEOREM BoxesKeep == Spec => []BoxesKeepObjects
<1>1. Init => BoxesKeepObjects
  BY DEF Init, BoxesKeepObjects
<1>2. IInv /\ BoxesKeepObjects /\ [Next]_vars => BoxesKeepObjects'
  <2>1. Client => BoxesKeepObjects'
    BY ClientCalls DEF BoxesKeepObjects
  <2>2. BoxesKeepObjects /\ UNCHANGED vars => BoxesKeepObjects'
    BY DEF BoxesKeepObjects, vars, Boxes, Assignable
  <2>3. QED
    BY <2>1, <2>2, KeptByRunning DEF Next, Terminated
<1>3. QED
  BY <1>1, <1>2, Invariance, PTL DEF Spec

-----------------------------------------------------------------------------
(* A noexcept function that is on its way has no step left that throws.    *)
MayThrow == {"make", "build", "set", "set_from", "swap_items"}
Harmless(s) == s.do \in MayThrow => s.trait \in NoThrow
AllHarmless(list) == \A i \in 1 .. Len(list) : Harmless(list[i])
StrictInv ==
  /\ terminated => FalseClause(called, before)
  /\ strict /\ ~FalseClause(called, before) => AllHarmless(todo)

LEMMA Lists ==
  /\ AllHarmless(<<>>)
  /\ \A a : AllHarmless(<<a>>) <=> Harmless(a)
  /\ \A a, b : AllHarmless(<<a, b>>) <=> Harmless(a) /\ Harmless(b)
  /\ \A a, b, c : AllHarmless(<<a, b, c>>) <=> Harmless(a) /\ Harmless(b) /\ Harmless(c)
<1>1. AllHarmless(<<>>)
  BY DEF AllHarmless
<1>2. ASSUME NEW a PROVE AllHarmless(<<a>>) <=> Harmless(a)
  BY DEF AllHarmless
<1>3. ASSUME NEW a, NEW b PROVE AllHarmless(<<a, b>>) <=> Harmless(a) /\ Harmless(b)
  <2>1. 1 .. Len(<<a, b>>) = {1, 2}
    OBVIOUS
  <2>2. QED
    BY <2>1 DEF AllHarmless
<1>4. ASSUME NEW a, NEW b, NEW c
      PROVE  AllHarmless(<<a, b, c>>) <=> Harmless(a) /\ Harmless(b) /\ Harmless(c)
  <2>1. 1 .. Len(<<a, b, c>>) = {1, 2, 3}
    OBVIOUS
  <2>2. QED
    BY <2>1 DEF AllHarmless
<1>5. QED
  BY <1>1, <1>2, <1>3, <1>4

(* What is left after a step was there before it.                          *)
LEMMA Rest ==
  ASSUME IInv, todo # <<>>, AllHarmless(todo)
  PROVE  Harmless(step) /\ AllHarmless(Tail(todo))
<1>1. CASE \E a : todo = <<a>>
  <2>1. PICK a : todo = <<a>>
    BY <1>1
  <2>2. step = a /\ Tail(todo) = <<>>
    BY <2>1 DEF step
  <2>3. QED
    BY <2>1, <2>2, Lists
<1>2. CASE \E a, b : todo = <<a, b>>
  <2>1. PICK a, b : todo = <<a, b>>
    BY <1>2
  <2>2. step = a /\ Tail(todo) = <<b>>
    BY <2>1 DEF step
  <2>3. QED
    BY <2>1, <2>2, Lists
<1>3. CASE \E a, b, c : todo = <<a, b, c>>
  <2>1. PICK a, b, c : todo = <<a, b, c>>
    BY <1>3
  <2>2. step = a /\ Tail(todo) = <<b, c>>
    BY <2>1 DEF step
  <2>3. QED
    BY <2>1, <2>2, Lists
<1>4. \/ \E a : todo = <<a>>
      \/ \E a, b : todo = <<a, b>>
      \/ \E a, b, c : todo = <<a, b, c>>
  BY DEF IInv, Place, Idle, AtBegin, ConstructSteps, AtConstructor, AtBorn, AtDrop, AtReset,
         AtEmplace, AtAssign, SetOrMake, AtSwap, AtSwapped
<1>5. QED
  BY <1>1, <1>2, <1>3, <1>4

LEMMA HarmlessSteps ==
  /\ \A x : /\ Harmless(Begin(x)) /\ Harmless(Born(x)) /\ Harmless(Drop(x))
            /\ Harmless(Reset(x)) /\ Harmless(Pass)
  /\ \A x, o, t : t \in NoThrow => Harmless(Make(x, o, t))
  /\ \A x, y, how : Constructs(how) \in NoThrow => Harmless(Build(x, y, how))
  /\ \A x, o, how : Assigns(how) \in NoThrow => Harmless(Set(x, o, how))
  /\ \A x, y, how : Assigns(how) \in NoThrow => Harmless(SetFrom(x, y, how))
  /\ \A x, y : "swap" \in NoThrow => Harmless(SwapItems(x, y))
  BY DEF Harmless, MayThrow, Begin, Born, Drop, Reset, Pass, Make, Build, Set, SetFrom, SwapItems

LEMMA RunningStrict == IInv /\ StrictInv /\ Running => StrictInv'
<1> SUFFICES ASSUME IInv, StrictInv, Running PROVE StrictInv'
  OBVIOUS
<1>1. todo # <<>>
  BY DEF Running, DoBegin, DoMake, DoBuild, DoSet, DoSetFrom, DoSwapItems, DoReset, DoBorn,
         DoDrop, DoPass, Doing
<1>2. CASE Continue
  <2>1. strict /\ ~FalseClause(called, before) => AllHarmless(Tail(todo))
    BY <1>1, Rest DEF StrictInv
  <2>2. UNCHANGED <<template, strict, terminated, called, before>> /\ todo' = Tail(todo)
    BY <1>2 DEF Continue
  <2>3. FalseClause(called, before)' <=> FalseClause(called, before)
    BY <2>2 DEF FalseClause, NoThrow, Boxes, Assignable
  <2>4. QED
    BY <2>1, <2>2, <2>3 DEF StrictInv, AllHarmless, Harmless, NoThrow
<1>3. CASE Throw /\ step.do \in MayThrow
  <2>1. ~Harmless(step)
    BY <1>3 DEF Throw, Harmless
  <2>2. strict => FalseClause(called, before)
    BY <1>1, <2>1, Rest DEF StrictInv
  <2>3. UNCHANGED <<template, strict, called, before>> /\ todo' = <<>> /\ terminated' = strict
    BY <1>3 DEF Throw
  <2>4. FalseClause(called, before)' <=> FalseClause(called, before)
    BY <2>3 DEF FalseClause, NoThrow, Boxes, Assignable
  <2>5. AllHarmless(todo)'
    BY <2>3 DEF AllHarmless
  <2>6. QED
    BY <2>2, <2>3, <2>4, <2>5 DEF StrictInv
<1>4. Continue \/ (Throw /\ step.do \in MayThrow)
  BY DEF Running, DoBegin, DoMake, DoBuild, DoSet, DoSetFrom, DoSwapItems, DoReset, DoBorn,
         DoDrop, DoPass, Doing, MayThrow
<1>5. QED
  BY <1>2, <1>3, <1>4

LEMMA CalledStrict ==
  ASSUME NEW r, NEW n, NEW s, Call(r, n, s), n /\ ~FalseClause(r, Contents) => AllHarmless(s)
  PROVE  StrictInv'
<1>1. /\ UNCHANGED template /\ called' = r /\ before' = Contents /\ strict' = n /\ todo' = s
      /\ ~terminated /\ UNCHANGED terminated
  BY DEF Call
<1>2. FalseClause(called, before)' <=> FalseClause(r, Contents)
  BY <1>1 DEF FalseClause, NoThrow, Boxes, Assignable
<1>3. AllHarmless(todo)' <=> AllHarmless(s)
  BY <1>1 DEF AllHarmless, Harmless, NoThrow
<1>4. QED
  BY <1>1, <1>2, <1>3 DEF StrictInv

LEMMA ClientStrict ==
  ASSUME IInv, NEW x \in Opts, NEW y \in Opts, NEW o \in Objects,
         NEW how \in {"copy", "move"},
         \/ Default(x) \/ Destroy(x) \/ ResetOptional(x) \/ InPlace(x, o) \/ Emplace(x, o)
         \/ BoxFrom(x, o, how) \/ AssignValue(x, o, how) \/ BoxAssign(x, o, how)
         \/ SwapOptionals(x, y) \/ Construct(x, y, how) \/ ConvertOptional(x, y, how)
         \/ AssignOptional(x, y, how)
  PROVE  StrictInv'
<1> USE HarmlessSteps, CalledStrict, Lists
<1>1. CASE Default(x)
  <2>1. AllHarmless(<<Begin(x), Born(x)>>)
    OBVIOUS
  <2>2. QED
    BY <1>1, <2>1 DEF Default
<1>2. CASE Destroy(x) \/ ResetOptional(x)
  BY <1>2 DEF Destroy, ResetOptional
<1>3. CASE InPlace(x, o) \/ Emplace(x, o)
  BY <1>3 DEF InPlace, Emplace
<1>4. CASE BoxFrom(x, o, how)
  <2>1. Constructs(how) \in NoThrow => AllHarmless(<<Begin(x), Make(x, o, Constructs(how)), Born(x)>>)
    OBVIOUS
  <2>2. QED
    BY <1>4, <2>1 DEF BoxFrom, Noexcept
<1>5. Constructs(how) \in NoThrow => AllHarmless(ConstructSteps(x, y, how))
  BY DEF ConstructSteps
<1>6. CASE Construct(x, y, how) \/ ConvertOptional(x, y, how)
  <2> SUFFICES ASSUME NEW r, r = Request("construct", x, y, Empty, how) PROVE StrictInv'
    OBVIOUS
  <2>1. r.op = "construct" /\ r.how = how
    BY DEF Request
  <2>2. PICK n : /\ Call(r, n, ConstructSteps(x, y, how))
                 /\ n => "copy_construct" \in NoThrow \/ Constructs(how) \in NoThrow
    BY <1>6 DEF Construct, ConvertOptional, Noexcept
  <2>3. "copy_construct" \in NoThrow /\ ~FalseClause(r, Contents) => Constructs(how) \in NoThrow
    BY <2>1 DEF FalseClause, Constructs
  <2>4. QED
    BY <1>5, <2>2, <2>3
<1>7. CASE AssignValue(x, o, how)
  BY <1>7 DEF AssignValue, Noexcept, SetOrMake
<1>8. CASE BoxAssign(x, o, how)
  <2>1. CASE Assignable
    <3> SUFFICES ASSUME NEW r, r = Request("assign_value", x, x, o, how) PROVE StrictInv'
      OBVIOUS
    <3>1. r.op = "assign_value" /\ r.how = how /\ r.x = x
      BY DEF Request
    <3>2. PICK n : /\ Call(r, n, SetOrMake(x, o, "copy")) /\ (n => Assigns(how) \in NoThrow)
                   /\ x \in alive /\ x \in Boxes
      BY <1>8, <2>1 DEF BoxAssign, Noexcept
    <3>3. CASE engaged[x]
      <4>1. Contents[x] # Empty
        BY <3>2, <3>3, IdleState, OptionalAssumption DEF Contents, Call, AgreeOff, Agrees, IInv, TypeInv
      <4>2. n /\ ~FalseClause(r, Contents) => Assigns("copy") \in NoThrow
        BY <2>1, <3>1, <3>2, <4>1 DEF FalseClause, Assigns
      <4>3. Assigns("copy") \in NoThrow => AllHarmless(<<Set(x, o, "copy")>>)
        OBVIOUS
      <4>4. QED
        BY <3>2, <3>3, <4>2, <4>3 DEF SetOrMake
    <3>4. CASE ~engaged[x]
      <4>1. Contents[x] = Empty
        BY <3>2, <3>4 DEF Contents
      <4>2. n /\ ~FalseClause(r, Contents) => Constructs("copy") \in NoThrow
        BY <2>1, <3>1, <3>2, <4>1 DEF FalseClause, Constructs
      <4>3. Constructs("copy") \in NoThrow => AllHarmless(<<Make(x, o, Constructs("copy"))>>)
        OBVIOUS
      <4>4. QED
        BY <3>2, <3>4, <4>2, <4>3 DEF SetOrMake
    <3>5. QED
      BY <3>3, <3>4
  <2>2. CASE ~Assignable
    <3>1. Constructs(how) \in NoThrow => AllHarmless(<<Reset(x), Make(x, o, Constructs(how))>>)
      OBVIOUS
    <3>2. QED
      BY <1>8, <2>2, <3>1 DEF BoxAssign, Noexcept
  <2>3. QED
    BY <2>1, <2>2 DEF Assignable
<1>9. CASE AssignOptional(x, y, how)
  BY <1>9 DEF AssignOptional, Noexcept
<1>10. CASE SwapOptionals(x, y)
  <2>1. "swap" \in NoThrow => AllHarmless(<<SwapItems(x, y)>>)
    OBVIOUS
  <2>2. /\ "move_construct" \in NoThrow => AllHarmless(<<Build(y, x, "move"), Reset(x)>>)
        /\ "move_construct" \in NoThrow => AllHarmless(<<Build(x, y, "move"), Reset(y)>>)
    BY DEF Constructs
  <2>3. QED
    BY <1>10, <2>1, <2>2 DEF SwapOptionals, Noexcept
<1>11. QED
  BY <1>1, <1>2, <1>3, <1>4, <1>6, <1>7, <1>8, <1>9, <1>10

LEMMA NextStrict == IInv /\ StrictInv /\ [Next]_vars => StrictInv'
<1>1. StrictInv /\ UNCHANGED vars => StrictInv'
  BY DEF vars, StrictInv, AllHarmless, Harmless, NoThrow, FalseClause, Boxes, Assignable
<1>2. ASSUME IInv, Client PROVE StrictInv'
  <2>1. Object(Unspecified) \in Objects /\ \A v \in Values : Object(v) \in Objects
    BY DEF Object, Objects
  <2>2. PICK x \in Opts, y \in Opts, o \in Objects, how \in {"copy", "move"} :
          \/ Default(x) \/ Destroy(x) \/ ResetOptional(x) \/ InPlace(x, o) \/ Emplace(x, o)
          \/ BoxFrom(x, o, how) \/ AssignValue(x, o, how) \/ BoxAssign(x, o, how)
          \/ SwapOptionals(x, y) \/ Construct(x, y, how) \/ ConvertOptional(x, y, how)
          \/ AssignOptional(x, y, how)
    BY <1>2, <2>1 DEF Client
  <2>3. QED
    BY <1>2, <2>2, ClientStrict
<1>3. QED
  BY <1>1, <1>2, RunningStrict DEF Next, Terminated

(* Whatever the type inside promises, an exception that ends the program   *)
(* comes from one of the three: all other noexcept clauses are true.       *)
THEOREM OnlyThreeFail == Spec => []OnlyThreeClausesFail
<1>1. Init => StrictInv
  BY DEF Init, StrictInv, AllHarmless
<1>2. IInv /\ StrictInv /\ [Next]_vars => StrictInv'
  BY NextStrict
<1>3. StrictInv => OnlyThreeClausesFail
  BY DEF StrictInv, OnlyThreeClausesFail
<1>4. QED
  BY <1>1, <1>2, <1>3, Invariance, PTL DEF Spec

(* These are true, too, of types of which the promise that is asked for    *)
(* brings the others with it.                                              *)
MovesAsCopies ==
  \A t \in Templates : "copy_construct" \in t.nothrow => "move_construct" \in t.nothrow

BoxesCopyFreely ==
  \A t \in Templates :
    t.boxed /\ t.assignable /\ t.nothrow \cap {"copy_assign", "move_assign"} # {} =>
      {"copy_construct", "copy_assign"} \subseteq t.nothrow

(* With such types no exception ever meets a noexcept function of optional *)
(* or semiregular_box, be the box empty or not.                            *)
THEOREM Clauses ==
  ASSUME MovesAsCopies, BoxesCopyFreely
  PROVE  Spec => []NoexceptHonoured
<1>1. ASSUME IInv, FalseClause(called, before), terminated PROVE FALSE
  <2>1. template \in Templates /\ called.how \in {"new", "copy", "move"}
    BY <1>1, CallType DEF IInv, TypeInv
  <2>2. CASE /\ "copy_construct" \in NoThrow /\ "move_construct" \notin NoThrow
    BY <2>1, <2>2 DEF MovesAsCopies, NoThrow
  <2>3. CASE /\ called.op = "assign_value" /\ called.x \in Boxes /\ Assignable
             /\ Assigns(called.how) \in NoThrow
             /\ ~({"copy_construct", "copy_assign"} \subseteq NoThrow)
    <3>1. NoThrow \cap {"copy_assign", "move_assign"} # {}
      BY <2>3 DEF Assigns
    <3>2. template.boxed
      BY <2>3 DEF Boxes
    <3>3. QED
      BY <2>1, <2>3, <3>1, <3>2 DEF BoxesCopyFreely, NoThrow, Assignable
  <2>4. QED
    BY <1>1, <2>2, <2>3 DEF FalseClause
<1>2. IInv /\ OnlyThreeClausesFail => NoexceptHonoured
  BY <1>1 DEF OnlyThreeClausesFail, NoexceptHonoured
<1>3. QED
  BY <1>2, Invariance, OnlyThreeFail, PTL

-----------------------------------------------------------------------------
(* Optionals and boxes implement HolderContract.                           *)
Movings == {"move_construct", "move_assign", "swap"}

(* What the contract says of the request, in terms of what there was.      *)
LEMMA Successes ==
  ASSUME TypeInv, todo # <<>>
  PROVE  /\ called.op \in {"in_place", "emplace", "assign_value", "reset"} => Contract!Success = Put
         /\ called.op \in {"construct", "assign"} => Contract!Success = Taken
         /\ called.op = "destroy" => Contract!Success = [before EXCEPT ![called.x] = Absent]
         /\ called.op = "swap" =>
              Contract!Success = [before EXCEPT ![called.x] = before[called.y],
                                                ![called.y] = before[called.x]]
<1>1. CASE called.op \in {"in_place", "emplace", "assign_value", "reset"}
  BY <1>1 DEF Contract!Success, Put
<1>2. CASE called.op \in {"construct", "assign"}
  BY <1>2 DEF Contract!Success, Contract!Moved, Taken, MovedOf
<1>3. CASE called.op = "destroy"
  BY <1>3 DEF Contract!Success
<1>4. CASE called.op = "swap"
  BY <1>4 DEF Contract!Success
<1>5. QED
  BY <1>1, <1>2, <1>3, <1>4

MayMove == ~(Movings \subseteq NoThrow)

LEMMA Failings ==
  ASSUME TypeInv, todo # <<>>
  PROVE  LET x == called.x  y == called.y  how == called.how
             sources == IF how = "move" THEN {before[y], MovedOf(before[y])} ELSE {before[y]}
         IN
         /\ called.op = "in_place" => before \in Contract!Failures
         /\ called.op = "construct" /\ (how = "copy" \/ MayMove) =>
              \A p \in sources : [before EXCEPT ![y] = p] \in Contract!Failures
         /\ called.op = "emplace" => [before EXCEPT ![x] = Empty] \in Contract!Failures
         /\ called.op = "assign_value" /\ called.o \in Objects /\ (how = "copy" \/ MayMove) =>
              /\ before[x] = Empty => before \in Contract!Failures
              /\ before[x] \in Objects =>
                   \A p \in {before[x], MovedOf(before[x])} :
                     [before EXCEPT ![x] = p] \in Contract!Failures
         /\ called.op = "assign" /\ before[y] \in Objects /\ (how = "copy" \/ MayMove) =>
              /\ before[x] = Empty =>
                   \A p \in sources : [before EXCEPT ![y] = p, ![x] = Empty] \in Contract!Failures
              /\ before[x] \in Objects =>
                   \A p \in sources, q \in {before[x], MovedOf(before[x])} :
                     [before EXCEPT ![y] = p, ![x] = q] \in Contract!Failures
         /\ called.op = "swap" /\ MayMove =>
              /\ {before[x], before[y]} \subseteq Objects =>
                   /\ [before EXCEPT ![x] = before[x], ![y] = before[y]] \in Contract!Failures
                   /\ [before EXCEPT ![x] = MovedOf(before[x]), ![y] = MovedOf(before[y])]
                        \in Contract!Failures
              /\ before[x] \in Objects /\ before[y] = Empty =>
                   \A p \in {before[x], MovedOf(before[x])} :
                     [before EXCEPT ![x] = p, ![y] = Empty] \in Contract!Failures
              /\ before[x] = Empty /\ before[y] \in Objects =>
                   \A p \in {before[y], MovedOf(before[y])} :
                     [before EXCEPT ![x] = Empty, ![y] = p] \in Contract!Failures
<1> DEFINE x == called.x  y == called.y  how == called.how
<1>1. Empty \notin Objects /\ before = [z \in Opts |-> before[z]] /\ x \in Opts /\ y \in Opts
  BY OptionalAssumption, CallType DEF TypeInv
<1>2. \A a, o \in Objects : Contract!SameAlternative(a, o)
  BY DEF Contract!SameAlternative, Objects
<1>3. \A o : Contract!Moved(o) = MovedOf(o) /\ Contract!MaybeMoved(o) = {o, MovedOf(o)}
  BY DEF Contract!Moved, Contract!MaybeMoved, MovedOf
<1>4. \A a : ~Contract!SameAlternative(Empty, a) /\ ~Contract!SameAlternative(a, Empty)
  BY <1>1 DEF Contract!SameAlternative
<1>5. ASSUME how = "copy" \/ MayMove, NEW o \in Objects
      PROVE  /\ Empty \in Contract!AssignFailures(Empty, o, how)
             /\ \A a \in Objects :
                  Contract!AssignFailures(a, o, how) = {a, MovedOf(a)}
  BY <1>1, <1>2, <1>3, <1>4, <1>5 DEF Contract!AssignFailures, MayMove, Movings
<1>6. CASE called.op = "in_place"
  BY <1>6 DEF Contract!Failures
<1> DEFINE sources == IF how = "move" THEN {before[y], MovedOf(before[y])} ELSE {before[y]}
           given == IF todo = <<>> /\ ~terminated THEN Contents ELSE before
           source == IF how = "move" THEN Contract!MaybeMoved(given[y]) ELSE {given[y]}
<1>7. given = before
  OBVIOUS
<1>8. source = sources
  BY <1>3, <1>7
<1>9. CASE called.op = "construct"
  <2>1. Contract!Failures = {c \in {[given EXCEPT ![y] = p] : p \in source} : how = "copy" \/ MayMove}
    BY <1>9 DEF Contract!Failures, MayMove, Movings
  <2> HIDE DEF given, source
  <2>2. QED
    BY <1>7, <1>8, <1>9, <2>1
<1>10. CASE called.op = "emplace"
  BY <1>10 DEF Contract!Failures
<1>11. CASE called.op = "assign_value"
  <2>1. Contract!Failures =
          {[before EXCEPT ![x] = o] : o \in Contract!AssignFailures(before[x], called.o, how)}
    BY <1>11 DEF Contract!Failures
  <2>2. before[x] = Empty => before = [before EXCEPT ![x] = Empty]
    BY <1>1
  <2>3. QED
    BY <1>5, <1>11, <2>1, <2>2
<1>12. CASE called.op = "assign"
  <2>1. Contract!Failures =
          {[given EXCEPT ![y] = p, ![x] = o] :
             p \in source, o \in Contract!AssignFailures(given[x], given[y], how)}
    BY <1>12 DEF Contract!Failures
  <2> HIDE DEF given, source, sources
  <2>2. \A p \in sources, o \in Contract!AssignFailures(before[x], before[y], how) :
          [before EXCEPT ![y] = p, ![x] = o] \in Contract!Failures
    <3>1. \A p \in source, o \in Contract!AssignFailures(given[x], given[y], how) :
            [given EXCEPT ![y] = p, ![x] = o] \in Contract!Failures
      BY <2>1
    <3>2. QED
      BY <1>7, <1>8, <3>1, Zenon
  <2>3. ASSUME before[y] \in Objects, how = "copy" \/ MayMove
        PROVE  /\ before[x] = Empty => Empty \in Contract!AssignFailures(before[x], before[y], how)
               /\ before[x] \in Objects =>
                    Contract!AssignFailures(before[x], before[y], how) = {before[x], MovedOf(before[x])}
    BY <1>5, <2>3
  <2>4. QED
    BY <1>12, <2>2, <2>3 DEF sources
<1>13. CASE called.op = "swap"
  <2>1. Contract!Failures =
          {[before EXCEPT ![x] = c[1], ![y] = c[2]] : c \in Contract!SwapFailures(before[x], before[y])}
    BY <1>13 DEF Contract!Failures
  <2>2. \A p, q : <<p, q>> \in Contract!SwapFailures(before[x], before[y]) =>
                  [before EXCEPT ![x] = p, ![y] = q] \in Contract!Failures
    <3> SUFFICES ASSUME NEW p, NEW q, <<p, q>> \in Contract!SwapFailures(before[x], before[y])
                 PROVE  [before EXCEPT ![x] = p, ![y] = q] \in Contract!Failures
      OBVIOUS
    <3> DEFINE c == <<p, q>>
    <3>1. c[1] = p /\ c[2] = q
      OBVIOUS
    <3>2. c \in Contract!SwapFailures(before[x], before[y])
      OBVIOUS
    <3> HIDE DEF c
    <3>3. [before EXCEPT ![x] = c[1], ![y] = c[2]] \in Contract!Failures
      BY <2>1, <3>2
    <3>4. QED
      BY <3>1, <3>3
  <2>3. ASSUME MayMove, before[x] \in Objects, before[y] \in Objects
        PROVE  {<<before[x], before[y]>>, <<MovedOf(before[x]), MovedOf(before[y])>>}
                 \subseteq Contract!SwapFailures(before[x], before[y])
    BY <1>2, <1>3, <2>3 DEF Contract!SwapFailures, MayMove, Movings
  <2>4. ASSUME MayMove, before[y] = Empty, NEW p \in {before[x], MovedOf(before[x])}
        PROVE  <<p, Empty>> \in Contract!SwapFailures(before[x], before[y])
    BY <1>3, <1>4, <2>4 DEF Contract!SwapFailures, MayMove, Movings
  <2>5. ASSUME MayMove, before[x] = Empty, NEW p \in {before[y], MovedOf(before[y])}
        PROVE  <<Empty, p>> \in Contract!SwapFailures(before[x], before[y])
    BY <1>3, <1>4, <2>5 DEF Contract!SwapFailures, MayMove, Movings
  <2>6. QED
    BY <1>13, <2>2, <2>3, <2>4, <2>5
<1>14. QED
  BY <1>6, <1>9, <1>10, <1>11, <1>12, <1>13

(* What is found after a step, one optional at a time.                     *)
LEMMA Found ==
  /\ Contents = [z \in Opts |-> Contents[z]] /\ Contents' = [z \in Opts |-> Contents'[z]]
  /\ \A z \in Opts : /\ z \notin alive => Contents[z] = Absent
                     /\ z \in alive /\ ~engaged[z] => Contents[z] = Empty
                     /\ z \in alive /\ engaged[z] => Contents[z] = item[z]
  /\ \A z \in Opts : /\ z \notin alive' => Contents'[z] = Absent
                     /\ z \in alive' /\ ~engaged'[z] => Contents'[z] = Empty
                     /\ z \in alive' /\ engaged'[z] => Contents'[z] = item'[z]
  BY DEF Contents

(* A constructor or an assignment that may throw, of an operation that     *)
(* copies or of a type whose moves may throw.                              *)
LEMMA Throwing ==
  ASSUME NEW how
  PROVE  /\ Constructs(how) \notin NoThrow => how = "copy" \/ MayMove
         /\ Assigns(how) \notin NoThrow => how = "copy" \/ MayMove
         /\ "swap" \notin NoThrow => MayMove
  BY DEF Constructs, Assigns, MayMove, Movings

Answered == IF threw' THEN Contents' \in Contract!Failures ELSE Contents' = Contract!Success

(* A box whose rvalue is copied in under a clause about moving does not    *)
(* come back if that throws.                                               *)
LEMMA Copying ==
  ASSUME Throw, ~terminated', NEW h \in {"copy", "move"}, h = called.how \/ CopiesIntoBox,
         step.trait \in {Constructs(h), Assigns(h)}
  PROVE  called.how = "copy" \/ MayMove
<1>1. step.trait \notin NoThrow /\ ~strict
  BY DEF Throw
<1>2. CASE h = called.how
  BY <1>1, <1>2, Throwing
<1>3. CASE CopiesIntoBox
  BY <1>1, <1>3, Throwing DEF CopiesIntoBox
<1>4. QED
  BY <1>2, <1>3

LEMMA MakeAnswer ==
  ASSUME IInv, DoMake, todo' = <<>>, ~terminated'
  PROVE  Answered
<1> SUFFICES ASSUME NEW x, x = called.x PROVE Answered
  OBVIOUS
<1>1. /\ ~threw /\ called.o \in Objects /\ step.object = called.o /\ step.to = x /\ x \in Opts
      /\ \/ /\ AtConstructor /\ called.op = "in_place" /\ Tail(todo) = <<Born(x)>>
         \/ AtEmplace
         \/ /\ AtAssign /\ called.op = "assign_value" /\ x \in alive /\ ~engaged[x]
            /\ \E h \in {"copy", "move"} : step.trait = Constructs(h) /\ (h = called.how \/ CopiesIntoBox)
  BY MakePlace, CallType DEF DoMake, IInv
<1>2. TypeInv /\ todo # <<>>
  BY DEF DoMake, Doing, IInv
<1>3. CASE Throw /\ UNCHANGED item
  <2>1. threw' /\ Contents' = Contents
    BY <1>3, Found DEF Throw, Contents
  <2>2. CASE AtConstructor /\ called.op = "in_place"
    BY <1>2, <2>1, <2>2, Failings DEF AtConstructor, Started, Answered
  <2>3. CASE AtEmplace
    BY <1>2, <2>1, <2>3, Failings DEF AtEmplace, Answered
  <2>4. CASE /\ AtAssign /\ called.op = "assign_value" /\ x \in alive /\ ~engaged[x]
             /\ \E h \in {"copy", "move"} : step.trait = Constructs(h) /\ (h = called.how \/ CopiesIntoBox)
    <3>1. Contents = before /\ before[x] = Empty
      BY <1>1, <2>4, Found DEF AtAssign, Started
    <3>2. called.how = "copy" \/ MayMove
      BY <1>3, <2>4, Copying
    <3>3. QED
      BY <1>1, <1>2, <2>1, <2>4, <3>1, <3>2, Failings DEF Answered
  <2>5. QED
    BY <1>1, <2>2, <2>3, <2>4
<1>4. CASE /\ Continue /\ item' = [item EXCEPT ![x] = called.o]
           /\ engaged' = [engaged EXCEPT ![x] = TRUE] /\ UNCHANGED alive
  <2>1. ~threw' /\ x \in alive /\ called.op \in {"emplace", "assign_value"}
    BY <1>1, <1>4, Going, <1>2 DEF AtEmplace
  <2>2. /\ \A z \in Opts \ {x} : Contents[z] = before[z]
        /\ before = [z \in Opts |-> before[z]]
    BY <1>1, <1>2, <1>4, Going DEF AtEmplace, AtAssign, Started, TypeInv
  <2>3. /\ \A z \in Opts \ {x} : Contents'[z] = Contents[z]
        /\ Contents'[x] = called.o
    BY <1>1, <1>2, <1>4, <2>1, Found DEF TypeInv
  <2>4. Contents' = [before EXCEPT ![x] = called.o]
    BY <1>1, <2>2, <2>3, Found
  <2>5. QED
    BY <1>2, <2>1, <2>4, Successes DEF Put, Answered
<1>5. QED
  BY <1>1, <1>3, <1>4 DEF DoMake

LEMMA BuildAnswer ==
  ASSUME IInv, DoBuild, todo' = <<>>
  PROVE  Answered
<1> SUFFICES ASSUME NEW to, NEW from, NEW x, NEW y, NEW how,
                    to = step.to, from = step.from, x = called.x, y = called.y, how = called.how
             PROVE  Answered
  OBVIOUS
<1> DEFINE used == Used(item, from, step.how)
<1>1. /\ ~threw /\ Started /\ from \in alive /\ engaged[from] /\ from # to /\ to \in Opts
      /\ step.trait = Constructs(step.how)
      /\ \/ /\ called.op = "construct" /\ to = x /\ from = y /\ step.how = how
            /\ x \notin alive /\ Tail(todo) = <<Born(x)>>
         \/ /\ called.op = "assign" /\ to = x /\ from = y /\ step.how = how
            /\ x \in alive /\ ~engaged[x] /\ Tail(todo) = <<>>
         \/ /\ called.op = "swap" /\ {to, from} = {x, y} /\ step.how = "move"
            /\ {x, y} \subseteq alive \ Boxes /\ ~engaged[to] /\ Tail(todo) = <<Reset(from)>>
  BY BuildPlace DEF DoBuild
<1>2. /\ from \in Opts /\ item[from] \in Objects /\ item[from] # Raw
      /\ before[from] = item[from] /\ Contents = before
  BY <1>1, Found DEF IInv, TypeInv, Started, AgreeOff, Agrees
<1>3. /\ used \in [Opts -> Objects \cup {Raw}] /\ used[from] # Raw
      /\ used[from] = IF step.how = "move" THEN MovedOf(item[from]) ELSE item[from]
      /\ \A z \in Opts \ {from} : used[z] = item[z]
  BY <1>2, UsedType DEF IInv
<1> HIDE DEF used
<1>4. TypeInv /\ todo # <<>> /\ before = [z \in Opts |-> before[z]] /\ x \in Opts /\ y \in Opts
  BY CallType DEF DoBuild, Doing, IInv, TypeInv
<1>5. CASE Throw /\ item' \in {item, used}
  <2>1. threw' /\ UNCHANGED <<alive, engaged>> /\ step.trait \notin NoThrow
    BY <1>5 DEF Throw
  <2>2. /\ \A z \in Opts \ {from} : Contents'[z] = before[z]
        /\ Contents'[from] \in {before[from], used[from]}
    BY <1>1, <1>2, <1>3, <1>5, <2>1, Found
  <2>3. CASE called.op = "construct"
    <3>1. Contents' = [before EXCEPT ![y] = Contents'[y]]
      BY <1>1, <1>2, <1>4, <2>2, <2>3, Found
    <3>2. Contents'[y] \in IF how = "move" THEN {before[y], MovedOf(before[y])} ELSE {before[y]}
      BY <1>1, <1>2, <1>3, <2>2, <2>3
    <3>3. how = "copy" \/ MayMove
      BY <1>1, <2>1, <2>3, Throwing
    <3>4. \A p \in IF how = "move" THEN {before[y], MovedOf(before[y])} ELSE {before[y]} :
            [before EXCEPT ![y] = p] \in Contract!Failures
      BY <1>4, <2>3, <3>3, Failings
    <3>5. QED
      BY <2>1, <3>1, <3>2, <3>4 DEF Answered
  <2>4. CASE called.op = "assign"
    <3>1. Contents' = [before EXCEPT ![y] = Contents'[y], ![x] = Empty] /\ before[x] = Empty
      BY <1>1, <1>2, <1>4, <2>2, <2>4, Found
    <3>2. Contents'[y] \in IF how = "move" THEN {before[y], MovedOf(before[y])} ELSE {before[y]}
      BY <1>1, <1>2, <1>3, <2>2, <2>4
    <3>3. how = "copy" \/ MayMove
      BY <1>1, <2>1, <2>4, Throwing
    <3>4. \A p \in IF how = "move" THEN {before[y], MovedOf(before[y])} ELSE {before[y]} :
            [before EXCEPT ![y] = p, ![x] = Empty] \in Contract!Failures
      <4>1. before[y] \in Objects
        BY <1>1, <1>2, <2>4
      <4>2. QED
        BY <1>4, <2>4, <3>1, <3>3, <4>1, Failings
    <3>5. QED
      BY <2>1, <3>1, <3>2, <3>4 DEF Answered
  <2>5. CASE called.op = "swap"
    <3>1. MayMove /\ before[to] = Empty
      BY <1>1, <1>2, <2>1, <2>5, Found, Throwing
    <3>2. Contents'[from] \in {before[from], MovedOf(before[from])}
      BY <1>1, <1>2, <1>3, <2>2, <2>5
    <3>3. CASE to = x /\ from = y
      <4>1. Contents' = [before EXCEPT ![x] = Empty, ![y] = Contents'[y]]
        BY <1>1, <1>2, <1>4, <2>2, <3>1, <3>3, Found
      <4>2. \A p \in {before[y], MovedOf(before[y])} :
              [before EXCEPT ![x] = Empty, ![y] = p] \in Contract!Failures
        BY <1>2, <1>4, <2>5, <3>1, <3>3, Failings
      <4>3. QED
        BY <2>1, <3>2, <3>3, <4>1, <4>2 DEF Answered
    <3>4. CASE to = y /\ from = x
      <4>1. Contents' = [before EXCEPT ![x] = Contents'[x], ![y] = Empty]
        BY <1>1, <1>2, <1>4, <2>2, <3>1, <3>4, Found
      <4>2. \A p \in {before[x], MovedOf(before[x])} :
              [before EXCEPT ![x] = p, ![y] = Empty] \in Contract!Failures
        BY <1>2, <1>4, <2>5, <3>1, <3>4, Failings
      <4>3. QED
        BY <2>1, <3>2, <3>4, <4>1, <4>2 DEF Answered
    <3>5. QED
      BY <1>1, <2>5, <3>3, <3>4
  <2>6. QED
    BY <1>1, <2>3, <2>4, <2>5
<1>6. CASE /\ Continue /\ item' = [used EXCEPT ![to] = item[from]]
           /\ engaged' = [engaged EXCEPT ![to] = TRUE] /\ UNCHANGED alive
  <2>1. ~threw' /\ called.op = "assign" /\ to = x /\ from = y /\ step.how = how /\ x \in alive
    BY <1>1, <1>4, <1>6, Going
  <2>2. /\ \A z \in Opts \ {x, y} : Contents'[z] = before[z]
        /\ Contents'[x] = before[y] /\ Contents'[y] = used[y]
    BY <1>1, <1>2, <1>3, <1>4, <1>6, <2>1, Found DEF TypeInv
  <2>3. Contents' = Taken
    <3>1. used[y] = IF called.how = "move" THEN MovedOf(before[y]) ELSE before[y]
      BY <1>2, <1>3, <2>1
    <3>2. Taken = [before EXCEPT ![x] = before[y], ![y] = used[y]]
      BY <3>1 DEF Taken
    <3>3. QED
      BY <1>1, <1>2, <1>4, <2>1, <2>2, <3>2, Found
  <2>4. QED
    BY <1>4, <2>1, <2>3, Successes DEF Answered
<1>7. QED
  BY <1>1, <1>5, <1>6 DEF DoBuild, used

(* What is found after a step that changes the values of objects.          *)
LEMMA Revalued ==
  ASSUME TypeInv, Contents = before, UNCHANGED <<alive, engaged>>,
         NEW x \in alive, NEW y \in alive, engaged[x], engaged[y],
         \A z \in Opts \ {x, y} : item'[z] = item[z]
  PROVE  Contents' = [before EXCEPT ![y] = item'[y], ![x] = item'[x]]
<1>1. /\ x \in Opts /\ y \in Opts /\ before = [z \in Opts |-> before[z]]
      /\ Contents'[x] = item'[x] /\ Contents'[y] = item'[y]
      /\ Contents' = [z \in Opts |-> Contents'[z]]
  BY Found DEF TypeInv
<1>2. \A z \in Opts \ {x, y} : Contents'[z] = before[z]
  BY Found
<1>3. QED
  BY <1>1, <1>2

LEMMA SetAnswer ==
  ASSUME IInv, DoSet, todo' = <<>>, ~terminated'
  PROVE  Answered
<1> SUFFICES ASSUME NEW x, NEW how, x = called.x, how = called.how PROVE Answered
  OBVIOUS
<1>1. /\ Started /\ called.op = "assign_value" /\ x \in Opts /\ x \in alive /\ engaged[x]
      /\ step.to = x /\ step.object = called.o /\ called.o \in Objects
      /\ \E h \in {"copy", "move"} : step.trait = Assigns(h) /\ (h = how \/ CopiesIntoBox)
  BY SetPlace, CallType DEF DoSet, IInv
<1>2. /\ ~threw /\ item \in [Opts -> Objects \cup {Raw}] /\ item[x] \in Objects
      /\ TypeInv /\ todo # <<>> /\ before = [z \in Opts |-> before[z]]
  BY <1>1, SetPlace DEF Started, AgreeOff, Agrees, IInv, TypeInv, DoSet, Doing
<1>3. Contents = before /\ before[x] = item[x]
  BY <1>1, Found DEF Started
<1>4. CASE Throw /\ item' \in {item, [item EXCEPT ![x].val = Unspecified]}
  <2>1. threw' /\ UNCHANGED <<alive, engaged>> /\ step.trait \notin NoThrow
    BY <1>4 DEF Throw
  <2>2. /\ \A z \in Opts \ {x} : item'[z] = item[z]
        /\ item'[x] \in {item[x], MovedOf(item[x])}
    BY <1>1, <1>2, <1>4, LostType
  <2>3. Contents' = [before EXCEPT ![x] = item'[x]]
    BY <1>1, <1>2, <1>3, <2>1, <2>2, Found
  <2>4. how = "copy" \/ MayMove
    BY <1>1, <1>4, Copying
  <2>5. \A p \in {before[x], MovedOf(before[x])} : [before EXCEPT ![x] = p] \in Contract!Failures
    BY <1>1, <1>2, <1>3, <2>4, Failings
  <2>6. QED
    BY <1>3, <2>1, <2>2, <2>3, <2>5 DEF Answered
<1>5. CASE Continue /\ item' = [item EXCEPT ![x] = step.object] /\ UNCHANGED <<alive, engaged>>
  <2>1. ~threw' /\ item'[x] = called.o /\ \A z \in Opts \ {x} : item'[z] = item[z]
    BY <1>1, <1>2, <1>5, Going
  <2>2. Contents' = [before EXCEPT ![x] = called.o]
    BY <1>1, <1>2, <1>3, <1>5, <2>1, Revalued
  <2>3. QED
    BY <1>1, <1>2, <2>1, <2>2, Successes DEF Put, Answered
<1>6. QED
  BY <1>1, <1>4, <1>5 DEF DoSet

LEMMA SetFromAnswer ==
  ASSUME IInv, DoSetFrom, todo' = <<>>
  PROVE  Answered
<1> SUFFICES ASSUME NEW x, NEW y, NEW how, x = called.x, y = called.y, how = called.how
             PROVE  Answered
  OBVIOUS
<1> DEFINE used == Used(item, y, how)
<1>1. /\ Started /\ called.op = "assign" /\ x \in Opts /\ y \in Opts /\ {x, y} \subseteq alive
      /\ engaged[x] /\ engaged[y]
      /\ step.to = x /\ step.from = y /\ step.how = how /\ step.trait = Assigns(how)
  BY SetFromPlace, CallType DEF DoSetFrom, IInv
<1>2. /\ ~threw /\ item \in [Opts -> Objects \cup {Raw}] /\ item[x] \in Objects /\ item[y] \in Objects
      /\ TypeInv /\ todo # <<>> /\ before = [z \in Opts |-> before[z]]
  BY <1>1, SetFromPlace DEF Started, AgreeOff, Agrees, IInv, TypeInv, DoSetFrom, Doing
<1>3. Contents = before /\ before[x] = item[x] /\ before[y] = item[y]
  BY <1>1, Found DEF Started
<1>4. /\ used \in [Opts -> Objects \cup {Raw}] /\ used[y] # Raw
      /\ used[y] = IF how = "move" THEN MovedOf(item[y]) ELSE item[y]
      /\ \A z \in Opts \ {y} : used[z] = item[z]
  BY <1>1, <1>2, UsedType, OptionalAssumption
<1> HIDE DEF used
<1>5. used[x] \in Objects
  BY <1>1, <1>2, <1>4
<1>6. CASE Throw /\ item' \in {item, used, [used EXCEPT ![x].val = Unspecified]}
  <2>1. threw' /\ UNCHANGED <<alive, engaged>> /\ step.trait \notin NoThrow
    BY <1>6 DEF Throw
  <2>2. how = "copy" \/ MayMove
    BY <1>1, <2>1, Throwing
  <2>3. \A p \in IF how = "move" THEN {before[y], MovedOf(before[y])} ELSE {before[y]},
           q \in {before[x], MovedOf(before[x])} :
          [before EXCEPT ![y] = p, ![x] = q] \in Contract!Failures
    BY <1>1, <1>2, <1>3, <2>2, Failings
  <2>4. PICK p \in IF how = "move" THEN {before[y], MovedOf(before[y])} ELSE {before[y]},
             q \in {before[x], MovedOf(before[x])} :
          /\ item'[x] = q /\ (x # y => item'[y] = p)
          /\ \A z \in Opts \ {x, y} : item'[z] = item[z]
    <3>1. CASE item' = item
      BY <1>1, <1>2, <1>3, <3>1
    <3>2. CASE item' = used
      BY <1>1, <1>2, <1>3, <1>4, <3>2
    <3>3. CASE item' = [used EXCEPT ![x].val = Unspecified]
      <4>1. /\ \A z \in Opts \ {x} : item'[z] = used[z]
            /\ item'[x] = MovedOf(used[x])
        BY <1>1, <1>4, <1>5, <3>3, LostType
      <4>2. MovedOf(MovedOf(item[x])) = MovedOf(item[x])
        BY <1>2 DEF MovedOf, Objects
      <4>3. used[x] \in {item[x], MovedOf(item[x])}
        BY <1>1, <1>4
      <4>4. item'[x] = MovedOf(before[x])
        BY <1>3, <4>1, <4>2, <4>3
      <4>5. QED
        BY <1>1, <1>3, <1>4, <4>1, <4>4
    <3>4. QED
      BY <1>6, <3>1, <3>2, <3>3
  <2>5. Contents' = [before EXCEPT ![y] = p, ![x] = q]
    <3>1. Contents' = [before EXCEPT ![y] = item'[y], ![x] = item'[x]]
      BY <1>1, <1>2, <1>3, <2>1, <2>4, Revalued
    <3>2. QED
      BY <1>1, <1>2, <2>4, <3>1
  <2>6. QED
    BY <2>1, <2>3, <2>5 DEF Answered
<1>7. CASE /\ Continue /\ UNCHANGED <<alive, engaged>>
           /\ item' = IF x = y THEN used ELSE [used EXCEPT ![x] = item[y]]
  <2>1. /\ x # y => item'[x] = before[y]
        /\ item'[y] = IF called.how = "move" THEN MovedOf(before[y]) ELSE before[y]
        /\ \A z \in Opts \ {x, y} : item'[z] = item[z]
    BY <1>1, <1>2, <1>3, <1>4, <1>7
  <2>2. Contents' = Taken
    <3>1. Contents' = [before EXCEPT ![y] = item'[y], ![x] = item'[x]]
      BY <1>1, <1>2, <1>3, <1>7, <2>1, Revalued
    <3>2. Taken = [before EXCEPT ![x] = before[y], ![y] = item'[y]]
      BY <2>1 DEF Taken
    <3>3. QED
      BY <1>1, <1>2, <2>1, <3>1, <3>2, ZenonT(40)
  <2>3. QED
    BY <1>1, <1>2, <1>7, <2>2, Successes, Going DEF Answered
<1>8. QED
  BY <1>1, <1>6, <1>7 DEF DoSetFrom, used

LEMMA SwapAnswer ==
  ASSUME IInv, DoSwapItems, todo' = <<>>
  PROVE  Answered
<1> SUFFICES ASSUME NEW x, NEW y, x = called.x, y = called.y PROVE Answered
  OBVIOUS
<1>1. /\ Started /\ called.op = "swap" /\ x \in Opts /\ y \in Opts /\ {x, y} \subseteq alive
      /\ engaged[x] /\ engaged[y] /\ step.to = x /\ step.from = y /\ step.trait = "swap"
  BY SwapPlace, CallType DEF DoSwapItems, IInv
<1>2. /\ ~threw /\ item \in [Opts -> Objects \cup {Raw}] /\ item[x] \in Objects /\ item[y] \in Objects
      /\ TypeInv /\ todo # <<>> /\ before = [z \in Opts |-> before[z]]
  BY <1>1, SwapPlace DEF Started, AgreeOff, Agrees, IInv, TypeInv, DoSwapItems, Doing
<1>3. Contents = before /\ before[x] = item[x] /\ before[y] = item[y]
  BY <1>1, Found DEF Started
<1>4. CASE /\ Throw
           /\ item' \in {item, [item EXCEPT ![x].val = Unspecified, ![y].val = Unspecified]}
  <2>1. threw' /\ UNCHANGED <<alive, engaged>> /\ step.trait \notin NoThrow
    BY <1>4 DEF Throw
  <2>2. /\ [before EXCEPT ![x] = before[x], ![y] = before[y]] \in Contract!Failures
        /\ [before EXCEPT ![x] = MovedOf(before[x]), ![y] = MovedOf(before[y])] \in Contract!Failures
    BY <1>1, <1>2, <1>3, <2>1, Throwing, Failings
  <2>3. CASE item' = item
    <3>1. Contents' = [before EXCEPT ![x] = before[x], ![y] = before[y]]
      BY <1>1, <1>2, <1>3, <2>1, <2>3, Found
    <3>2. QED
      BY <2>1, <2>2, <3>1 DEF Answered
  <2>4. CASE item' = [item EXCEPT ![x].val = Unspecified, ![y].val = Unspecified]
    <3>1. /\ item'[x] = MovedOf(item[x]) /\ item'[y] = MovedOf(item[y])
          /\ \A z \in Opts \ {x, y} : item'[z] = item[z]
      BY <1>1, <1>2, <2>4 DEF MovedOf, Objects
    <3>2. Contents' = [before EXCEPT ![x] = MovedOf(before[x]), ![y] = MovedOf(before[y])]
      BY <1>1, <1>2, <1>3, <2>1, <3>1, Found
    <3>3. QED
      BY <2>1, <2>2, <3>2 DEF Answered
  <2>5. QED
    BY <1>4, <2>3, <2>4
<1>5. CASE /\ Continue /\ item' = [item EXCEPT ![x] = item[y], ![y] = item[x]]
           /\ UNCHANGED <<alive, engaged>>
  <2>1. /\ ~threw' /\ item'[x] = before[y] /\ item'[y] = before[x]
        /\ \A z \in Opts \ {x, y} : item'[z] = item[z]
    BY <1>1, <1>2, <1>3, <1>5, Going
  <2>2. Contents' = [before EXCEPT ![y] = item'[y], ![x] = item'[x]]
    BY <1>1, <1>2, <1>3, <1>5, <2>1, Revalued
  <2>3. Contents' = [before EXCEPT ![x] = before[y], ![y] = before[x]]
    BY <1>1, <1>2, <2>1, <2>2
  <2>4. QED
    BY <1>1, <1>2, <2>1, <2>3, Successes DEF Answered
<1>6. QED
  BY <1>1, <1>4, <1>5 DEF DoSwapItems

LEMMA PassAnswer ==
  ASSUME IInv, DoPass
  PROVE  Answered
<1> SUFFICES ASSUME NEW x, NEW y, x = called.x, y = called.y PROVE Answered
  OBVIOUS
<1>1. /\ ~threw /\ Started /\ called.op = "swap" /\ {x, y} \subseteq alive
      /\ ~engaged[x] /\ ~engaged[y] /\ x \in Opts /\ y \in Opts
      /\ TypeInv /\ todo # <<>> /\ before = [z \in Opts |-> before[z]]
  BY PassPlace, CallType DEF DoPass, Doing, IInv, TypeInv
<1>2. Contents = before /\ before[x] = Empty /\ before[y] = Empty
  BY <1>1, Found DEF Started
<1>3. Contents' = before /\ ~threw'
  BY <1>1, <1>2, Going DEF DoPass, Contents
<1>4. before = [before EXCEPT ![x] = before[y], ![y] = before[x]]
  BY <1>1, <1>2
<1>5. QED
  BY <1>1, <1>3, <1>4, Successes DEF Answered

LEMMA BornAnswer ==
  ASSUME IInv, DoBorn
  PROVE  Answered
<1> SUFFICES ASSUME NEW x, x = called.x PROVE Answered
  OBVIOUS
<1>1. ~threw /\ AtBorn /\ x \in Opts /\ TypeInv /\ todo # <<>>
  BY Nexts, CallType DEF IInv, Place, DoBorn, Doing, Idle
<1>2. UNCHANGED <<item, engaged>> /\ alive' = alive \cup {x} /\ ~threw'
  BY <1>1, Nexts, Going DEF DoBorn
<1>3. Contents' = [Contents EXCEPT ![x] = Held(x)]
  BY <1>1, <1>2 DEF Contents, Held
<1>4. QED
  BY <1>1, <1>2, <1>3, Successes DEF AtBorn, Answered

LEMMA DropAnswer ==
  ASSUME IInv, DoDrop
  PROVE  Answered
<1> SUFFICES ASSUME NEW x, x = called.x PROVE Answered
  OBVIOUS
<1>1. ~threw /\ AtDrop /\ x \in Opts /\ TypeInv /\ todo # <<>>
  BY Nexts, CallType DEF IInv, Place, DoDrop, Doing, Idle
<1>2. /\ UNCHANGED engaged /\ alive' = alive \ {x} /\ ~threw'
      /\ \A z \in Opts \ {x} : item'[z] = item[z]
      /\ Contents = before /\ called.op = "destroy"
  <2>1. step.to = x /\ Contents = before /\ called.op = "destroy"
    BY <1>1, Nexts DEF AtDrop, Started
  <2>2. ~threw'
    BY <1>1, Going DEF DoDrop
  <2>3. QED
    BY <1>1, <2>1, <2>2 DEF DoDrop, TypeInv
<1>3. Contents' = [before EXCEPT ![x] = Absent]
  BY <1>1, <1>2 DEF Contents, TypeInv
<1>4. QED
  BY <1>1, <1>2, <1>3, Successes DEF Answered

LEMMA ResetAnswer ==
  ASSUME IInv, DoReset, todo' = <<>>
  PROVE  Answered
<1> SUFFICES ASSUME NEW x, NEW y, NEW z, x = called.x, y = called.y, z = step.to PROVE Answered
  OBVIOUS
<1>1. /\ ~threw /\ z \in alive /\ z \in Opts /\ x \in Opts /\ y \in Opts
      /\ TypeInv /\ todo # <<>> /\ before = [u \in Opts |-> before[u]]
  BY ResetPlace, CallType DEF DoReset, Doing, IInv, TypeInv
<1>2. /\ UNCHANGED <<alive, called, before>> /\ ~threw' /\ Tail(todo) = <<>>
      /\ engaged' = [engaged EXCEPT ![z] = FALSE]
      /\ item' = IF engaged[z] THEN [item EXCEPT ![z] = Raw] ELSE item
  BY <1>1, Going DEF DoReset
<1>3. /\ \A u \in Opts \ {z} : Contents'[u] = Contents[u]
      /\ Contents'[z] = Empty
  BY <1>1, <1>2, Found DEF TypeInv
<1>4. CASE Started /\ z = x /\ called.op = "reset" /\ called.o = Empty
  <2>1. Contents' = [before EXCEPT ![x] = Empty]
    BY <1>1, <1>3, <1>4, Found DEF Started
  <2>2. QED
    BY <1>1, <1>2, <1>4, <2>1, Successes DEF Put, Answered
<1>5. CASE Started /\ z = x /\ called.op = "assign" /\ y \in alive /\ ~engaged[y]
  <2>1. Contents = before /\ before[y] = Empty /\ MovedOf(before[y]) = Empty
    BY <1>1, <1>5, Found, OptionalAssumption DEF Started, MovedOf
  <2>2. Taken = [before EXCEPT ![x] = Empty, ![y] = Empty]
    BY <2>1 DEF Taken
  <2>3. Contents' = Taken
    BY <1>1, <1>3, <1>5, <2>1, <2>2, Found
  <2>4. QED
    BY <1>1, <1>2, <1>5, <2>3, Successes DEF Answered
<1>6. CASE /\ called.op = "swap"
           /\ \E u \in {x, y} :
                /\ {u, z} = {x, y} /\ u # z /\ before[u] = Empty
                /\ Contents = [before EXCEPT ![u] = before[z], ![z] = MovedOf(before[z])]
  <2>1. PICK u \in {x, y} :
          /\ {u, z} = {x, y} /\ u # z /\ before[u] = Empty
          /\ Contents = [before EXCEPT ![u] = before[z], ![z] = MovedOf(before[z])]
    BY <1>6
  <2>2. /\ Contents'[u] = before[z] /\ Contents'[z] = before[u]
        /\ \A v \in Opts \ {u, z} : Contents'[v] = before[v]
    BY <1>1, <1>3, <2>1
  <2>3. Contents' = [before EXCEPT ![x] = before[y], ![y] = before[x]]
    BY <1>1, <2>1, <2>2, Found
  <2>4. QED
    BY <1>1, <1>2, <1>6, <2>3, Successes DEF Answered
<1>7. ~\E t : Tail(todo) = <<Make(x, called.o, t)>>
  BY <1>2
<1>8. QED
  BY <1>1, <1>4, <1>5, <1>6, <1>7, ResetPlace DEF DoReset

LEMMA Answers ==
  ASSUME IInv, Running, todo' = <<>>, ~terminated'
  PROVE  Answered
  BY BeginsMore, MakeAnswer, BuildAnswer, SetAnswer, SetFromAnswer, SwapAnswer, ResetAnswer,
     BornAnswer, DropAnswer, PassAnswer DEF Running

(* The state of the contract.                                              *)
status == IF todo # <<>> \/ terminated THEN "pending" ELSE IF threw THEN "threw" ELSE "returned"
content == IF todo = <<>> /\ ~terminated THEN Contents ELSE before
contract == <<MayMove, content, called, status>>

LEMMA InitImplements == Init => Contract!Init
<1> SUFFICES ASSUME Init PROVE Contract!Init
  OBVIOUS
<1>1. called \in Requests
  BY InitInv DEF IInv, TypeInv
<1>2. Contents = [x \in Opts |-> Absent] /\ todo = <<>> /\ ~threw /\ ~terminated
  BY DEF Init, Contents
<1>3. QED
  BY <1>1, <1>2 DEF Contract!Init

LEMMA StepImplements ==
  ASSUME IInv, [Next]_vars
  PROVE  Contract!Next \/ UNCHANGED contract
<1>1. CASE Client
  <2>1. todo = <<>> /\ ~terminated /\ todo' # <<>> /\ before' = Contents /\ UNCHANGED template
    BY <1>1, ClientCalls
  <2>2. called' \in Requests
    BY <1>1, ClientInv DEF IInv, TypeInv
  <2>3. UNCHANGED <<MayMove, content>>
    BY <2>1 DEF MayMove, NoThrow, content
  <2>4. QED
    BY <2>1, <2>2, <2>3 DEF Contract!Next, Contract!Ask, MayMove, Movings, content
<1>2. CASE Running
  <2>1. todo # <<>> /\ UNCHANGED <<template, called, before>>
    BY <1>2 DEF Running, DoBegin, DoMake, DoBuild, DoSet, DoSetFrom, DoSwapItems, DoReset, DoBorn,
       DoDrop, DoPass, Doing, Continue, Throw
  <2>2. UNCHANGED MayMove
    BY <2>1 DEF MayMove, NoThrow
  <2>3. CASE todo' # <<>> \/ terminated'
    BY <2>1, <2>2, <2>3 DEF contract, content, status
  <2>4. CASE todo' = <<>> /\ ~terminated'
    <3>1. Answered
      BY <1>2, <2>4, Answers
    <3>2. QED
      BY <2>1, <2>2, <2>4, <3>1 DEF Answered, Contract!Next, Contract!Reply, MayMove, Movings
  <2>5. QED
    BY <2>3, <2>4
<1>3. CASE UNCHANGED vars
  BY <1>3 DEF vars, contract, content, status, MayMove, NoThrow, Contents
<1>4. QED
  BY <1>1, <1>2, <1>3 DEF Next, Terminated

(* After every operation, and every exception that reaches them, clients   *)
(* find what the contract of HolderContract says, whatever T promises:     *)
(* where the assignment of a box copies although moves do not throw, an    *)
(* exception ends the program instead.                                     *)
THEOREM Implementation == Spec => ValueSemantics
<1>1. IInv /\ [Next]_vars =>
        [Contract!Next]_<<~({"move_construct", "move_assign", "swap"} \subseteq NoThrow),
                          IF todo = <<>> /\ ~terminated THEN Contents ELSE before, called,
                          IF todo # <<>> \/ terminated THEN "pending"
                          ELSE IF threw THEN "threw" ELSE "returned">>
  BY StepImplements DEF contract, MayMove, Movings, content, status
<1>2. QED
  BY <1>1, InitImplements, Invariance, PTL DEF Spec, ValueSemantics, Contract!Spec
=============================================================================
