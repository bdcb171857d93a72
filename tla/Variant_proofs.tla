--------------------------- MODULE Variant_proofs ----------------------------
(***************************************************************************)
(* That the index of a variant tells what its storage holds, that objects  *)
(* are destroyed and constructed in turn, that noexcept clauses are true   *)
(* and that variants implement HolderContract, whichever constructor or    *)
(* assignment throws; for any number of variants, of alternatives and of   *)
(* values.                                                                 *)
(***************************************************************************)
EXTENDS Variant, TLAPS

(* The contract of the call in progress, or of the last one, applied to    *)
(* what the variants held when it began.                                   *)
Asked ==
  INSTANCE HolderContract
    WITH MoveThrows <- ~Noexcept(Moves), content <- before, request <- called,
         status <- "pending"

(* What a slot holds, be it alive or not, and what all of them hold.       *)
Inside(z) == IF valid(z) THEN storage[z] ELSE Invalid
View == [z \in Slots |-> IF z \in alive THEN Inside(z) ELSE Absent]

(* Where the call began.                                                   *)
Origin == [z \in Slots |-> IF z = tmp THEN Absent ELSE before[z]]

(* An object whose value has been moved away.                              *)
MovedOf(o) == IF o \in Objects THEN [o EXCEPT !.val = Unspecified] ELSE o

(* Index and storage agree, and no guard is about to change the index.     *)
Agrees(z) == storage[z] # Raw /\ storage[z].alt = index[z]
Sound(z) ==
  /\ guard[z] = NoGuard
  /\ IF z \in alive /\ valid(z) THEN Agrees(z) ELSE storage[z] = Raw
SoundOff(S) == \A z \in Slots \ S : Sound(z)

Seen(E)       == SoundOff({}) /\ View = E
SeenOff(x, E) == SoundOff({x}) /\ \A z \in Slots \ {x} : View[z] = E[z]

Kind(o) == IF o \in Objects THEN o.alt ELSE invalid_index

-----------------------------------------------------------------------------
(* Copying or moving the object of one slot to another, wherever in a call *)
(* it is done: what the slots hold when it starts, `seen', and the steps   *)
(* that come after it, `rest'.                                             *)
Job(x, y, how, rest, seen) ==
  [to |-> x, from |-> y, how |-> how, rest |-> rest, seen |-> seen]

Constructing == Job(called.x, called.y, called.how, <<Born(called.x)>>, Origin)
MoveAssigning == Job(called.x, called.y, "move", <<>>, Origin)

(* The two of a copy assignment between alternatives.                      *)
Copying ==
  Job(tmp, called.y, "copy",
      <<Born(tmp), Clear(called.x), Transfer(called.x, tmp, "move"), Drop(tmp)>>, Origin)
Committing ==
  Job(called.x, tmp, "move", <<Drop(tmp)>>, [Origin EXCEPT ![tmp] = before[called.y]])

(* The three of a swap between alternatives.                               *)
Saving ==
  Job(tmp, called.x, "move",
      <<Born(tmp), Assign(called.x, called.y, "move"), Assign(called.y, tmp, "move"), Drop(tmp)>>,
      Origin)
Replacing ==
  Job(called.x, called.y, "move", <<Assign(called.y, tmp, "move"), Drop(tmp)>>,
      [Origin EXCEPT ![called.x] = MovedOf(before[called.x]), ![tmp] = before[called.x]])
Restoring ==
  Job(called.y, tmp, "move", <<Drop(tmp)>>,
      [Origin EXCEPT ![called.x] = before[called.y], ![called.y] = MovedOf(before[called.y]),
                     ![tmp] = before[called.x]])

(* Both operands are alive and hold different alternatives, or only one of *)
(* them holds any.                                                         *)
Differ ==
  /\ before[called.x] # Absent /\ before[called.y] # Absent
  /\ Kind(before[called.x]) # Kind(before[called.y])

IsJob(c) ==
  \/ /\ called.op = "construct" /\ called.how \in {"copy", "move"}
     /\ before[called.x] = Absent /\ before[called.y] # Absent
     /\ c = Constructing
  \/ called.op = "assign" /\ called.how = "move" /\ Differ /\ c = MoveAssigning
  \/ called.op = "assign" /\ called.how = "copy" /\ Differ /\ c \in {Copying, Committing}
  \/ called.op = "swap" /\ Differ /\ c \in {Saving, Replacing, Restoring}

Jobs == {c \in {Constructing, MoveAssigning, Copying, Committing, Saving, Replacing, Restoring} :
           IsJob(c)}

(* What the slots hold when it is done.                                    *)
After(c) ==
  [c.seen EXCEPT ![c.from] = IF c.how = "move" THEN MovedOf(c.seen[c.from]) ELSE c.seen[c.from],
                 ![c.to] = c.seen[c.from]]

(* The target as the steps of a job find it.                               *)
Waiting(c) == SeenOff(c.to, c.seen) /\ (c.to \in alive <=> c.seen[c.to] # Absent)
Filled(c) ==
  /\ SeenOff(c.to, After(c)) /\ (c.to \in alive <=> c.seen[c.to] # Absent)
  /\ storage[c.to] = IF c.seen[c.from] \in Objects THEN c.seen[c.from] ELSE Raw

AtClear(c) ==
  /\ Seen(c.seen) /\ c.to \in alive
  /\ todo = <<Clear(c.to), Transfer(c.to, c.from, c.how)>> \o c.rest
AtTransfer(c) ==
  /\ Waiting(c) /\ guard[c.to] = NoGuard /\ storage[c.to] = Raw
  /\ todo = <<Transfer(c.to, c.from, c.how)>> \o c.rest
AtGuard(c) ==
  /\ Waiting(c) /\ guard[c.to] = NoGuard /\ storage[c.to] = Raw
  /\ todo = IF c.seen[c.from] \in Objects
            THEN <<Guard(c.to), Build(c.to, c.from, c.how), Unguard(c.to)>> \o c.rest
            ELSE <<Guard(c.to), Unguard(c.to)>> \o c.rest
AtBuild(c) ==
  /\ Waiting(c) /\ guard[c.to] = invalid_index /\ storage[c.to] = Raw
  /\ c.seen[c.from] \in Objects
  /\ todo = <<Build(c.to, c.from, c.how), Unguard(c.to)>> \o c.rest
AtUnguard(c) ==
  /\ Filled(c) /\ guard[c.to] = Kind(c.seen[c.from])
  /\ todo = <<Unguard(c.to)>> \o c.rest
AtBornTemporary(c) ==
  /\ Filled(c) /\ guard[c.to] = NoGuard /\ index[c.to] = Kind(c.seen[c.from])
  /\ c.to = tmp /\ todo = c.rest

AtJob ==
  \E c \in Jobs :
    AtClear(c) \/ AtTransfer(c) \/ AtGuard(c) \/ AtBuild(c) \/ AtUnguard(c) \/ AtBornTemporary(c)

-----------------------------------------------------------------------------
(* The other places where a call may be.                                   *)
AtSetIndex ==
  LET x == called.x  o == called.o IN
  /\ called.op = "in_place" /\ o \in Objects /\ x \notin alive /\ Seen(Origin)
  /\ todo = <<SetIndex(x, o.alt), Make(x, o, "new"), Born(x)>>
AtInPlace ==
  LET x == called.x  o == called.o IN
  /\ called.op = "in_place" /\ o \in Objects /\ x \notin alive /\ Seen(Origin)
  /\ index[x] = o.alt /\ todo = <<Make(x, o, "new"), Born(x)>>
AtBorn ==
  LET x == called.x IN
  /\ x \notin alive /\ tmp \notin alive /\ SoundOff({x}) /\ guard[x] = NoGuard
  /\ IF valid(x) THEN Agrees(x) ELSE storage[x] = Raw
  /\ [Contents EXCEPT ![x] = Inside(x)] = Asked!Success
  /\ todo = <<Born(x)>>
AtDestroy ==
  /\ called.op = "destroy" /\ called.x \in alive /\ Seen(Origin)
  /\ todo = <<Drop(called.x)>>
AtDrop ==
  /\ SoundOff({}) /\ tmp \in alive /\ Contents = Asked!Success
  /\ todo = <<Drop(tmp)>>

(* The assignment of a value that is not of the active alternative.        *)
Replaces ==
  /\ called.op = "assign_value" /\ called.how \in {"copy", "move"}
  /\ called.o.alt # Kind(before[called.x])
Emplaces(h) ==
  /\ called.o \in Objects /\ called.x \in alive
  /\ (called.op = "emplace" /\ h = "new") \/ (Replaces /\ h = "move")

AtCopyArgument ==
  LET x == called.x  o == called.o IN
  /\ o \in Objects /\ x \in alive /\ Replaces /\ called.how = "copy" /\ Seen(Origin)
  /\ todo = <<CopyArgument, Guard(x), Clear(x), Make(x, o, "move"), Unguard(x)>>
AtEmplace(h) ==
  LET x == called.x  o == called.o IN
  /\ Emplaces(h) /\ Seen(Origin)
  /\ todo = <<Guard(x), Clear(x), Make(x, o, h), Unguard(x)>>
AtEmplaceClear(h) ==
  LET x == called.x  o == called.o IN
  /\ Emplaces(h) /\ SeenOff(x, Origin)
  /\ guard[x] = invalid_index /\ (IF valid(x) THEN Agrees(x) ELSE storage[x] = Raw)
  /\ todo = <<Clear(x), Make(x, o, h), Unguard(x)>>
AtEmplaceMake(h) ==
  LET x == called.x  o == called.o IN
  /\ Emplaces(h) /\ SeenOff(x, Origin) /\ guard[x] = invalid_index /\ storage[x] = Raw
  /\ todo = <<Make(x, o, h), Unguard(x)>>
AtEmplaced ==
  LET x == called.x  o == called.o IN
  /\ Emplaces("new") \/ Emplaces("move")
  /\ SeenOff(x, Origin) /\ guard[x] = o.alt /\ storage[x] = o
  /\ todo = <<Unguard(x)>>

AtAssignAlt ==
  LET x == called.x  o == called.o IN
  /\ called.op = "assign_value" /\ called.how \in {"copy", "move"} /\ o \in Objects
  /\ x \in alive /\ index[x] = o.alt /\ Seen(Origin)
  /\ todo = <<AssignAlt(x, o.val, called.how)>>
AtAssignFrom ==
  LET x == called.x  y == called.y IN
  /\ called.op = "assign" /\ called.how \in {"copy", "move"}
  /\ {x, y} \subseteq alive /\ valid(x) /\ index[x] = index[y] /\ Seen(Origin)
  /\ todo = <<AssignFrom(x, y, called.how)>>
AtAssign ==
  LET x == called.x  y == called.y IN
  \/ /\ called.op = "assign" /\ called.how \in {"copy", "move"}
     /\ {x, y} \subseteq alive /\ Seen(Origin)
     /\ todo = <<Assign(x, y, called.how)>>
  \/ /\ called.op = "swap" /\ Differ /\ Seen(Replacing.seen)
     /\ todo = <<Assign(x, y, "move"), Assign(y, tmp, "move"), Drop(tmp)>>
  \/ /\ called.op = "swap" /\ Differ /\ Seen(Restoring.seen)
     /\ todo = <<Assign(y, tmp, "move"), Drop(tmp)>>
AtExchange ==
  LET x == called.x  y == called.y IN
  /\ called.op = "swap" /\ {x, y} \subseteq alive /\ Seen(Origin)
  /\ todo = <<Exchange(x, y)>>
AtSwapAlts ==
  LET x == called.x  y == called.y IN
  /\ called.op = "swap" /\ {x, y} \subseteq alive /\ Seen(Origin)
  /\ valid(x) /\ index[x] = index[y] /\ todo = <<SwapAlts(x, y)>>
AtVisit ==
  /\ called.op = "compare" /\ Seen(Origin) /\ todo = <<Visit(called.y)>>

Idle ==
  /\ SoundOff({}) /\ tmp \notin alive /\ Contents = Asked!Success
  /\ todo = <<>>

(* What the variants hold once the guards in scope are gone.               *)
Left ==
  [z \in Vars |-> IF z \notin alive THEN Absent
                  ELSE IF guard[z] # NoGuard THEN Invalid ELSE Inside(z)]

(* An assignment or a swap that must not leave a variant invalid.          *)
Preserving ==
  /\ called.op \in {"assign", "assign_value", "swap"} /\ Noexcept({"move_construct"})
  /\ \A z \in Vars : before[z] # Invalid

(* An exception is on its way, or has left the call.                       *)
AtUnwinding ==
  /\ todo = Unwinding
  /\ \A z \in Slots : IF guard[z] = NoGuard THEN Sound(z)
                      ELSE guard[z] = invalid_index /\ storage[z] = Raw
  /\ \A y, z \in Guarded : y = z
  /\ Left \in Asked!Failures
  /\ Preserving => \A z \in Vars : Left[z] # Invalid

Place ==
  \/ threw /\ AtUnwinding
  \/ /\ ~threw
     /\ \/ Idle \/ AtJob \/ AtSetIndex \/ AtInPlace \/ AtBorn \/ AtDestroy \/ AtDrop
        \/ AtCopyArgument
        \/ \E h \in {"new", "move"} : AtEmplace(h) \/ AtEmplaceClear(h) \/ AtEmplaceMake(h)
        \/ AtEmplaced \/ AtAssignAlt \/ AtAssignFrom \/ AtAssign \/ AtExchange \/ AtSwapAlts
        \/ AtVisit

IInv == TypeOK /\ Place

-----------------------------------------------------------------------------
(* Lists of steps.                                                         *)
LEMMA Lists ==
  ASSUME NEW S, NEW k \in Seq(S), NEW a, NEW b, NEW c
  PROVE  /\ Head(<<a>> \o k) = a /\ Tail(<<a>> \o k) = k /\ <<a>> \o k # <<>>
         /\ Head(<<a, b>> \o k) = a /\ Tail(<<a, b>> \o k) = <<b>> \o k /\ <<a, b>> \o k # <<>>
         /\ Head(<<a, b, c>> \o k) = a /\ Tail(<<a, b, c>> \o k) = <<b, c>> \o k
         /\ <<a, b, c>> \o k # <<>> /\ <<>> \o k = k
<1>1. Head(<<a>> \o k) = a /\ Tail(<<a>> \o k) = k /\ <<a>> \o k # <<>> /\ <<>> \o k = k
  OBVIOUS
<1>2. Head(<<a, b>> \o k) = a /\ Tail(<<a, b>> \o k) = <<b>> \o k /\ <<a, b>> \o k # <<>>
  OBVIOUS
<1>3. /\ Head(<<a, b, c>> \o k) = a /\ Tail(<<a, b, c>> \o k) = <<b, c>> \o k
      /\ <<a, b, c>> \o k # <<>>
  OBVIOUS
<1>4. QED
  BY <1>1, <1>2, <1>3

LEMMA Pairs ==
  ASSUME NEW a, NEW b
  PROVE  <<a>> \o <<b>> = <<a, b>>
<1> DEFINE s == <<a>> \o <<b>>
<1>1. Len(s) = 2 /\ s[1] = a /\ s[2] = b /\ s \in Seq({a, b})
  OBVIOUS
<1> HIDE DEF s
<1>2. s = <<a, b>>
  BY <1>1
<1>3. QED
  BY <1>2 DEF s

LEMMA Triples ==
  ASSUME NEW a, NEW b, NEW c
  PROVE  <<a, b>> \o <<c>> = <<a, b, c>>
<1> DEFINE s == <<a, b>> \o <<c>>
<1>1. Len(s) = 3 /\ s[1] = a /\ s[2] = b /\ s[3] = c /\ s \in Seq({a, b, c})
  OBVIOUS
<1> HIDE DEF s
<1>2. s = <<a, b, c>>
  BY <1>1
<1>3. QED
  BY <1>2 DEF s

LEMMA Quintuples ==
  ASSUME NEW a, NEW b, NEW c, NEW d, NEW e
  PROVE  <<a>> \o <<b, c, d, e>> = <<a, b, c, d, e>>
<1> DEFINE s == <<a>> \o <<b, c, d, e>>
<1>1. /\ Len(s) = 5 /\ s[1] = a /\ s[2] = b /\ s[3] = c /\ s[4] = d /\ s[5] = e
      /\ s \in Seq({a, b, c, d, e})
  OBVIOUS
<1> HIDE DEF s
<1>2. s = <<a, b, c, d, e>>
  BY <1>1
<1>3. QED
  BY <1>2 DEF s

LEMMA Tuples ==
  ASSUME NEW a, NEW b, NEW c, NEW d, NEW e
  PROVE  /\ <<a>> \o <<b>> = <<a, b>>
         /\ <<a>> \o <<b>> \o <<c>> = <<a, b, c>>
         /\ <<a>> \o <<>> \o <<c>> = <<a, c>>
         /\ <<a, b>> \o <<c>> = <<a, b, c>>
         /\ <<a>> \o <<b, c, d, e>> = <<a, b, c, d, e>>
         /\ <<a, b>> \o <<>> = <<a, b>>
         /\ <<a>> \o <<>> = <<a>>
         /\ <<a, b, c, d, e>> \o <<>> = <<a, b, c, d, e>>
<1>1. <<a>> \o <<b>> = <<a, b>> /\ <<a>> \o <<c>> = <<a, c>> /\ <<a>> \o <<>> = <<a>>
  BY Pairs
<1>2. <<a, b>> \o <<c>> = <<a, b, c>>
  BY Triples
<1>3. <<a>> \o <<b, c, d, e>> = <<a, b, c, d, e>>
  BY Quintuples
<1>4. <<a, b>> \o <<>> = <<a, b>> /\ <<a, b, c, d, e>> \o <<>> = <<a, b, c, d, e>>
  <2>1. <<a, b>> \in Seq({a, b}) /\ <<a, b, c, d, e>> \in Seq({a, b, c, d, e})
    OBVIOUS
  <2>2. \A S : \A s \in Seq(S) : s \o <<>> = s
    OBVIOUS
  <2>3. QED
    BY <2>1, <2>2
<1>5. <<a>> \o <<b>> \o <<c>> = <<a, b, c>> /\ <<a>> \o <<>> \o <<c>> = <<a, c>>
  BY <1>1, <1>2
<1>6. QED
  BY <1>1, <1>2, <1>3, <1>4, <1>5

-----------------------------------------------------------------------------
(* Objects, and what the arguments of a call are.                          *)
Held == Objects \cup {Absent, Invalid}

LEMMA CallType ==
  TypeOK => /\ called.x \in Vars /\ called.y \in Vars /\ called.o \in Objects \cup {Raw}
            /\ called.x \in Slots /\ called.y \in Slots /\ tmp \in Slots
            /\ called.how \in {"new", "copy", "move"}
            /\ called.x # tmp /\ called.y # tmp /\ tmp \notin Vars
  BY VariantAssumption DEF TypeOK, Requests, Slots

LEMMA Objectively ==
  /\ Raw \notin Objects /\ Absent \notin Objects /\ Invalid \notin Objects /\ Absent # Invalid
  /\ \A o \in Objects : /\ MovedOf(o) \in Objects /\ MovedOf(o).alt = o.alt
                        /\ o.alt \in Indices /\ o.alt >= 0 /\ o.alt # invalid_index
                        /\ o.alt # NoGuard /\ MovedOf(MovedOf(o)) = MovedOf(o)
                        /\ Kind(MovedOf(o)) = o.alt /\ Kind(o) = o.alt
  /\ MovedOf(Invalid) = Invalid /\ MovedOf(Absent) = Absent
  /\ Kind(Invalid) = invalid_index
<1>1. Raw \notin Objects /\ Absent \notin Objects /\ Invalid \notin Objects /\ Absent # Invalid
  BY VariantAssumption
<1>2. \A o \in Objects : /\ MovedOf(o) \in Objects /\ MovedOf(o).alt = o.alt
                         /\ o.alt \in Indices /\ MovedOf(MovedOf(o)) = MovedOf(o)
  BY DEF MovedOf, Objects
<1>3. \A i \in Indices : i >= 0 /\ i # invalid_index /\ i # NoGuard
  BY VariantAssumption DEF Indices, invalid_index, NoGuard
<1>4. QED
  BY <1>1, <1>2, <1>3 DEF MovedOf, Kind

LEMMA OriginType ==
  TypeOK => /\ Origin \in [Slots -> Held]
            /\ \A z \in Vars : Origin[z] = before[z]
            /\ Origin[tmp] = Absent
  BY CallType DEF TypeOK, Origin, Held, Slots

(* The index of a slot that is alive and sound is the kind of its object.  *)
LEMMA Sounded ==
  ASSUME TypeOK, NEW z \in alive, Sound(z)
  PROVE  /\ z \in Slots /\ Kind(View[z]) = index[z] /\ View[z] \in Objects \cup {Invalid}
         /\ valid(z) <=> View[z] \in Objects
         /\ valid(z) => storage[z] = View[z] /\ storage[z] \in Objects
         /\ ~valid(z) => index[z] = invalid_index /\ View[z] = Invalid /\ storage[z] = Raw
<1>1. z \in Slots /\ storage[z] \in Objects \cup {Raw} /\ index[z] \in Indices \cup {invalid_index}
  BY DEF TypeOK
<1>2. View[z] = Inside(z)
  BY <1>1 DEF View
<1>3. CASE valid(z)
  BY <1>1, <1>2, <1>3, Objectively DEF Sound, Agrees, Inside, Kind
<1>4. CASE ~valid(z)
  <2>1. index[z] = invalid_index
    BY <1>1, <1>4, VariantAssumption DEF valid, Indices, invalid_index
  <2>2. QED
    BY <1>1, <1>2, <1>4, <2>1, Objectively DEF Sound, Inside, Kind
<1>5. QED
  BY <1>3, <1>4

(* Slots that a step leaves alone.                                         *)
Frame(S) ==
  \A z \in Slots \ S : /\ storage'[z] = storage[z] /\ index'[z] = index[z] /\ guard'[z] = guard[z]
                       /\ z \in alive' <=> z \in alive

LEMMA Framed ==
  ASSUME NEW S, Frame(S), NEW z \in Slots \ S
  PROVE  Sound(z)' = Sound(z) /\ View'[z] = View[z] /\ Inside(z)' = Inside(z)
<1>1. /\ storage'[z] = storage[z] /\ index'[z] = index[z] /\ guard'[z] = guard[z]
      /\ z \in alive' <=> z \in alive
  BY DEF Frame
<1>2. Inside(z)' = Inside(z) /\ valid(z)' = valid(z) /\ Agrees(z)' = Agrees(z)
  BY <1>1 DEF Inside, valid, Agrees
<1>3. Sound(z)' = Sound(z)
  BY <1>1, <1>2 DEF Sound
<1>4. View'[z] = View[z]
  BY <1>1, <1>2 DEF View
<1>5. QED
  BY <1>2, <1>3, <1>4

LEMMA FramedOff ==
  ASSUME NEW x, Frame({x}), NEW E, SeenOff(x, E)
  PROVE  SeenOff(x, E)'
  BY Framed DEF SeenOff, SoundOff

(* One slot apart from the others.                                         *)
LEMMA Split ==
  ASSUME NEW x \in Slots, NEW E, Seen(E)
  PROVE  /\ SeenOff(x, E) /\ Sound(x) /\ View[x] = E[x] /\ guard[x] = NoGuard
         /\ x \in alive => View[x] = Inside(x)
         /\ x \notin alive => storage[x] = Raw /\ View[x] = Absent
  BY DEF Seen, SeenOff, SoundOff, Sound, View

LEMMA Joined ==
  ASSUME NEW x \in Slots, NEW E \in [Slots -> Held], SeenOff(x, E)', Sound(x)', View'[x] = E[x]
  PROVE  Seen(E)'
<1>1. View' = [z \in Slots |-> View'[z]] /\ E = [z \in Slots |-> E[z]]
  BY DEF View
<1>2. \A z \in Slots : View'[z] = E[z]
  BY DEF SeenOff
<1>3. View' = E
  BY <1>1, <1>2
<1>4. SoundOff({})'
  BY DEF SeenOff, SoundOff
<1>5. QED
  BY <1>3, <1>4 DEF Seen

(* What a client sees of it.                                               *)
LEMMA Viewed ==
  /\ Contents = [z \in Vars |-> View[z]]
  /\ \A z \in Slots : z \notin alive => View[z] = Absent
  /\ \A z \in Slots : z \in alive => View[z] = Inside(z)
<1>1. Vars \subseteq Slots
  BY DEF Slots
<1>2. QED
  BY <1>1 DEF Contents, View, Inside

LEMMA SeenAlive ==
  ASSUME TypeOK, NEW E, Seen(E), NEW z \in Slots
  PROVE  /\ z \in alive <=> E[z] # Absent
         /\ E[z] \in Held /\ View[z] = E[z]
         /\ z \in alive => /\ E[z] \in Objects \cup {Invalid} /\ Kind(E[z]) = index[z]
                           /\ valid(z) <=> E[z] \in Objects
                           /\ valid(z) => storage[z] = E[z] /\ storage[z] \in Objects
                           /\ ~valid(z) => E[z] = Invalid /\ storage[z] = Raw
<1>1. View[z] = E[z] /\ Sound(z)
  BY DEF Seen, SoundOff
<1>2. CASE z \in alive
  BY <1>1, <1>2, Sounded, Objectively DEF Held
<1>3. CASE z \notin alive
  BY <1>1, <1>3, Viewed DEF Held
<1>4. QED
  BY <1>2, <1>3

-----------------------------------------------------------------------------
LEMMA JobFields ==
  ASSUME NEW x, NEW y, NEW how, NEW rest, NEW seen
  PROVE  LET c == Job(x, y, how, rest, seen) IN
         c.to = x /\ c.from = y /\ c.how = how /\ c.rest = rest /\ c.seen = seen
  BY DEF Job

(* What the jobs are.                                                      *)
LEMMA JobCases ==
  ASSUME NEW c \in Jobs
  PROVE
    LET x == called.x  y == called.y  how == called.how IN
    \/ /\ c = Constructing /\ called.op = "construct" /\ how \in {"copy", "move"} /\ before[x] = Absent /\ before[y] # Absent
       /\ c.to = x /\ c.from = y /\ c.how = how
       /\ c.rest = <<Born(x)>>
       /\ c.seen = Origin
    \/ /\ c = MoveAssigning /\ called.op = "assign" /\ how = "move" /\ Differ
       /\ c.to = x /\ c.from = y /\ c.how = "move"
       /\ c.rest = <<>>
       /\ c.seen = Origin
    \/ /\ c = Copying /\ called.op = "assign" /\ how = "copy" /\ Differ
       /\ c.to = tmp /\ c.from = y /\ c.how = "copy"
       /\ c.rest = <<Born(tmp), Clear(x), Transfer(x, tmp, "move"), Drop(tmp)>>
       /\ c.seen = Origin
    \/ /\ c = Committing /\ called.op = "assign" /\ how = "copy" /\ Differ
       /\ c.to = x /\ c.from = tmp /\ c.how = "move"
       /\ c.rest = <<Drop(tmp)>>
       /\ c.seen = [Origin EXCEPT ![tmp] = before[y]]
    \/ /\ c = Saving /\ called.op = "swap" /\ Differ
       /\ c.to = tmp /\ c.from = x /\ c.how = "move"
       /\ c.rest = <<Born(tmp), Assign(x, y, "move"), Assign(y, tmp, "move"), Drop(tmp)>>
       /\ c.seen = Origin
    \/ /\ c = Replacing /\ called.op = "swap" /\ Differ
       /\ c.to = x /\ c.from = y /\ c.how = "move"
       /\ c.rest = <<Assign(y, tmp, "move"), Drop(tmp)>>
       /\ c.seen = [Origin EXCEPT ![x] = MovedOf(before[x]), ![tmp] = before[x]]
    \/ /\ c = Restoring /\ called.op = "swap" /\ Differ
       /\ c.to = y /\ c.from = tmp /\ c.how = "move"
       /\ c.rest = <<Drop(tmp)>>
       /\ c.seen = [Origin EXCEPT ![x] = before[y], ![y] = MovedOf(before[y]), ![tmp] = before[x]]
<1> DEFINE x == called.x  y == called.y  how == called.how
<1>1. CASE /\ c = Constructing
           /\ called.op = "construct" /\ how \in {"copy", "move"} /\ before[x] = Absent /\ before[y] # Absent
  <2>1. c = Job(x, y, how, <<Born(x)>>,
                Origin)
    BY <1>1 DEF Constructing
  <2>2. /\ c.to = x /\ c.from = y /\ c.how = how
        /\ c.rest = <<Born(x)>>
        /\ c.seen = Origin
    BY <2>1, JobFields
  <2>3. QED
    BY <1>1, <2>2
<1>2. CASE /\ c = MoveAssigning
           /\ called.op = "assign" /\ how = "move" /\ Differ
  <2>1. c = Job(x, y, "move", <<>>,
                Origin)
    BY <1>2 DEF MoveAssigning
  <2>2. /\ c.to = x /\ c.from = y /\ c.how = "move"
        /\ c.rest = <<>>
        /\ c.seen = Origin
    BY <2>1, JobFields
  <2>3. QED
    BY <1>2, <2>2
<1>3. CASE /\ c = Copying
           /\ called.op = "assign" /\ how = "copy" /\ Differ
  <2>1. c = Job(tmp, y, "copy", <<Born(tmp), Clear(x), Transfer(x, tmp, "move"), Drop(tmp)>>,
                Origin)
    BY <1>3 DEF Copying
  <2>2. /\ c.to = tmp /\ c.from = y /\ c.how = "copy"
        /\ c.rest = <<Born(tmp), Clear(x), Transfer(x, tmp, "move"), Drop(tmp)>>
        /\ c.seen = Origin
    BY <2>1, JobFields
  <2>3. QED
    BY <1>3, <2>2
<1>4. CASE /\ c = Committing
           /\ called.op = "assign" /\ how = "copy" /\ Differ
  <2>1. c = Job(x, tmp, "move", <<Drop(tmp)>>,
                [Origin EXCEPT ![tmp] = before[y]])
    BY <1>4 DEF Committing
  <2>2. /\ c.to = x /\ c.from = tmp /\ c.how = "move"
        /\ c.rest = <<Drop(tmp)>>
        /\ c.seen = [Origin EXCEPT ![tmp] = before[y]]
    BY <2>1, JobFields
  <2>3. QED
    BY <1>4, <2>2
<1>5. CASE /\ c = Saving
           /\ called.op = "swap" /\ Differ
  <2>1. c = Job(tmp, x, "move", <<Born(tmp), Assign(x, y, "move"), Assign(y, tmp, "move"), Drop(tmp)>>,
                Origin)
    BY <1>5 DEF Saving
  <2>2. /\ c.to = tmp /\ c.from = x /\ c.how = "move"
        /\ c.rest = <<Born(tmp), Assign(x, y, "move"), Assign(y, tmp, "move"), Drop(tmp)>>
        /\ c.seen = Origin
    BY <2>1, JobFields
  <2>3. QED
    BY <1>5, <2>2
<1>6. CASE /\ c = Replacing
           /\ called.op = "swap" /\ Differ
  <2>1. c = Job(x, y, "move", <<Assign(y, tmp, "move"), Drop(tmp)>>,
                [Origin EXCEPT ![x] = MovedOf(before[x]), ![tmp] = before[x]])
    BY <1>6 DEF Replacing
  <2>2. /\ c.to = x /\ c.from = y /\ c.how = "move"
        /\ c.rest = <<Assign(y, tmp, "move"), Drop(tmp)>>
        /\ c.seen = [Origin EXCEPT ![x] = MovedOf(before[x]), ![tmp] = before[x]]
    BY <2>1, JobFields
  <2>3. QED
    BY <1>6, <2>2
<1>7. CASE /\ c = Restoring
           /\ called.op = "swap" /\ Differ
  <2>1. c = Job(y, tmp, "move", <<Drop(tmp)>>,
                [Origin EXCEPT ![x] = before[y], ![y] = MovedOf(before[y]), ![tmp] = before[x]])
    BY <1>7 DEF Restoring
  <2>2. /\ c.to = y /\ c.from = tmp /\ c.how = "move"
        /\ c.rest = <<Drop(tmp)>>
        /\ c.seen = [Origin EXCEPT ![x] = before[y], ![y] = MovedOf(before[y]), ![tmp] = before[x]]
    BY <2>1, JobFields
  <2>3. QED
    BY <1>7, <2>2
<1>8. QED
  BY <1>1, <1>2, <1>3, <1>4, <1>5, <1>6, <1>7 DEF Jobs, IsJob

LEMMA JobType ==
  ASSUME TypeOK, NEW c \in Jobs
  PROVE  /\ c.to \in Slots /\ c.from \in Slots /\ c.to # c.from /\ c.how \in {"copy", "move"}
         /\ \E S : c.rest \in Seq(S)
         /\ c.seen \in [Slots -> Held] /\ c.seen[c.from] \in Objects \cup {Invalid}
         /\ After(c) \in [Slots -> Held]
<1> DEFINE Typed ==
             /\ c.to \in Slots /\ c.from \in Slots /\ c.to # c.from /\ c.how \in {"copy", "move"}
             /\ c.seen \in [Slots -> Held] /\ c.seen[c.from] \in Objects \cup {Invalid}
           Sequence == \E S : c.rest \in Seq(S)
<1> DEFINE x == called.x  y == called.y  how == called.how
<1>1. /\ x \in Vars /\ y \in Vars /\ x \in Slots /\ y \in Slots /\ tmp \in Slots
      /\ x # tmp /\ y # tmp
      /\ Origin \in [Slots -> Held] /\ Origin[x] = before[x] /\ Origin[y] = before[y]
      /\ before[x] \in Held /\ before[y] \in Held
  BY CallType, OriginType DEF TypeOK, Held
<1>2. MovedOf(before[x]) \in Held /\ MovedOf(before[y]) \in Held
  BY <1>1, Objectively DEF Held
<1>3. \A o \in Held : o # Absent => o \in Objects \cup {Invalid}
  BY DEF Held
<1>4. Differ => x # y /\ before[x] # Absent /\ before[y] # Absent
  BY DEF Differ
<1>5. Typed /\ Sequence
  <2>1. CASE /\ c = Constructing /\ called.op = "construct" /\ how \in {"copy", "move"} /\ before[x] = Absent /\ before[y] # Absent
             /\ c.to = x /\ c.from = y /\ c.how = how
             /\ c.rest = <<Born(x)>>
             /\ c.seen = Origin
    <3>1. Typed
      BY <1>1, <1>2, <1>3, <1>4, <2>1
    <3>2. c.rest \in Seq({Born(x)})
      BY <2>1
    <3>3. QED
      BY <3>1, <3>2
  <2>2. CASE /\ c = MoveAssigning /\ called.op = "assign" /\ how = "move" /\ Differ
             /\ c.to = x /\ c.from = y /\ c.how = "move"
             /\ c.rest = <<>>
             /\ c.seen = Origin
    <3>1. Typed
      BY <1>1, <1>2, <1>3, <1>4, <2>2
    <3>2. c.rest \in Seq({})
      BY <2>2
    <3>3. QED
      BY <3>1, <3>2
  <2>3. CASE /\ c = Copying /\ called.op = "assign" /\ how = "copy" /\ Differ
             /\ c.to = tmp /\ c.from = y /\ c.how = "copy"
             /\ c.rest = <<Born(tmp), Clear(x), Transfer(x, tmp, "move"), Drop(tmp)>>
             /\ c.seen = Origin
    <3>1. Typed
      BY <1>1, <1>2, <1>3, <1>4, <2>3
    <3>2. c.rest \in Seq({Born(tmp), Clear(x), Transfer(x, tmp, "move"), Drop(tmp)})
      BY <2>3
    <3>3. QED
      BY <3>1, <3>2
  <2>4. CASE /\ c = Committing /\ called.op = "assign" /\ how = "copy" /\ Differ
             /\ c.to = x /\ c.from = tmp /\ c.how = "move"
             /\ c.rest = <<Drop(tmp)>>
             /\ c.seen = [Origin EXCEPT ![tmp] = before[y]]
    <3>1. Typed
      BY <1>1, <1>2, <1>3, <1>4, <2>4
    <3>2. c.rest \in Seq({Drop(tmp)})
      BY <2>4
    <3>3. QED
      BY <3>1, <3>2
  <2>5. CASE /\ c = Saving /\ called.op = "swap" /\ Differ
             /\ c.to = tmp /\ c.from = x /\ c.how = "move"
             /\ c.rest = <<Born(tmp), Assign(x, y, "move"), Assign(y, tmp, "move"), Drop(tmp)>>
             /\ c.seen = Origin
    <3>1. Typed
      BY <1>1, <1>2, <1>3, <1>4, <2>5
    <3>2. c.rest \in Seq({Born(tmp), Assign(x, y, "move"), Assign(y, tmp, "move"), Drop(tmp)})
      BY <2>5
    <3>3. QED
      BY <3>1, <3>2
  <2>6. CASE /\ c = Replacing /\ called.op = "swap" /\ Differ
             /\ c.to = x /\ c.from = y /\ c.how = "move"
             /\ c.rest = <<Assign(y, tmp, "move"), Drop(tmp)>>
             /\ c.seen = [Origin EXCEPT ![x] = MovedOf(before[x]), ![tmp] = before[x]]
    <3>1. Typed
      BY <1>1, <1>2, <1>3, <1>4, <2>6
    <3>2. c.rest \in Seq({Assign(y, tmp, "move"), Drop(tmp)})
      BY <2>6
    <3>3. QED
      BY <3>1, <3>2
  <2>7. CASE /\ c = Restoring /\ called.op = "swap" /\ Differ
             /\ c.to = y /\ c.from = tmp /\ c.how = "move"
             /\ c.rest = <<Drop(tmp)>>
             /\ c.seen = [Origin EXCEPT ![x] = before[y], ![y] = MovedOf(before[y]), ![tmp] = before[x]]
    <3>1. Typed
      BY <1>1, <1>2, <1>3, <1>4, <2>7
    <3>2. c.rest \in Seq({Drop(tmp)})
      BY <2>7
    <3>3. QED
      BY <3>1, <3>2
  <2> HIDE DEF Typed, Sequence
  <2>8. QED
    BY JobCases, <2>1, <2>2, <2>3, <2>4, <2>5, <2>6, <2>7
<1>6. MovedOf(c.seen[c.from]) \in Held /\ c.seen[c.from] \in Held
  BY <1>5, Objectively DEF Held
<1>7. After(c) \in [Slots -> Held]
  BY <1>5, <1>6 DEF After
<1>8. QED
  BY <1>5, <1>7

-----------------------------------------------------------------------------
(* What the contract says of the call.                                     *)
Put   == [before EXCEPT ![called.x] = called.o]
Taken == [before EXCEPT ![called.x] = before[called.y],
                        ![called.y] = IF called.how = "move" THEN MovedOf(before[called.y])
                                      ELSE before[called.y]]
Exchanged == [before EXCEPT ![called.x] = before[called.y], ![called.y] = before[called.x]]

MayMove == ~Noexcept(Moves)

LEMMA Successes ==
  /\ called.op \in {"in_place", "emplace", "assign_value"} => Asked!Success = Put
  /\ called.op \in {"construct", "assign"} => Asked!Success = Taken
  /\ called.op = "destroy" => Asked!Success = [before EXCEPT ![called.x] = Absent]
  /\ called.op = "swap" => Asked!Success = Exchanged
  /\ called.op = "compare" => Asked!Success = before
<1>1. CASE called.op \in {"in_place", "emplace", "assign_value"}
  BY <1>1 DEF Asked!Success, Put
<1>2. CASE called.op \in {"construct", "assign"}
  BY <1>2 DEF Asked!Success, Asked!Moved, Taken, MovedOf
<1>3. CASE called.op = "destroy"
  BY <1>3 DEF Asked!Success
<1>4. CASE called.op = "swap"
  BY <1>4 DEF Asked!Success, Exchanged
<1>5. CASE called.op = "compare"
  BY <1>5 DEF Asked!Success
<1>6. QED
  BY <1>1, <1>2, <1>3, <1>4, <1>5

MaybeMoved(o) == {o, MovedOf(o)}
Sources == IF called.how = "move" THEN MaybeMoved(before[called.y]) ELSE {before[called.y]}

LEMMA Failings ==
  ASSUME TypeOK
  PROVE
    LET x == called.x  y == called.y  how == called.how  o == called.o IN
    /\ called.op = "in_place" => before \in Asked!Failures
    /\ called.op = "construct" /\ (how = "copy" \/ MayMove) =>
         \A p \in Sources : [before EXCEPT ![y] = p] \in Asked!Failures
    /\ called.op = "emplace" => [before EXCEPT ![x] = Invalid] \in Asked!Failures
    /\ called.op = "assign_value" /\ o \in Objects =>
         /\ Kind(before[x]) = o.alt /\ (how = "copy" \/ MayMove) =>
              \A p \in MaybeMoved(before[x]) : [before EXCEPT ![x] = p] \in Asked!Failures
         /\ Kind(before[x]) # o.alt =>
              /\ how = "copy" => before \in Asked!Failures
              /\ MayMove => [before EXCEPT ![x] = Invalid] \in Asked!Failures
    /\ called.op = "assign" /\ before[y] \in Objects =>
         /\ Kind(before[x]) = Kind(before[y]) /\ (how = "copy" \/ MayMove) =>
              \A p \in Sources, q \in MaybeMoved(before[x]) :
                [before EXCEPT ![y] = p, ![x] = q] \in Asked!Failures
         /\ Kind(before[x]) # Kind(before[y]) =>
              /\ how = "copy" => before \in Asked!Failures
              /\ MayMove =>
                   \A p \in Sources : [before EXCEPT ![y] = p, ![x] = Invalid] \in Asked!Failures
    /\ called.op = "swap" /\ MayMove =>
         /\ Kind(before[x]) = Kind(before[y]) /\ before[x] \in Objects =>
              /\ [before EXCEPT ![x] = before[x], ![y] = before[y]] \in Asked!Failures
              /\ [before EXCEPT ![x] = MovedOf(before[x]), ![y] = MovedOf(before[y])]
                   \in Asked!Failures
         /\ Kind(before[x]) # Kind(before[y]) =>
              /\ \A p \in MaybeMoved(before[x]) :
                   [before EXCEPT ![x] = p, ![y] = before[y]] \in Asked!Failures
              /\ \A p \in MaybeMoved(before[y]) :
                   [before EXCEPT ![x] = Invalid, ![y] = p] \in Asked!Failures
              /\ [before EXCEPT ![x] = before[y], ![y] = Invalid] \in Asked!Failures
<1> DEFINE x == called.x  y == called.y  how == called.how  o == called.o
           source == IF how = "move" THEN Asked!MaybeMoved(before[y]) ELSE {before[y]}
<1>1. before = [z \in Vars |-> before[z]] /\ x \in Vars /\ y \in Vars
  BY CallType DEF TypeOK
<1>2. \A a, b : Asked!SameAlternative(a, b) <=> a \in Objects /\ b \in Objects /\ Kind(a) = Kind(b)
  BY DEF Asked!SameAlternative, Kind
<1>3. \A a \in Objects : \A b : Kind(a) = Kind(b) => b \in Objects
  BY Objectively DEF Kind
<1>4. \A a : Asked!Moved(a) = MovedOf(a) /\ Asked!MaybeMoved(a) = MaybeMoved(a)
  BY DEF Asked!Moved, Asked!MaybeMoved, MaybeMoved, MovedOf
<1>5. source = Sources
  BY <1>4 DEF Sources
<1>6. ASSUME NEW a, NEW b \in Objects
      PROVE  /\ Kind(a) = Kind(b) /\ (how = "copy" \/ MayMove) =>
                  Asked!AssignFailures(a, b, how) = MaybeMoved(a)
             /\ Kind(a) # Kind(b) =>
                  /\ how = "copy" => a \in Asked!AssignFailures(a, b, how)
                  /\ MayMove => Invalid \in Asked!AssignFailures(a, b, how)
  BY <1>2, <1>3, <1>4 DEF Asked!AssignFailures, MayMove
<1> HIDE DEF source
<1>7. called.op = "in_place" => before \in Asked!Failures
  BY DEF Asked!Failures
<1>8. ASSUME called.op = "construct", how = "copy" \/ MayMove, NEW p \in Sources
      PROVE  [before EXCEPT ![y] = p] \in Asked!Failures
  <2>1. Asked!Failures =
          {c \in {[before EXCEPT ![y] = q] : q \in source} : how = "copy" \/ MayMove}
    BY <1>8 DEF Asked!Failures, MayMove, source
  <2>2. QED
    BY <1>5, <1>8, <2>1
<1>9. called.op = "emplace" => [before EXCEPT ![x] = Invalid] \in Asked!Failures
  BY DEF Asked!Failures
<1>10. ASSUME called.op = "assign_value", o \in Objects
       PROVE  /\ Kind(before[x]) = o.alt /\ (how = "copy" \/ MayMove) =>
                   \A p \in MaybeMoved(before[x]) : [before EXCEPT ![x] = p] \in Asked!Failures
              /\ Kind(before[x]) # o.alt =>
                   /\ how = "copy" => before \in Asked!Failures
                   /\ MayMove => [before EXCEPT ![x] = Invalid] \in Asked!Failures
  <2>1. Asked!Failures =
          {[before EXCEPT ![x] = a] : a \in Asked!AssignFailures(before[x], o, how)}
    BY <1>10 DEF Asked!Failures
  <2>2. before = [before EXCEPT ![x] = before[x]] /\ Kind(o) = o.alt
    BY <1>1, <1>10, Objectively
  <2>3. QED
    BY <1>6, <1>10, <2>1, <2>2
<1>11. ASSUME called.op = "assign", before[y] \in Objects
       PROVE  /\ Kind(before[x]) = Kind(before[y]) /\ (how = "copy" \/ MayMove) =>
                   \A p \in Sources, q \in MaybeMoved(before[x]) :
                     [before EXCEPT ![y] = p, ![x] = q] \in Asked!Failures
              /\ Kind(before[x]) # Kind(before[y]) =>
                   /\ how = "copy" => before \in Asked!Failures
                   /\ MayMove => \A p \in Sources :
                                   [before EXCEPT ![y] = p, ![x] = Invalid] \in Asked!Failures
  <2>1. Asked!Failures =
          {[before EXCEPT ![y] = p, ![x] = a] :
             p \in source, a \in Asked!AssignFailures(before[x], before[y], how)}
    BY <1>11 DEF Asked!Failures, source
  <2>2. \A p \in source, a \in Asked!AssignFailures(before[x], before[y], how) :
          [before EXCEPT ![y] = p, ![x] = a] \in Asked!Failures
    BY <2>1
  <2>3. how = "copy" => /\ before[y] \in Sources
                        /\ before = [before EXCEPT ![y] = before[y], ![x] = before[x]]
    BY <1>1 DEF Sources
  <2>4. QED
    BY <1>5, <1>6, <1>11, <2>2, <2>3
<1>12. ASSUME called.op = "swap", MayMove
       PROVE  /\ Kind(before[x]) = Kind(before[y]) /\ before[x] \in Objects =>
                   /\ [before EXCEPT ![x] = before[x], ![y] = before[y]] \in Asked!Failures
                   /\ [before EXCEPT ![x] = MovedOf(before[x]), ![y] = MovedOf(before[y])]
                        \in Asked!Failures
              /\ Kind(before[x]) # Kind(before[y]) =>
                   /\ \A p \in MaybeMoved(before[x]) :
                        [before EXCEPT ![x] = p, ![y] = before[y]] \in Asked!Failures
                   /\ \A p \in MaybeMoved(before[y]) :
                        [before EXCEPT ![x] = Invalid, ![y] = p] \in Asked!Failures
                   /\ [before EXCEPT ![x] = before[y], ![y] = Invalid] \in Asked!Failures
  <2>1. Asked!Failures =
          {[before EXCEPT ![x] = c[1], ![y] = c[2]] : c \in Asked!SwapFailures(before[x], before[y])}
    BY <1>12 DEF Asked!Failures
  <2>2. \A p, q : <<p, q>> \in Asked!SwapFailures(before[x], before[y]) =>
                  [before EXCEPT ![x] = p, ![y] = q] \in Asked!Failures
    <3> SUFFICES ASSUME NEW p, NEW q, <<p, q>> \in Asked!SwapFailures(before[x], before[y])
                 PROVE  [before EXCEPT ![x] = p, ![y] = q] \in Asked!Failures
      OBVIOUS
    <3> DEFINE c == <<p, q>>
    <3>1. c[1] = p /\ c[2] = q
      OBVIOUS
    <3>2. c \in Asked!SwapFailures(before[x], before[y])
      OBVIOUS
    <3> HIDE DEF c
    <3>3. [before EXCEPT ![x] = c[1], ![y] = c[2]] \in Asked!Failures
      BY <2>1, <3>2
    <3>4. QED
      BY <3>1, <3>3
  <2>3. ASSUME Kind(before[x]) = Kind(before[y]), before[x] \in Objects
        PROVE  {<<before[x], before[y]>>, <<MovedOf(before[x]), MovedOf(before[y])>>}
                 \subseteq Asked!SwapFailures(before[x], before[y])
    BY <1>2, <1>3, <1>4, <1>12, <2>3 DEF Asked!SwapFailures, MayMove
  <2>4. ASSUME Kind(before[x]) # Kind(before[y])
        PROVE  /\ \A p \in MaybeMoved(before[x]) :
                    <<p, before[y]>> \in Asked!SwapFailures(before[x], before[y])
               /\ \A p \in MaybeMoved(before[y]) :
                    <<Invalid, p>> \in Asked!SwapFailures(before[x], before[y])
               /\ <<before[y], Invalid>> \in Asked!SwapFailures(before[x], before[y])
    BY <1>2, <1>4, <1>12, <2>4 DEF Asked!SwapFailures, MayMove
  <2>5. QED
    BY <2>2, <2>3, <2>4
<1>13. QED
  BY <1>7, <1>8, <1>9, <1>10, <1>11, <1>12

(* A function on the variants is told by its values.                       *)
LEMMA Told ==
  ASSUME TypeOK, NEW f, f = [z \in Vars |-> f[z]], NEW x \in Vars, NEW y \in Vars,
         \A z \in Vars \ {x, y} : f[z] = before[z]
  PROVE  /\ f = [before EXCEPT ![y] = f[y], ![x] = f[x]]
         /\ f = [before EXCEPT ![x] = f[x], ![y] = f[y]]
  BY DEF TypeOK

(* What is left if a job throws: the target is gone, the source may be     *)
(* moved from.                                                             *)
LEMMA JobFails ==
  ASSUME TypeOK, NEW c \in Jobs, c.seen[c.from] \in Objects, Constructs(c.how) \notin nothrow,
         NEW p \in IF c.how = "move" THEN MaybeMoved(c.seen[c.from]) ELSE {c.seen[c.from]},
         NEW f, f = [z \in Vars |-> f[z]],
         \A z \in Vars \ {c.to, c.from} : f[z] = c.seen[z],
         c.to \in Vars => f[c.to] = IF c.seen[c.to] = Absent THEN Absent ELSE Invalid,
         c.from \in Vars => f[c.from] = p
  PROVE  /\ f \in Asked!Failures
         /\ Preserving => \A z \in Vars : f[z] # Invalid
<1> DEFINE x == called.x  y == called.y  how == called.how
<1>1. /\ x \in Vars /\ y \in Vars /\ x # tmp /\ y # tmp /\ tmp \notin Vars
      /\ x \in Slots /\ y \in Slots /\ tmp \in Slots /\ Origin \in [Slots -> Held]
      /\ \A z \in Vars : Origin[z] = before[z] /\ z # tmp /\ z \in Slots
      /\ before \in [Vars -> Held]
  BY CallType, OriginType DEF TypeOK, Held, Slots
<1>2. c.how = "move" => "move_construct" \notin nothrow /\ MayMove
  BY DEF Constructs, MayMove, Noexcept, Moves
<1>3. Preserving => /\ "move_construct" \in nothrow /\ called.op # "construct"
                    /\ \A z \in Vars : before[z] # Invalid
  BY DEF Preserving, Noexcept
<1>4. Differ => x # y /\ before[x] # Absent /\ before[y] # Absent /\ Kind(before[x]) # Kind(before[y])
  BY DEF Differ
<1>5. \A o \in Objects : MaybeMoved(o) \subseteq Objects /\ Invalid \notin Objects
  BY Objectively DEF MaybeMoved
<1> DEFINE Goal == f \in Asked!Failures /\ (Preserving => \A z \in Vars : f[z] # Invalid)
<1>6. CASE /\ c = Constructing /\ called.op = "construct" /\ how \in {"copy", "move"}
           /\ before[x] = Absent /\ before[y] # Absent
           /\ c.to = x /\ c.from = y /\ c.how = how
           /\ c.rest = <<Born(x)>>
           /\ c.seen = Origin
  <2>1. f[x] = before[x] /\ f[y] = p /\ x # y
    BY <1>1, <1>6
  <2>2. \A z \in Vars \ {x, y} : f[z] = before[z]
    BY <1>1, <1>6
  <2>3. \A z \in Vars \ {y} : f[z] = before[z]
    BY <2>1, <2>2
  <2>4. p \in Sources /\ (how = "copy" \/ MayMove)
    BY <1>1, <1>2, <1>6 DEF Sources
  <2>5. f = [before EXCEPT ![y] = p]
    BY <1>1, <2>1, <2>3
  <2>6. QED
    BY <1>3, <1>6, <2>4, <2>5, Failings
<1>7. CASE /\ c = MoveAssigning /\ called.op = "assign" /\ how = "move" /\ Differ
           /\ c.to = x /\ c.from = y /\ c.how = "move"
           /\ c.rest = <<>>
           /\ c.seen = Origin
  <2>1. /\ f[x] = Invalid /\ f[y] = p /\ p \in Sources /\ before[y] \in Objects
        /\ \A z \in Vars \ {x, y} : f[z] = before[z]
    BY <1>1, <1>4, <1>7 DEF Sources
  <2>2. f = [before EXCEPT ![y] = p, ![x] = Invalid]
    BY <1>1, <2>1, Told, ZenonT(40)
  <2>3. QED
    BY <1>2, <1>3, <1>4, <1>7, <2>1, <2>2, Failings
<1>8. CASE /\ c = Copying /\ called.op = "assign" /\ how = "copy" /\ Differ
           /\ c.to = tmp /\ c.from = y /\ c.how = "copy"
           /\ c.rest = <<Born(tmp), Clear(x), Transfer(x, tmp, "move"), Drop(tmp)>>
           /\ c.seen = Origin
  <2>1. f[y] = before[y] /\ before[y] \in Objects
    BY <1>1, <1>8
  <2>2. \A z \in Vars \ {y} : f[z] = before[z]
    BY <1>1, <1>8, ZenonT(40)
  <2>3. f = before
    BY <1>1, <2>1, <2>2
  <2>4. QED
    BY <1>3, <1>4, <1>8, <2>1, <2>3, Failings
<1>9. CASE /\ c = Committing /\ called.op = "assign" /\ how = "copy" /\ Differ
           /\ c.to = x /\ c.from = tmp /\ c.how = "move"
           /\ c.rest = <<Drop(tmp)>>
           /\ c.seen = [Origin EXCEPT ![tmp] = before[y]]
  <2>1. /\ f[x] = Invalid /\ f[y] = before[y] /\ before[y] \in Sources /\ before[y] \in Objects
        /\ \A z \in Vars \ {x, y} : f[z] = before[z]
    BY <1>1, <1>4, <1>9 DEF Sources
  <2>2. f = [before EXCEPT ![y] = before[y], ![x] = Invalid]
    BY <1>1, <2>1, Told, ZenonT(40)
  <2>3. QED
    BY <1>2, <1>3, <1>4, <1>9, <2>1, <2>2, Failings
<1>10. CASE /\ c = Saving /\ called.op = "swap" /\ Differ
            /\ c.to = tmp /\ c.from = x /\ c.how = "move"
            /\ c.rest = <<Born(tmp), Assign(x, y, "move"), Assign(y, tmp, "move"), Drop(tmp)>>
            /\ c.seen = Origin
  <2>1. /\ f[x] = p /\ f[y] = before[y] /\ p \in MaybeMoved(before[x])
        /\ \A z \in Vars \ {x, y} : f[z] = before[z]
    BY <1>1, <1>4, <1>10
  <2>2. f = [before EXCEPT ![x] = p, ![y] = before[y]]
    BY <1>1, <2>1, Told, ZenonT(40)
  <2>3. QED
    BY <1>2, <1>3, <1>4, <1>10, <2>1, <2>2, Failings
<1>11. CASE /\ c = Replacing /\ called.op = "swap" /\ Differ
            /\ c.to = x /\ c.from = y /\ c.how = "move"
            /\ c.rest = <<Assign(y, tmp, "move"), Drop(tmp)>>
            /\ c.seen = [Origin EXCEPT ![x] = MovedOf(before[x]), ![tmp] = before[x]]
  <2>1. /\ c.seen[y] = before[y] /\ c.seen[x] # Absent
    BY <1>1, <1>4, <1>11, Objectively DEF Held
  <2>2. /\ f[x] = Invalid /\ f[y] = p /\ p \in MaybeMoved(before[y])
        /\ \A z \in Vars \ {x, y} : f[z] = before[z]
    BY <1>1, <1>4, <1>11, <2>1
  <2>3. f = [before EXCEPT ![x] = Invalid, ![y] = p]
    BY <1>1, <2>2, Told, ZenonT(40)
  <2>4. QED
    BY <1>2, <1>3, <1>4, <1>11, <2>2, <2>3, Failings, ZenonT(40)
<1>12. CASE /\ c = Restoring /\ called.op = "swap" /\ Differ
            /\ c.to = y /\ c.from = tmp /\ c.how = "move"
            /\ c.rest = <<Drop(tmp)>>
            /\ c.seen = [Origin EXCEPT ![x] = before[y], ![y] = MovedOf(before[y]),
                                       ![tmp] = before[x]]
  <2>1. /\ c.seen[x] = before[y] /\ c.seen[y] # Absent
    BY <1>1, <1>4, <1>12, Objectively DEF Held
  <2>2. /\ f[x] = before[y] /\ f[y] = Invalid
        /\ \A z \in Vars \ {x, y} : f[z] = before[z]
    BY <1>1, <1>4, <1>12, <2>1
  <2>3. f = [before EXCEPT ![x] = before[y], ![y] = Invalid]
    BY <1>1, <2>2, Told, ZenonT(40)
  <2>4. QED
    BY <1>2, <1>3, <1>4, <1>12, <2>2, <2>3, Failings
<1> HIDE DEF Goal
<1>13. QED
  BY JobCases, <1>6, <1>7, <1>8, <1>9, <1>10, <1>11, <1>12 DEF Goal

LEMMA AfterIs ==
  ASSUME TypeOK, NEW c \in Jobs
  PROVE  /\ After(c)[c.to] = c.seen[c.from]
         /\ After(c)[c.from] = IF c.how = "move" THEN MovedOf(c.seen[c.from]) ELSE c.seen[c.from]
         /\ \A z \in Slots \ {c.to, c.from} : After(c)[z] = c.seen[z]
  BY JobType DEF After

LEMMA Alike ==
  ASSUME NEW f \in [Slots -> Held], NEW g \in [Slots -> Held],
         \A z \in Slots : f[z] = g[z]
  PROVE  f = g
  OBVIOUS

(* What there is when it is done, and what comes next.                     *)
LEMMA JobDone ==
  ASSUME TypeOK, NEW c \in Jobs
  PROVE
    LET x == called.x  y == called.y
        done == [z \in Vars |-> After(c)[z]] = Asked!Success
    IN
    \/ /\ c.to = x /\ c.seen[x] = Absent /\ c.seen[tmp] = Absent
       /\ c.rest = <<Born(x)>> /\ done
    \/ /\ c.to \in Vars /\ c.seen[c.to] # Absent
       /\ \/ c.rest = <<>> /\ After(c)[tmp] = Absent /\ done
          \/ c.rest = <<Drop(tmp)>> /\ After(c)[tmp] # Absent /\ done
          \/ /\ called.op = "swap" /\ Differ
             /\ c.rest = <<Assign(y, tmp, "move"), Drop(tmp)>> /\ After(c) = Restoring.seen
    \/ /\ c.to = tmp /\ c.seen[tmp] = Absent
       /\ \/ /\ c.rest = <<Born(tmp), Clear(x), Transfer(x, tmp, "move"), Drop(tmp)>>
             /\ Committing \in Jobs /\ After(c) = Committing.seen
          \/ /\ called.op = "swap" /\ Differ
             /\ c.rest = <<Born(tmp), Assign(x, y, "move"), Assign(y, tmp, "move"), Drop(tmp)>>
             /\ After(c) = Replacing.seen
<1> DEFINE x == called.x  y == called.y  how == called.how
           done == [z \in Vars |-> After(c)[z]] = Asked!Success
<1>1. /\ x \in Vars /\ y \in Vars /\ x # tmp /\ y # tmp /\ tmp \notin Vars
      /\ x \in Slots /\ y \in Slots /\ tmp \in Slots /\ Origin \in [Slots -> Held]
      /\ \A z \in Vars : Origin[z] = before[z] /\ z # tmp /\ z \in Slots
      /\ before \in [Vars -> Held] /\ Origin[tmp] = Absent
  BY CallType, OriginType DEF TypeOK, Held, Slots
<1>2. Differ => x # y /\ before[x] # Absent /\ before[y] # Absent
  BY DEF Differ
<1>3. \A o \in Held : o # Absent => MovedOf(o) # Absent /\ MovedOf(o) \in Held
  BY Objectively DEF Held
<1>4. /\ Committing.seen = [Origin EXCEPT ![tmp] = before[y]]
      /\ Replacing.seen = [Origin EXCEPT ![x] = MovedOf(before[x]), ![tmp] = before[x]]
      /\ Restoring.seen = [Origin EXCEPT ![x] = before[y], ![y] = MovedOf(before[y]),
                                         ![tmp] = before[x]]
  BY JobFields DEF Committing, Replacing, Restoring
<1> DEFINE born == /\ c.to = x /\ c.seen[x] = Absent /\ c.seen[tmp] = Absent
                   /\ c.rest = <<Born(x)>> /\ done
           assigned == /\ c.to \in Vars /\ c.seen[c.to] # Absent
                       /\ c.rest = <<>> /\ After(c)[tmp] = Absent /\ done
           moved == /\ c.to \in Vars /\ c.seen[c.to] # Absent
                    /\ c.rest = <<Drop(tmp)>> /\ After(c)[tmp] # Absent /\ done
           replaced == /\ c.to \in Vars /\ c.seen[c.to] # Absent
                       /\ called.op = "swap" /\ Differ
                       /\ c.rest = <<Assign(y, tmp, "move"), Drop(tmp)>>
                       /\ After(c) = Restoring.seen
           copied == /\ c.to = tmp /\ c.seen[tmp] = Absent
                     /\ c.rest = <<Born(tmp), Clear(x), Transfer(x, tmp, "move"), Drop(tmp)>>
                     /\ Committing \in Jobs /\ After(c) = Committing.seen
           saved == /\ c.to = tmp /\ c.seen[tmp] = Absent
                    /\ called.op = "swap" /\ Differ
                    /\ c.rest = <<Born(tmp), Assign(x, y, "move"), Assign(y, tmp, "move"), Drop(tmp)>>
                    /\ After(c) = Replacing.seen
           Goal == born \/ assigned \/ moved \/ replaced \/ copied \/ saved
<1>5. Goal
  <2>1. CASE /\ c = Constructing /\ called.op = "construct" /\ how \in {"copy", "move"}
             /\ before[x] = Absent /\ before[y] # Absent
             /\ c.to = x /\ c.from = y /\ c.how = how
             /\ c.rest = <<Born(x)>>
             /\ c.seen = Origin
    <3>1. [z \in Vars |-> After(c)[z]] = Taken
      BY <1>1, <2>1, ZenonT(40) DEF After, Taken
    <3>2. born
      BY <1>1, <2>1, <3>1, Successes
    <3>3. QED
      BY <3>2
  <2>2. CASE /\ c = MoveAssigning /\ called.op = "assign" /\ how = "move" /\ Differ
             /\ c.to = x /\ c.from = y /\ c.how = "move"
             /\ c.rest = <<>>
             /\ c.seen = Origin
    <3>1. [z \in Vars |-> After(c)[z]] = Taken
      BY <1>1, <1>2, <2>2, ZenonT(40) DEF After, Taken
    <3>2. After(c)[tmp] = Absent
      BY <1>1, <2>2 DEF After
    <3>3. assigned
      BY <1>1, <1>2, <2>2, <3>1, <3>2, Successes
    <3>4. QED
      BY <3>3
  <2>3. CASE /\ c = Copying /\ called.op = "assign" /\ how = "copy" /\ Differ
             /\ c.to = tmp /\ c.from = y /\ c.how = "copy"
             /\ c.rest = <<Born(tmp), Clear(x), Transfer(x, tmp, "move"), Drop(tmp)>>
             /\ c.seen = Origin
    <3>1. After(c) = Committing.seen
      <4>1. Committing.seen \in [Slots -> Held] /\ After(c) \in [Slots -> Held]
        BY <1>1, <1>4, JobType
      <4>2. After(c)[tmp] = Committing.seen[tmp] /\ After(c)[y] = Committing.seen[y]
        <5>1. Committing.seen[tmp] = before[y] /\ Committing.seen[y] = before[y]
          BY <1>1, <1>4
        <5>2. QED
          BY <1>1, <2>3, <5>1, AfterIs
      <4>3. ASSUME NEW z \in Slots \ {y, tmp} PROVE After(c)[z] = Committing.seen[z]
        <5>1. Committing.seen[z] = Origin[z]
          BY <1>1, <1>4
        <5>2. QED
          BY <2>3, <5>1, AfterIs
      <4>4. QED
        BY <4>1, <4>2, <4>3, Alike
    <3>2. Committing \in Jobs
      BY <2>3 DEF Jobs, IsJob
    <3>3. copied
      BY <1>1, <2>3, <3>1, <3>2
    <3>4. QED
      BY <3>3
  <2>4. CASE /\ c = Committing /\ called.op = "assign" /\ how = "copy" /\ Differ
             /\ c.to = x /\ c.from = tmp /\ c.how = "move"
             /\ c.rest = <<Drop(tmp)>>
             /\ c.seen = [Origin EXCEPT ![tmp] = before[y]]
    <3>1. [z \in Vars |-> After(c)[z]] = Taken
      <4>1. Taken = [before EXCEPT ![x] = before[y], ![y] = before[y]]
        BY <2>4 DEF Taken
      <4>2. After(c)[x] = before[y] /\ \A z \in Vars \ {x} : After(c)[z] = before[z]
        <5>1. c.seen[tmp] = before[y] /\ \A z \in Vars : c.seen[z] = before[z]
          BY <1>1, <2>4
        <5>2. c.to = x /\ c.from = tmp
          BY <2>4
        <5>3. QED
          BY <1>1, <5>1, <5>2, AfterIs
      <4>3. \A z \in Vars : After(c)[z] = Taken[z]
        <5>1. Taken[x] = before[y] /\ \A z \in Vars \ {x} : Taken[z] = before[z]
          BY <1>1, <4>1
        <5>2. QED
          BY <4>2, <5>1
      <4>4. Taken = [z \in Vars |-> Taken[z]]
        BY <1>1 DEF Taken
      <4>5. QED
        BY <4>3, <4>4
    <3>2. After(c)[tmp] # Absent /\ c.seen[x] # Absent
      BY <1>1, <1>2, <1>3, <2>4 DEF After
    <3>3. moved
      BY <1>1, <1>2, <2>4, <3>1, <3>2, Successes
    <3>4. QED
      BY <3>3
  <2>5. CASE /\ c = Saving /\ called.op = "swap" /\ Differ
             /\ c.to = tmp /\ c.from = x /\ c.how = "move"
             /\ c.rest = <<Born(tmp), Assign(x, y, "move"), Assign(y, tmp, "move"), Drop(tmp)>>
             /\ c.seen = Origin
    <3>1. After(c) = Replacing.seen
      <4>1. before[x] \in Held /\ MovedOf(before[x]) \in Held
        BY <1>1, <1>2, <1>3, <2>5
      <4>2. Replacing.seen \in [Slots -> Held] /\ After(c) \in [Slots -> Held]
        BY <1>1, <1>4, <4>1, JobType
      <4>3. After(c)[tmp] = Replacing.seen[tmp] /\ After(c)[x] = Replacing.seen[x]
        <5>1. Replacing.seen[tmp] = before[x] /\ Replacing.seen[x] = MovedOf(before[x])
          BY <1>1, <1>4
        <5>2. QED
          BY <1>1, <2>5, <5>1, AfterIs
      <4>4. ASSUME NEW z \in Slots \ {x, tmp} PROVE After(c)[z] = Replacing.seen[z]
        <5>1. Replacing.seen[z] = Origin[z]
          BY <1>1, <1>4
        <5>2. QED
          BY <2>5, <5>1, AfterIs
      <4>5. QED
        BY <4>2, <4>3, <4>4, Alike
    <3>2. saved
      BY <1>1, <2>5, <3>1
    <3>3. QED
      BY <3>2
  <2>6. CASE /\ c = Replacing /\ called.op = "swap" /\ Differ
              /\ c.to = x /\ c.from = y /\ c.how = "move"
              /\ c.rest = <<Assign(y, tmp, "move"), Drop(tmp)>>
              /\ c.seen = [Origin EXCEPT ![x] = MovedOf(before[x]), ![tmp] = before[x]]
    <3>1. /\ c.seen[y] = before[y] /\ c.seen[x] = MovedOf(before[x])
          /\ c.seen \in [Slots -> Held] /\ c.seen[x] # Absent
      BY <1>1, <1>2, <1>3, <2>6
    <3>2. After(c) = Restoring.seen
      <4>1. MovedOf(before[y]) \in Held /\ before[x] \in Held /\ before[y] \in Held
        BY <1>1, <1>2, <1>3, <2>6
      <4>2. Restoring.seen \in [Slots -> Held] /\ After(c) \in [Slots -> Held]
        BY <1>1, <1>4, <4>1, JobType
      <4>3. After(c)[x] = Restoring.seen[x] /\ After(c)[y] = Restoring.seen[y]
        <5>1. Restoring.seen[x] = before[y] /\ Restoring.seen[y] = MovedOf(before[y])
          BY <1>1, <1>2, <1>4, <2>6
        <5>2. c.to = x /\ c.from = y /\ c.how = "move"
          BY <2>6
        <5>3. QED
          BY <1>1, <3>1, <5>1, <5>2, AfterIs
      <4>4. ASSUME NEW z \in Slots \ {x, y} PROVE After(c)[z] = Restoring.seen[z]
        <5>1. Restoring.seen[z] = c.seen[z]
          <6>1. c.seen[z] = IF z = tmp THEN before[x] ELSE Origin[z]
            BY <1>1, <2>6
          <6>2. Restoring.seen[z] = IF z = tmp THEN before[x] ELSE Origin[z]
            BY <1>1, <1>4
          <6>3. QED
            BY <6>1, <6>2
        <5>2. QED
          BY <2>6, <5>1, AfterIs
      <4>5. QED
        BY <4>2, <4>3, <4>4, Alike
    <3>3. replaced
      BY <1>1, <2>6, <3>1, <3>2
    <3>4. QED
      BY <3>3
  <2>7. CASE /\ c = Restoring /\ called.op = "swap" /\ Differ
              /\ c.to = y /\ c.from = tmp /\ c.how = "move"
              /\ c.rest = <<Drop(tmp)>>
              /\ c.seen = [Origin EXCEPT ![x] = before[y], ![y] = MovedOf(before[y]),
                                         ![tmp] = before[x]]
    <3>1. /\ c.seen[x] = before[y] /\ c.seen[y] # Absent /\ c.seen[tmp] = before[x]
          /\ c.seen \in [Slots -> Held]
      BY <1>1, <1>2, <1>3, <2>7
    <3>2. /\ After(c)[tmp] # Absent /\ After(c)[x] = before[y] /\ After(c)[y] = before[x]
          /\ \A z \in Vars \ {x, y} : After(c)[z] = before[z]
      BY <1>1, <1>2, <1>3, <2>7, <3>1 DEF After
    <3>3. [z \in Vars |-> After(c)[z]] = Exchanged
      BY <1>1, <1>2, <3>2 DEF Exchanged
    <3>4. moved
      BY <1>1, <2>7, <3>1, <3>2, <3>3, Successes
    <3>5. QED
      BY <3>4
  <2> HIDE DEF born, assigned, moved, replaced, copied, saved
  <2>8. QED
    BY JobCases, <2>1, <2>2, <2>3, <2>4, <2>5, <2>6, <2>7
<1>6. QED
  BY <1>5 DEF born, assigned, moved, replaced, copied, saved

-----------------------------------------------------------------------------
(* What comes next, from each of the places.                               *)
LEMMA JobSteps ==
  ASSUME TypeOK, NEW c \in Jobs
  PROVE  /\ AtClear(c) => /\ todo # <<>> /\ step = Clear(c.to)
                          /\ Tail(todo) = <<Transfer(c.to, c.from, c.how)>> \o c.rest
         /\ AtTransfer(c) => /\ todo # <<>> /\ step = Transfer(c.to, c.from, c.how)
                             /\ Tail(todo) = c.rest
         /\ AtGuard(c) => /\ todo # <<>> /\ step = Guard(c.to)
                          /\ c.seen[c.from] \in Objects => Tail(todo) =
                               <<Build(c.to, c.from, c.how), Unguard(c.to)>> \o c.rest
                          /\ c.seen[c.from] \notin Objects => Tail(todo) = <<Unguard(c.to)>> \o c.rest
         /\ AtBuild(c) => /\ todo # <<>> /\ step = Build(c.to, c.from, c.how)
                          /\ Tail(todo) = <<Unguard(c.to)>> \o c.rest
         /\ AtUnguard(c) => todo # <<>> /\ step = Unguard(c.to) /\ Tail(todo) = c.rest
         /\ AtBornTemporary(c) => todo # <<>> /\ step = Born(tmp)
<1>1. PICK S : c.rest \in Seq(S)
  BY JobType
<1>2. AtClear(c) => /\ todo # <<>> /\ step = Clear(c.to)
                    /\ Tail(todo) = <<Transfer(c.to, c.from, c.how)>> \o c.rest
  <2> DEFINE s == Clear(c.to)  t == Transfer(c.to, c.from, c.how)
  <2> HIDE DEF s, t
  <2>1. Head(<<s, t>> \o c.rest) = s /\ Tail(<<s, t>> \o c.rest) = <<t>> \o c.rest
        /\ <<s, t>> \o c.rest # <<>>
    BY <1>1, Lists
  <2>2. QED
    BY <2>1 DEF AtClear, step, s, t
<1>3. AtTransfer(c) => /\ todo # <<>> /\ step = Transfer(c.to, c.from, c.how)
                       /\ Tail(todo) = c.rest
  <2> DEFINE s == Transfer(c.to, c.from, c.how)
  <2> HIDE DEF s
  <2>1. Head(<<s>> \o c.rest) = s /\ Tail(<<s>> \o c.rest) = c.rest /\ <<s>> \o c.rest # <<>>
    BY <1>1, Lists
  <2>2. QED
    BY <2>1 DEF AtTransfer, step, s
<1>4. AtGuard(c) => /\ todo # <<>> /\ step = Guard(c.to)
                    /\ c.seen[c.from] \in Objects => Tail(todo) =
                         <<Build(c.to, c.from, c.how), Unguard(c.to)>> \o c.rest
                    /\ c.seen[c.from] \notin Objects => Tail(todo) = <<Unguard(c.to)>> \o c.rest
  <2> DEFINE s == Guard(c.to)  t == Build(c.to, c.from, c.how)  u == Unguard(c.to)
  <2> HIDE DEF s, t, u
  <2>1. Head(<<s, t, u>> \o c.rest) = s /\ Tail(<<s, t, u>> \o c.rest) = <<t, u>> \o c.rest
        /\ <<s, t, u>> \o c.rest # <<>>
        /\ Head(<<s, u>> \o c.rest) = s /\ Tail(<<s, u>> \o c.rest) = <<u>> \o c.rest
        /\ <<s, u>> \o c.rest # <<>>
    BY <1>1, Lists, SMTT(30)
  <2>2. QED
    BY <2>1 DEF AtGuard, step, s, t, u
<1>5. AtBuild(c) => /\ todo # <<>> /\ step = Build(c.to, c.from, c.how)
                    /\ Tail(todo) = <<Unguard(c.to)>> \o c.rest
  <2> DEFINE s == Build(c.to, c.from, c.how)  t == Unguard(c.to)
  <2> HIDE DEF s, t
  <2>1. Head(<<s, t>> \o c.rest) = s /\ Tail(<<s, t>> \o c.rest) = <<t>> \o c.rest
        /\ <<s, t>> \o c.rest # <<>>
    BY <1>1, Lists
  <2>2. QED
    BY <2>1 DEF AtBuild, step, s, t
<1>6. AtUnguard(c) => todo # <<>> /\ step = Unguard(c.to) /\ Tail(todo) = c.rest
  <2> DEFINE s == Unguard(c.to)
  <2> HIDE DEF s
  <2>1. Head(<<s>> \o c.rest) = s /\ Tail(<<s>> \o c.rest) = c.rest /\ <<s>> \o c.rest # <<>>
    BY <1>1, Lists
  <2>2. QED
    BY <2>1 DEF AtUnguard, step, s
<1>7. AtBornTemporary(c) => todo # <<>> /\ step = Born(tmp)
  <2> DEFINE x == called.x  y == called.y
  <2>1. c.to = tmp =>
          \/ c.rest = <<Born(tmp), Clear(x), Transfer(x, tmp, "move"), Drop(tmp)>>
          \/ c.rest = <<Born(tmp), Assign(x, y, "move"), Assign(y, tmp, "move"), Drop(tmp)>>
    <3>1. x # tmp /\ tmp \notin Vars
      BY CallType
    <3>2. QED
      BY <3>1, JobDone
  <2>2. \A p, q, r : <<Born(tmp), p, q, r>> # <<>> /\ Head(<<Born(tmp), p, q, r>>) = Born(tmp)
    OBVIOUS
  <2>3. c.to = tmp => c.rest # <<>> /\ Head(c.rest) = Born(tmp)
    BY <2>1, <2>2
  <2>4. QED
    BY <2>3 DEF AtBornTemporary, step
<1>8. QED
  BY <1>2, <1>3, <1>4, <1>5, <1>6, <1>7

LEMMA OtherSteps ==
  LET x == called.x  y == called.y  o == called.o IN
  /\ AtSetIndex => /\ todo # <<>> /\ step = SetIndex(x, o.alt)
                   /\ Tail(todo) = <<Make(x, o, "new"), Born(x)>>
  /\ AtInPlace => todo # <<>> /\ step = Make(x, o, "new") /\ Tail(todo) = <<Born(x)>>
  /\ AtBorn => todo # <<>> /\ step = Born(x) /\ Tail(todo) = <<>>
  /\ AtDestroy => todo # <<>> /\ step = Drop(x) /\ Tail(todo) = <<>>
  /\ AtDrop => todo # <<>> /\ step = Drop(tmp) /\ Tail(todo) = <<>>
  /\ AtCopyArgument => /\ todo # <<>> /\ step = CopyArgument
                       /\ Tail(todo) = <<Guard(x), Clear(x), Make(x, o, "move"), Unguard(x)>>
  /\ \A h : /\ AtEmplace(h) => /\ todo # <<>> /\ step = Guard(x)
                               /\ Tail(todo) = <<Clear(x), Make(x, o, h), Unguard(x)>>
            /\ AtEmplaceClear(h) => /\ todo # <<>> /\ step = Clear(x)
                                    /\ Tail(todo) = <<Make(x, o, h), Unguard(x)>>
            /\ AtEmplaceMake(h) => /\ todo # <<>> /\ step = Make(x, o, h)
                                   /\ Tail(todo) = <<Unguard(x)>>
  /\ AtEmplaced => todo # <<>> /\ step = Unguard(x) /\ Tail(todo) = <<>>
  /\ AtAssignAlt => /\ todo # <<>> /\ step = AssignAlt(x, o.val, called.how)
                    /\ Tail(todo) = <<>>
  /\ AtAssignFrom => /\ todo # <<>> /\ step = AssignFrom(x, y, called.how)
                     /\ Tail(todo) = <<>>
  /\ AtAssign => todo # <<>> /\ \E u, v, how : step = Assign(u, v, how)
  /\ AtExchange => todo # <<>> /\ step = Exchange(x, y) /\ Tail(todo) = <<>>
  /\ AtSwapAlts => todo # <<>> /\ step = SwapAlts(x, y) /\ Tail(todo) = <<>>
  /\ AtVisit => todo # <<>> /\ step = Visit(y) /\ Tail(todo) = <<>>
<1> DEFINE x == called.x  y == called.y  o == called.o
<1>1. AtSetIndex => /\ todo # <<>> /\ step = SetIndex(x, o.alt)
                    /\ Tail(todo) = <<Make(x, o, "new"), Born(x)>>
  BY DEF AtSetIndex, step
<1>2. AtInPlace => todo # <<>> /\ step = Make(x, o, "new") /\ Tail(todo) = <<Born(x)>>
  BY DEF AtInPlace, step
<1>3. AtBorn => todo # <<>> /\ step = Born(x) /\ Tail(todo) = <<>>
  BY DEF AtBorn, step
<1>4. AtDestroy => todo # <<>> /\ step = Drop(x) /\ Tail(todo) = <<>>
  BY DEF AtDestroy, step
<1>5. AtDrop => todo # <<>> /\ step = Drop(tmp) /\ Tail(todo) = <<>>
  BY DEF AtDrop, step
<1>6. AtCopyArgument => /\ todo # <<>> /\ step = CopyArgument
                        /\ Tail(todo) = <<Guard(x), Clear(x), Make(x, o, "move"), Unguard(x)>>
  BY DEF AtCopyArgument, step
<1>7. \A h : AtEmplace(h) => /\ todo # <<>> /\ step = Guard(x)
                             /\ Tail(todo) = <<Clear(x), Make(x, o, h), Unguard(x)>>
  BY DEF AtEmplace, step
<1>8. \A h : AtEmplaceClear(h) => /\ todo # <<>> /\ step = Clear(x)
                                  /\ Tail(todo) = <<Make(x, o, h), Unguard(x)>>
  BY DEF AtEmplaceClear, step
<1>9. \A h : AtEmplaceMake(h) => /\ todo # <<>> /\ step = Make(x, o, h)
                                 /\ Tail(todo) = <<Unguard(x)>>
  BY DEF AtEmplaceMake, step
<1>10. AtEmplaced => todo # <<>> /\ step = Unguard(x) /\ Tail(todo) = <<>>
  BY DEF AtEmplaced, step
<1>11. AtAssignAlt => /\ todo # <<>> /\ step = AssignAlt(x, o.val, called.how)
                      /\ Tail(todo) = <<>>
  BY DEF AtAssignAlt, step
<1>12. AtAssignFrom => /\ todo # <<>> /\ step = AssignFrom(x, y, called.how)
                       /\ Tail(todo) = <<>>
  BY DEF AtAssignFrom, step
<1>13. AtAssign => todo # <<>> /\ \E u, v, how : step = Assign(u, v, how)
  BY DEF AtAssign, step
<1>14. AtExchange => todo # <<>> /\ step = Exchange(x, y) /\ Tail(todo) = <<>>
  BY DEF AtExchange, step
<1>15. AtSwapAlts => todo # <<>> /\ step = SwapAlts(x, y) /\ Tail(todo) = <<>>
  BY DEF AtSwapAlts, step
<1>16. AtVisit => todo # <<>> /\ step = Visit(y) /\ Tail(todo) = <<>>
  BY DEF AtVisit, step
<1>17. QED
  BY <1>1, <1>2, <1>3, <1>4, <1>5, <1>6, <1>7, <1>8, <1>9, <1>10, <1>11, <1>12, <1>13, <1>14,
     <1>15, <1>16

(* What is left to unwind.                                                 *)
LEMMA UnwindingSteps ==
  ASSUME TypeOK, AtUnwinding
  PROVE  \/ /\ todo = <<>> /\ Guarded = {} /\ tmp \notin alive
         \/ /\ todo # <<>> /\ Guarded = {} /\ tmp \in alive /\ step = Drop(tmp) /\ Tail(todo) = <<>>
         \/ \E x \in Slots :
              /\ Guarded = {x} /\ todo # <<>> /\ step = Unguard(x)
              /\ Tail(todo) = IF tmp \in alive THEN <<Drop(tmp)>> ELSE <<>>
<1> DEFINE end == IF tmp \in alive THEN <<Drop(tmp)>> ELSE <<>>
<1>1. end \in Seq({Drop(tmp)})
  <2>1. <<Drop(tmp)>> \in Seq({Drop(tmp)}) /\ <<>> \in Seq({Drop(tmp)})
    OBVIOUS
  <2>2. QED
    BY <2>1
<1>2. CASE Guarded = {}
  <2>1. todo = <<>> \o end
    BY <1>2 DEF AtUnwinding, Unwinding
  <2>2. todo = end
    BY <1>1, <2>1, Lists
  <2>3. CASE tmp \in alive
    BY <1>2, <2>2, <2>3 DEF step
  <2>4. CASE tmp \notin alive
    BY <1>2, <2>2, <2>4
  <2>5. QED
    BY <2>3, <2>4
<1>3. CASE Guarded # {}
  <2>1. PICK x \in Slots : Guarded = {x}
    BY <1>3 DEF AtUnwinding, Guarded
  <2>2. (CHOOSE z \in Guarded : TRUE) = x
    BY <2>1
  <2>3. todo = <<Unguard(x)>> \o end
    BY <1>3, <2>2 DEF AtUnwinding, Unwinding
  <2> HIDE DEF end
  <2>4. Head(todo) = Unguard(x) /\ Tail(todo) = end /\ todo # <<>>
    BY <1>1, <2>3, Lists
  <2>5. QED
    BY <2>1, <2>4 DEF step, end
<1>4. QED
  BY <1>2, <1>3

(* Where a call is, from the step that it does.                            *)
LEMMA JobKinds ==
  ASSUME TypeOK, NEW c \in Jobs
  PROVE  /\ AtClear(c) => step.do = "clear"
         /\ AtTransfer(c) => step.do = "transfer"
         /\ AtGuard(c) => step.do = "guard"
         /\ AtBuild(c) => step.do = "build"
         /\ AtUnguard(c) => step.do = "unguard"
         /\ AtBornTemporary(c) => step.do = "born"
<1>1. \A x : /\ Clear(x).do = "clear" /\ Guard(x).do = "guard" /\ Unguard(x).do = "unguard"
             /\ Born(x).do = "born"
  BY DEF Clear, Guard, Unguard, Born
<1>2. AtClear(c) => step.do = "clear"
  BY <1>1, JobSteps
<1>3. AtTransfer(c) => step.do = "transfer"
  <2>1. AtTransfer(c) => step = Transfer(c.to, c.from, c.how)
    BY JobSteps
  <2>2. Transfer(c.to, c.from, c.how).do = "transfer"
    BY DEF Transfer
  <2>3. QED
    BY <2>1, <2>2
<1>4. AtGuard(c) => step.do = "guard"
  BY <1>1, JobSteps
<1>5. AtBuild(c) => step.do = "build"
  <2>1. AtBuild(c) => step = Build(c.to, c.from, c.how)
    BY JobSteps
  <2>2. Build(c.to, c.from, c.how).do = "build"
    BY DEF Build
  <2>3. QED
    BY <2>1, <2>2
<1>6. AtUnguard(c) => step.do = "unguard"
  BY <1>1, JobSteps
<1>7. AtBornTemporary(c) => step.do = "born"
  BY <1>1, JobSteps
<1>8. QED
  BY <1>2, <1>3, <1>4, <1>5, <1>6, <1>7

LEMMA OtherKinds ==
  /\ AtSetIndex => step.do = "set_index"
  /\ AtInPlace => step.do = "make"
  /\ AtBorn => step.do = "born"
  /\ AtDestroy => step.do = "drop"
  /\ AtDrop => step.do = "drop"
  /\ AtCopyArgument => step.do = "copy_argument"
  /\ \A h : /\ AtEmplace(h) => step.do = "guard"
            /\ AtEmplaceClear(h) => step.do = "clear"
            /\ AtEmplaceMake(h) => step.do = "make"
  /\ AtEmplaced => step.do = "unguard"
  /\ AtAssignAlt => step.do = "assign_alt"
  /\ AtAssignFrom => step.do = "assign_from"
  /\ AtAssign => step.do = "assign"
  /\ AtExchange => step.do = "exchange"
  /\ AtSwapAlts => step.do = "swap_alts"
  /\ AtVisit => step.do = "visit"
<1>1. /\ AtSetIndex => step.do = "set_index"
      /\ AtInPlace => step.do = "make"
      /\ AtBorn => step.do = "born"
      /\ AtDestroy => step.do = "drop"
      /\ AtDrop => step.do = "drop"
  BY OtherSteps DEF SetIndex, Make, Born, Drop
<1>2. /\ AtCopyArgument => step.do = "copy_argument"
      /\ AtEmplaced => step.do = "unguard"
      /\ AtAssignAlt => step.do = "assign_alt"
      /\ AtAssignFrom => step.do = "assign_from"
  BY OtherSteps DEF CopyArgument, Unguard, AssignAlt, AssignFrom
<1>3. ASSUME NEW h
      PROVE  /\ AtEmplace(h) => step.do = "guard"
             /\ AtEmplaceClear(h) => step.do = "clear"
             /\ AtEmplaceMake(h) => step.do = "make"
  BY OtherSteps DEF Guard, Clear, Make
<1>4. /\ AtAssign => step.do = "assign"
      /\ AtExchange => step.do = "exchange"
      /\ AtSwapAlts => step.do = "swap_alts"
      /\ AtVisit => step.do = "visit"
  BY OtherSteps DEF Assign, Exchange, SwapAlts, Visit
<1>5. QED
  BY <1>1, <1>2, <1>3, <1>4

LEMMA UnwindingKinds ==
  ASSUME TypeOK, AtUnwinding, todo # <<>>
  PROVE  step.do \in {"unguard", "drop"}
  BY UnwindingSteps DEF Unguard, Drop

LEMMA Whereabouts ==
  ASSUME IInv
  PROVE  /\ Doing("set_index") => ~threw /\ AtSetIndex
         /\ Doing("guard") => /\ ~threw
                              /\ \/ \E c \in Jobs : AtGuard(c)
                                 \/ \E h \in {"new", "move"} : AtEmplace(h)
         /\ Doing("clear") => /\ ~threw
                              /\ \/ \E c \in Jobs : AtClear(c)
                                 \/ \E h \in {"new", "move"} : AtEmplaceClear(h)
         /\ Doing("make") => /\ ~threw
                             /\ AtInPlace \/ \E h \in {"new", "move"} : AtEmplaceMake(h)
         /\ Doing("build") => ~threw /\ \E c \in Jobs : AtBuild(c)
         /\ Doing("unguard") => \/ ~threw /\ \E c \in Jobs : AtUnguard(c)
                                \/ ~threw /\ AtEmplaced
                                \/ threw /\ AtUnwinding
         /\ Doing("born") => ~threw /\ (AtBorn \/ \E c \in Jobs : AtBornTemporary(c))
         /\ Doing("drop") => (~threw /\ (AtDestroy \/ AtDrop)) \/ (threw /\ AtUnwinding)
         /\ Doing("transfer") => ~threw /\ \E c \in Jobs : AtTransfer(c)
         /\ Doing("assign") => ~threw /\ AtAssign
         /\ Doing("assign_alt") => ~threw /\ AtAssignAlt
         /\ Doing("assign_from") => ~threw /\ AtAssignFrom
         /\ Doing("copy_argument") => ~threw /\ AtCopyArgument
         /\ Doing("exchange") => ~threw /\ AtExchange
         /\ Doing("swap_alts") => ~threw /\ AtSwapAlts
         /\ Doing("visit") => ~threw /\ AtVisit
<1>1. CASE todo = <<>>
  BY <1>1 DEF Doing
<1>2. CASE todo # <<>> /\ threw
  <2>1. AtUnwinding /\ TypeOK
    BY <1>2 DEF IInv, Place
  <2>2. step.do \in {"unguard", "drop"}
    BY <1>2, <2>1, UnwindingKinds
  <2>3. QED
    BY <1>2, <2>1, <2>2 DEF Doing
<1>3. CASE todo # <<>> /\ ~threw
  <2>1. ~Idle /\ TypeOK
    BY <1>3 DEF Idle, IInv
  <2>2. CASE AtJob
    <3>1. PICK c \in Jobs : AtClear(c) \/ AtTransfer(c) \/ AtGuard(c) \/ AtBuild(c)
                            \/ AtUnguard(c) \/ AtBornTemporary(c)
      BY <2>2 DEF AtJob
    <3>2. QED
      BY <1>3, <2>1, <3>1, JobKinds DEF Doing
  <2>3. CASE \E h \in {"new", "move"} : AtEmplace(h) \/ AtEmplaceClear(h) \/ AtEmplaceMake(h)
    BY <1>3, <2>3, OtherKinds DEF Doing
  <2>4. CASE \/ AtSetIndex \/ AtInPlace \/ AtBorn \/ AtDestroy \/ AtDrop \/ AtCopyArgument
             \/ AtEmplaced \/ AtAssignAlt \/ AtAssignFrom \/ AtAssign \/ AtExchange \/ AtSwapAlts
             \/ AtVisit
    BY <1>3, <2>4, OtherKinds DEF Doing
  <2>5. QED
    BY <1>3, <2>1, <2>2, <2>3, <2>4 DEF IInv, Place
<1>4. QED
  BY <1>1, <1>2, <1>3

-----------------------------------------------------------------------------
(* What a step of a call leaves as it is.                                  *)
LEMMA Going ==
  ASSUME NEW s, Continue(s)
  PROVE  /\ UNCHANGED <<nothrow, strict, threw, terminated, called, before>>
         /\ todo' = s \o Tail(todo)
  BY DEF Continue

LEMMA Settled ==
  ASSUME UNCHANGED <<nothrow, called, before>>
  PROVE  /\ Asked!Success' = Asked!Success /\ Asked!Failures' = Asked!Failures
         /\ Origin' = Origin /\ Differ' = Differ /\ Jobs' = Jobs
         /\ Committing' = Committing /\ Replacing' = Replacing /\ Restoring' = Restoring
         /\ Replaces' = Replaces /\ Preserving' = Preserving
         /\ \A c : After(c)' = After(c)
         /\ \A o : Kind(o)' = Kind(o)
<1>1. Asked!Success' = Asked!Success
  BY DEF Asked!Success, Asked!Moved
<1>2. Asked!Failures' = Asked!Failures
  BY DEF Asked!Failures, Asked!AssignFailures, Asked!SwapFailures, Asked!SameAlternative,
         Asked!MaybeMoved, Asked!Moved, Noexcept
<1>3. Origin' = Origin /\ \A o : MovedOf(o)' = MovedOf(o) /\ Kind(o)' = Kind(o)
  BY DEF Origin, MovedOf, Kind
<1>4. Differ' = Differ /\ Replaces' = Replaces /\ Preserving' = Preserving
  BY DEF Differ, Replaces, Preserving, Noexcept, Kind
<1>5. \A c : After(c)' = After(c)
  BY DEF After, MovedOf
<1>6. /\ Committing' = Committing /\ Replacing' = Replacing /\ Restoring' = Restoring
      /\ Constructing' = Constructing /\ MoveAssigning' = MoveAssigning
      /\ Copying' = Copying /\ Saving' = Saving
  BY <1>3 DEF Committing, Replacing, Restoring, Constructing, MoveAssigning, Copying, Saving,
              Job, MovedOf, Born, Clear, Transfer, Drop, Assign
<1>7. Jobs' = Jobs
  BY <1>4, <1>6 DEF Jobs, IsJob
<1>8. QED
  BY <1>1, <1>2, <1>3, <1>4, <1>5, <1>6, <1>7

LEMMA Onward ==
  ASSUME Continue(<<>>)
  PROVE  /\ UNCHANGED <<nothrow, strict, threw, terminated, called, before>>
         /\ Tail(todo) = <<>> => todo' = <<>>
         /\ \A a : Tail(todo) = <<a>> => todo' = <<a>>
         /\ \A a, b : Tail(todo) = <<a, b>> => todo' = <<a, b>>
         /\ \A a, b, c : Tail(todo) = <<a, b, c>> => todo' = <<a, b, c>>
         /\ \A a, b, c, d : Tail(todo) = <<a, b, c, d>> => todo' = <<a, b, c, d>>
         /\ \A S : \A k \in Seq(S) :
              /\ Tail(todo) = k => todo' = k
              /\ \A a : Tail(todo) = <<a>> \o k => todo' = <<a>> \o k
              /\ \A a, b : Tail(todo) = <<a, b>> \o k => todo' = <<a, b>> \o k
<1>1. /\ UNCHANGED <<nothrow, strict, threw, terminated, called, before>>
      /\ todo' = <<>> \o Tail(todo)
  BY Going
<1>2. \A S : \A k \in Seq(S) : <<>> \o k = k
  OBVIOUS
<1>3. ASSUME NEW a, NEW b, NEW c, NEW d
      PROVE  /\ Tail(todo) = <<>> => todo' = <<>>
             /\ Tail(todo) = <<a>> => todo' = <<a>>
             /\ Tail(todo) = <<a, b>> => todo' = <<a, b>>
             /\ Tail(todo) = <<a, b, c>> => todo' = <<a, b, c>>
             /\ Tail(todo) = <<a, b, c, d>> => todo' = <<a, b, c, d>>
  <2>1. /\ <<>> \in Seq({}) /\ <<a>> \in Seq({a}) /\ <<a, b>> \in Seq({a, b})
        /\ <<a, b, c>> \in Seq({a, b, c}) /\ <<a, b, c, d>> \in Seq({a, b, c, d})
    OBVIOUS
  <2>2. QED
    BY <1>1, <1>2, <2>1
<1>4. ASSUME NEW S, NEW k \in Seq(S), NEW a, NEW b
      PROVE  /\ Tail(todo) = k => todo' = k
             /\ Tail(todo) = <<a>> \o k => todo' = <<a>> \o k
             /\ Tail(todo) = <<a, b>> \o k => todo' = <<a, b>> \o k
  <2>1. k \in Seq(S \cup {a, b}) /\ <<a>> \in Seq(S \cup {a, b}) /\ <<a, b>> \in Seq(S \cup {a, b})
    OBVIOUS
  <2>2. <<a>> \o k \in Seq(S \cup {a, b}) /\ <<a, b>> \o k \in Seq(S \cup {a, b})
    BY <2>1
  <2>3. QED
    BY <1>1, <1>2, <2>1, <2>2
<1>5. QED
  BY <1>1, <1>3, <1>4

LEMMA TypeGoing ==
  ASSUME TypeOK, UNCHANGED <<nothrow, strict, called, before>>,
         threw' \in BOOLEAN, terminated' \in BOOLEAN, alive' \subseteq Slots,
         storage' \in [Slots -> Objects \cup {Raw}],
         index' \in [Slots -> Indices \cup {invalid_index}],
         guard' \in [Slots -> Indices \cup {invalid_index, NoGuard}]
  PROVE  TypeOK'
  BY DEF TypeOK

(* A step that changes one slot, but not what is seen of it.               *)
LEMMA Unseen ==
  ASSUME NEW E \in [Slots -> Held], Seen(E), NEW x \in Slots, Frame({x}),
         Sound(x)', View'[x] = E[x]
  PROVE  Seen(E)'
  BY Split, FramedOff, Joined

LEMMA SetIndexInv == IInv /\ DoSetIndex => IInv'
<1> SUFFICES ASSUME IInv, DoSetIndex, NEW x, NEW o, x = called.x, o = called.o,
                    NEW E, E = Origin
             PROVE  IInv'
  OBVIOUS
<1>1. ~threw /\ AtSetIndex /\ TypeOK
  BY Whereabouts DEF DoSetIndex, IInv
<1>2. /\ step.to = x /\ step.i = o.alt /\ Tail(todo) = <<Make(x, o, "new"), Born(x)>>
      /\ called.op = "in_place" /\ o \in Objects /\ x \notin alive /\ Seen(E)
  BY <1>1, OtherSteps DEF SetIndex, AtSetIndex
<1>3. /\ UNCHANGED <<nothrow, strict, threw, terminated, called, before, alive, storage, guard>>
      /\ todo' = <<Make(x, o, "new"), Born(x)>>
  BY <1>2, Onward DEF DoSetIndex
<1>4. x \in Slots /\ E \in [Slots -> Held] /\ o.alt \in Indices
  BY <1>1, <1>2, CallType, OriginType, Objectively
<1>5. /\ index' \in [Slots -> Indices \cup {invalid_index}] /\ index'[x] = o.alt
      /\ \A z \in Slots \ {x} : index'[z] = index[z]
  BY <1>1, <1>2, <1>4 DEF DoSetIndex, TypeOK
<1>6. TypeOK'
  BY <1>1, <1>3, <1>5, TypeGoing DEF TypeOK
<1>7. Frame({x}) /\ Sound(x)' /\ View'[x] = E[x]
  <2>1. guard[x] = NoGuard /\ storage[x] = Raw /\ E[x] = Absent
    BY <1>2, <1>4, Split
  <2>2. QED
    BY <1>2, <1>3, <1>4, <1>5, <2>1 DEF Frame, Sound, View
<1>8. Seen(E)' /\ Origin' = E
  BY <1>2, <1>3, <1>4, <1>7, Unseen, Settled
<1>9. AtInPlace'
  BY <1>2, <1>3, <1>5, <1>8 DEF AtInPlace
<1>10. QED
  BY <1>1, <1>3, <1>6, <1>9 DEF IInv, Place

LEMMA JobInv ==
  ASSUME NEW c \in Jobs, Jobs' = Jobs, TypeOK', ~threw',
         \/ AtClear(c)' \/ AtTransfer(c)' \/ AtGuard(c)' \/ AtBuild(c)' \/ AtUnguard(c)'
         \/ AtBornTemporary(c)'
  PROVE  IInv'
<1>1. c \in Jobs'
  OBVIOUS
<1>2. AtJob'
  BY <1>1 DEF AtJob
<1>3. QED
  BY <1>2 DEF IInv, Place

(* Guarding a slot changes nothing else.                                   *)
LEMMA GuardInv == IInv /\ DoGuard => IInv'
<1> SUFFICES ASSUME IInv, DoGuard, NEW x, x = step.to PROVE IInv'
  OBVIOUS
<1>1. ~threw /\ TypeOK /\ guard' = [guard EXCEPT ![x] = invalid_index]
  BY Whereabouts DEF DoGuard, IInv
<1>2. /\ UNCHANGED <<nothrow, strict, threw, terminated, called, before, alive, storage, index>>
  BY Onward DEF DoGuard
<1>3. ASSUME x \in Slots
      PROVE  /\ TypeOK' /\ Frame({x}) /\ guard'[x] = invalid_index
  <2>1. guard' \in [Slots -> Indices \cup {invalid_index, NoGuard}] /\ guard'[x] = invalid_index
        /\ \A z \in Slots \ {x} : guard'[z] = guard[z]
    BY <1>1, <1>3 DEF TypeOK
  <2>2. TypeOK'
    BY <1>1, <1>2, <2>1, TypeGoing DEF TypeOK
  <2>3. QED
    BY <1>2, <2>1, <2>2 DEF Frame
<1>4. ASSUME NEW c \in Jobs, AtGuard(c) PROVE IInv'
  <2>1. /\ x = c.to /\ Waiting(c) /\ storage[x] = Raw
        /\ c.seen[c.from] \in Objects => Tail(todo) =
             <<Build(c.to, c.from, c.how), Unguard(c.to)>> \o c.rest
        /\ c.seen[c.from] \notin Objects => Tail(todo) = <<Unguard(c.to)>> \o c.rest
    <3>1. /\ step = Guard(c.to)
          /\ c.seen[c.from] \in Objects => Tail(todo) =
               <<Build(c.to, c.from, c.how), Unguard(c.to)>> \o c.rest
          /\ c.seen[c.from] \notin Objects => Tail(todo) = <<Unguard(c.to)>> \o c.rest
      BY <1>1, <1>4, JobSteps
    <3>2. x = c.to
      BY <3>1 DEF Guard
    <3>3. Waiting(c) /\ storage[x] = Raw
      BY <1>4, <3>2 DEF AtGuard
    <3>4. QED
      BY <3>1, <3>2, <3>3
  <2>2. /\ x \in Slots /\ c.from \in Slots /\ c.from # x /\ c.seen[c.from] \in Objects \cup {Invalid}
        /\ \E S : c.rest \in Seq(S)
    BY <1>1, <2>1, JobType
  <2>3. TypeOK' /\ guard'[x] = invalid_index /\ Frame({x})
    BY <1>3, <2>2
  <2>4. SeenOff(x, c.seen)'
    BY <2>1, <2>3, FramedOff DEF Waiting
  <2>5. CASE c.seen[c.from] \in Objects
    <3>1. todo' = <<Build(c.to, c.from, c.how), Unguard(c.to)>> \o c.rest
      BY <2>1, <2>2, <2>5, Onward DEF DoGuard
    <3>2. AtBuild(c)'
      BY <1>2, <2>1, <2>3, <2>4, <2>5, <3>1 DEF AtBuild, Waiting
    <3>3. QED
      BY <1>1, <1>2, <2>3, <3>2, Settled, JobInv
  <2>6. CASE c.seen[c.from] \notin Objects
    <3>1. todo' = <<Unguard(c.to)>> \o c.rest
      BY <2>1, <2>2, <2>6, Onward DEF DoGuard
    <3>2. c.seen[c.from] = Invalid /\ MovedOf(Invalid) = Invalid
      BY <2>2, <2>6, Objectively
    <3>3. \A z \in Slots \ {x} : After(c)[z] = c.seen[z]
      BY <1>1, <2>1, <3>2, AfterIs
    <3>4. SeenOff(x, After(c))'
      BY <1>2, <2>4, <3>3, Settled DEF SeenOff
    <3>5. Kind(c.seen[c.from])' = invalid_index
      BY <1>2, <3>2, Settled, Objectively
    <3>6. AtUnguard(c)'
      BY <1>2, <2>1, <2>3, <2>6, <3>1, <3>4, <3>5 DEF AtUnguard, Filled, Waiting
    <3>7. QED
      BY <1>1, <1>2, <2>3, <3>6, Settled, JobInv
  <2>7. QED
    BY <2>5, <2>6
<1>5. ASSUME NEW h \in {"new", "move"}, AtEmplace(h) PROVE IInv'
  <2> SUFFICES ASSUME NEW o, o = called.o, x = called.x, NEW E, E = Origin PROVE IInv'
    <3>1. x = called.x
      BY <1>5, OtherSteps DEF Guard
    <3>2. QED
      BY <3>1
  <2>1. /\ Tail(todo) = <<Clear(x), Make(x, o, h), Unguard(x)>>
        /\ Emplaces(h) /\ Seen(E) /\ x \in Slots /\ x \in alive
    BY <1>1, <1>5, OtherSteps, CallType DEF AtEmplace, Emplaces
  <2>2. TypeOK' /\ guard'[x] = invalid_index /\ Frame({x})
    BY <1>3, <2>1
  <2>3. /\ SeenOff(x, E) /\ Sound(x)
    BY <2>1, Split
  <2>4. SeenOff(x, E)' /\ Origin' = E
    BY <1>2, <2>2, <2>3, FramedOff, Settled
  <2>5. (IF valid(x) THEN Agrees(x) ELSE storage[x] = Raw)'
    BY <1>2, <2>1, <2>3 DEF Sound, valid, Agrees
  <2>6. Emplaces(h)'
    BY <1>2, <2>1, Settled DEF Emplaces
  <2>7. todo' = <<Clear(x), Make(x, o, h), Unguard(x)>>
    BY <2>1, Onward DEF DoGuard
  <2>8. AtEmplaceClear(h)'
    BY <1>2, <2>2, <2>4, <2>5, <2>6, <2>7 DEF AtEmplaceClear
  <2>9. QED
    BY <1>1, <1>2, <2>2, <2>8 DEF IInv, Place
<1>6. QED
  BY <1>4, <1>5, Whereabouts DEF DoGuard

(* Clearing a slot ends the lifetime of its object, if it has one.         *)
LEMMA ClearInv == IInv /\ DoClear => IInv'
<1> SUFFICES ASSUME IInv, DoClear, NEW x, x = step.to PROVE IInv'
  OBVIOUS
<1>1. ~threw /\ TypeOK /\ storage' = IF valid(x) THEN [storage EXCEPT ![x] = Raw] ELSE storage
  BY Whereabouts DEF DoClear, IInv
<1>2. UNCHANGED <<nothrow, strict, threw, terminated, called, before, alive, index, guard>>
  BY Onward DEF DoClear
<1>3. ASSUME x \in Slots, ~valid(x) => storage[x] = Raw
      PROVE  TypeOK' /\ Frame({x}) /\ storage'[x] = Raw
  <2>1. storage' \in [Slots -> Objects \cup {Raw}] /\ storage'[x] = Raw
        /\ \A z \in Slots \ {x} : storage'[z] = storage[z]
    BY <1>1, <1>3 DEF TypeOK
  <2>2. TypeOK'
    BY <1>1, <1>2, <2>1, TypeGoing DEF TypeOK
  <2>3. QED
    BY <1>2, <2>1, <2>2 DEF Frame
<1>4. ASSUME NEW c \in Jobs, AtClear(c) PROVE IInv'
  <2>1. /\ x = c.to /\ Seen(c.seen) /\ x \in alive
        /\ Tail(todo) = <<Transfer(c.to, c.from, c.how)>> \o c.rest
    <3>1. step = Clear(c.to) /\ Tail(todo) = <<Transfer(c.to, c.from, c.how)>> \o c.rest
      BY <1>1, <1>4, JobSteps
    <3>2. x = c.to
      BY <3>1 DEF Clear
    <3>3. Seen(c.seen) /\ x \in alive
      BY <1>4, <3>2 DEF AtClear
    <3>4. QED
      BY <3>1, <3>2, <3>3
  <2>2. x \in Slots /\ \E S : c.rest \in Seq(S)
    BY <1>1, <2>1, JobType
  <2>3. /\ SeenOff(x, c.seen) /\ Sound(x) /\ guard[x] = NoGuard /\ c.seen[x] # Absent
    BY <1>1, <2>1, <2>2, Split, SeenAlive
  <2>4. TypeOK' /\ Frame({x}) /\ storage'[x] = Raw
    BY <1>3, <2>1, <2>2, <2>3 DEF Sound
  <2>5. SeenOff(x, c.seen)'
    BY <2>3, <2>4, FramedOff
  <2>6. todo' = <<Transfer(c.to, c.from, c.how)>> \o c.rest
    BY <2>1, <2>2, Onward DEF DoClear
  <2>7. AtTransfer(c)'
    BY <1>2, <2>1, <2>3, <2>4, <2>5, <2>6 DEF AtTransfer, Waiting
  <2>8. QED
    BY <1>1, <1>2, <2>4, <2>7, Settled, JobInv
<1>5. ASSUME NEW h \in {"new", "move"}, AtEmplaceClear(h) PROVE IInv'
  <2> SUFFICES ASSUME NEW o, o = called.o, x = called.x, NEW E, E = Origin PROVE IInv'
    <3>1. x = called.x
      BY <1>5, OtherSteps DEF Clear
    <3>2. QED
      BY <3>1
  <2>1. /\ Tail(todo) = <<Make(x, o, h), Unguard(x)>>
        /\ Emplaces(h) /\ SeenOff(x, E) /\ x \in Slots /\ guard[x] = invalid_index
        /\ ~valid(x) => storage[x] = Raw
    BY <1>1, <1>5, OtherSteps, CallType DEF AtEmplaceClear
  <2>2. TypeOK' /\ Frame({x}) /\ storage'[x] = Raw
    BY <1>3, <2>1
  <2>3. SeenOff(x, E)' /\ Origin' = E
    BY <1>2, <2>1, <2>2, FramedOff, Settled
  <2>4. Emplaces(h)'
    BY <1>2, <2>1, Settled DEF Emplaces
  <2>5. todo' = <<Make(x, o, h), Unguard(x)>>
    BY <2>1, Onward DEF DoClear
  <2>6. AtEmplaceMake(h)'
    BY <1>2, <2>1, <2>2, <2>3, <2>4, <2>5 DEF AtEmplaceMake
  <2>7. QED
    BY <1>1, <1>2, <2>2, <2>6 DEF IInv, Place
<1>6. QED
  BY <1>4, <1>5, Whereabouts DEF DoClear

-----------------------------------------------------------------------------
(* What the client sees, and what an exception leaves, after a step.       *)
LEMMA ViewedNext ==
  /\ Contents' = [z \in Vars |-> View'[z]]
  /\ \A z \in Slots : z \notin alive' => View'[z] = Absent
  /\ \A z \in Slots : z \in alive' => View'[z] = Inside(z)'
<1>1. Vars \subseteq Slots
  BY DEF Slots
<1>2. QED
  BY <1>1 DEF Contents, View, Inside

LEMMA SeenNext ==
  ASSUME NEW E, NEW f, Seen(E)', f = [z \in Vars |-> f[z]], \A z \in Vars : E[z] = f[z]
  PROVE  Contents' = f
<1>1. View' = E
  BY DEF Seen
<1>2. QED
  BY <1>1, ViewedNext

LEMMA LeftWhole ==
  ASSUME SoundOff({})'
  PROVE  Left' = Contents'
<1>1. \A z \in Vars : guard'[z] = NoGuard
  BY DEF SoundOff, Sound, Slots
<1>2. QED
  BY <1>1 DEF Left, Contents, Inside

LEMMA LeftApart ==
  ASSUME NEW x, SoundOff({x})', guard'[x] # NoGuard
  PROVE  /\ Left' = [z \in Vars |-> Left'[z]]
         /\ \A z \in Vars \ {x} : Left'[z] = View'[z]
         /\ x \in Vars => Left'[x] = IF x \in alive' THEN Invalid ELSE Absent
<1>1. \A z \in Vars \ {x} : guard'[z] = NoGuard
  BY DEF SoundOff, Sound, Slots
<1>2. Vars \subseteq Slots
  BY DEF Slots
<1>3. QED
  BY <1>1, <1>2 DEF Left, View

(* A step that throws.                                                     *)
LEMMA ThrowInv ==
  ASSUME TypeOK, ~threw, Throw, storage' \in [Slots -> Objects \cup {Raw}],
         \A z \in Slots : IF guard'[z] = NoGuard THEN Sound(z)'
                          ELSE guard'[z] = invalid_index /\ storage'[z] = Raw,
         \A y, z \in Slots : guard'[y] # NoGuard /\ guard'[z] # NoGuard => y = z,
         Left' \in Asked!Failures,
         Preserving => \A z \in Vars : Left'[z] # Invalid
  PROVE  IInv'
<1>1. /\ UNCHANGED <<nothrow, alive, index, guard, strict, called, before>>
      /\ threw' = TRUE /\ todo' = Unwinding /\ terminated' = strict
  BY DEF Throw
<1>2. TypeOK'
  BY <1>1, TypeGoing DEF TypeOK
<1>3. Unwinding' = Unwinding /\ Guarded' = Guarded
  BY <1>1 DEF Unwinding, Guarded, Drop, Unguard
<1>4. \A y, z \in Guarded' : y = z
  BY DEF Guarded
<1>5. AtUnwinding'
  BY <1>1, <1>3, <1>4, Settled DEF AtUnwinding
<1>6. QED
  BY <1>1, <1>2, <1>5 DEF IInv, Place

(* It throws with no guard in scope,                                       *)
LEMMA ThrowFree ==
  ASSUME TypeOK, ~threw, Throw, storage' \in [Slots -> Objects \cup {Raw}], SoundOff({})',
         Contents' \in Asked!Failures,
         Preserving => \A z \in Vars : Contents'[z] # Invalid
  PROVE  IInv'
<1>1. Left' = Contents'
  BY LeftWhole
<1>2. \A z \in Slots : guard'[z] = NoGuard /\ Sound(z)'
  BY DEF SoundOff, Sound
<1>3. QED
  BY <1>1, <1>2, ThrowInv

(* or with that of one slot.                                               *)
LEMMA ThrowGuarded ==
  ASSUME TypeOK, ~threw, Throw, storage' \in [Slots -> Objects \cup {Raw}],
         NEW x \in Slots, SoundOff({x})', guard'[x] = invalid_index, storage'[x] = Raw,
         Left' \in Asked!Failures,
         Preserving => \A z \in Vars : Left'[z] # Invalid
  PROVE  IInv'
<1>1. \A z \in Slots \ {x} : guard'[z] = NoGuard /\ Sound(z)'
  BY DEF SoundOff, Sound
<1>2. guard'[x] # NoGuard
  BY DEF invalid_index, NoGuard
<1>3. /\ \A z \in Slots : IF guard'[z] = NoGuard THEN Sound(z)'
                          ELSE guard'[z] = invalid_index /\ storage'[z] = Raw
      /\ \A y, z \in Slots : guard'[y] # NoGuard /\ guard'[z] # NoGuard => y = z
  BY <1>1, <1>2
<1>4. QED
  BY <1>3, ThrowInv

(* A step that changes no slot.                                            *)
LEMMA Still ==
  ASSUME UNCHANGED <<alive, storage, index, guard>>
  PROVE  /\ \A S : SoundOff(S)' = SoundOff(S)
         /\ View' = View /\ Contents' = Contents /\ \A x : valid(x)' = valid(x)
         /\ \A E : Seen(E)' = Seen(E)
         /\ \A x, E : SeenOff(x, E)' = SeenOff(x, E)
<1>1. \A S : SoundOff(S)' = SoundOff(S)
  BY DEF SoundOff, Sound, Agrees, valid
<1>2. View' = View /\ Contents' = Contents
  BY DEF View, Contents, Inside, valid
<1>3. QED
  BY <1>1, <1>2 DEF Seen, SeenOff, valid

(* Constructing an object in place or in emplace.                          *)
LEMMA MakeInv == IInv /\ DoMake => IInv'
<1> SUFFICES ASSUME IInv, DoMake, NEW x, NEW o, x = called.x, o = called.o, NEW E, E = Origin
             PROVE  IInv'
  OBVIOUS
<1>1. ~threw /\ TypeOK
  BY Whereabouts DEF DoMake, IInv
<1>2. /\ x \in Vars /\ x \in Slots /\ x # tmp /\ tmp \in Slots /\ E \in [Slots -> Held]
      /\ E[tmp] = Absent /\ \A z \in Vars : E[z] = before[z] /\ z \in Slots
      /\ before \in [Vars -> Held]
  BY <1>1, CallType, OriginType DEF TypeOK, Held, Slots
<1>3. ASSUME NEW h, o \in Objects, step = Make(x, o, h), Continue(<<>>), Hold(x, o)
      PROVE  /\ Frame({x}) /\ storage'[x] = o /\ TypeOK'
             /\ guard'[x] = IF guard[x] = NoGuard THEN NoGuard ELSE o.alt
             /\ UNCHANGED <<nothrow, strict, threw, terminated, called, before, alive, index>>
  <2>1. UNCHANGED <<nothrow, strict, threw, terminated, called, before, alive, index>>
    BY <1>3, Onward DEF Hold
  <2>2. /\ storage' \in [Slots -> Objects \cup {Raw}] /\ storage'[x] = o
        /\ \A z \in Slots \ {x} : storage'[z] = storage[z]
    BY <1>1, <1>2, <1>3 DEF Hold, TypeOK
  <2>3. /\ guard' \in [Slots -> Indices \cup {invalid_index, NoGuard}]
        /\ guard'[x] = IF guard[x] = NoGuard THEN NoGuard ELSE o.alt
        /\ \A z \in Slots \ {x} : guard'[z] = guard[z]
    BY <1>1, <1>2, <1>3, Objectively DEF Hold, TypeOK
  <2>4. TypeOK'
    BY <1>1, <2>1, <2>2, <2>3, TypeGoing DEF TypeOK
  <2>5. QED
    BY <2>1, <2>2, <2>3, <2>4 DEF Frame
<1>4. ASSUME AtInPlace PROVE IInv'
  <2>1. /\ step = Make(x, o, "new") /\ Tail(todo) = <<Born(x)>>
        /\ called.op = "in_place" /\ o \in Objects /\ x \notin alive /\ Seen(E)
        /\ index[x] = o.alt
    BY <1>4, OtherSteps DEF AtInPlace
  <2>2. step.to = x /\ step.object = o
    BY <2>1 DEF Make
  <2>3. tmp \notin alive /\ guard[x] = NoGuard /\ SeenOff(x, E)
    BY <1>1, <1>2, <2>1, SeenAlive, Split
  <2>4. CASE Continue(<<>>) /\ Hold(step.to, step.object)
    <3>1. /\ Frame({x}) /\ storage'[x] = o /\ TypeOK' /\ guard'[x] = NoGuard
          /\ UNCHANGED <<nothrow, strict, threw, terminated, called, before, alive, index>>
      BY <1>3, <2>1, <2>2, <2>3, <2>4
    <3>2. todo' = <<Born(x)>>
      BY <2>1, <2>4, Onward
    <3>3. SeenOff(x, E)'
      BY <2>3, <3>1, FramedOff
    <3>4. valid(x)' /\ Agrees(x)' /\ Inside(x)' = o
      BY <2>1, <3>1, Objectively DEF valid, Agrees, Inside
    <3>5. [Contents EXCEPT ![x] = Inside(x)]' = Put
      <4>1. \A z \in Vars \ {x} : Contents'[z] = before[z]
        BY <1>2, <3>3, ViewedNext DEF SeenOff
      <4>2. Contents' = [z \in Vars |-> Contents'[z]]
        BY DEF Contents
      <4>3. QED
        BY <1>1, <1>2, <3>1, <3>4, <4>1, <4>2 DEF Put
    <3>6. Asked!Success' = Put
      BY <2>1, <3>1, Successes, Settled
    <3>7. AtBorn'
      BY <2>1, <2>3, <3>1, <3>2, <3>3, <3>4, <3>5, <3>6 DEF AtBorn, SeenOff
    <3>8. QED
      BY <1>1, <3>1, <3>7 DEF IInv, Place
  <2>5. CASE Throw /\ UNCHANGED storage
    <3>1. Seen(E)' /\ storage' \in [Slots -> Objects \cup {Raw}]
      BY <1>1, <2>1, <2>5, Still DEF Throw, TypeOK
    <3>2. Contents' = before
      BY <1>2, <3>1, SeenNext
    <3>3. before \in Asked!Failures /\ ~Preserving
      BY <1>1, <2>1, Failings DEF Preserving
    <3>4. QED
      BY <1>1, <2>5, <3>1, <3>2, <3>3, ThrowFree DEF Seen
  <2>6. QED
    BY <2>4, <2>5 DEF DoMake
<1>5. ASSUME NEW h \in {"new", "move"}, AtEmplaceMake(h) PROVE IInv'
  <2>1. /\ step = Make(x, o, h) /\ Tail(todo) = <<Unguard(x)>>
        /\ Emplaces(h) /\ SeenOff(x, E) /\ guard[x] = invalid_index /\ storage[x] = Raw
        /\ o \in Objects /\ x \in alive
    BY <1>5, OtherSteps DEF AtEmplaceMake, Emplaces
  <2>2. step.to = x /\ step.object = o /\ step.trait = Constructs(h)
    BY <2>1 DEF Make
  <2>3. CASE Continue(<<>>) /\ Hold(step.to, step.object)
    <3>1. invalid_index # NoGuard
      BY DEF invalid_index, NoGuard
    <3>2. /\ Frame({x}) /\ storage'[x] = o /\ TypeOK' /\ guard'[x] = o.alt
          /\ UNCHANGED <<nothrow, strict, threw, terminated, called, before, alive, index>>
      BY <1>3, <2>1, <2>2, <2>3, <3>1
    <3>3. todo' = <<Unguard(x)>>
      BY <2>1, <2>3, Onward
    <3>4. SeenOff(x, E)' /\ Origin' = E
      BY <2>1, <3>2, FramedOff, Settled
    <3>5. Emplaces(h)'
      BY <2>1, <3>2, Settled DEF Emplaces
    <3>6. AtEmplaced'
      BY <2>1, <3>2, <3>3, <3>4, <3>5 DEF AtEmplaced
    <3>7. QED
      BY <1>1, <3>2, <3>6 DEF IInv, Place
  <2>4. CASE Throw /\ UNCHANGED storage
    <3>1. /\ SeenOff(x, E)' /\ storage' \in [Slots -> Objects \cup {Raw}]
          /\ guard'[x] = invalid_index /\ storage'[x] = Raw /\ x \in alive'
      BY <1>1, <2>1, <2>4, Still DEF Throw, TypeOK
    <3>2. guard'[x] # NoGuard /\ SoundOff({x})'
      BY <3>1 DEF invalid_index, NoGuard, SeenOff
    <3>3. /\ Left' = [z \in Vars |-> Left'[z]] /\ Left'[x] = Invalid
          /\ \A z \in Vars \ {x} : Left'[z] = View'[z]
      BY <1>2, <3>1, <3>2, LeftApart
    <3>4. \A z \in Vars \ {x} : Left'[z] = before[z]
      BY <1>2, <3>1, <3>3 DEF SeenOff
    <3>5. Left' = [before EXCEPT ![x] = Invalid]
      BY <1>2, <3>3, <3>4
    <3>6. Left' \in Asked!Failures /\ ~Preserving
      <4>1. CASE called.op = "emplace"
        BY <1>1, <3>5, <4>1, Failings DEF Preserving
      <4>2. CASE Replaces /\ h = "move"
        <5>1. "move_construct" \notin nothrow
          BY <2>2, <2>4, <4>2 DEF Throw, Constructs
        <5>2. MayMove /\ ~Preserving
          BY <5>1 DEF MayMove, Preserving, Noexcept, Moves
        <5>3. called.op = "assign_value" /\ Kind(before[x]) # o.alt
          BY <4>2 DEF Replaces
        <5>4. QED
          BY <1>1, <2>1, <3>5, <5>2, <5>3, Failings
      <4>3. QED
        BY <2>1, <4>1, <4>2 DEF Emplaces
    <3>7. QED
      BY <1>1, <1>2, <2>4, <3>1, <3>2, <3>6, ThrowGuarded
  <2>5. QED
    BY <2>3, <2>4 DEF DoMake
<1>6. QED
  BY <1>4, <1>5, Whereabouts DEF DoMake

(* The storage after a slot has been the source of a copy or a move.       *)
LEMMA UsedIs ==
  ASSUME TypeOK, NEW y \in Slots, storage[y] \in Objects, NEW how, NEW s, s = Used(storage, y, how)
  PROVE  /\ s \in [Slots -> Objects \cup {Raw}]
         /\ s[y] = IF how = "move" THEN MovedOf(storage[y]) ELSE storage[y]
         /\ s[y] \in Objects /\ s[y].alt = storage[y].alt
         /\ \A z \in Slots \ {y} : s[z] = storage[z]
<1>1. MovedOf(storage[y]) \in Objects /\ MovedOf(storage[y]).alt = storage[y].alt
  BY Objectively
<1>2. CASE how = "move"
  <2>1. s = [storage EXCEPT ![y] = MovedOf(storage[y])]
    BY <1>2 DEF Used, MovedOf, TypeOK
  <2>2. QED
    BY <1>1, <1>2, <2>1 DEF TypeOK
<1>3. CASE how # "move"
  BY <1>1, <1>3 DEF Used, TypeOK
<1>4. QED
  BY <1>2, <1>3

(* A slot that holds an object, and another one of its alternative next.   *)
LEMMA Valued ==
  ASSUME TypeOK, NEW y \in alive, Sound(y), View[y] \in Objects,
         index'[y] = index[y], guard'[y] = guard[y], y \in alive',
         storage'[y] \in Objects, storage'[y].alt = storage[y].alt
  PROVE  Sound(y)' /\ View'[y] = storage'[y] /\ storage[y] = View[y] /\ valid(y)
<1>1. valid(y) /\ storage[y] = View[y] /\ y \in Slots
  BY Sounded
<1>2. Sound(y)' /\ valid(y)'
  BY <1>1, Objectively DEF Sound, Agrees, valid
<1>3. QED
  BY <1>1, <1>2 DEF View, Inside

(* Copying or moving the object of the source into the target of a job.    *)
LEMMA BuildInv == IInv /\ DoBuild => IInv'
<1> SUFFICES ASSUME IInv, DoBuild, NEW c \in Jobs, AtBuild(c) PROVE IInv'
  BY Whereabouts DEF DoBuild
<1> DEFINE E == c.seen
<1>1. ~threw /\ TypeOK
  BY Whereabouts DEF DoBuild, IInv
<1>2. /\ step = Build(c.to, c.from, c.how) /\ Tail(todo) = <<Unguard(c.to)>> \o c.rest
  BY <1>1, JobSteps
<1>3. step.to = c.to /\ step.from = c.from /\ step.how = c.how /\ step.trait = Constructs(c.how)
  BY <1>2 DEF Build
<1> SUFFICES ASSUME NEW x, NEW y, NEW how, x = c.to, y = c.from, how = c.how PROVE IInv'
  OBVIOUS
<1>4. /\ x \in Slots /\ y \in Slots /\ x # y /\ E[y] \in Objects /\ how \in {"copy", "move"}
      /\ E \in [Slots -> Held] /\ After(c) \in [Slots -> Held]
      /\ SeenOff(x, E) /\ (x \in alive <=> E[x] # Absent)
      /\ guard[x] = invalid_index /\ storage[x] = Raw
  BY <1>1, JobType DEF AtBuild, Waiting
<1>5. \E S : c.rest \in Seq(S)
  BY <1>1, JobType
<1>6. /\ y \in alive /\ Sound(y) /\ View[y] = E[y] /\ View[y] \in Objects
      /\ storage[y] = E[y] /\ storage[y] \in Objects
  <2>1. View[y] = E[y] /\ Sound(y)
    BY <1>4 DEF SeenOff, SoundOff
  <2>2. y \in alive
    BY <1>4, <2>1, Viewed, Objectively
  <2>3. QED
    BY <1>1, <1>4, <2>1, <2>2, Sounded
<1>7. PICK s : /\ s = Used(storage, y, how) /\ s \in [Slots -> Objects \cup {Raw}]
               /\ s[y] = IF how = "move" THEN MovedOf(E[y]) ELSE E[y]
               /\ s[y] \in Objects /\ s[y].alt = storage[y].alt
               /\ \A z \in Slots \ {y} : s[z] = storage[z]
  BY <1>1, <1>4, <1>6, UsedIs
<1>8. CASE /\ Continue(<<>>) /\ storage' = [s EXCEPT ![x] = E[y]]
           /\ guard' = [guard EXCEPT ![x] = E[y].alt] /\ UNCHANGED <<alive, index>>
  <2>1. /\ UNCHANGED <<nothrow, strict, threw, terminated, called, before, alive, index>>
        /\ todo' = <<Unguard(x)>> \o c.rest
    BY <1>2, <1>5, <1>8, Onward
  <2>2. /\ storage' \in [Slots -> Objects \cup {Raw}] /\ storage'[x] = E[y] /\ storage'[y] = s[y]
        /\ \A z \in Slots \ {x, y} : storage'[z] = storage[z]
    BY <1>4, <1>7, <1>8
  <2>3. /\ guard' \in [Slots -> Indices \cup {invalid_index, NoGuard}] /\ guard'[x] = E[y].alt
        /\ \A z \in Slots \ {x} : guard'[z] = guard[z]
    BY <1>1, <1>4, <1>8, Objectively DEF TypeOK
  <2>4. TypeOK'
    BY <1>1, <2>1, <2>2, <2>3, TypeGoing DEF TypeOK
  <2>5. Sound(y)' /\ View'[y] = s[y]
    BY <1>1, <1>4, <1>6, <1>7, <2>1, <2>2, <2>3, Valued
  <2>6. Frame({x, y})
    BY <2>1, <2>2, <2>3 DEF Frame
  <2>7. \A z \in Slots \ {x, y} : Sound(z)' /\ View'[z] = E[z]
    BY <1>4, <2>6, Framed DEF SeenOff, SoundOff
  <2>8. /\ After(c)[y] = s[y] /\ \A z \in Slots \ {x, y} : After(c)[z] = E[z]
    BY <1>1, <1>7, AfterIs
  <2>9. SeenOff(x, After(c))'
    <3>1. After(c)' = After(c)
      BY <2>1, Settled
    <3>2. \A z \in Slots \ {x} : Sound(z)' /\ View'[z] = After(c)[z]
      BY <2>5, <2>7, <2>8
    <3>3. QED
      BY <3>1, <3>2 DEF SeenOff, SoundOff
  <2>10. Kind(E[y])' = E[y].alt
    BY <1>4, <2>1, Settled, Objectively
  <2>11. AtUnguard(c)'
    BY <1>4, <2>1, <2>2, <2>3, <2>9, <2>10 DEF AtUnguard, Filled
  <2>12. Jobs' = Jobs /\ ~threw'
    BY <1>1, <2>1, Settled
  <2>13. QED
    BY <2>4, <2>11, <2>12, JobInv
<1>9. CASE Throw /\ storage' \in {storage, s}
  <2>1. /\ UNCHANGED <<alive, index, guard>> /\ step.trait \notin nothrow
    BY <1>9 DEF Throw
  <2>2. /\ storage' \in [Slots -> Objects \cup {Raw}] /\ storage'[x] = Raw
        /\ storage'[y] \in IF how = "move" THEN MaybeMoved(E[y]) ELSE {E[y]}
        /\ storage'[y] \in Objects /\ storage'[y].alt = storage[y].alt
        /\ \A z \in Slots \ {x, y} : storage'[z] = storage[z]
    BY <1>1, <1>4, <1>6, <1>7, <1>9 DEF MaybeMoved, TypeOK
  <2>3. Sound(y)' /\ View'[y] = storage'[y]
    BY <1>1, <1>6, <2>1, <2>2, Valued
  <2>4. Frame({x, y})
    BY <2>1, <2>2 DEF Frame
  <2>5. \A z \in Slots \ {x, y} : Sound(z)' /\ View'[z] = E[z]
    BY <1>4, <2>4, Framed DEF SeenOff, SoundOff
  <2>6. SoundOff({x})' /\ guard'[x] = invalid_index /\ guard'[x] # NoGuard
    BY <1>4, <2>1, <2>3, <2>5 DEF SoundOff, invalid_index, NoGuard
  <2>7. /\ Left' = [z \in Vars |-> Left'[z]] /\ \A z \in Vars \ {x} : Left'[z] = View'[z]
        /\ x \in Vars => Left'[x] = IF x \in alive' THEN Invalid ELSE Absent
    BY <2>6, LeftApart
  <2>8. /\ x \in Vars => Left'[x] = IF E[x] = Absent THEN Absent ELSE Invalid
        /\ y \in Vars => Left'[y] = storage'[y]
        /\ \A z \in Vars \ {x, y} : Left'[z] = E[z]
    BY <1>4, <2>1, <2>3, <2>5, <2>7 DEF Slots
  <2>9. Constructs(how) \notin nothrow
    BY <1>3, <2>1
  <2>10. Left' \in Asked!Failures /\ (Preserving => \A z \in Vars : Left'[z] # Invalid)
    BY <1>1, <1>4, <2>2, <2>7, <2>8, <2>9, JobFails
  <2>11. QED
    BY <1>1, <1>4, <1>9, <2>2, <2>6, <2>10, ThrowGuarded
<1>10. QED
  BY <1>3, <1>6, <1>7, <1>8, <1>9 DEF DoBuild

(* A slot that holds o, an object or none, and is done with.               *)
LEMMA Finished ==
  ASSUME NEW x \in Slots, NEW o \in Objects \cup {Invalid}, guard'[x] = NoGuard,
         index'[x] = Kind(o), storage'[x] = IF o \in Objects THEN o ELSE Raw
  PROVE  /\ Inside(x)' = o /\ IF valid(x)' THEN Agrees(x)' ELSE storage'[x] = Raw
         /\ x \in alive' => Sound(x)' /\ View'[x] = o
<1>1. CASE o \in Objects
  <2>1. /\ index'[x] = o.alt /\ o.alt >= 0 /\ storage'[x] = o /\ storage'[x] # Raw
    BY <1>1, Objectively
  <2>2. QED
    BY <1>1, <2>1 DEF Inside, valid, Agrees, Sound, View
<1>2. CASE o \notin Objects
  <2>1. o = Invalid /\ index'[x] = invalid_index /\ storage'[x] = Raw /\ ~(invalid_index >= 0)
    BY <1>2, Objectively DEF Kind, invalid_index
  <2>2. QED
    BY <2>1 DEF Inside, valid, Agrees, Sound, View
<1>3. QED
  BY <1>1, <1>2

(* The destructor of a guard writes the index.                             *)
LEMMA UnguardFrame ==
  ASSUME IInv, DoUnguard, NEW x \in Slots, x = step.to, guard[x] # NoGuard
  PROVE  /\ UNCHANGED <<nothrow, strict, threw, terminated, called, before, alive, storage>>
         /\ TypeOK' /\ Frame({x}) /\ index'[x] = guard[x] /\ guard'[x] = NoGuard
<1>1. UNCHANGED <<nothrow, strict, threw, terminated, called, before, alive, storage>>
  BY Onward DEF DoUnguard
<1>2. /\ index' \in [Slots -> Indices \cup {invalid_index}] /\ index'[x] = guard[x]
      /\ guard' \in [Slots -> Indices \cup {invalid_index, NoGuard}] /\ guard'[x] = NoGuard
      /\ \A z \in Slots \ {x} : index'[z] = index[z] /\ guard'[z] = guard[z]
  BY DEF DoUnguard, IInv, TypeOK
<1>3. TypeOK'
  BY <1>1, <1>2, TypeGoing DEF IInv, TypeOK
<1>4. QED
  BY <1>1, <1>2, <1>3 DEF Frame

(* The end of a job.                                                       *)
LEMMA UnguardJob ==
  ASSUME IInv, DoUnguard, ~threw, NEW c \in Jobs, AtUnguard(c)
  PROVE  IInv'
<1>1. TypeOK
  BY DEF IInv
<1>2. step = Unguard(c.to) /\ Tail(todo) = c.rest
  BY <1>1, JobSteps
<1> SUFFICES ASSUME NEW w, NEW x, NEW y, w = c.to, x = called.x, y = called.y,
                    NEW F, F = After(c), NEW o, o = c.seen[c.from]
             PROVE  IInv'
  OBVIOUS
<1>3. step.to = w
  BY <1>2 DEF Unguard
<1>4. /\ w \in Slots /\ o \in Objects \cup {Invalid} /\ F \in [Slots -> Held] /\ F[w] = o
      /\ \E S : c.rest \in Seq(S)
  BY <1>1, JobType, AfterIs
<1>5. /\ SeenOff(w, F) /\ (w \in alive <=> c.seen[w] # Absent)
      /\ storage[w] = (IF o \in Objects THEN o ELSE Raw) /\ guard[w] = Kind(o)
  BY DEF AtUnguard, Filled
<1>6. guard[w] # NoGuard
  BY <1>4, <1>5, Objectively DEF Kind, invalid_index, NoGuard
<1>7. /\ UNCHANGED <<nothrow, strict, threw, terminated, called, before, alive, storage>>
      /\ TypeOK' /\ Frame({w}) /\ index'[w] = Kind(o) /\ guard'[w] = NoGuard
  BY <1>3, <1>4, <1>5, <1>6, UnguardFrame
<1>8. todo' = c.rest /\ Jobs' = Jobs
  BY <1>2, <1>4, <1>7, Onward, Settled DEF DoUnguard
<1>9. /\ Inside(w)' = o /\ IF valid(w)' THEN Agrees(w)' ELSE storage'[w] = Raw
      /\ w \in alive' => Sound(w)' /\ View'[w] = o
  BY <1>4, <1>5, <1>7, Finished
<1>10. SeenOff(w, F)'
  BY <1>5, <1>7, FramedOff
<1>11. w \in alive => Seen(F)'
  BY <1>4, <1>7, <1>9, <1>10, Joined
<1>12. \A z \in Slots \ {w} : z \in alive <=> F[z] # Absent
  <2>1. ASSUME NEW z \in Slots \ {w} PROVE z \in alive <=> F[z] # Absent
    <3>1. Sound(z) /\ View[z] = F[z]
      BY <1>5 DEF SeenOff, SoundOff
    <3>2. QED
      BY <1>1, <3>1, Sounded, Viewed, Objectively
  <2>2. QED
    BY <2>1
<1>13. x \in Vars /\ x \in Slots /\ tmp \in Slots /\ x # tmp /\ tmp \notin Vars /\ Vars \subseteq Slots
  BY <1>1, CallType DEF Slots
<1>14. Asked!Success' = Asked!Success
  BY <1>7, Settled
<1> DEFINE done == [z \in Vars |-> F[z]] = Asked!Success
<1>15. CASE /\ w = x /\ c.seen[x] = Absent /\ c.seen[tmp] = Absent
            /\ c.rest = <<Born(x)>> /\ done
  <2>1. x \notin alive /\ tmp \notin alive
    <3>1. c.from # tmp
      BY <1>4, <1>15, Objectively
    <3>2. F[tmp] = Absent
      BY <1>1, <1>13, <1>15, <3>1, AfterIs
    <3>3. QED
      BY <1>5, <1>12, <1>13, <1>15, <3>2
  <2>2. [Contents EXCEPT ![x] = Inside(x)]' = Asked!Success'
    <3>1. \A z \in Vars \ {x} : Contents'[z] = F[z]
      BY <1>10, <1>13, <1>15, ViewedNext DEF SeenOff
    <3>2. Contents' = [z \in Vars |-> Contents'[z]]
      BY DEF Contents
    <3>3. [Contents' EXCEPT ![x] = o] = [z \in Vars |-> F[z]]
      BY <1>4, <1>13, <1>15, <3>1, <3>2
    <3>4. QED
      BY <1>7, <1>9, <1>14, <1>15, <3>3
  <2>3. AtBorn'
    BY <1>7, <1>8, <1>9, <1>10, <1>15, <2>1, <2>2 DEF AtBorn, SeenOff, Born
  <2>4. QED
    BY <1>7, <2>3 DEF IInv, Place
<1>16. CASE w \in Vars /\ c.seen[w] # Absent /\ c.rest = <<>> /\ F[tmp] = Absent /\ done
  <2>1. Seen(F)' /\ tmp \notin alive
    BY <1>5, <1>11, <1>12, <1>13, <1>16
  <2>2. Contents' = Asked!Success'
    BY <1>14, <1>16, <1>13, <2>1, SeenNext
  <2>3. Idle'
    BY <1>7, <1>8, <1>16, <2>1, <2>2 DEF Idle, Seen
  <2>4. QED
    BY <1>7, <2>3 DEF IInv, Place
<1>17. CASE w \in Vars /\ c.seen[w] # Absent /\ c.rest = <<Drop(tmp)>> /\ F[tmp] # Absent /\ done
  <2>1. Seen(F)' /\ tmp \in alive
    BY <1>5, <1>11, <1>12, <1>13, <1>17
  <2>2. Contents' = Asked!Success'
    BY <1>14, <1>17, <1>13, <2>1, SeenNext
  <2>3. AtDrop'
    BY <1>7, <1>8, <1>17, <2>1, <2>2 DEF AtDrop, Seen, Drop
  <2>4. QED
    BY <1>7, <2>3 DEF IInv, Place
<1>18. CASE /\ w \in Vars /\ c.seen[w] # Absent /\ called.op = "swap" /\ Differ
            /\ c.rest = <<Assign(y, tmp, "move"), Drop(tmp)>> /\ F = Restoring.seen
  <2>1. Seen(Restoring.seen)' /\ Restoring' = Restoring /\ Differ'
    BY <1>5, <1>7, <1>11, <1>18, Settled
  <2>2. AtAssign'
    BY <1>7, <1>8, <1>18, <2>1 DEF AtAssign
  <2>3. QED
    BY <1>7, <2>2 DEF IInv, Place
<1>19. CASE w = tmp
  <2>1. Filled(c)'
    <3>1. After(c)' = F /\ Kind(o)' = Kind(o)
      BY <1>7, Settled
    <3>2. QED
      BY <1>5, <1>7, <1>10, <3>1 DEF Filled
  <2>2. Kind(c.seen[c.from])' = Kind(o)
    BY <1>7, Settled
  <2>3. AtBornTemporary(c)'
    BY <1>7, <1>8, <1>19, <2>1, <2>2 DEF AtBornTemporary
  <2>4. QED
    BY <1>7, <1>8, <2>3, JobInv
<1>20. QED
  BY <1>1, <1>15, <1>16, <1>17, <1>18, <1>19, JobDone

(* The end of emplace,                                                     *)
LEMMA UnguardEmplaced == IInv /\ DoUnguard /\ ~threw /\ AtEmplaced => IInv'
<1> SUFFICES ASSUME IInv, DoUnguard, ~threw, AtEmplaced,
                    NEW x, NEW o, NEW E, x = called.x, o = called.o, E = Origin
             PROVE  IInv'
  OBVIOUS
<1>1. /\ step = Unguard(x) /\ Tail(todo) = <<>> /\ TypeOK
  BY OtherSteps DEF IInv
<1>2. /\ called.op \in {"emplace", "assign_value"} /\ o \in Objects /\ x \in alive
      /\ SeenOff(x, E) /\ guard[x] = o.alt /\ storage[x] = o
  BY DEF AtEmplaced, Emplaces, Replaces
<1>3. /\ x \in Vars /\ x \in Slots /\ x # tmp /\ tmp \in Slots /\ E \in [Slots -> Held]
      /\ E[tmp] = Absent /\ \A z \in Vars : E[z] = before[z] /\ z \in Slots
      /\ before \in [Vars -> Held]
  BY <1>1, CallType, OriginType DEF TypeOK, Held, Slots
<1>4. step.to = x /\ guard[x] # NoGuard /\ Kind(o) = o.alt
  BY <1>1, <1>2, Objectively DEF Unguard
<1>5. /\ UNCHANGED <<nothrow, strict, threw, terminated, called, before, alive, storage>>
      /\ TypeOK' /\ Frame({x}) /\ index'[x] = o.alt /\ guard'[x] = NoGuard
  BY <1>2, <1>3, <1>4, UnguardFrame
<1>6. Sound(x)' /\ View'[x] = o
  BY <1>2, <1>3, <1>4, <1>5, Finished
<1>7. SeenOff(x, E)'
  BY <1>2, <1>5, FramedOff
<1>8. SoundOff({})'
  BY <1>6, <1>7 DEF SeenOff, SoundOff
<1>9. Contents' = Put
  <2>1. Contents'[x] = o /\ \A z \in Vars \ {x} : Contents'[z] = before[z]
    BY <1>3, <1>6, <1>7, ViewedNext DEF SeenOff
  <2>2. Contents' = [z \in Vars |-> Contents'[z]]
    BY DEF Contents
  <2>3. QED
    BY <1>3, <2>1, <2>2 DEF Put
<1>10. tmp \notin alive
  <2>1. View[tmp] = Absent /\ Sound(tmp)
    BY <1>2, <1>3 DEF SeenOff, SoundOff
  <2>2. QED
    BY <1>1, <2>1, Sounded, Objectively
<1>11. Asked!Success' = Put
  BY <1>2, <1>5, Successes, Settled
<1>12. todo' = <<>>
  BY <1>1, Onward DEF DoUnguard
<1>13. Idle'
  BY <1>5, <1>8, <1>9, <1>10, <1>11, <1>12 DEF Idle
<1>14. QED
  BY <1>5, <1>13 DEF IInv, Place

(* and of a guard that an exception passes.                                *)
LEMMA UnguardThrown == IInv /\ DoUnguard /\ threw /\ AtUnwinding => IInv'
<1> SUFFICES ASSUME IInv, DoUnguard, threw, AtUnwinding PROVE IInv'
  OBVIOUS
<1>1. TypeOK /\ todo # <<>> /\ step.do = "unguard"
  BY DEF IInv, DoUnguard, Doing
<1>2. PICK x \in Slots :
        /\ Guarded = {x} /\ step = Unguard(x)
        /\ Tail(todo) = IF tmp \in alive THEN <<Drop(tmp)>> ELSE <<>>
  BY <1>1, UnwindingSteps DEF Drop
<1>3. guard[x] = invalid_index /\ storage[x] = Raw /\ guard[x] # NoGuard /\ x = step.to
  BY <1>2 DEF Guarded, AtUnwinding, Unguard
<1>4. /\ UNCHANGED <<nothrow, strict, threw, terminated, called, before, alive, storage>>
      /\ TypeOK' /\ Frame({x}) /\ index'[x] = invalid_index /\ guard'[x] = NoGuard
  BY <1>2, <1>3, UnguardFrame
<1>5. Inside(x)' = Invalid /\ (x \in alive' => Sound(x)' /\ View'[x] = Invalid)
      /\ ~valid(x)'
  BY <1>3, <1>4, Finished, Objectively DEF valid, invalid_index
<1>6. Sound(x)'
  BY <1>3, <1>4, <1>5 DEF Sound
<1>7. \A z \in Slots \ {x} : guard[z] = NoGuard /\ Sound(z)
  BY <1>2 DEF Guarded, AtUnwinding
<1>8. \A z \in Slots \ {x} : Sound(z)' /\ Inside(z)' = Inside(z)
  BY <1>4, <1>7, Framed
<1>9. \A z \in Slots : guard'[z] = NoGuard /\ Sound(z)'
  BY <1>4, <1>6, <1>8 DEF Sound
<1>10. Guarded' = {}
  BY <1>9 DEF Guarded
<1>11. Unwinding' = Tail(todo)
  <2>1. Unwinding' = <<>> \o (IF tmp \in alive THEN <<Drop(tmp)>> ELSE <<>>)
    BY <1>4, <1>10 DEF Unwinding, Drop
  <2>2. <<>> \o <<Drop(tmp)>> = <<Drop(tmp)>> /\ <<>> \o <<>> = <<>>
    OBVIOUS
  <2>3. QED
    BY <1>2, <2>1, <2>2
<1>12. todo' = Tail(todo)
  <2>1. /\ Tail(todo) = <<>> => todo' = <<>>
        /\ Tail(todo) = <<Drop(tmp)>> => todo' = <<Drop(tmp)>>
    BY Onward DEF DoUnguard
  <2>2. QED
    BY <1>2, <2>1
<1>13. Left' = Left
  <2>1. ASSUME NEW z \in Vars PROVE Left'[z] = Left[z]
    <3>1. z \in Slots
      BY DEF Slots
    <3>2. Left'[z] = IF z \notin alive THEN Absent ELSE Inside(z)'
      BY <1>4, <1>9, <3>1 DEF Left
    <3>3. CASE z = x
      BY <1>3, <1>5, <3>2, <3>3 DEF Left
    <3>4. CASE z # x
      BY <1>7, <1>8, <3>1, <3>2, <3>4 DEF Left
    <3>5. QED
      BY <3>3, <3>4
  <2>2. QED
    BY <2>1 DEF Left
<1>14. AtUnwinding'
  BY <1>4, <1>9, <1>10, <1>11, <1>12, <1>13, Settled DEF AtUnwinding
<1>15. QED
  BY <1>4, <1>14 DEF IInv, Place

LEMMA UnguardInv == IInv /\ DoUnguard => IInv'
  BY Whereabouts, UnguardJob, UnguardEmplaced, UnguardThrown DEF DoUnguard

-----------------------------------------------------------------------------
(* A constructor returns.                                                  *)
LEMMA BornInv == IInv /\ DoBorn => IInv'
<1> SUFFICES ASSUME IInv, DoBorn, NEW x, NEW y, x = called.x, y = called.y PROVE IInv'
  OBVIOUS
<1>1. ~threw /\ TypeOK /\ alive' = alive \cup {step.to}
  BY Whereabouts DEF DoBorn, IInv
<1>2. UNCHANGED <<nothrow, strict, threw, terminated, called, before, storage, index, guard>>
  BY Onward DEF DoBorn
<1>3. x \in Vars /\ x \in Slots /\ tmp \in Slots /\ x # tmp /\ tmp \notin Vars
  BY <1>1, CallType
<1>4. ASSUME NEW w \in Slots, w = step.to PROVE TypeOK' /\ Frame({w}) /\ w \in alive'
  BY <1>1, <1>2, <1>4, TypeGoing DEF TypeOK, Frame
<1>5. ASSUME AtBorn PROVE IInv'
  <2>1. step = Born(x) /\ Tail(todo) = <<>>
    BY <1>5, OtherSteps
  <2>2. /\ x \notin alive /\ tmp \notin alive /\ SoundOff({x}) /\ guard[x] = NoGuard
        /\ IF valid(x) THEN Agrees(x) ELSE storage[x] = Raw
        /\ [Contents EXCEPT ![x] = Inside(x)] = Asked!Success
    BY <1>5 DEF AtBorn
  <2>3. step.to = x
    BY <2>1 DEF Born
  <2>4. TypeOK' /\ Frame({x}) /\ x \in alive' /\ tmp \notin alive'
    BY <1>1, <1>3, <1>4, <2>2, <2>3
  <2>5. Sound(x)' /\ Inside(x)' = Inside(x)
    BY <1>2, <2>2, <2>4 DEF Sound, Inside, valid, Agrees
  <2>6. SoundOff({})'
    <3>1. \A z \in Slots \ {x} : Sound(z)'
      BY <2>2, <2>4, Framed DEF SoundOff
    <3>2. QED
      BY <2>5, <3>1 DEF SoundOff
  <2>7. Contents' = [Contents EXCEPT ![x] = Inside(x)]
    <3>1. Contents'[x] = Inside(x)
      BY <1>3, <2>4, <2>5, ViewedNext
    <3>2. \A z \in Vars \ {x} : Contents'[z] = Contents[z]
      BY <1>3, <2>4, Framed, Viewed, ViewedNext DEF Slots
    <3>3. /\ Contents' = [z \in Vars |-> Contents'[z]] /\ Contents = [z \in Vars |-> Contents[z]]
      BY DEF Contents
    <3>4. QED
      BY <1>3, <3>1, <3>2, <3>3
  <2>8. Asked!Success' = Asked!Success /\ todo' = <<>>
    BY <1>2, <2>1, Settled, Onward DEF DoBorn
  <2>9. Idle'
    BY <2>2, <2>4, <2>6, <2>7, <2>8 DEF Idle
  <2>10. QED
    BY <1>1, <1>2, <2>4, <2>9 DEF IInv, Place
<1>6. ASSUME NEW c \in Jobs, AtBornTemporary(c) PROVE IInv'
  <2>1. /\ Filled(c) /\ guard[tmp] = NoGuard /\ index[tmp] = Kind(c.seen[c.from])
        /\ c.to = tmp /\ todo = c.rest /\ step = Born(tmp)
    BY <1>1, <1>6, JobSteps DEF AtBornTemporary
  <2> SUFFICES ASSUME NEW F, F = After(c), NEW o, o = c.seen[c.from] PROVE IInv'
    OBVIOUS
  <2>2. o \in Objects \cup {Invalid} /\ F \in [Slots -> Held] /\ F[tmp] = o
    BY <1>1, <2>1, JobType, AfterIs
  <2>3. SeenOff(tmp, F) /\ storage[tmp] = IF o \in Objects THEN o ELSE Raw
    BY <2>1 DEF Filled
  <2>4. step.to = tmp
    BY <2>1 DEF Born
  <2>5. TypeOK' /\ Frame({tmp}) /\ tmp \in alive'
    BY <1>3, <1>4, <2>4
  <2>6. Sound(tmp)' /\ View'[tmp] = o
    BY <1>2, <1>3, <2>1, <2>2, <2>3, <2>5, Finished, Settled
  <2>7. Seen(F)'
    <3>1. SeenOff(tmp, F)'
      BY <2>3, <2>5, FramedOff
    <3>2. QED
      BY <1>3, <2>2, <2>6, <3>1, Joined
  <2>8. CASE /\ c.rest = <<Born(tmp), Clear(x), Transfer(x, tmp, "move"), Drop(tmp)>>
             /\ Committing \in Jobs /\ F = Committing.seen
    <3>1. Tail(todo) = <<Clear(x), Transfer(x, tmp, "move"), Drop(tmp)>>
      BY <2>1, <2>8
    <3>2. todo' = <<Clear(x), Transfer(x, tmp, "move"), Drop(tmp)>>
      BY <3>1, Onward DEF DoBorn
    <3>3. /\ Committing.to = x /\ Committing.from = tmp /\ Committing.how = "move"
          /\ Committing.rest = <<Drop(tmp)>>
          /\ Committing.seen = [Origin EXCEPT ![tmp] = before[y]]
      BY JobFields DEF Committing
    <3>4. x \in alive
      <4>1. Differ
        BY <2>8, JobCases
      <4>2. F[x] = before[x] /\ before[x] # Absent
        BY <1>1, <1>3, <2>8, <3>3, <4>1, OriginType DEF Differ
      <4>3. View[x] = F[x]
        BY <1>3, <2>3 DEF SeenOff
      <4>4. QED
        BY <1>3, <4>2, <4>3, Viewed
    <3>5. Committing' = Committing /\ Jobs' = Jobs
      BY <1>2, Settled
    <3>6. todo' = <<Clear(x), Transfer(x, tmp, "move")>> \o <<Drop(tmp)>>
      BY <3>2, Tuples
    <3> SUFFICES ASSUME NEW d \in Jobs, d = Committing PROVE IInv'
      BY <2>8
    <3>7. AtClear(d)'
      BY <1>1, <2>7, <2>8, <3>3, <3>4, <3>6 DEF AtClear, Clear, Transfer
    <3>8. QED
      BY <1>1, <1>2, <2>5, <3>5, <3>7, JobInv
  <2>9. CASE /\ called.op = "swap" /\ Differ /\ F = Replacing.seen
             /\ c.rest = <<Born(tmp), Assign(x, y, "move"), Assign(y, tmp, "move"), Drop(tmp)>>
    <3>1. Tail(todo) = <<Assign(x, y, "move"), Assign(y, tmp, "move"), Drop(tmp)>>
      BY <2>1, <2>9
    <3>2. todo' = <<Assign(x, y, "move"), Assign(y, tmp, "move"), Drop(tmp)>>
      BY <3>1, Onward DEF DoBorn
    <3>3. Replacing' = Replacing /\ Differ'
      BY <1>2, <2>9, Settled
    <3>4. AtAssign'
      BY <1>2, <2>7, <2>9, <3>2, <3>3 DEF AtAssign
    <3>5. QED
      BY <1>1, <1>2, <2>5, <3>4 DEF IInv, Place
  <2>10. QED
    BY <1>1, <1>3, <2>1, <2>8, <2>9, JobDone
<1>7. QED
  BY <1>5, <1>6, Whereabouts DEF DoBorn

(* A destructor returns.                                                   *)
LEMMA DropFrame ==
  ASSUME IInv, DoDrop, NEW x \in Slots, x = step.to, Sound(x)
  PROVE  /\ UNCHANGED <<nothrow, strict, threw, terminated, called, before, index, guard>>
         /\ TypeOK' /\ Frame({x}) /\ alive' = alive \ {x} /\ storage'[x] = Raw
         /\ Sound(x)' /\ View'[x] = Absent
<1>1. UNCHANGED <<nothrow, strict, threw, terminated, called, before, index, guard>>
  BY Onward DEF DoDrop
<1>2. /\ storage' = IF valid(x) THEN [storage EXCEPT ![x] = Raw] ELSE storage
      /\ alive' = alive \ {x} /\ TypeOK
  BY DEF DoDrop, IInv
<1>3. ~valid(x) => storage[x] = Raw
  BY DEF Sound
<1>4. /\ storage' \in [Slots -> Objects \cup {Raw}] /\ storage'[x] = Raw
      /\ \A z \in Slots \ {x} : storage'[z] = storage[z]
  BY <1>2, <1>3 DEF TypeOK
<1>5. TypeOK'
  BY <1>1, <1>2, <1>4, TypeGoing DEF TypeOK
<1>6. x \notin alive' /\ guard'[x] = NoGuard
  BY <1>1, <1>2 DEF Sound
<1>7. QED
  BY <1>1, <1>2, <1>4, <1>5, <1>6 DEF Frame, Sound, View

LEMMA DropInv == IInv /\ DoDrop => IInv'
<1> SUFFICES ASSUME IInv, DoDrop, NEW x, x = called.x PROVE IInv'
  OBVIOUS
<1>1. TypeOK
  BY DEF IInv
<1>2. x \in Vars /\ x \in Slots /\ tmp \in Slots /\ x # tmp /\ tmp \notin Vars /\ Vars \subseteq Slots
  BY <1>1, CallType DEF Slots
<1>3. ASSUME NEW w \in Slots, w = step.to, SoundOff({})
      PROVE  /\ UNCHANGED <<nothrow, strict, threw, terminated, called, before, index, guard>>
             /\ TypeOK' /\ SoundOff({})' /\ alive' = alive \ {w} /\ View'[w] = Absent
             /\ \A z \in Slots \ {w} : View'[z] = View[z]
  <2>1. Sound(w)
    BY <1>3 DEF SoundOff
  <2>2. /\ UNCHANGED <<nothrow, strict, threw, terminated, called, before, index, guard>>
        /\ TypeOK' /\ Frame({w}) /\ alive' = alive \ {w} /\ Sound(w)' /\ View'[w] = Absent
    BY <1>3, <2>1, DropFrame
  <2>3. \A z \in Slots \ {w} : Sound(z)' /\ View'[z] = View[z]
    BY <1>3, <2>2, Framed DEF SoundOff
  <2>4. QED
    BY <2>2, <2>3 DEF SoundOff
<1>4. ASSUME ~threw, AtDestroy PROVE IInv'
  <2>1. /\ called.op = "destroy" /\ Seen(Origin) /\ step = Drop(x) /\ Tail(todo) = <<>>
    BY <1>4, OtherSteps DEF AtDestroy
  <2>2. step.to = x /\ SoundOff({}) /\ View = Origin
    BY <2>1 DEF Drop, Seen
  <2>3. /\ UNCHANGED <<nothrow, strict, threw, terminated, called, before, index, guard>>
        /\ TypeOK' /\ SoundOff({})' /\ alive' = alive \ {x} /\ View'[x] = Absent
        /\ \A z \in Slots \ {x} : View'[z] = View[z]
    BY <1>2, <1>3, <2>2
  <2>4. tmp \notin alive'
    BY <1>1, <1>2, <2>1, <2>3, SeenAlive, OriginType
  <2>5. Contents' = [before EXCEPT ![x] = Absent]
    <3>1. \A z \in Vars \ {x} : Contents'[z] = before[z]
      BY <1>1, <1>2, <2>2, <2>3, ViewedNext, OriginType
    <3>2. Contents'[x] = Absent /\ Contents' = [z \in Vars |-> Contents'[z]]
      BY <1>2, <2>3, ViewedNext
    <3>3. QED
      BY <1>1, <1>2, <3>1, <3>2 DEF TypeOK
  <2>6. Asked!Success' = [before EXCEPT ![x] = Absent] /\ todo' = <<>>
    BY <2>1, <2>3, Successes, Settled, Onward DEF DoDrop
  <2>7. Idle'
    BY <2>3, <2>4, <2>5, <2>6 DEF Idle
  <2>8. QED
    BY <1>4, <2>3, <2>7 DEF IInv, Place
<1>5. ASSUME ~threw, AtDrop PROVE IInv'
  <2>1. /\ SoundOff({}) /\ Contents = Asked!Success /\ step = Drop(tmp) /\ Tail(todo) = <<>>
    BY <1>5, OtherSteps DEF AtDrop
  <2>2. step.to = tmp
    BY <2>1 DEF Drop
  <2>3. /\ UNCHANGED <<nothrow, strict, threw, terminated, called, before, index, guard>>
        /\ TypeOK' /\ SoundOff({})' /\ alive' = alive \ {tmp}
        /\ \A z \in Slots \ {tmp} : View'[z] = View[z]
    BY <1>2, <1>3, <2>1, <2>2
  <2>4. Contents' = Contents
    BY <1>2, <2>3, Viewed, ViewedNext
  <2>5. Asked!Success' = Asked!Success /\ todo' = <<>>
    BY <2>1, <2>3, Settled, Onward DEF DoDrop
  <2>6. Idle'
    BY <2>1, <2>3, <2>4, <2>5 DEF Idle
  <2>7. QED
    BY <1>5, <2>3, <2>6 DEF IInv, Place
<1>6. ASSUME threw, AtUnwinding PROVE IInv'
  <2>1. todo # <<>> /\ step.do = "drop"
    BY DEF DoDrop, Doing
  <2>2. Guarded = {} /\ step = Drop(tmp) /\ Tail(todo) = <<>>
    BY <1>1, <1>6, <2>1, UnwindingSteps DEF Unguard
  <2>3. step.to = tmp
    BY <2>2 DEF Drop
  <2>4. SoundOff({}) /\ \A z \in Slots : guard[z] = NoGuard
    BY <1>6, <2>2 DEF AtUnwinding, SoundOff, Guarded
  <2>5. /\ UNCHANGED <<nothrow, strict, threw, terminated, called, before, index, guard>>
        /\ TypeOK' /\ SoundOff({})' /\ alive' = alive \ {tmp}
        /\ \A z \in Slots \ {tmp} : View'[z] = View[z]
    BY <1>2, <1>3, <2>3, <2>4
  <2>6. Guarded' = {} /\ \A z \in Slots : guard'[z] = NoGuard /\ Sound(z)'
    BY <2>4, <2>5 DEF Guarded, SoundOff
  <2>7. todo' = <<>>
    BY <2>2, Onward DEF DoDrop
  <2>8. Unwinding' = <<>>
    <3>1. Unwinding' = <<>> \o <<>>
      BY <2>5, <2>6 DEF Unwinding
    <3>2. QED
      BY <3>1
  <2>9. Left' = Left
    <3>1. Left' = Contents'
      BY <2>5, LeftWhole
    <3>2. Left = Contents
      BY <1>2, <2>4 DEF Left, Contents, Inside
    <3>3. Contents' = Contents
      BY <1>2, <2>5, Viewed, ViewedNext
    <3>4. QED
      BY <3>1, <3>2, <3>3
  <2>10. AtUnwinding'
    BY <1>6, <2>5, <2>6, <2>7, <2>8, <2>9, Settled DEF AtUnwinding
  <2>11. QED
    BY <1>6, <2>5, <2>10 DEF IInv, Place
<1>7. QED
  BY <1>4, <1>5, <1>6, Whereabouts DEF DoDrop

-----------------------------------------------------------------------------
(* copy_move_from.                                                         *)
LEMMA TransferInv == IInv /\ DoTransfer => IInv'
<1> SUFFICES ASSUME IInv, DoTransfer, NEW c \in Jobs, AtTransfer(c) PROVE IInv'
  BY Whereabouts DEF DoTransfer
<1>1. ~threw /\ TypeOK /\ UNCHANGED <<alive, storage, index, guard>>
  BY Whereabouts DEF DoTransfer, IInv
<1>2. step = Transfer(c.to, c.from, c.how) /\ Tail(todo) = c.rest
  BY <1>1, JobSteps
<1>3. step.to = c.to /\ step.from = c.from /\ step.how = c.how
  BY <1>2 DEF Transfer
<1>4. /\ c.to \in Slots /\ c.from \in Slots /\ c.to # c.from
      /\ c.seen[c.from] \in Objects \cup {Invalid}
  BY <1>1, JobType
<1>5. /\ Waiting(c) /\ guard[c.to] = NoGuard /\ storage[c.to] = Raw
  BY DEF AtTransfer
<1>6. valid(c.from) <=> c.seen[c.from] \in Objects
  <2>1. Sound(c.from) /\ View[c.from] = c.seen[c.from]
    BY <1>4, <1>5 DEF Waiting, SeenOff, SoundOff
  <2>2. c.from \in alive
    BY <1>4, <2>1, Viewed, Objectively
  <2>3. QED
    BY <1>1, <2>1, <2>2, Sounded
<1> DEFINE G == Guard(c.to)  B == Build(c.to, c.from, c.how)  U == Unguard(c.to)
<1>7. Continue(<<G>> \o (IF valid(c.from) THEN <<B>> ELSE <<>>) \o <<U>>)
  BY <1>3 DEF DoTransfer
<1>8. UNCHANGED <<nothrow, strict, threw, terminated, called, before>>
  BY <1>7, Going
<1>9. todo' = IF c.seen[c.from] \in Objects THEN <<G, B, U>> \o c.rest ELSE <<G, U>> \o c.rest
  <2> HIDE DEF G, B, U
  <2>1. CASE valid(c.from)
    <3>1. Continue(<<G>> \o <<B>> \o <<U>>)
      BY <1>7, <2>1
    <3>2. <<G>> \o <<B>> \o <<U>> = <<G, B, U>>
      <4>1. <<G>> \o <<B>> = <<G, B>>
        BY Tuples
      <4>2. <<G, B>> \o <<U>> = <<G, B, U>>
        BY Triples
      <4>3. QED
        BY <4>1, <4>2
    <3>3. Continue(<<G, B, U>>)
      BY <3>1, <3>2
    <3>4. QED
      BY <1>2, <1>6, <2>1, <3>3, Going
  <2>2. CASE ~valid(c.from)
    <3>1. Continue(<<G>> \o <<>> \o <<U>>)
      BY <1>7, <2>2
    <3>2. Continue(<<G, U>>)
      BY <3>1, Tuples
    <3>3. QED
      BY <1>2, <1>6, <2>2, <3>2, Going
  <2>3. QED
    BY <2>1, <2>2
<1>10. SeenOff(c.to, c.seen)'
  BY <1>1, <1>5, Still DEF Waiting
<1>11. AtGuard(c)'
  BY <1>1, <1>5, <1>9, <1>10 DEF AtGuard, Waiting, Guard, Build, Unguard
<1>12. TypeOK'
  BY <1>1, <1>8 DEF TypeOK
<1>13. QED
  BY <1>1, <1>8, <1>11, <1>12, Settled, JobInv

(* move_assign_from and copy_assign_from.                                  *)
LEMMA AssignInv == IInv /\ DoAssign => IInv'
<1> SUFFICES ASSUME IInv, DoAssign, NEW x, NEW y, NEW how, NEW E,
                    x = called.x, y = called.y, how = called.how, E = Origin
             PROVE  IInv'
  OBVIOUS
<1>1. ~threw /\ TypeOK /\ AtAssign /\ UNCHANGED <<alive, storage, index, guard>>
  BY Whereabouts DEF DoAssign, IInv
<1>2. /\ x \in Vars /\ y \in Vars /\ x \in Slots /\ y \in Slots /\ tmp \in Slots
      /\ x # tmp /\ y # tmp /\ tmp \notin Vars /\ E \in [Slots -> Held] /\ E[tmp] = Absent
      /\ \A z \in Vars : E[z] = before[z] /\ z \in Slots
      /\ before \in [Vars -> Held]
  BY <1>1, CallType, OriginType DEF TypeOK, Held, Slots
<1>3. ASSUME UNCHANGED <<nothrow, strict, threw, terminated, called, before>>
      PROVE  TypeOK' /\ ~threw' /\ Jobs' = Jobs /\ Origin' = E
             /\ Asked!Success' = Asked!Success /\ Asked!Failures' = Asked!Failures
  BY <1>1, <1>3, Settled DEF TypeOK
<1>4. ASSUME NEW u, NEW v, NEW h, step = Assign(u, v, h)
      PROVE  \/ /\ index[u] = index[v]
                /\ Continue(IF valid(u) THEN <<AssignFrom(u, v, h)>> ELSE <<>>)
             \/ /\ index[u] # index[v] /\ h = "move"
                /\ Continue(<<Clear(u), Transfer(u, v, "move")>>)
             \/ /\ index[u] # index[v] /\ h = "copy"
                /\ Continue(<<Transfer(tmp, v, "copy"), Born(tmp), Clear(u),
                              Transfer(u, tmp, "move"), Drop(tmp)>>)
  <2>1. step.to = u /\ step.from = v /\ step.how = h
    BY <1>4 DEF Assign
  <2>2. QED
    BY <2>1 DEF DoAssign
<1>5. CASE /\ called.op = "assign" /\ how \in {"copy", "move"}
           /\ {x, y} \subseteq alive /\ Seen(E)
           /\ todo = <<Assign(x, y, how)>>
  <2>1. step = Assign(x, y, how) /\ Tail(todo) = <<>>
    BY <1>5 DEF step
  <2>2. /\ E[x] # Absent /\ E[y] # Absent /\ Kind(E[x]) = index[x] /\ Kind(E[y]) = index[y]
        /\ tmp \notin alive /\ (valid(x) <=> E[x] \in Objects) /\ (~valid(x) => E[x] = Invalid)
        /\ (valid(y) <=> E[y] \in Objects) /\ (~valid(y) => E[y] = Invalid)
    BY <1>1, <1>2, <1>5, SeenAlive
  <2>3. CASE index[x] = index[y] /\ valid(x) /\ Continue(<<AssignFrom(x, y, how)>>)
    <3>1. /\ UNCHANGED <<nothrow, strict, threw, terminated, called, before>>
          /\ todo' = <<AssignFrom(x, y, how)>> \o <<>>
      BY <2>1, <2>3, Going
    <3>2. todo' = <<AssignFrom(x, y, how)>>
      BY <3>1, Tuples
    <3>3. Seen(E)' /\ valid(x)'
      BY <1>1, <1>5, <2>3, Still
    <3>4. AtAssignFrom'
      BY <1>1, <1>3, <1>5, <2>3, <3>1, <3>2, <3>3 DEF AtAssignFrom
    <3>5. QED
      BY <1>3, <3>1, <3>4 DEF IInv, Place
  <2>4. CASE index[x] = index[y] /\ ~valid(x) /\ Continue(<<>>)
    <3>1. /\ UNCHANGED <<nothrow, strict, threw, terminated, called, before>>
          /\ todo' = <<>>
      BY <2>1, <2>4, Onward
    <3>2. before[x] = Invalid /\ before[y] = Invalid
      BY <1>2, <2>2, <2>4 DEF valid
    <3>3. Taken = before
      BY <1>2, <3>2, Objectively DEF Taken
    <3>4. Seen(E)'
      BY <1>1, <1>5, Still
    <3>5. Contents' = before
      BY <1>2, <3>4, SeenNext
    <3>6. Idle'
      BY <1>1, <1>3, <1>5, <2>2, <3>1, <3>3, <3>4, <3>5, Successes DEF Idle, Seen
    <3>7. QED
      BY <1>3, <3>1, <3>6 DEF IInv, Place
  <2>5. ASSUME index[x] # index[y] PROVE Differ
    BY <1>2, <2>2, <2>5 DEF Differ
  <2>6. CASE /\ index[x] # index[y] /\ how = "move"
             /\ Continue(<<Clear(x), Transfer(x, y, "move")>>)
    <3> SUFFICES ASSUME NEW c, c = MoveAssigning PROVE IInv'
      OBVIOUS
    <3>1. c \in Jobs
      BY <1>5, <2>5, <2>6 DEF Jobs, IsJob
    <3>2. /\ c.to = x /\ c.from = y /\ c.how = "move" /\ c.rest = <<>> /\ c.seen = E
      BY JobFields DEF MoveAssigning
    <3>3. /\ UNCHANGED <<nothrow, strict, threw, terminated, called, before>>
          /\ todo' = <<Clear(x), Transfer(x, y, "move")>> \o <<>>
      BY <2>1, <2>6, Going
    <3>4. Seen(E)'
      BY <1>1, <1>5, Still
    <3>5. AtClear(c)'
      BY <1>1, <1>5, <3>2, <3>3, <3>4 DEF AtClear, Clear, Transfer
    <3>6. QED
      BY <1>3, <3>1, <3>3, <3>5, JobInv
  <2>7. CASE /\ index[x] # index[y] /\ how = "copy"
             /\ Continue(<<Transfer(tmp, y, "copy"), Born(tmp), Clear(x),
                           Transfer(x, tmp, "move"), Drop(tmp)>>)
    <3> SUFFICES ASSUME NEW c, c = Copying PROVE IInv'
      OBVIOUS
    <3>1. c \in Jobs
      BY <1>5, <2>5, <2>7 DEF Jobs, IsJob
    <3>2. /\ c.to = tmp /\ c.from = y /\ c.how = "copy" /\ c.seen = E
          /\ c.rest = <<Born(tmp), Clear(x), Transfer(x, tmp, "move"), Drop(tmp)>>
      BY JobFields DEF Copying
    <3>3. /\ UNCHANGED <<nothrow, strict, threw, terminated, called, before>>
          /\ todo' = <<Transfer(tmp, y, "copy"), Born(tmp), Clear(x),
                       Transfer(x, tmp, "move"), Drop(tmp)>> \o <<>>
      BY <2>1, <2>7, Going
    <3>4. todo' = <<Transfer(tmp, y, "copy")>> \o c.rest
      BY <3>2, <3>3, Tuples
    <3>5. SeenOff(tmp, E) /\ guard[tmp] = NoGuard /\ storage[tmp] = Raw
      BY <1>2, <1>5, <2>2, Split
    <3>6. SeenOff(tmp, E)'
      BY <1>1, <3>5, Still
    <3>7. AtTransfer(c)'
      BY <1>1, <1>2, <2>2, <3>2, <3>4, <3>5, <3>6 DEF AtTransfer, Waiting, Transfer
    <3>8. QED
      BY <1>3, <3>1, <3>3, <3>7, JobInv
  <2>8. /\ how = "move" => how # "copy"
        /\ valid(x) \/ ~valid(x)
        /\ \/ /\ index[x] = index[y]
              /\ Continue(IF valid(x) THEN <<AssignFrom(x, y, how)>> ELSE <<>>)
           \/ /\ index[x] # index[y] /\ how = "move"
              /\ Continue(<<Clear(x), Transfer(x, y, "move")>>)
           \/ /\ index[x] # index[y] /\ how = "copy"
              /\ Continue(<<Transfer(tmp, y, "copy"), Born(tmp), Clear(x),
                            Transfer(x, tmp, "move"), Drop(tmp)>>)
    BY <1>4, <2>1
  <2>9. QED
    BY <2>3, <2>4, <2>6, <2>7, <2>8
<1>6. ASSUME called.op = "swap", Differ
      PROVE  /\ before[x] \in Objects \cup {Invalid} /\ before[y] \in Objects \cup {Invalid}
             /\ Kind(MovedOf(before[x])) = Kind(before[x]) /\ MovedOf(before[x]) # Absent
             /\ Kind(MovedOf(before[y])) = Kind(before[y]) /\ MovedOf(before[y]) # Absent
             /\ Kind(before[x]) # Kind(before[y]) /\ x # y
  BY <1>2, <1>6, Objectively DEF Differ, Held
<1>7. ASSUME NEW c \in Jobs, Seen(c.seen), c.seen[c.to] # Absent, c.seen[c.from] # Absent,
             Kind(c.seen[c.to]) # Kind(c.seen[c.from]), c.how = "move",
             step = Assign(c.to, c.from, "move"), Tail(todo) = c.rest
      PROVE  IInv'
  <2>1. /\ c.to \in Slots /\ c.from \in Slots /\ c.to \in alive /\ c.from \in alive
        /\ index[c.to] # index[c.from]
    BY <1>1, <1>7, JobType, SeenAlive
  <2>2. Continue(<<Clear(c.to), Transfer(c.to, c.from, "move")>>)
    <3>1. step.to = c.to /\ step.from = c.from /\ step.how = "move"
      BY <1>7 DEF Assign
    <3>2. QED
      BY <2>1, <3>1 DEF DoAssign
  <2>3. /\ UNCHANGED <<nothrow, strict, threw, terminated, called, before>>
        /\ todo' = <<Clear(c.to), Transfer(c.to, c.from, "move")>> \o c.rest
    BY <1>7, <2>2, Going
  <2>4. Seen(c.seen)'
    BY <1>1, <1>7, Still
  <2>5. AtClear(c)'
    BY <1>1, <1>7, <2>1, <2>3, <2>4 DEF AtClear, Clear, Transfer
  <2>6. QED
    BY <1>3, <2>3, <2>5, JobInv
<1>8. CASE /\ called.op = "swap" /\ Differ /\ Seen(Replacing.seen)
           /\ todo = <<Assign(x, y, "move"), Assign(y, tmp, "move"), Drop(tmp)>>
  <2> SUFFICES ASSUME NEW c, c = Replacing PROVE IInv'
    OBVIOUS
  <2>1. c \in Jobs
    BY <1>8 DEF Jobs, IsJob
  <2>2. /\ c.to = x /\ c.from = y /\ c.how = "move"
        /\ c.rest = <<Assign(y, tmp, "move"), Drop(tmp)>>
        /\ c.seen = [E EXCEPT ![x] = MovedOf(before[x]), ![tmp] = before[x]]
    BY JobFields DEF Replacing
  <2>3. c.seen[x] = MovedOf(before[x]) /\ c.seen[y] = before[y]
    BY <1>2, <1>6, <1>8, <2>2
  <2>4. step = Assign(x, y, "move") /\ Tail(todo) = <<Assign(y, tmp, "move"), Drop(tmp)>>
    BY <1>8 DEF step
  <2>5. /\ MovedOf(before[x]) # Absent /\ before[y] # Absent
        /\ Kind(MovedOf(before[x])) # Kind(before[y])
    BY <1>6, <1>8 DEF Differ
  <2>6. /\ Seen(c.seen) /\ c.seen[c.to] # Absent /\ c.seen[c.from] # Absent
        /\ Kind(c.seen[c.to]) # Kind(c.seen[c.from])
    BY <1>8, <2>2, <2>3, <2>5
  <2>7. step = Assign(c.to, c.from, "move") /\ Tail(todo) = c.rest /\ c.how = "move"
    BY <2>2, <2>4
  <2>8. QED
    BY <1>7, <2>1, <2>6, <2>7
<1>9. CASE /\ called.op = "swap" /\ Differ /\ Seen(Restoring.seen)
           /\ todo = <<Assign(y, tmp, "move"), Drop(tmp)>>
  <2> SUFFICES ASSUME NEW c, c = Restoring PROVE IInv'
    OBVIOUS
  <2>1. c \in Jobs
    BY <1>9 DEF Jobs, IsJob
  <2>2. /\ c.to = y /\ c.from = tmp /\ c.how = "move" /\ c.rest = <<Drop(tmp)>>
        /\ c.seen = [E EXCEPT ![x] = before[y], ![y] = MovedOf(before[y]), ![tmp] = before[x]]
    BY JobFields DEF Restoring
  <2>3. c.seen[y] = MovedOf(before[y]) /\ c.seen[tmp] = before[x]
    BY <1>2, <1>6, <1>9, <2>2
  <2>4. step = Assign(y, tmp, "move") /\ Tail(todo) = <<Drop(tmp)>>
    BY <1>9 DEF step
  <2>5. /\ MovedOf(before[y]) # Absent /\ before[x] # Absent
        /\ Kind(MovedOf(before[y])) # Kind(before[x])
    BY <1>6, <1>9 DEF Differ
  <2>6. /\ Seen(c.seen) /\ c.seen[c.to] # Absent /\ c.seen[c.from] # Absent
        /\ Kind(c.seen[c.to]) # Kind(c.seen[c.from])
    BY <1>9, <2>2, <2>3, <2>5
  <2>7. step = Assign(c.to, c.from, "move") /\ Tail(todo) = c.rest /\ c.how = "move"
    BY <2>2, <2>4
  <2>8. QED
    BY <1>7, <2>1, <2>6, <2>7
<1>10. QED
  BY <1>1, <1>5, <1>8, <1>9 DEF AtAssign

-----------------------------------------------------------------------------
(* The alternatives' own assignments and swap.                             *)
LEMMA AssignAltInv == IInv /\ DoAssignAlt => IInv'
<1> SUFFICES ASSUME IInv, DoAssignAlt, NEW x, NEW o, NEW how, NEW E,
                    x = called.x, o = called.o, how = called.how, E = Origin
             PROVE  IInv'
  OBVIOUS
<1>1. ~threw /\ TypeOK /\ AtAssignAlt
  BY Whereabouts DEF DoAssignAlt, IInv
<1>2. /\ step = AssignAlt(x, o.val, how) /\ Tail(todo) = <<>>
      /\ called.op = "assign_value" /\ how \in {"copy", "move"} /\ o \in Objects
      /\ x \in alive /\ index[x] = o.alt /\ Seen(E)
  BY <1>1, OtherSteps DEF AtAssignAlt
<1>3. step.to = x /\ step.val = o.val /\ step.trait = Assigns(how)
  BY <1>2 DEF AssignAlt
<1>4. /\ x \in Vars /\ x \in Slots /\ x # tmp /\ tmp \in Slots /\ E \in [Slots -> Held]
      /\ E[tmp] = Absent /\ \A z \in Vars : E[z] = before[z] /\ z \in Slots
      /\ before \in [Vars -> Held]
  BY <1>1, CallType, OriginType DEF TypeOK, Held, Slots
<1>5. /\ storage[x] = before[x] /\ storage[x] \in Objects /\ storage[x].alt = o.alt
      /\ SeenOff(x, E) /\ Sound(x) /\ View[x] = storage[x] /\ tmp \notin alive
  <2>1. valid(x)
    BY <1>2, Objectively DEF valid
  <2>2. storage[x] = E[x] /\ storage[x] \in Objects /\ SeenOff(x, E) /\ Sound(x) /\ View[x] = E[x]
    BY <1>1, <1>2, <1>4, <2>1, SeenAlive, Split
  <2>3. storage[x].alt = index[x] /\ tmp \notin alive
    BY <1>1, <1>2, <1>4, <2>1, <2>2, SeenAlive DEF Sound, Agrees
  <2>4. QED
    BY <1>2, <1>4, <2>2, <2>3
<1>6. ASSUME NEW p \in Objects, p.alt = o.alt, storage' = [storage EXCEPT ![x] = p],
             UNCHANGED <<alive, index, guard>>
      PROVE  /\ SoundOff({})' /\ Contents' = [before EXCEPT ![x] = p]
             /\ storage' \in [Slots -> Objects \cup {Raw}]
  <2>1. /\ storage' \in [Slots -> Objects \cup {Raw}] /\ storage'[x] = p /\ Frame({x})
    BY <1>1, <1>4, <1>6 DEF TypeOK, Frame
  <2>2. Sound(x)' /\ View'[x] = p
    BY <1>1, <1>2, <1>5, <1>6, <2>1, Valued
  <2>3. SeenOff(x, E)'
    BY <1>5, <2>1, FramedOff
  <2>4. SoundOff({})'
    BY <2>2, <2>3 DEF SeenOff, SoundOff
  <2>5. Contents'[x] = p /\ \A z \in Vars \ {x} : Contents'[z] = before[z]
    BY <1>4, <2>2, <2>3, ViewedNext DEF SeenOff
  <2>6. Contents' = [z \in Vars |-> Contents'[z]]
    BY DEF Contents
  <2>7. QED
    BY <1>4, <2>1, <2>4, <2>5, <2>6
<1>7. ASSUME NEW v, v \in Values \cup {Unspecified}
      PROVE  LET p == [storage[x] EXCEPT !.val = v] IN
             /\ p \in Objects /\ p.alt = o.alt /\ p.val = v
             /\ [storage EXCEPT ![x].val = v] = [storage EXCEPT ![x] = p]
  BY <1>5, <1>7 DEF Objects
<1>8. o.val \in Values \cup {Unspecified}
  BY <1>2 DEF Objects
<1>9. CASE /\ Continue(<<>>) /\ storage' = [storage EXCEPT ![x].val = o.val]
           /\ UNCHANGED <<alive, index, guard>>
  <2>1. storage' = [storage EXCEPT ![x] = o]
    <3>1. [storage[x] EXCEPT !.val = o.val] = o
      BY <1>2, <1>5 DEF Objects
    <3>2. QED
      BY <1>7, <1>8, <1>9, <3>1
  <2>2. /\ SoundOff({})' /\ Contents' = [before EXCEPT ![x] = o]
        /\ storage' \in [Slots -> Objects \cup {Raw}]
    BY <1>2, <1>6, <1>9, <2>1
  <2>3. /\ UNCHANGED <<nothrow, strict, threw, terminated, called, before>> /\ todo' = <<>>
    BY <1>2, <1>9, Onward
  <2>4. Asked!Success' = [before EXCEPT ![x] = o]
    BY <1>2, <2>3, Successes, Settled DEF Put
  <2>5. Idle'
    BY <1>5, <1>9, <2>2, <2>3, <2>4 DEF Idle
  <2>6. TypeOK'
    BY <1>1, <1>9, <2>2, <2>3, TypeGoing DEF TypeOK
  <2>7. QED
    BY <1>1, <2>3, <2>5, <2>6 DEF IInv, Place
<1>10. CASE Throw /\ storage' \in {storage, [storage EXCEPT ![x].val = Unspecified]}
  <2>1. PICK p \in MaybeMoved(before[x]) : storage' = [storage EXCEPT ![x] = p]
    <3>1. CASE storage' = storage
      <4>1. storage' = [storage EXCEPT ![x] = storage[x]]
        BY <1>1, <1>4, <3>1 DEF TypeOK
      <4>2. QED
        BY <1>5, <4>1 DEF MaybeMoved
    <3>2. CASE storage' = [storage EXCEPT ![x].val = Unspecified]
      <4>1. storage' = [storage EXCEPT ![x] = MovedOf(storage[x])]
        BY <1>5, <1>7, <3>2 DEF MovedOf
      <4>2. QED
        BY <1>5, <4>1 DEF MaybeMoved
    <3>3. QED
      BY <1>10, <3>1, <3>2
  <2>2. p \in Objects /\ p.alt = o.alt
    BY <1>5, Objectively DEF MaybeMoved
  <2>3. UNCHANGED <<alive, index, guard>> /\ Assigns(how) \notin nothrow
    BY <1>3, <1>10 DEF Throw
  <2>4. /\ SoundOff({})' /\ Contents' = [before EXCEPT ![x] = p]
        /\ storage' \in [Slots -> Objects \cup {Raw}]
    BY <1>6, <2>1, <2>2, <2>3
  <2>5. Kind(before[x]) = o.alt /\ (how = "copy" \/ MayMove)
    BY <1>2, <1>5, <2>3, Objectively DEF Assigns, MayMove, Noexcept, Moves
  <2>6. Contents' \in Asked!Failures
    BY <1>1, <1>2, <2>4, <2>5, Failings
  <2>7. Preserving => \A z \in Vars : Contents'[z] # Invalid
    BY <1>4, <2>2, <2>4, Objectively DEF Preserving
  <2>8. QED
    BY <1>1, <1>10, <2>4, <2>6, <2>7, ThrowFree
<1>11. QED
  BY <1>3, <1>9, <1>10 DEF DoAssignAlt

(* Two variants of one alternative, and other objects of it next.          *)
LEMMA Pair ==
  ASSUME TypeOK, NEW x \in Vars, NEW y \in Vars, {x, y} \subseteq alive, Seen(Origin),
         valid(x), index[x] = index[y]
  PROVE  /\ x \in Slots /\ y \in Slots /\ tmp \notin alive /\ valid(y)
         /\ storage[x] = before[x] /\ before[x] \in Objects /\ before[x].alt = index[x]
         /\ storage[y] = before[y] /\ before[y] \in Objects /\ before[y].alt = index[x]
         /\ Sound(x) /\ View[x] = before[x] /\ Sound(y) /\ View[y] = before[y]
         /\ Kind(before[x]) = Kind(before[y])
<1> DEFINE E == Origin
<1>1. /\ x \in Slots /\ y \in Slots /\ tmp \in Slots /\ E[x] = before[x] /\ E[y] = before[y]
      /\ E[tmp] = Absent
  BY CallType, OriginType DEF Slots
<1>2. valid(y)
  BY DEF valid
<1>3. ASSUME NEW z \in {x, y}
      PROVE  storage[z] = before[z] /\ before[z] \in Objects /\ Sound(z) /\ View[z] = before[z]
  BY <1>1, <1>2, <1>3, SeenAlive, Split
<1>4. ASSUME NEW z \in {x, y} PROVE before[z].alt = index[x] /\ Kind(before[z]) = index[x]
  BY <1>2, <1>3, <1>4, Objectively DEF Sound, Agrees
<1>5. tmp \notin alive
  BY <1>1, SeenAlive
<1>6. QED
  BY <1>1, <1>2, <1>3, <1>4, <1>5

LEMMA PairNext ==
  ASSUME TypeOK, NEW x \in Vars, NEW y \in Vars, {x, y} \subseteq alive, Seen(Origin),
         valid(x), index[x] = index[y], UNCHANGED <<alive, index, guard>>,
         NEW s \in [Slots -> Objects \cup {Raw}], storage' = s,
         s[x] \in Objects, s[x].alt = index[x], s[y] \in Objects, s[y].alt = index[x],
         \A z \in Slots \ {x, y} : s[z] = storage[z]
  PROVE  /\ SoundOff({})' /\ Contents' = [z \in Vars |-> Contents'[z]]
         /\ Contents'[x] = s[x] /\ Contents'[y] = s[y]
         /\ \A z \in Vars \ {x, y} : Contents'[z] = before[z]
<1>1. /\ x \in Slots /\ y \in Slots
      /\ storage[x] = before[x] /\ before[x] \in Objects /\ before[x].alt = index[x]
      /\ storage[y] = before[y] /\ before[y] \in Objects /\ before[y].alt = index[x]
      /\ Sound(x) /\ View[x] = before[x] /\ Sound(y) /\ View[y] = before[y]
  BY Pair
<1>2. Sound(x)' /\ View'[x] = s[x]
  BY <1>1, Valued
<1>3. Sound(y)' /\ View'[y] = s[y]
  BY <1>1, Valued
<1>4. Frame({x, y}) /\ SoundOff({}) /\ View = Origin
  BY DEF Frame, Seen
<1>5. \A z \in Slots \ {x, y} : Sound(z)' /\ View'[z] = Origin[z]
  BY <1>4, Framed DEF SoundOff
<1>6. SoundOff({})'
  BY <1>2, <1>3, <1>5 DEF SoundOff
<1>7. \A z \in Vars \ {x, y} : Contents'[z] = before[z]
  BY <1>5, ViewedNext, OriginType DEF Slots
<1>8. QED
  BY <1>2, <1>3, <1>6, <1>7, ViewedNext

LEMMA AssignFromInv == IInv /\ DoAssignFrom => IInv'
<1> SUFFICES ASSUME IInv, DoAssignFrom, NEW x, NEW y, NEW how,
                    x = called.x, y = called.y, how = called.how
             PROVE  IInv'
  OBVIOUS
<1>1. ~threw /\ TypeOK /\ AtAssignFrom
  BY Whereabouts DEF DoAssignFrom, IInv
<1>2. /\ step = AssignFrom(x, y, how) /\ Tail(todo) = <<>>
      /\ called.op = "assign" /\ how \in {"copy", "move"}
      /\ {x, y} \subseteq alive /\ valid(x) /\ index[x] = index[y] /\ Seen(Origin)
  BY <1>1, OtherSteps DEF AtAssignFrom
<1>3. step.to = x /\ step.from = y /\ step.how = how /\ step.trait = Assigns(how)
  BY <1>2 DEF AssignFrom
<1>4. x \in Vars /\ y \in Vars /\ before \in [Vars -> Held]
  BY <1>1, CallType DEF TypeOK, Held
<1>5. /\ x \in Slots /\ y \in Slots /\ tmp \notin alive
      /\ storage[x] = before[x] /\ before[x] \in Objects /\ before[x].alt = index[x]
      /\ storage[y] = before[y] /\ before[y] \in Objects /\ before[y].alt = index[x]
      /\ Kind(before[x]) = Kind(before[y])
  BY <1>1, <1>2, <1>4, Pair
<1> DEFINE after == Used(storage, y, how)
<1>6. PICK s : /\ s = after /\ s \in [Slots -> Objects \cup {Raw}]
               /\ s[y] = IF how = "move" THEN MovedOf(before[y]) ELSE before[y]
               /\ s[y] \in Objects /\ s[y].alt = index[x]
               /\ \A z \in Slots \ {y} : s[z] = storage[z]
  BY <1>1, <1>5, UsedIs
<1>7. CASE /\ Continue(<<>>) /\ storage' = IF x = y THEN s ELSE [s EXCEPT ![x] = before[y]]
           /\ UNCHANGED <<alive, index, guard>>
  <2>1. PICK t : /\ t \in [Slots -> Objects \cup {Raw}] /\ storage' = t
                 /\ t[x] = IF x = y THEN s[y] ELSE before[y]
                 /\ t[y] = s[y] /\ \A z \in Slots \ {x, y} : t[z] = storage[z]
    BY <1>5, <1>6, <1>7
  <2>2. /\ SoundOff({})' /\ Contents' = [z \in Vars |-> Contents'[z]]
        /\ Contents'[x] = t[x] /\ Contents'[y] = t[y]
        /\ \A z \in Vars \ {x, y} : Contents'[z] = before[z]
    BY <1>1, <1>2, <1>4, <1>5, <1>6, <1>7, <2>1, PairNext
  <2>3. Contents' = Taken
    <3>1. Taken = [before EXCEPT ![x] = before[y], ![y] = s[y]]
      BY <1>6 DEF Taken
    <3>2. Contents'[y] = s[y] /\ (x # y => Contents'[x] = before[y])
      BY <2>1, <2>2
    <3>3. QED
      BY <1>4, <2>2, <3>1, <3>2
  <2>4. UNCHANGED <<nothrow, strict, threw, terminated, called, before>> /\ todo' = <<>>
    BY <1>2, <1>7, Onward
  <2>5. Asked!Success' = Taken
    BY <1>2, <2>4, Successes, Settled
  <2>6. Idle'
    BY <1>5, <1>7, <2>2, <2>3, <2>4, <2>5 DEF Idle
  <2>7. TypeOK'
    BY <1>1, <1>7, <2>1, <2>4, TypeGoing DEF TypeOK
  <2>8. QED
    BY <1>1, <2>4, <2>6, <2>7 DEF IInv, Place
<1>8. CASE Throw /\ storage' \in {storage, s, [s EXCEPT ![x].val = Unspecified]}
  <2>1. UNCHANGED <<alive, index, guard>> /\ Assigns(how) \notin nothrow
    BY <1>3, <1>8 DEF Throw
  <2>2. how = "copy" \/ MayMove
    BY <1>2, <2>1 DEF Assigns, MayMove, Noexcept, Moves
  <2>3. PICK t : /\ t \in [Slots -> Objects \cup {Raw}] /\ storage' = t
                 /\ t[x] \in MaybeMoved(before[x]) /\ (x # y => t[y] \in Sources)
                 /\ \A z \in Slots \ {x, y} : t[z] = storage[z]
    <3>1. /\ s[x] \in MaybeMoved(before[x]) /\ s[x] \in Objects
          /\ before[y] \in Sources /\ s[y] \in Sources
      BY <1>5, <1>6 DEF MaybeMoved, Sources
    <3>2. CASE storage' = storage
      BY <1>1, <1>5, <3>1, <3>2 DEF MaybeMoved, TypeOK
    <3>3. CASE storage' = s
      BY <1>6, <3>1, <3>3
    <3>4. CASE storage' = [s EXCEPT ![x].val = Unspecified]
      <4>1. MovedOf(s[x]) = MovedOf(before[x]) /\ MovedOf(s[x]) \in Objects
        BY <1>5, <3>1, Objectively DEF MaybeMoved
      <4>2. storage' = [s EXCEPT ![x] = MovedOf(s[x])]
        BY <1>5, <1>6, <3>1, <3>4 DEF MovedOf
      <4>3. QED
        BY <1>5, <1>6, <3>1, <4>1, <4>2 DEF MaybeMoved
    <3>5. QED
      BY <1>8, <3>2, <3>3, <3>4
  <2>4. /\ t[x] \in Objects /\ t[x].alt = index[x]
        /\ t[y] \in Objects /\ t[y].alt = index[x]
    <3>1. \A p \in MaybeMoved(before[x]) \cup Sources : p \in Objects /\ p.alt = index[x]
      BY <1>5, Objectively DEF MaybeMoved, Sources
    <3>2. QED
      BY <2>3, <3>1
  <2>5. /\ SoundOff({})' /\ Contents' = [z \in Vars |-> Contents'[z]]
        /\ Contents'[x] = t[x] /\ Contents'[y] = t[y]
        /\ \A z \in Vars \ {x, y} : Contents'[z] = before[z]
    BY <1>1, <1>2, <1>4, <2>1, <2>3, <2>4, PairNext
  <2>6. Contents' \in Asked!Failures
    <3>1. ASSUME NEW p \in Sources PROVE [before EXCEPT ![y] = p, ![x] = t[x]] \in Asked!Failures
      BY <1>1, <1>2, <1>5, <2>2, <2>3, Failings
    <3>2. CASE x = y
      <4>1. before[y] \in Sources
        BY DEF Sources, MaybeMoved
      <4>2. Contents' = [before EXCEPT ![y] = before[y], ![x] = t[x]]
        BY <1>4, <2>5, <3>2
      <4>3. QED
        BY <3>1, <4>1, <4>2
    <3>3. CASE x # y
      <4>1. Contents' = [before EXCEPT ![y] = t[y], ![x] = t[x]]
        BY <1>4, <2>5, <3>3
      <4>2. QED
        BY <2>3, <3>1, <3>3, <4>1
    <3>4. QED
      BY <3>2, <3>3
  <2>7. Preserving => \A z \in Vars : Contents'[z] # Invalid
    BY <2>4, <2>5, Objectively DEF Preserving
  <2>8. QED
    BY <1>1, <1>8, <2>3, <2>5, <2>6, <2>7, ThrowFree
<1>9. QED
  BY <1>3, <1>5, <1>6, <1>7, <1>8 DEF DoAssignFrom

LEMMA SwapAltsInv == IInv /\ DoSwapAlts => IInv'
<1> SUFFICES ASSUME IInv, DoSwapAlts, NEW x, NEW y, x = called.x, y = called.y PROVE IInv'
  OBVIOUS
<1>1. ~threw /\ TypeOK /\ AtSwapAlts
  BY Whereabouts DEF DoSwapAlts, IInv
<1>2. /\ step = SwapAlts(x, y) /\ Tail(todo) = <<>>
      /\ called.op = "swap" /\ {x, y} \subseteq alive /\ valid(x) /\ index[x] = index[y]
      /\ Seen(Origin)
  BY <1>1, OtherSteps DEF AtSwapAlts
<1>3. step.to = x /\ step.from = y /\ step.trait = "swap"
  BY <1>2 DEF SwapAlts
<1>4. x \in Vars /\ y \in Vars /\ before \in [Vars -> Held]
  BY <1>1, CallType DEF TypeOK, Held
<1>5. /\ x \in Slots /\ y \in Slots /\ tmp \notin alive
      /\ storage[x] = before[x] /\ before[x] \in Objects /\ before[x].alt = index[x]
      /\ storage[y] = before[y] /\ before[y] \in Objects /\ before[y].alt = index[x]
      /\ Kind(before[x]) = Kind(before[y])
  BY <1>1, <1>2, <1>4, Pair
<1>6. ASSUME NEW p \in Objects, NEW q \in Objects, p.alt = index[x], q.alt = index[x],
             x = y => p = q,
             storage' = [storage EXCEPT ![x] = p, ![y] = q], UNCHANGED <<alive, index, guard>>
      PROVE  /\ SoundOff({})' /\ Contents' = [before EXCEPT ![x] = p, ![y] = q]
             /\ storage' \in [Slots -> Objects \cup {Raw}]
  <2>1. PICK t : /\ t \in [Slots -> Objects \cup {Raw}] /\ storage' = t
                 /\ t[x] = p /\ t[y] = q /\ \A z \in Slots \ {x, y} : t[z] = storage[z]
    BY <1>1, <1>5, <1>6 DEF TypeOK
  <2>2. /\ SoundOff({})' /\ Contents' = [z \in Vars |-> Contents'[z]]
        /\ Contents'[x] = p /\ Contents'[y] = q
        /\ \A z \in Vars \ {x, y} : Contents'[z] = before[z]
    BY <1>1, <1>2, <1>4, <1>6, <2>1, PairNext
  <2>3. QED
    BY <1>4, <2>1, <2>2
<1>7. CASE /\ Continue(<<>>) /\ storage' = [storage EXCEPT ![x] = storage[y], ![y] = storage[x]]
           /\ UNCHANGED <<alive, index, guard>>
  <2>1. /\ SoundOff({})' /\ Contents' = [before EXCEPT ![x] = before[y], ![y] = before[x]]
        /\ storage' \in [Slots -> Objects \cup {Raw}]
    BY <1>5, <1>6, <1>7
  <2>2. UNCHANGED <<nothrow, strict, threw, terminated, called, before>> /\ todo' = <<>>
    BY <1>2, <1>7, Onward
  <2>3. Asked!Success' = Contents'
    BY <1>2, <2>1, <2>2, Successes, Settled DEF Exchanged
  <2>4. Idle'
    BY <1>5, <1>7, <2>1, <2>2, <2>3 DEF Idle
  <2>5. TypeOK'
    BY <1>1, <1>7, <2>1, <2>2, TypeGoing DEF TypeOK
  <2>6. QED
    BY <1>1, <2>2, <2>4, <2>5 DEF IInv, Place
<1>8. CASE /\ Throw
           /\ storage' \in {storage, [storage EXCEPT ![x].val = Unspecified,
                                                     ![y].val = Unspecified]}
  <2>1. UNCHANGED <<alive, index, guard>> /\ "swap" \notin nothrow
    BY <1>3, <1>8 DEF Throw
  <2>2. MayMove
    BY <2>1 DEF MayMove, Noexcept, Moves
  <2> DEFINE p == MovedOf(before[x])  q == MovedOf(before[y])
  <2>3. /\ p \in Objects /\ q \in Objects /\ p.alt = index[x] /\ q.alt = index[x]
        /\ x = y => p = q /\ MovedOf(p) = p
    BY <1>5, Objectively
  <2>4. \/ storage' = [storage EXCEPT ![x] = before[x], ![y] = before[y]]
        \/ storage' = [storage EXCEPT ![x] = p, ![y] = q]
    <3>1. CASE storage' = storage
      BY <1>1, <1>5, <3>1 DEF TypeOK
    <3>2. CASE storage' = [storage EXCEPT ![x].val = Unspecified, ![y].val = Unspecified]
      <4>1. PICK t : t = [storage EXCEPT ![x].val = Unspecified]
        OBVIOUS
      <4>2. t = [storage EXCEPT ![x] = p]
        BY <1>1, <1>5, <4>1 DEF MovedOf, TypeOK
      <4>3. t[y] = IF x = y THEN p ELSE before[y]
        BY <1>1, <1>5, <4>2 DEF TypeOK
      <4>4. [t[y] EXCEPT !.val = Unspecified] = q
        BY <1>5, <2>3, <4>3 DEF MovedOf
      <4>5. storage' = [t EXCEPT ![y].val = Unspecified]
        BY <3>2, <4>1
      <4>6. storage' = [t EXCEPT ![y] = q]
        BY <4>4, <4>5
      <4>7. QED
        BY <4>2, <4>6
    <3>3. QED
      BY <1>8, <3>1, <3>2
  <2> HIDE DEF p, q
  <2>5. /\ SoundOff({})' /\ storage' \in [Slots -> Objects \cup {Raw}]
        /\ \/ Contents' = [before EXCEPT ![x] = before[x], ![y] = before[y]]
           \/ Contents' = [before EXCEPT ![x] = p, ![y] = q]
    BY <1>5, <1>6, <2>1, <2>3, <2>4
  <2>6. Contents' \in Asked!Failures
    BY <1>1, <1>2, <1>5, <2>2, <2>5, Failings DEF p, q
  <2>7. Preserving => \A z \in Vars : Contents'[z] # Invalid
    BY <1>4, <1>5, <2>3, <2>5, Objectively DEF Preserving
  <2>8. QED
    BY <1>1, <1>8, <2>5, <2>6, <2>7, ThrowFree
<1>9. QED
  BY <1>3, <1>7, <1>8 DEF DoSwapAlts

(* The copy of the argument of operator=(const T&).                        *)
LEMMA CopyArgumentInv == IInv /\ DoCopyArgument => IInv'
<1> SUFFICES ASSUME IInv, DoCopyArgument, NEW x, NEW o, x = called.x, o = called.o PROVE IInv'
  OBVIOUS
<1>1. ~threw /\ TypeOK /\ AtCopyArgument /\ UNCHANGED storage
  BY Whereabouts DEF DoCopyArgument, IInv
<1>2. /\ step = CopyArgument /\ o \in Objects /\ x \in alive /\ Replaces /\ called.how = "copy"
      /\ Tail(todo) = <<Guard(x), Clear(x), Make(x, o, "move"), Unguard(x)>>
      /\ Seen(Origin)
  BY <1>1, OtherSteps DEF AtCopyArgument
<1>3. CASE Continue(<<>>) /\ UNCHANGED <<alive, index, guard>>
  <2>1. /\ UNCHANGED <<nothrow, strict, threw, terminated, called, before>>
        /\ todo' = <<Guard(x), Clear(x), Make(x, o, "move"), Unguard(x)>>
    BY <1>2, <1>3, Onward
  <2>2. Seen(Origin)' /\ Replaces'
    <3>1. Seen(Origin)' <=> Seen(Origin) 
      BY <1>1, <1>3, <2>1, Still, Settled DEF Seen
    <3>2. QED
      BY <1>2, <2>1, <3>1, Settled
  <2>3. AtEmplace("move")'
    BY <1>2, <1>3, <2>1, <2>2 DEF AtEmplace, Emplaces
  <2>4. TypeOK'
    BY <1>1, <1>3, <2>1 DEF TypeOK
  <2>5. QED
    BY <1>1, <2>1, <2>3, <2>4 DEF IInv, Place
<1>4. CASE Throw
  <2>1. UNCHANGED <<alive, index, guard>>
    BY <1>4 DEF Throw
  <2>2. SoundOff({})' /\ storage' \in [Slots -> Objects \cup {Raw}]
    BY <1>1, <1>2, <2>1, Still DEF Seen, TypeOK
  <2>3. Contents' = before
    <3>1. View' = Origin
      BY <1>1, <1>2, <2>1, Still DEF Seen
    <3>2. QED
      BY <1>1, <3>1, ViewedNext, OriginType DEF TypeOK
  <2>4. before \in Asked!Failures
    BY <1>1, <1>2, Failings DEF Replaces
  <2>5. QED
    BY <1>1, <1>4, <2>2, <2>3, <2>4, ThrowFree DEF Preserving
<1>5. QED
  BY <1>3, <1>4 DEF DoCopyArgument

(* swap().                                                                 *)
LEMMA ExchangeInv == IInv /\ DoExchange => IInv'
<1> SUFFICES ASSUME IInv, DoExchange, NEW x, NEW y, NEW E, x = called.x, y = called.y, E = Origin
             PROVE  IInv'
  OBVIOUS
<1>1. ~threw /\ TypeOK /\ AtExchange /\ UNCHANGED <<alive, storage, index, guard>>
  BY Whereabouts DEF DoExchange, IInv
<1>2. /\ step = Exchange(x, y) /\ Tail(todo) = <<>>
      /\ called.op = "swap" /\ {x, y} \subseteq alive /\ Seen(E)
  BY <1>1, OtherSteps DEF AtExchange
<1>3. step.to = x /\ step.from = y
  BY <1>2 DEF Exchange
<1>4. /\ x \in Vars /\ y \in Vars /\ x \in Slots /\ y \in Slots /\ tmp \in Slots
      /\ E[tmp] = Absent /\ E[x] = before[x] /\ E[y] = before[y]
      /\ \A z \in Vars : E[z] = before[z]
      /\ before \in [Vars -> Held]
  BY <1>1, CallType, OriginType DEF TypeOK, Held, Slots
<1>5. /\ E[x] # Absent /\ E[y] # Absent /\ Kind(E[x]) = index[x] /\ Kind(E[y]) = index[y]
      /\ tmp \notin alive /\ (~valid(x) => E[x] = Invalid) /\ (~valid(y) => E[y] = Invalid)
  BY <1>1, <1>2, <1>4, SeenAlive
<1>6. Seen(E)'
  BY <1>1, <1>2, Still
<1>7. ASSUME NEW s, Continue(s)
      PROVE  /\ UNCHANGED <<nothrow, strict, threw, terminated, called, before>>
             /\ todo' = s \o <<>> /\ TypeOK' /\ ~threw' /\ Jobs' = Jobs /\ Origin' = E
             /\ Asked!Success' = Asked!Success
  BY <1>1, <1>2, <1>7, Going, Settled DEF TypeOK
<1>8. CASE index[x] = index[y] /\ valid(x) /\ Continue(<<SwapAlts(x, y)>>)
  <2>1. /\ UNCHANGED <<nothrow, strict, threw, terminated, called, before>>
        /\ TypeOK' /\ ~threw' /\ Origin' = E /\ todo' = <<SwapAlts(x, y)>> \o <<>>
    BY <1>7, <1>8
  <2>2. todo' = <<SwapAlts(x, y)>>
    BY <2>1, Tuples
  <2>3. valid(x)'
    BY <1>1, <1>8 DEF valid
  <2>4. AtSwapAlts'
    BY <1>1, <1>2, <1>6, <1>8, <2>1, <2>2, <2>3 DEF AtSwapAlts
  <2>5. QED
    BY <2>1, <2>4 DEF IInv, Place
<1>9. CASE index[x] = index[y] /\ ~valid(x) /\ Continue(<<>>)
  <2>1. /\ UNCHANGED <<nothrow, strict, threw, terminated, called, before>>
        /\ TypeOK' /\ ~threw' /\ Asked!Success' = Asked!Success
    BY <1>7, <1>9
  <2>2. todo' = <<>>
    BY <1>2, <1>9, Onward
  <2>3. before[x] = Invalid /\ before[y] = Invalid
    BY <1>4, <1>5, <1>9 DEF valid
  <2>4. Exchanged = before
    BY <1>4, <2>3 DEF Exchanged
  <2>5. Contents' = before
    BY <1>4, <1>6, SeenNext
  <2>6. Idle'
    BY <1>1, <1>2, <1>5, <1>6, <2>1, <2>2, <2>4, <2>5, Successes DEF Idle, Seen
  <2>7. QED
    BY <2>1, <2>6 DEF IInv, Place
<1>10. CASE /\ index[x] # index[y]
            /\ Continue(<<Transfer(tmp, x, "move"), Born(tmp), Assign(x, y, "move"),
                          Assign(y, tmp, "move"), Drop(tmp)>>)
  <2> SUFFICES ASSUME NEW c, c = Saving PROVE IInv'
    OBVIOUS
  <2>1. Differ
    BY <1>4, <1>5, <1>10 DEF Differ
  <2>2. c \in Jobs
    BY <1>2, <2>1 DEF Jobs, IsJob
  <2>3. /\ c.to = tmp /\ c.from = x /\ c.how = "move" /\ c.seen = E
        /\ c.rest = <<Born(tmp), Assign(x, y, "move"), Assign(y, tmp, "move"), Drop(tmp)>>
    BY JobFields DEF Saving
  <2>4. /\ TypeOK' /\ ~threw' /\ Jobs' = Jobs
        /\ todo' = <<Transfer(tmp, x, "move"), Born(tmp), Assign(x, y, "move"),
                     Assign(y, tmp, "move"), Drop(tmp)>> \o <<>>
    BY <1>7, <1>10
  <2>5. todo' = <<Transfer(tmp, x, "move")>> \o c.rest
    BY <2>3, <2>4, Tuples
  <2>6. SeenOff(tmp, E) /\ guard[tmp] = NoGuard /\ storage[tmp] = Raw
    BY <1>2, <1>4, <1>5, Split
  <2>7. SeenOff(tmp, E)'
    BY <1>1, <2>6, Still
  <2>8. AtTransfer(c)'
    BY <1>1, <1>4, <1>5, <2>3, <2>5, <2>6, <2>7 DEF AtTransfer, Waiting, Transfer
  <2>9. QED
    BY <2>2, <2>4, <2>8, JobInv
<1>11. QED
  <2>1. \/ /\ index[x] = index[y]
           /\ Continue(IF valid(x) THEN <<SwapAlts(x, y)>> ELSE <<>>)
        \/ /\ index[x] # index[y]
           /\ Continue(<<Transfer(tmp, x, "move"), Born(tmp), Assign(x, y, "move"),
                         Assign(y, tmp, "move"), Drop(tmp)>>)
    BY <1>3 DEF DoExchange
  <2>2. QED
    BY <1>8, <1>9, <1>10, <2>1

(* A comparison.                                                           *)
LEMMA VisitInv == IInv /\ DoVisit => IInv'
<1> SUFFICES ASSUME IInv, DoVisit, NEW E, E = Origin PROVE IInv'
  OBVIOUS
<1>1. ~threw /\ TypeOK /\ AtVisit /\ UNCHANGED <<alive, storage, index, guard>> /\ Continue(<<>>)
  BY Whereabouts DEF DoVisit, IInv
<1>2. called.op = "compare" /\ Seen(E) /\ Tail(todo) = <<>>
  BY <1>1, OtherSteps DEF AtVisit
<1>3. UNCHANGED <<nothrow, strict, threw, terminated, called, before>> /\ todo' = <<>>
  BY <1>1, <1>2, Onward
<1>4. tmp \in Slots /\ E[tmp] = Absent /\ before \in [Vars -> Held] /\ \A z \in Vars : E[z] = before[z]
  BY <1>1, CallType, OriginType DEF TypeOK, Held
<1>5. Seen(E)' /\ tmp \notin alive
  BY <1>1, <1>2, <1>4, Still, SeenAlive
<1>6. Contents' = before
  BY <1>4, <1>5, SeenNext
<1>7. Asked!Success' = before
  BY <1>2, <1>3, Successes, Settled
<1>8. Idle'
  BY <1>1, <1>3, <1>5, <1>6, <1>7 DEF Idle, Seen
<1>9. TypeOK'
  BY <1>1, <1>3 DEF TypeOK
<1>10. QED
  BY <1>1, <1>3, <1>8, <1>9 DEF IInv, Place

-----------------------------------------------------------------------------
(* Between two calls.                                                      *)
LEMMA Rest ==
  ASSUME IInv, todo = <<>>
  PROVE  SoundOff({}) /\ tmp \notin alive
<1>1. TypeOK
  BY DEF IInv
<1>2. CASE threw
  <2>1. AtUnwinding
    BY <1>2 DEF IInv, Place
  <2>2. Guarded = {} /\ tmp \notin alive
    BY <1>1, <2>1, UnwindingSteps
  <2>3. QED
    BY <2>1, <2>2 DEF AtUnwinding, Guarded, SoundOff
<1>3. CASE ~threw
  <2>1. ~AtJob
    BY <1>1, JobSteps DEF AtJob
  <2>2. Idle
    BY <1>3, <2>1, OtherSteps DEF IInv, Place
  <2>3. QED
    BY <2>2 DEF Idle
<1>4. QED
  BY <1>2, <1>3

LEMMA ContentsType ==
  ASSUME TypeOK, SoundOff({})
  PROVE  /\ Contents \in [Vars -> Objects \cup {Absent, Invalid}]
         /\ \A x \in Vars : x \in alive => Kind(Contents[x]) = index[x] /\ Contents[x] # Absent
         /\ \A x \in Vars : x \notin alive => Contents[x] = Absent
<1>1. ASSUME NEW x \in Vars
      PROVE  /\ Contents[x] = View[x] /\ Contents[x] \in Objects \cup {Absent, Invalid}
             /\ x \in alive => Kind(Contents[x]) = index[x] /\ Contents[x] # Absent
             /\ x \notin alive => Contents[x] = Absent
  <2>1. Contents[x] = View[x] /\ Sound(x) /\ x \in Slots
    BY Viewed DEF SoundOff, Slots
  <2>2. CASE x \in alive
    BY <2>1, <2>2, Sounded, Objectively
  <2>3. CASE x \notin alive
    BY <2>1, <2>3, Viewed
  <2>4. QED
    BY <2>1, <2>2, <2>3
<1>2. QED
  BY <1>1 DEF Contents

(* A call begins with all as it was.                                       *)
LEMMA Started ==
  ASSUME IInv, NEW r \in Requests, NEW n \in BOOLEAN, NEW s, Call(r, n, s)
  PROVE  /\ TypeOK' /\ ~threw' /\ Seen(Origin)' /\ called' = r /\ todo' = s
         /\ before' = Contents /\ UNCHANGED <<nothrow, alive, storage, index, guard>>
         /\ \A x \in Vars : x \in alive => Kind(before'[x]) = index[x] /\ before'[x] # Absent
         /\ \A x \in Vars : x \notin alive => before'[x] = Absent
         /\ Origin'[tmp] = Absent /\ \A x \in Slots : guard[x] = NoGuard
         /\ tmp \notin alive
<1>1. /\ UNCHANGED <<nothrow, alive, storage, index, guard>> /\ called' = r /\ todo' = s
      /\ before' = Contents /\ ~threw' /\ threw' \in BOOLEAN /\ strict' = n
      /\ terminated' = terminated /\ todo = <<>> /\ TypeOK
  BY DEF Call, IInv
<1>2. SoundOff({}) /\ tmp \notin alive
  BY <1>1, Rest
<1>3. /\ Contents \in [Vars -> Objects \cup {Absent, Invalid}]
      /\ \A x \in Vars : x \in alive => Kind(Contents[x]) = index[x] /\ Contents[x] # Absent
      /\ \A x \in Vars : x \notin alive => Contents[x] = Absent
  BY <1>1, <1>2, ContentsType
<1>4. TypeOK'
  BY <1>1, <1>3 DEF TypeOK
<1>5. SoundOff({})' /\ View' = View
  BY <1>1, <1>2, Still
<1>6. View = Origin'
  <2>1. Origin' = [z \in Slots |-> IF z = tmp THEN Absent ELSE Contents[z]]
    BY <1>1 DEF Origin
  <2>2. ASSUME NEW z \in Slots PROVE View[z] = Origin'[z]
    <3>1. CASE z = tmp
      BY <1>2, <2>1, <2>2, <3>1, Viewed
    <3>2. CASE z # tmp
      <4>1. z \in Vars
        BY <2>2, <3>2 DEF Slots
      <4>2. QED
        BY <2>1, <2>2, <3>2, <4>1, Viewed
    <3>3. QED
      BY <3>1, <3>2
  <2>3. View = [z \in Slots |-> View[z]]
    BY DEF View
  <2>4. QED
    BY <2>1, <2>2, <2>3
<1>7. Seen(Origin)'
  BY <1>5, <1>6 DEF Seen
<1>8. Origin'[tmp] = Absent /\ \A x \in Slots : guard[x] = NoGuard
  BY <1>2 DEF Origin, Slots, SoundOff, Sound
<1>9. QED
  BY <1>1, <1>2, <1>3, <1>4, <1>7, <1>8

LEMMA RequestType ==
  ASSUME NEW op \in {"in_place", "construct", "destroy", "emplace", "assign_value",
                     "assign", "swap", "compare"},
         NEW x \in Vars, NEW y \in Vars, NEW o \in Objects \cup {Raw},
         NEW how \in {"new", "copy", "move"}, NEW r, r = Request(op, x, y, o, how)
  PROVE  /\ r \in Requests
         /\ r.op = op /\ r.x = x /\ r.y = y /\ r.o = o /\ r.how = how
  BY DEF Request, Requests

LEMMA ObjectType ==
  ASSUME NEW i \in Indices, NEW v \in Values
  PROVE  Object(i, v) \in Objects
  BY DEF Object, Objects

LEMMA ClientInv == IInv /\ Client => IInv'
<1> SUFFICES ASSUME IInv, Client PROVE IInv'
  OBVIOUS
<1>1. TypeOK /\ Vars \subseteq Slots /\ tmp \in Slots /\ tmp \notin Vars
  BY VariantAssumption DEF IInv, Slots
<1>2. ASSUME NEW x \in Vars, Destroy(x) PROVE IInv'
  <2> SUFFICES ASSUME NEW r, r = Request("destroy", x, x, Raw, "new") PROVE IInv'
    OBVIOUS
  <2>1. r \in Requests /\ r.op = "destroy" /\ r.x = x
    BY RequestType
  <2>2. Call(r, TRUE, <<Drop(x)>>) /\ x \in alive
    BY <1>2 DEF Destroy
  <2>3. /\ TypeOK' /\ ~threw' /\ Seen(Origin)' /\ called' = r /\ todo' = <<Drop(x)>>
        /\ UNCHANGED alive
    BY <2>1, <2>2, Started
  <2>4. AtDestroy'
    BY <2>1, <2>2, <2>3 DEF AtDestroy
  <2>5. QED
    BY <2>3, <2>4 DEF IInv, Place
<1>3. ASSUME NEW x \in Vars, NEW o \in Objects, InPlace(x, o) PROVE IInv'
  <2> SUFFICES ASSUME NEW r, r = Request("in_place", x, x, o, "new") PROVE IInv'
    OBVIOUS
  <2>1. r \in Requests /\ r.op = "in_place" /\ r.x = x /\ r.o = o
    BY RequestType
  <2>2. Call(r, FALSE, <<SetIndex(x, o.alt), Make(x, o, "new"), Born(x)>>) /\ x \notin alive
    BY <1>3 DEF InPlace
  <2>3. /\ TypeOK' /\ ~threw' /\ Seen(Origin)' /\ called' = r /\ UNCHANGED alive
        /\ todo' = <<SetIndex(x, o.alt), Make(x, o, "new"), Born(x)>>
    BY <2>1, <2>2, Started
  <2>4. AtSetIndex'
    BY <1>3, <2>1, <2>2, <2>3 DEF AtSetIndex
  <2>5. QED
    BY <2>3, <2>4 DEF IInv, Place
<1>4. ASSUME NEW x \in Vars, NEW o \in Objects, Emplace(x, o) PROVE IInv'
  <2> SUFFICES ASSUME NEW r, r = Request("emplace", x, x, o, "new") PROVE IInv'
    OBVIOUS
  <2>1. r \in Requests /\ r.op = "emplace" /\ r.x = x /\ r.o = o
    BY RequestType
  <2>2. Call(r, FALSE, <<Guard(x), Clear(x), Make(x, o, "new"), Unguard(x)>>) /\ x \in alive
    BY <1>4 DEF Emplace, emplace
  <2>3. /\ TypeOK' /\ ~threw' /\ Seen(Origin)' /\ called' = r /\ UNCHANGED alive
        /\ todo' = <<Guard(x), Clear(x), Make(x, o, "new"), Unguard(x)>>
    BY <2>1, <2>2, Started
  <2>4. AtEmplace("new")'
    BY <1>4, <2>1, <2>2, <2>3 DEF AtEmplace, Emplaces
  <2>5. QED
    BY <2>3, <2>4 DEF IInv, Place
<1>5. ASSUME NEW x \in Vars, NEW o \in Objects, NEW how \in {"copy", "move"}, AssignValue(x, o, how)
      PROVE  IInv'
  <2> SUFFICES ASSUME NEW r, r = Request("assign_value", x, x, o, how) PROVE IInv'
    OBVIOUS
  <2>1. r \in Requests /\ r.op = "assign_value" /\ r.x = x /\ r.o = o /\ r.how = how
    BY <1>5, RequestType
  <2>2. x \in alive /\ AssignValueNoexcept(how) \in BOOLEAN
    BY <1>5 DEF AssignValue, AssignValueNoexcept, Noexcept
  <2>3. ASSUME NEW s, Call(r, AssignValueNoexcept(how), s)
        PROVE  /\ TypeOK' /\ ~threw' /\ Seen(Origin)' /\ called' = r /\ todo' = s
               /\ UNCHANGED <<alive, index>> /\ Kind(before'[x]) = index[x]
    BY <2>1, <2>2, <2>3, Started
  <2>4. CASE index[x] = o.alt /\ Call(r, AssignValueNoexcept(how), <<AssignAlt(x, o.val, how)>>)
    <3>1. /\ TypeOK' /\ ~threw' /\ Seen(Origin)' /\ called' = r
          /\ todo' = <<AssignAlt(x, o.val, how)>> /\ UNCHANGED <<alive, index>>
      BY <2>3, <2>4
    <3>2. AtAssignAlt'
      BY <2>1, <2>2, <2>4, <3>1 DEF AtAssignAlt
    <3>3. QED
      BY <3>1, <3>2 DEF IInv, Place
  <2>5. CASE /\ index[x] # o.alt /\ how = "move"
             /\ Call(r, AssignValueNoexcept(how),
                     <<Guard(x), Clear(x), Make(x, o, "move"), Unguard(x)>>)
    <3>1. /\ TypeOK' /\ ~threw' /\ Seen(Origin)' /\ called' = r /\ UNCHANGED <<alive, index>>
          /\ todo' = <<Guard(x), Clear(x), Make(x, o, "move"), Unguard(x)>>
          /\ Kind(before'[x]) = index[x]
      BY <2>3, <2>5
    <3>2. Replaces'
      BY <2>1, <2>5, <3>1 DEF Replaces, Kind
    <3>3. AtEmplace("move")'
      BY <2>1, <2>2, <3>1, <3>2 DEF AtEmplace, Emplaces
    <3>4. QED
      BY <3>1, <3>3 DEF IInv, Place
  <2>6. CASE /\ index[x] # o.alt /\ how = "copy"
             /\ Call(r, AssignValueNoexcept(how),
                     <<CopyArgument>> \o <<Guard(x), Clear(x), Make(x, o, "move"), Unguard(x)>>)
    <3>1. Call(r, AssignValueNoexcept(how),
               <<CopyArgument, Guard(x), Clear(x), Make(x, o, "move"), Unguard(x)>>)
      <4>1. <<CopyArgument>> \o <<Guard(x), Clear(x), Make(x, o, "move"), Unguard(x)>>
              = <<CopyArgument, Guard(x), Clear(x), Make(x, o, "move"), Unguard(x)>>
        BY Quintuples
      <4>2. QED
        BY <2>6, <4>1
    <3>2. /\ TypeOK' /\ ~threw' /\ Seen(Origin)' /\ called' = r /\ UNCHANGED <<alive, index>>
          /\ todo' = <<CopyArgument, Guard(x), Clear(x), Make(x, o, "move"), Unguard(x)>>
          /\ Kind(before'[x]) = index[x]
      BY <2>3, <3>1
    <3>3. Replaces'
      BY <2>1, <2>6, <3>2 DEF Replaces, Kind
    <3>4. AtCopyArgument'
      BY <2>1, <2>2, <2>6, <3>2, <3>3 DEF AtCopyArgument
    <3>5. QED
      BY <3>2, <3>4 DEF IInv, Place
  <2>7. QED
    BY <1>5, <2>4, <2>5, <2>6 DEF AssignValue, emplace
<1>6. ASSUME NEW x \in Vars, NEW y \in Vars, Swap(x, y) PROVE IInv'
  <2> SUFFICES ASSUME NEW r, r = Request("swap", x, y, Raw, "move") PROVE IInv'
    OBVIOUS
  <2>1. r \in Requests /\ r.op = "swap" /\ r.x = x /\ r.y = y
    BY RequestType
  <2>2. Call(r, Noexcept(Moves), <<Exchange(x, y)>>) /\ {x, y} \subseteq alive
        /\ Noexcept(Moves) \in BOOLEAN
    BY <1>6 DEF Swap, Noexcept
  <2>3. /\ TypeOK' /\ ~threw' /\ Seen(Origin)' /\ called' = r /\ UNCHANGED alive
        /\ todo' = <<Exchange(x, y)>>
    BY <2>1, <2>2, Started
  <2>4. AtExchange'
    BY <2>1, <2>2, <2>3 DEF AtExchange
  <2>5. QED
    BY <2>3, <2>4 DEF IInv, Place
<1>7. ASSUME NEW x \in Vars, NEW y \in Vars, Compare(x, y) PROVE IInv'
  <2> SUFFICES ASSUME NEW r, r = Request("compare", x, y, Raw, "new") PROVE IInv'
    OBVIOUS
  <2>1. r \in Requests /\ r.op = "compare" /\ r.x = x /\ r.y = y
    BY RequestType
  <2>2. Call(r, FALSE, <<Visit(y)>>)
    BY <1>7 DEF Compare
  <2>3. /\ TypeOK' /\ ~threw' /\ Seen(Origin)' /\ called' = r /\ todo' = <<Visit(y)>>
    BY <2>1, <2>2, Started
  <2>4. AtVisit'
    BY <2>1, <2>3 DEF AtVisit
  <2>5. QED
    BY <2>3, <2>4 DEF IInv, Place
<1>8. ASSUME NEW x \in Vars, NEW y \in Vars, NEW how \in {"copy", "move"}, Construct(x, y, how)
      PROVE  IInv'
  <2> SUFFICES ASSUME NEW r, r = Request("construct", x, y, Raw, how) PROVE IInv'
    OBVIOUS
  <2>1. r \in Requests /\ r.op = "construct" /\ r.x = x /\ r.y = y /\ r.how = how
    BY <1>8, RequestType
  <2>2. /\ Call(r, Noexcept({Constructs(how)}), <<Transfer(x, y, how), Born(x)>>)
        /\ x \notin alive /\ y \in alive /\ Noexcept({Constructs(how)}) \in BOOLEAN
    BY <1>8 DEF Construct, Noexcept
  <2>3. /\ TypeOK' /\ ~threw' /\ Seen(Origin)' /\ called' = r
        /\ UNCHANGED <<alive, storage, index, guard>>
        /\ todo' = <<Transfer(x, y, how), Born(x)>>
        /\ before'[x] = Absent /\ before'[y] # Absent /\ guard[x] = NoGuard
    BY <1>1, <2>1, <2>2, Started
  <2> SUFFICES ASSUME NEW c, c = Constructing', NEW E, E = Origin' PROVE IInv'
    OBVIOUS
  <2>4. c = Job(x, y, how, <<Born(x)>>, E)
    BY <2>1, <2>3 DEF Constructing, Born, Job
  <2>5. c.to = x /\ c.from = y /\ c.how = how /\ c.rest = <<Born(x)>> /\ c.seen = E
    BY <2>4, JobFields
  <2>6. c \in Jobs'
    BY <2>1, <2>3 DEF Jobs, IsJob
  <2>7. /\ SeenOff(x, E)' /\ storage'[x] = Raw /\ E[x] = Absent
    <3>1. View' = E /\ SoundOff({})'
      BY <2>3 DEF Seen
    <3>2. Sound(x)' /\ x \notin alive'
      BY <1>1, <2>2, <2>3, <3>1 DEF SoundOff
    <3>3. storage'[x] = Raw /\ View'[x] = Absent
      BY <1>1, <3>2, ViewedNext DEF Sound
    <3>4. QED
      BY <3>1, <3>3 DEF SeenOff, SoundOff
  <2>8. todo' = <<Transfer(x, y, how)>> \o <<Born(x)>>
    BY <2>3, Tuples
  <2>9. AtTransfer(c)'
    BY <2>2, <2>3, <2>5, <2>7, <2>8 DEF AtTransfer, Waiting, Transfer
  <2>10. AtJob'
    BY <2>6, <2>9 DEF AtJob
  <2>11. QED
    BY <2>3, <2>10 DEF IInv, Place
<1>9. ASSUME NEW x \in Vars, NEW y \in Vars, NEW how \in {"copy", "move"}, AssignVariant(x, y, how)
      PROVE  IInv'
  <2> SUFFICES ASSUME NEW r, r = Request("assign", x, y, Raw, how) PROVE IInv'
    OBVIOUS
  <2>1. r \in Requests /\ r.op = "assign" /\ r.x = x /\ r.y = y /\ r.how = how
    BY <1>9, RequestType
  <2>2. /\ Call(r, Noexcept({Assigns(how), Constructs(how)}), <<Assign(x, y, how)>>)
        /\ {x, y} \subseteq alive /\ Noexcept({Assigns(how), Constructs(how)}) \in BOOLEAN
    BY <1>9 DEF AssignVariant, Noexcept
  <2>3. /\ TypeOK' /\ ~threw' /\ Seen(Origin)' /\ called' = r /\ UNCHANGED alive
        /\ todo' = <<Assign(x, y, how)>>
    BY <2>1, <2>2, Started
  <2>4. AtAssign'
    BY <2>1, <2>2, <2>3 DEF AtAssign
  <2>5. QED
    BY <2>3, <2>4 DEF IInv, Place
<1>10. QED
  BY <1>2, <1>3, <1>4, <1>5, <1>6, <1>7, <1>8, <1>9, ObjectType DEF Client

-----------------------------------------------------------------------------
LEMMA InitInv == Init => IInv
<1> SUFFICES ASSUME Init PROVE IInv
  OBVIOUS
<1>1. PICK x \in Vars : called = Request("destroy", x, x, Raw, "new")
  BY DEF Init
<1>2. called \in Requests /\ called.op = "destroy" /\ called.x = x
  BY <1>1, RequestType
<1>3. TypeOK
  BY <1>2 DEF Init, TypeOK
<1>4. Contents = [z \in Vars |-> Absent] /\ before = [z \in Vars |-> Absent]
  BY DEF Init, Contents
<1>5. Asked!Success = [before EXCEPT ![x] = Absent]
  BY <1>2, Successes
<1>6. Contents = Asked!Success
  BY <1>4, <1>5
<1>7. SoundOff({}) /\ tmp \notin alive /\ todo = <<>> /\ ~threw
  BY DEF Init, SoundOff, Sound
<1>8. QED
  BY <1>3, <1>6, <1>7 DEF IInv, Place, Idle

LEMMA StutterInv == IInv /\ UNCHANGED vars => IInv'
<1> SUFFICES ASSUME IInv, UNCHANGED vars PROVE IInv'
  OBVIOUS
<1>1. /\ UNCHANGED <<nothrow, called, before>> /\ UNCHANGED <<alive, storage, index, guard>>
      /\ UNCHANGED <<todo, strict, threw, terminated>>
  BY DEF vars
<1>2. TypeOK'
  BY <1>1 DEF IInv, TypeOK
<1>3. /\ \A S : SoundOff(S)' = SoundOff(S) /\ Contents' = Contents
      /\ \A x : valid(x)' = valid(x) /\ Agrees(x)' = Agrees(x) /\ Inside(x)' = Inside(x)
                /\ Sound(x)' = Sound(x)
      /\ \A E : Seen(E)' = Seen(E) /\ \A x : SeenOff(x, E)' = SeenOff(x, E)
  BY <1>1, Still DEF Agrees, valid, Inside, Sound
<1>4. /\ Asked!Success' = Asked!Success /\ Asked!Failures' = Asked!Failures
      /\ Origin' = Origin /\ Differ' = Differ /\ Jobs' = Jobs
      /\ Committing' = Committing /\ Replacing' = Replacing /\ Restoring' = Restoring
      /\ Replaces' = Replaces /\ Preserving' = Preserving
      /\ \A c : After(c)' = After(c)
      /\ \A o : Kind(o)' = Kind(o)
  BY <1>1, Settled
<1>5. AtJob' = AtJob
  <2>1. ASSUME NEW c
        PROVE  /\ AtClear(c)' = AtClear(c) /\ AtTransfer(c)' = AtTransfer(c)
               /\ AtGuard(c)' = AtGuard(c) /\ AtBuild(c)' = AtBuild(c)
               /\ AtUnguard(c)' = AtUnguard(c) /\ AtBornTemporary(c)' = AtBornTemporary(c)
    <3>1. Waiting(c)' = Waiting(c) /\ Filled(c)' = Filled(c)
      BY <1>1, <1>3, <1>4 DEF Waiting, Filled
    <3>2. AtClear(c)' = AtClear(c) /\ AtTransfer(c)' = AtTransfer(c) /\ AtGuard(c)' = AtGuard(c)
      BY <1>1, <1>3, <3>1 DEF AtClear, AtTransfer, AtGuard, Clear, Transfer, Guard, Build, Unguard
    <3>3. /\ AtBuild(c)' = AtBuild(c) /\ AtUnguard(c)' = AtUnguard(c)
          /\ AtBornTemporary(c)' = AtBornTemporary(c)
      BY <1>1, <1>4, <3>1 DEF AtBuild, AtUnguard, AtBornTemporary, Build, Unguard
    <3>4. QED
      BY <3>2, <3>3
  <2>2. QED
    BY <1>4, <2>1 DEF AtJob
<1>6. /\ Idle' = Idle /\ AtSetIndex' = AtSetIndex /\ AtInPlace' = AtInPlace /\ AtBorn' = AtBorn
      /\ AtDestroy' = AtDestroy /\ AtDrop' = AtDrop /\ AtCopyArgument' = AtCopyArgument
  BY <1>1, <1>3, <1>4 DEF Idle, AtSetIndex, AtInPlace, AtBorn, AtDestroy, AtDrop, AtCopyArgument,
     Seen, SoundOff, Sound
<1>7. ASSUME NEW h
      PROVE  /\ Emplaces(h)' = Emplaces(h) /\ AtEmplace(h)' = AtEmplace(h)
             /\ AtEmplaceClear(h)' = AtEmplaceClear(h) /\ AtEmplaceMake(h)' = AtEmplaceMake(h)
  BY <1>1, <1>3, <1>4 DEF Emplaces, AtEmplace, AtEmplaceClear, AtEmplaceMake
<1>8. /\ AtEmplaced' = AtEmplaced /\ AtAssignAlt' = AtAssignAlt /\ AtAssignFrom' = AtAssignFrom
      /\ AtAssign' = AtAssign /\ AtExchange' = AtExchange /\ AtSwapAlts' = AtSwapAlts
      /\ AtVisit' = AtVisit
  BY <1>1, <1>3, <1>4, <1>7
     DEF AtEmplaced, AtAssignAlt, AtAssignFrom, AtAssign, AtExchange, AtSwapAlts, AtVisit
<1>9. AtUnwinding' = AtUnwinding
  BY <1>1, <1>3, <1>4 DEF AtUnwinding, Unwinding, Guarded, Left, Drop, Unguard
<1>10. Place' = Place
  BY <1>1, <1>5, <1>6, <1>7, <1>8, <1>9 DEF Place
<1>11. QED
  BY <1>2, <1>10 DEF IInv

LEMMA NextInv == IInv /\ [Next]_vars => IInv'
  BY StutterInv, ClientInv, SetIndexInv, GuardInv, ClearInv, MakeInv, BuildInv, UnguardInv,
     BornInv, DropInv, TransferInv, AssignInv, AssignAltInv, AssignFromInv, CopyArgumentInv,
     ExchangeInv, SwapAltsInv, VisitInv
  DEF Next, Running, Terminated

(* Every call is, at every step, where IInv says it may be: the invariant  *)
(* that the theorems below follow from.                                    *)
THEOREM Invariance == Spec => []IInv
<1>1. QED
  BY InitInv, NextInv, PTL DEF Spec

-----------------------------------------------------------------------------
(* Every variable of a variant and of the call in progress has its type.   *)
THEOREM Typed == Spec => []TypeOK
<1>1. IInv => TypeOK
  BY DEF IInv
<1>2. QED
  BY <1>1, Invariance, PTL

(* Whatever the constructors and assignments of the alternatives throw,    *)
(* between calls index_ tells what the storage holds, and no guard, no     *)
(* temporary and no object outside of a variant is left.                   *)
THEOREM Agreement == Spec => []IndexAgrees
<1>1. IInv => IndexAgrees
  BY Rest DEF IndexAgrees, SoundOff, Sound, Agrees
<1>2. QED
  BY <1>1, Invariance, PTL

-----------------------------------------------------------------------------
LEMMA ClearNests ==
  ASSUME IInv, Doing("clear"), valid(step.to)
  PROVE  Agrees(step.to)
<1>1. TypeOK
  BY DEF IInv
<1>2. ASSUME NEW c \in Jobs, AtClear(c) PROVE Agrees(step.to)
  <2>1. step.to = c.to /\ c.to \in Slots /\ c.to \in alive /\ SoundOff({})
    <3>1. step = Clear(c.to)
      BY <1>1, <1>2, JobSteps
    <3>2. QED
      BY <1>1, <1>2, <3>1, JobType DEF Clear, AtClear, Seen
  <2>2. QED
    BY <2>1 DEF SoundOff, Sound
<1>3. ASSUME NEW h \in {"new", "move"}, AtEmplaceClear(h) PROVE Agrees(step.to)
  <2>1. step = Clear(called.x)
    BY <1>3, OtherSteps
  <2>2. step.to = called.x
    BY <2>1 DEF Clear
  <2>3. QED
    BY <1>3, <2>2 DEF AtEmplaceClear
<1>4. QED
  BY <1>2, <1>3, Whereabouts

LEMMA DropNests ==
  ASSUME IInv, Doing("drop"), valid(step.to)
  PROVE  Agrees(step.to)
<1>1. TypeOK /\ called.x \in Slots /\ tmp \in Slots
  BY CallType DEF IInv
<1>2. CASE ~threw /\ AtDestroy
  <2>1. step = Drop(called.x) /\ called.x \in alive /\ SoundOff({})
    BY <1>2, OtherSteps DEF AtDestroy, Seen
  <2>2. step.to = called.x
    BY <2>1 DEF Drop
  <2>3. QED
    BY <1>1, <2>1, <2>2 DEF SoundOff, Sound
<1>3. CASE ~threw /\ AtDrop
  <2>1. step = Drop(tmp) /\ tmp \in alive /\ SoundOff({})
    BY <1>3, OtherSteps DEF AtDrop
  <2>2. step.to = tmp
    BY <2>1 DEF Drop
  <2>3. QED
    BY <1>1, <2>1, <2>2 DEF SoundOff, Sound
<1>4. CASE threw /\ AtUnwinding
  <2>1. Guarded = {} /\ tmp \in alive /\ step = Drop(tmp)
    <3>1. \A x : step = Unguard(x) => step.do # "drop"
      BY DEF Unguard
    <3>2. QED
      BY <1>1, <1>4, <3>1, UnwindingSteps DEF Doing
  <2>2. step.to = tmp /\ Sound(tmp)
    BY <1>1, <1>4, <2>1 DEF Drop, AtUnwinding, Guarded
  <2>3. QED
    BY <2>1, <2>2 DEF Sound
<1>5. QED
  BY <1>2, <1>3, <1>4, Whereabouts

LEMMA MakeNests ==
  ASSUME IInv, Doing("make")
  PROVE  storage[step.to] = Raw
<1>1. TypeOK /\ called.x \in Slots
  BY CallType DEF IInv
<1>2. CASE AtInPlace
  <2>1. step = Make(called.x, called.o, "new") /\ called.x \notin alive /\ SoundOff({})
    BY <1>2, OtherSteps DEF AtInPlace, Seen
  <2>2. step.to = called.x
    BY <2>1 DEF Make
  <2>3. QED
    BY <1>1, <2>1, <2>2 DEF SoundOff, Sound
<1>3. ASSUME NEW h \in {"new", "move"}, AtEmplaceMake(h) PROVE storage[step.to] = Raw
  <2>1. step = Make(called.x, called.o, h)
    BY <1>3, OtherSteps
  <2>2. step.to = called.x
    BY <2>1 DEF Make
  <2>3. QED
    BY <1>3, <2>2 DEF AtEmplaceMake
<1>4. QED
  BY <1>2, <1>3, Whereabouts

LEMMA BuildNests ==
  ASSUME IInv, Doing("build")
  PROVE  storage[step.to] = Raw /\ Agrees(step.from)
<1>1. TypeOK
  BY DEF IInv
<1>2. PICK c \in Jobs : AtBuild(c)
  BY Whereabouts
<1>3. step.to = c.to /\ step.from = c.from
  <2>1. step = Build(c.to, c.from, c.how)
    BY <1>1, <1>2, JobSteps
  <2>2. QED
    BY <2>1 DEF Build
<1>4. /\ SeenOff(c.to, c.seen) /\ storage[c.to] = Raw /\ c.seen[c.from] \in Objects
      /\ c.from \in Slots \ {c.to}
  BY <1>1, <1>2, JobType DEF AtBuild, Waiting
<1>5. View[c.from] \in Objects /\ Sound(c.from)
  BY <1>4 DEF SeenOff, SoundOff
<1>6. c.from \in alive
  BY <1>4, <1>5, Viewed, Objectively
<1>7. valid(c.from)
  BY <1>1, <1>5, <1>6, Sounded
<1>8. QED
  BY <1>3, <1>4, <1>5, <1>6, <1>7 DEF Sound

LEMMA AssignAltNests ==
  ASSUME IInv, Doing("assign_alt")
  PROVE  Agrees(step.to)
<1>1. TypeOK /\ AtAssignAlt /\ called.x \in Slots
  BY Whereabouts, CallType DEF IInv
<1>2. step = AssignAlt(called.x, called.o.val, called.how)
  BY <1>1, OtherSteps
<1>3. step.to = called.x
  BY <1>2 DEF AssignAlt
<1>4. called.x \in alive /\ valid(called.x) /\ Sound(called.x)
  BY <1>1, Objectively DEF AtAssignAlt, Seen, SoundOff, valid
<1>5. QED
  BY <1>3, <1>4 DEF Sound

LEMMA PairNests ==
  ASSUME IInv, Doing("assign_from") \/ Doing("swap_alts")
  PROVE  Agrees(step.to) /\ Agrees(step.from)
<1>1. TypeOK /\ called.x \in Vars /\ called.y \in Vars
  BY CallType DEF IInv
<1>2. /\ {called.x, called.y} \subseteq alive /\ valid(called.x)
      /\ index[called.x] = index[called.y] /\ Seen(Origin)
      /\ step.to = called.x /\ step.from = called.y
  <2>1. CASE Doing("assign_from")
    <3>1. AtAssignFrom
      BY <2>1, Whereabouts
    <3>2. step = AssignFrom(called.x, called.y, called.how)
      BY <3>1, OtherSteps
    <3>3. QED
      BY <3>1, <3>2 DEF AtAssignFrom, AssignFrom
  <2>2. CASE Doing("swap_alts")
    <3>1. AtSwapAlts
      BY <2>2, Whereabouts
    <3>2. step = SwapAlts(called.x, called.y)
      BY <3>1, OtherSteps
    <3>3. QED
      BY <3>1, <3>2 DEF AtSwapAlts, SwapAlts
  <2>3. QED
    BY <2>1, <2>2
<1>3. /\ Sound(called.x) /\ Sound(called.y) /\ valid(called.y)
  BY <1>1, <1>2, Pair
<1>4. QED
  BY <1>2, <1>3 DEF Sound

(* In the midst of a call, too, clear_() and the destructor destroy an     *)
(* object as what it is, the constructors find storage that holds none,    *)
(* and assignments and swaps find the objects they are made for.           *)
THEOREM Lifetimes == Spec => []LifetimesNest
<1>1. IInv => LifetimesNest
  <2> SUFFICES ASSUME IInv, todo # <<>> PROVE LifetimesNest
    BY DEF LifetimesNest
  <2>1. \A s : step.do = s => Doing(s)
    BY DEF Doing
  <2>2. step.do \in {"clear", "drop"} /\ valid(step.to) => Agrees(step.to)
    BY <2>1, ClearNests, DropNests
  <2>3. step.do \in {"make", "build"} => storage[step.to] = Raw
    BY <2>1, MakeNests, BuildNests
  <2>4. step.do \in {"build", "assign_from", "swap_alts"} => Agrees(step.from)
    BY <2>1, BuildNests, PairNests
  <2>5. step.do \in {"assign_alt", "assign_from", "swap_alts"} => Agrees(step.to)
    BY <2>1, AssignAltNests, PairNests
  <2>6. QED
    BY <2>2, <2>3, <2>4, <2>5 DEF LifetimesNest, Agrees
<1>2. QED
  BY <1>1, Invariance, PTL

-----------------------------------------------------------------------------
(* What the noexcept clauses of a function ask about, if it has any.       *)
Promised(r) ==
  CASE r.op = "construct" -> {Constructs(r.how)}
    [] r.op = "assign_value" -> {"move_construct", Constructs(r.how), Assigns(r.how)}
    [] r.op = "assign" -> {Assigns(r.how), Constructs(r.how)}
    [] r.op = "swap" -> Moves
    [] r.op = "destroy" -> {}
Vouched(r) ==
  r.op \in {"construct", "assign_value", "assign", "swap", "destroy"} /\ Noexcept(Promised(r))

(* An object is given to the operations that are called with one, and a    *)
(* function is noexcept only if its clause is true.                        *)
Given == called.op \in {"in_place", "emplace", "assign_value"} => called.o \in Objects
CallInv == Given /\ (strict => Vouched(called))

LEMMA Calls ==
  ASSUME NEW r \in Requests, NEW n, NEW s, Call(r, n, s), s # <<>>,
         r.op \in {"in_place", "emplace", "assign_value"} => r.o \in Objects,
         n => Vouched(r)
  PROVE  /\ todo = <<>> /\ todo' # <<>> /\ before' = Contents /\ UNCHANGED <<nothrow, terminated>>
         /\ ~terminated /\ called' \in Requests /\ CallInv'
<1>1. /\ todo = <<>> /\ ~terminated /\ todo' = s /\ before' = Contents /\ UNCHANGED <<nothrow, terminated>>
      /\ called' = r /\ strict' = n
  BY DEF Call
<1>2. Vouched(r)' = Vouched(r)
  BY <1>1 DEF Vouched, Noexcept, Promised, Constructs, Assigns
<1>3. QED
  BY <1>1, <1>2 DEF CallInv, Given

(* A client's call is a request, and asks for something.                   *)
LEMMA ClientCalls ==
  Client => /\ todo = <<>> /\ todo' # <<>> /\ before' = Contents /\ UNCHANGED <<nothrow, terminated>>
            /\ ~terminated /\ called' \in Requests /\ CallInv'
<1> DEFINE Called == /\ todo = <<>> /\ todo' # <<>> /\ before' = Contents
                     /\ UNCHANGED <<nothrow, terminated>> /\ ~terminated /\ called' \in Requests /\ CallInv'
<1> SUFFICES ASSUME Client PROVE Called
  OBVIOUS
<1> HIDE DEF Called
<1>1. ASSUME NEW r \in Requests, NEW n, NEW s, Call(r, n, s), s # <<>>,
             r.op \in {"in_place", "emplace", "assign_value"} => r.o \in Objects,
             n => Vouched(r)
      PROVE  Called
  BY <1>1, Calls DEF Called
<1>2. /\ \A p, q : <<p, q>> # <<>>
      /\ \A p : <<p>> # <<>>
      /\ \A p, q, u : <<p, q, u>> # <<>>
      /\ \A p, q, u, v : <<p, q, u, v>> # <<>>
      /\ \A p, q, u, v, w : <<p, q, u, v, w>> # <<>>
  OBVIOUS
<1>3. ASSUME NEW x \in Vars, Destroy(x) PROVE Called
  <2> SUFFICES ASSUME NEW r, r = Request("destroy", x, x, Raw, "new") PROVE Called
    OBVIOUS
  <2>1. r \in Requests /\ r.op = "destroy"
    BY RequestType
  <2>2. Vouched(r)
    BY <2>1 DEF Vouched, Promised, Noexcept
  <2>3. Call(r, TRUE, <<Drop(x)>>)
    BY <1>3 DEF Destroy
  <2>4. QED
    BY <1>1, <1>2, <2>1, <2>2, <2>3
<1>4. ASSUME NEW x \in Vars, NEW o \in Objects, InPlace(x, o) PROVE Called
  <2> SUFFICES ASSUME NEW r, r = Request("in_place", x, x, o, "new") PROVE Called
    OBVIOUS
  <2>1. r \in Requests /\ r.o \in Objects
    BY RequestType
  <2>2. Call(r, FALSE, <<SetIndex(x, o.alt), Make(x, o, "new"), Born(x)>>)
    BY <1>4 DEF InPlace
  <2>3. QED
    BY <1>1, <1>2, <2>1, <2>2
<1>5. ASSUME NEW x \in Vars, NEW o \in Objects, Emplace(x, o) PROVE Called
  <2> SUFFICES ASSUME NEW r, r = Request("emplace", x, x, o, "new") PROVE Called
    OBVIOUS
  <2>1. r \in Requests /\ r.o \in Objects
    BY RequestType
  <2>2. Call(r, FALSE, <<Guard(x), Clear(x), Make(x, o, "new"), Unguard(x)>>)
    BY <1>5 DEF Emplace, emplace
  <2>3. QED
    BY <1>1, <1>2, <2>1, <2>2
<1>6. ASSUME NEW x \in Vars, NEW o \in Objects, NEW how \in {"copy", "move"}, AssignValue(x, o, how)
      PROVE  Called
  <2> SUFFICES ASSUME NEW r, r = Request("assign_value", x, x, o, how) PROVE Called
    OBVIOUS
  <2>1. r \in Requests /\ r.op = "assign_value" /\ r.how = how /\ r.o \in Objects
    BY <1>6, RequestType
  <2>2. AssignValueNoexcept(how) => Vouched(r)
    BY <2>1 DEF AssignValueNoexcept, Vouched, Promised
  <2>3. PICK s : s # <<>> /\ Call(r, AssignValueNoexcept(how), s)
    <3>1. CASE Call(r, AssignValueNoexcept(how), <<AssignAlt(x, o.val, how)>>)
      BY <1>2, <3>1
    <3>2. CASE Call(r, AssignValueNoexcept(how),
                    <<Guard(x), Clear(x), Make(x, o, "move"), Unguard(x)>>)
      BY <1>2, <3>2
    <3>3. CASE Call(r, AssignValueNoexcept(how),
                    <<CopyArgument>> \o <<Guard(x), Clear(x), Make(x, o, "move"), Unguard(x)>>)
      <4>1. <<CopyArgument>> \o <<Guard(x), Clear(x), Make(x, o, "move"), Unguard(x)>>
              = <<CopyArgument, Guard(x), Clear(x), Make(x, o, "move"), Unguard(x)>>
        BY Quintuples
      <4>2. <<CopyArgument, Guard(x), Clear(x), Make(x, o, "move"), Unguard(x)>> # <<>>
        BY <1>2
      <4>3. QED
        BY <3>3, <4>1, <4>2
    <3>4. QED
      BY <1>6, <3>1, <3>2, <3>3 DEF AssignValue, emplace
  <2>4. QED
    BY <1>1, <2>1, <2>2, <2>3
<1>7. ASSUME NEW x \in Vars, NEW y \in Vars, Swap(x, y) PROVE Called
  <2> SUFFICES ASSUME NEW r, r = Request("swap", x, y, Raw, "move") PROVE Called
    OBVIOUS
  <2>1. r \in Requests /\ r.op = "swap"
    BY RequestType
  <2>2. Call(r, Noexcept(Moves), <<Exchange(x, y)>>)
    BY <1>7 DEF Swap
  <2>3. Noexcept(Moves) => Vouched(r)
    BY <2>1 DEF Vouched, Promised
  <2>4. QED
    BY <1>1, <1>2, <2>1, <2>2, <2>3
<1>8. ASSUME NEW x \in Vars, NEW y \in Vars, Compare(x, y) PROVE Called
  <2> SUFFICES ASSUME NEW r, r = Request("compare", x, y, Raw, "new") PROVE Called
    OBVIOUS
  <2>1. r \in Requests /\ r.op = "compare"
    BY RequestType
  <2>2. Call(r, FALSE, <<Visit(y)>>)
    BY <1>8 DEF Compare
  <2>3. QED
    BY <1>1, <1>2, <2>1, <2>2
<1>9. ASSUME NEW x \in Vars, NEW y \in Vars, NEW how \in {"copy", "move"}, Construct(x, y, how)
      PROVE  Called
  <2> SUFFICES ASSUME NEW r, r = Request("construct", x, y, Raw, how) PROVE Called
    OBVIOUS
  <2>1. r \in Requests /\ r.op = "construct" /\ r.how = how
    BY <1>9, RequestType
  <2>2. Call(r, Noexcept({Constructs(how)}), <<Transfer(x, y, how), Born(x)>>)
    BY <1>9 DEF Construct
  <2>3. Noexcept({Constructs(how)}) => Vouched(r)
    BY <2>1 DEF Vouched, Promised
  <2>4. QED
    BY <1>1, <1>2, <2>1, <2>2, <2>3
<1>10. ASSUME NEW x \in Vars, NEW y \in Vars, NEW how \in {"copy", "move"}, AssignVariant(x, y, how)
       PROVE  Called
  <2> SUFFICES ASSUME NEW r, r = Request("assign", x, y, Raw, how) PROVE Called
    OBVIOUS
  <2>1. r \in Requests /\ r.op = "assign" /\ r.how = how
    BY <1>10, RequestType
  <2>2. Call(r, Noexcept({Assigns(how), Constructs(how)}), <<Assign(x, y, how)>>)
    BY <1>10 DEF AssignVariant
  <2>3. Noexcept({Assigns(how), Constructs(how)}) => Vouched(r)
    BY <2>1 DEF Vouched, Promised
  <2>4. QED
    BY <1>1, <1>2, <2>1, <2>2, <2>3
<1>11. QED
  BY <1>3, <1>4, <1>5, <1>6, <1>7, <1>8, <1>9, <1>10, ObjectType DEF Client

(* The steps of a call change nothing of what was called, and some throw.  *)
MayThrow == {"make", "build", "assign_alt", "assign_from", "copy_argument", "swap_alts"}

LEMMA Runs ==
  Running => /\ todo # <<>> /\ UNCHANGED <<nothrow, strict, called, before>>
             /\ UNCHANGED terminated \/ (Throw /\ \E s \in MayThrow : Doing(s))
<1>1. (\E s : Continue(s)) => UNCHANGED <<nothrow, strict, called, before, terminated>>
  BY Going
<1>2. Throw => UNCHANGED <<nothrow, strict, called, before>>
  BY DEF Throw
<1>3. Running => todo # <<>> /\ ((\E s : Continue(s)) \/ (Throw /\ \E s \in MayThrow : Doing(s)))
  BY DEF Running, Doing, DoSetIndex, DoGuard, DoClear, DoMake, DoBuild, DoUnguard, DoBorn, DoDrop,
         DoTransfer, DoAssign, DoAssignAlt, DoAssignFrom, DoCopyArgument, DoExchange, DoSwapAlts,
         DoVisit, MayThrow
<1>4. QED
  BY <1>1, <1>2, <1>3

LEMMA NextCall == CallInv /\ [Next]_vars => CallInv'
<1>1. ASSUME UNCHANGED <<nothrow, strict, called>>, CallInv PROVE CallInv'
  BY <1>1 DEF CallInv, Given, Vouched, Noexcept, Promised, Constructs, Assigns
<1>2. QED
  BY <1>1, ClientCalls, Runs DEF Next, Terminated, vars

LEMMA CallInvariant == Spec => []CallInv
<1>1. Init => CallInv
  BY DEF Init, CallInv, Given, Request
<1>2. QED
  BY <1>1, NextCall, PTL DEF Spec

-----------------------------------------------------------------------------
(* When a call has come back.                                              *)
LEMMA Back ==
  ASSUME IInv, todo = <<>>
  PROVE  /\ ~threw => Contents = Asked!Success
         /\ threw => /\ Contents \in Asked!Failures
                     /\ Preserving => \A z \in Vars : Contents[z] # Invalid
<1>1. TypeOK
  BY DEF IInv
<1>2. CASE threw
  <2>1. AtUnwinding
    BY <1>2 DEF IInv, Place
  <2>2. Left = Contents
    <3>1. \A z \in Vars : guard[z] = NoGuard
      BY Rest DEF SoundOff, Sound, Slots
    <3>2. QED
      BY <3>1 DEF Left, Contents, Inside
  <2>3. QED
    BY <1>2, <2>1, <2>2 DEF AtUnwinding
<1>3. CASE ~threw
  <2>1. ~AtJob
    BY <1>1, JobSteps DEF AtJob
  <2>2. Idle
    BY <1>3, <2>1, OtherSteps DEF IInv, Place
  <2>3. QED
    BY <1>3, <2>2 DEF Idle
<1>4. QED
  BY <1>2, <1>3

LEMMA Keeps ==
  ASSUME IInv, CallInv, todo = <<>>, called.op \in {"assign", "assign_value", "swap"},
         Noexcept({"move_construct"}), \A z \in Vars : before[z] # Invalid, NEW z \in Vars
  PROVE  Contents[z] # Invalid
<1>1. TypeOK
  BY DEF IInv
<1>2. CASE threw
  BY <1>2, Back DEF Preserving
<1>3. CASE ~threw
  <2>1. /\ called.x \in Vars /\ called.y \in Vars /\ before \in [Vars -> Objects \cup {Absent, Invalid}]
    BY <1>1, CallType DEF TypeOK
  <2>2. MovedOf(before[called.y]) # Invalid
    BY <2>1, Objectively DEF MovedOf
  <2>3. CASE called.op = "assign_value"
    <3>1. Contents = [before EXCEPT ![called.x] = called.o]
      BY <1>3, <2>3, Back, Successes DEF Put
    <3>2. called.o # Invalid
      BY <2>3, Objectively DEF CallInv, Given
    <3>3. QED
      BY <2>1, <3>1, <3>2
  <2>4. CASE called.op = "assign"
    <3>1. Contents = [before EXCEPT ![called.x] = before[called.y],
                                    ![called.y] = IF called.how = "move"
                                                  THEN MovedOf(before[called.y])
                                                  ELSE before[called.y]]
      BY <1>3, <2>4, Back, Successes DEF Taken
    <3>2. QED
      BY <2>1, <2>2, <3>1
  <2>5. CASE called.op = "swap"
    <3>1. Contents = [before EXCEPT ![called.x] = before[called.y],
                                    ![called.y] = before[called.x]]
      BY <1>3, <2>5, Back, Successes DEF Exchanged
    <3>2. QED
      BY <2>1, <3>1
  <2>6. QED
    BY <2>3, <2>4, <2>5
<1>4. QED
  BY <1>2, <1>3

(* If move construction does not throw, assignment and swap never leave a  *)
(* variant without a value, whatever else throws: operator=(const T&) and  *)
(* copy_assign_from go through a temporary.  If no move and no swap throws *)
(* swap() always exchanges.                                                *)
THEOREM NothrowKeepsValid == Spec => []NothrowMoveKeepsValid
<1>1. ASSUME IInv, todo = <<>>, Noexcept(Moves), called.op = "swap"
      PROVE  Contents = Exchanged
  <2>1. Asked!Failures = {}
    BY <1>1 DEF Asked!Failures, Asked!SwapFailures
  <2>2. QED
    BY <1>1, <2>1, Back, Successes
<1>2. IInv /\ CallInv => NothrowMoveKeepsValid
  BY <1>1, Keeps DEF NothrowMoveKeepsValid, Exchanged
<1>3. QED
  BY <1>2, Invariance, CallInvariant, PTL

-----------------------------------------------------------------------------
(* The noexcept clause of operator=(const variant&) asks about copying     *)
(* only, but the function goes through a temporary that it moves from.     *)
LEMMA Unvouched ==
  ASSUME IInv, NEW s \in MayThrow, Doing(s), step.trait \notin nothrow
  PROVE  ~Vouched(called) \/ CopyAssignmentMoves(called)
<1>1. TypeOK /\ step.trait \notin nothrow /\ nothrow \in Templates
  BY DEF IInv, TypeOK
<1>2. CASE Doing("make")
  <2>1. CASE AtInPlace
    BY <2>1 DEF AtInPlace, Vouched
  <2>2. ASSUME NEW h \in {"new", "move"}, AtEmplaceMake(h) PROVE ~Vouched(called)
    <3>1. step = Make(called.x, called.o, h)
      BY <2>2, OtherSteps
    <3>2. step.trait = Constructs(h)
      BY <3>1 DEF Make
    <3>3. CASE called.op = "emplace"
      BY <3>3 DEF Vouched
    <3>4. CASE Replaces /\ h = "move"
      <4>1. "move_construct" \notin nothrow
        BY <1>1, <3>2, <3>4 DEF Constructs
      <4>2. QED
        BY <3>4, <4>1 DEF Replaces, Vouched, Promised, Noexcept
    <3>5. QED
      BY <2>2, <3>3, <3>4 DEF AtEmplaceMake, Emplaces
  <2>3. QED
    BY <1>2, <2>1, <2>2, Whereabouts
<1>3. CASE Doing("build")
  <2>1. PICK c \in Jobs : AtBuild(c)
    BY <1>3, Whereabouts
  <2>2. Constructs(c.how) \notin nothrow
    <3>1. step = Build(c.to, c.from, c.how)
      BY <1>1, <2>1, JobSteps
    <3>2. step.trait = Constructs(c.how)
      BY <3>1 DEF Build
    <3>3. QED
      BY <1>1, <3>2
  <2>3. \/ called.op = "construct" /\ c.how = called.how
        \/ called.op = "assign" /\ c.how = called.how
        \/ called.op = "assign" /\ called.how = "copy" /\ c.how = "move"
        \/ called.op = "swap" /\ c.how = "move"
    BY JobCases
  <2>4. CASE called.op = "construct" /\ c.how = called.how
    BY <2>2, <2>4 DEF Vouched, Promised, Noexcept
  <2>5. CASE called.op = "assign" /\ c.how = called.how
    BY <2>2, <2>5 DEF Vouched, Promised, Noexcept
  <2>6. CASE called.op = "assign" /\ called.how = "copy" /\ c.how = "move"
    <3>1. "move_construct" \notin nothrow
      BY <2>2, <2>6 DEF Constructs
    <3>2. Promised(called) = {"copy_assign", "copy_construct"}
      BY <2>6 DEF Promised, Assigns, Constructs
    <3>3. QED
      BY <2>6, <3>1, <3>2 DEF Vouched, Noexcept, CopyAssignmentMoves
  <2>7. CASE called.op = "swap" /\ c.how = "move"
    BY <2>2, <2>7 DEF Vouched, Promised, Noexcept, Constructs, Moves
  <2>8. QED
    BY <2>3, <2>4, <2>5, <2>6, <2>7
<1>4. CASE Doing("assign_alt")
  <2>1. AtAssignAlt
    BY <1>4, Whereabouts
  <2>2. step = AssignAlt(called.x, called.o.val, called.how)
    BY <2>1, OtherSteps
  <2>3. step.trait = Assigns(called.how)
    BY <2>2 DEF AssignAlt
  <2>4. QED
    BY <1>1, <2>1, <2>3 DEF AtAssignAlt, Vouched, Promised, Noexcept
<1>5. CASE Doing("assign_from")
  <2>1. AtAssignFrom
    BY <1>5, Whereabouts
  <2>2. step = AssignFrom(called.x, called.y, called.how)
    BY <2>1, OtherSteps
  <2>3. step.trait = Assigns(called.how)
    BY <2>2 DEF AssignFrom
  <2>4. QED
    BY <1>1, <2>1, <2>3 DEF AtAssignFrom, Vouched, Promised, Noexcept
<1>6. CASE Doing("copy_argument")
  <2>1. AtCopyArgument
    BY <1>6, Whereabouts
  <2>2. step = CopyArgument
    BY <2>1, OtherSteps
  <2>3. step.trait = Constructs("copy")
    BY <2>2 DEF CopyArgument, Constructs
  <2>4. called.op = "assign_value" /\ called.how = "copy"
    BY <2>1 DEF AtCopyArgument, Replaces
  <2>5. QED
    BY <1>1, <2>3, <2>4 DEF Vouched, Promised, Noexcept
<1>7. CASE Doing("swap_alts")
  <2>1. AtSwapAlts
    BY <1>7, Whereabouts
  <2>2. step = SwapAlts(called.x, called.y)
    BY <2>1, OtherSteps
  <2>3. step.trait = "swap"
    BY <2>2 DEF SwapAlts
  <2>4. QED
    BY <1>1, <2>1, <2>3 DEF AtSwapAlts, Vouched, Promised, Noexcept, Moves
<1>8. QED
  BY <1>2, <1>3, <1>4, <1>5, <1>6, <1>7 DEF MayThrow

(* An exception that ends the program has come from that one function, for *)
(* alternatives that can be copied without exceptions but not moved.       *)
LEMMA TerminatesOnly ==
  IInv /\ CallInv /\ OnlyOneClauseFails /\ [Next]_vars => OnlyOneClauseFails'
<1> SUFFICES ASSUME IInv, CallInv, OnlyOneClauseFails, [Next]_vars, terminated'
             PROVE  CopyAssignmentMoves(called)'
  BY DEF OnlyOneClauseFails
<1>1. CASE UNCHANGED <<nothrow, called, terminated>>
  BY <1>1 DEF OnlyOneClauseFails, CopyAssignmentMoves
<1>2. CASE Client
  <2>1. ~terminated'
    BY <1>2, ClientCalls
  <2>2. QED
    BY <2>1
<1>3. CASE Throw /\ \E s \in MayThrow : Doing(s)
  <2>1. ~Vouched(called) \/ CopyAssignmentMoves(called)
    BY <1>3, Unvouched DEF Throw
  <2>2. strict /\ UNCHANGED <<nothrow, called>>
    BY <1>3 DEF Throw
  <2>3. CopyAssignmentMoves(called)
    BY <2>1, <2>2 DEF CallInv
  <2>4. QED
    BY <2>2, <2>3 DEF CopyAssignmentMoves
<1>4. QED
  BY <1>1, <1>2, <1>3, Runs DEF Next, Terminated, vars

(* All noexcept clauses but one are true, whatever the alternatives        *)
(* promise: only the copy assignment can meet an exception under a clause  *)
(* that excludes it.                                                       *)
THEOREM OnlyOneFails == Spec => []OnlyOneClauseFails
<1>1. Init => OnlyOneClauseFails
  BY DEF Init, OnlyOneClauseFails
<1>2. QED
  BY <1>1, TerminatesOnly, Invariance, CallInvariant, PTL DEF Spec

(* That clause is true, too, of alternatives of which the promise not to   *)
(* throw when copied brings that of not throwing when moved with it.       *)
ClausesSuffice ==
  \A t \in Templates : {"copy_construct", "copy_assign"} \subseteq t => "move_construct" \in t

(* With such alternatives no exception ever meets a noexcept function of   *)
(* variant.                                                                *)
THEOREM Clauses ==
  ASSUME ClausesSuffice
  PROVE  Spec => []NoexceptHonoured
<1>1. IInv /\ OnlyOneClauseFails => NoexceptHonoured
  BY DEF ClausesSuffice, IInv, TypeOK, OnlyOneClauseFails, CopyAssignmentMoves,
         NoexceptHonoured
<1>2. QED
  BY <1>1, Invariance, OnlyOneFails, PTL

-----------------------------------------------------------------------------
(* Variants implement HolderContract.  What the contract sees of a state:  *)
status == IF todo # <<>> THEN "pending" ELSE IF threw THEN "threw" ELSE "returned"
content == IF todo = <<>> THEN Contents ELSE before
contract == <<MayMove, content, called, status>>

LEMMA InitImplements == Init => Contract!Init
<1> SUFFICES ASSUME Init PROVE Contract!Init
  OBVIOUS
<1>1. called \in Requests
  BY InitInv DEF IInv, TypeOK
<1>2. Contents = [x \in Vars |-> Absent] /\ todo = <<>> /\ ~threw
  BY DEF Init, Contents
<1>3. QED
  BY <1>1, <1>2 DEF Contract!Init, Noexcept

(* While a call is in progress the contract speaks of what there was.      *)
LEMMA SameContract ==
  ASSUME TypeOK, todo # <<>>
  PROVE  Contract!Success = Asked!Success /\ Contract!Failures = Asked!Failures
<1> DEFINE now == IF todo = <<>> THEN Contents ELSE before
<1>1. now = before
  OBVIOUS
<1>2. \A o : Contract!Moved(o) = Asked!Moved(o)
  BY DEF Contract!Moved, Asked!Moved
<1>3. \A o : Contract!MaybeMoved(o) = Asked!MaybeMoved(o)
  BY <1>2 DEF Contract!MaybeMoved, Asked!MaybeMoved
<1>4. \A o, p : Contract!SameAlternative(o, p) = Asked!SameAlternative(o, p)
  BY DEF Contract!SameAlternative, Asked!SameAlternative
<1>5. \A a, o, how : Contract!AssignFailures(a, o, how) = Asked!AssignFailures(a, o, how)
  BY <1>3, <1>4 DEF Contract!AssignFailures, Asked!AssignFailures
<1>6. \A a, b : Contract!SwapFailures(a, b) = Asked!SwapFailures(a, b)
  BY <1>2, <1>3, <1>4 DEF Contract!SwapFailures, Asked!SwapFailures
<1>7. Contract!Success = Asked!Success
  BY <1>1, <1>2 DEF Contract!Success, Asked!Success
<1>8. Contract!Failures = Asked!Failures
  <2> DEFINE source == IF called.how = "move" THEN Asked!MaybeMoved(before[called.y])
                       ELSE {before[called.y]}
  <2>0. source = IF called.how = "move" THEN Contract!MaybeMoved(now[called.y])
                 ELSE {now[called.y]}
    BY <1>1, <1>3
  <2> HIDE DEF source, now
  <2>1. CASE called.op \in {"in_place", "emplace", "destroy", "compare"}
    BY <1>1, <2>1 DEF Contract!Failures, Asked!Failures, now
  <2>2. CASE called.op = "construct"
    <3> DEFINE set == {c \in {[before EXCEPT ![called.y] = p] : p \in source} :
                         called.how = "copy" \/ ~Noexcept(Moves)}
    <3>1. Contract!Failures = set
      BY <1>1, <2>0, <2>2 DEF Contract!Failures, now
    <3>2. Asked!Failures = set
      BY <2>2 DEF Asked!Failures, source
    <3>3. QED
      BY <3>1, <3>2
  <2>3. CASE called.op = "assign_value"
    <3> DEFINE set == {[before EXCEPT ![called.x] = o] :
                         o \in Asked!AssignFailures(before[called.x], called.o, called.how)}
    <3>1. Contract!Failures = set
      BY <1>1, <1>5, <2>3 DEF Contract!Failures, now
    <3>2. Asked!Failures = set
      BY <2>3 DEF Asked!Failures
    <3>3. QED
      BY <3>1, <3>2
  <2>4. CASE called.op = "assign"
    <3> DEFINE set == {[before EXCEPT ![called.y] = p, ![called.x] = o] :
                         p \in source,
                         o \in Asked!AssignFailures(before[called.x], before[called.y], called.how)}
    <3>1. Contract!Failures = set
      BY <1>1, <1>5, <2>0, <2>4, SMTT(30) DEF Contract!Failures, now
    <3>2. Asked!Failures = set
      BY <2>4 DEF Asked!Failures, source
    <3>3. QED
      BY <3>1, <3>2
  <2>5. CASE called.op = "swap"
    <3> DEFINE set == {[before EXCEPT ![called.x] = c[1], ![called.y] = c[2]] :
                         c \in Asked!SwapFailures(before[called.x], before[called.y])}
    <3>1. Contract!Failures = set
      BY <1>1, <1>6, <2>5 DEF Contract!Failures, now
    <3>2. Asked!Failures = set
      BY <2>5 DEF Asked!Failures
    <3>3. QED
      BY <3>1, <3>2
  <2>6. called.op \in {"in_place", "construct", "destroy", "emplace", "assign_value",
                      "assign", "swap", "compare"}
    BY DEF TypeOK, Requests
  <2>7. QED
    BY <2>1, <2>2, <2>3, <2>4, <2>5, <2>6
<1>9. QED
  BY <1>7, <1>8

Answered ==
  todo = <<>> => IF threw THEN Contents \in Asked!Failures ELSE Contents = Asked!Success

LEMMA StepImplements ==
  ASSUME TypeOK, Answered', [Next]_vars
  PROVE  Contract!Next \/ UNCHANGED contract
<1>1. CASE Client
  <2>1. todo = <<>> /\ todo' # <<>> /\ before' = Contents /\ UNCHANGED nothrow /\ called' \in Requests
    BY <1>1, ClientCalls
  <2>2. UNCHANGED <<~Noexcept(Moves), content>>
    BY <2>1 DEF Noexcept, content
  <2>3. QED
    BY <2>1, <2>2 DEF Contract!Next, Contract!Ask, content
<1>2. CASE Running
  <2>1. todo # <<>> /\ UNCHANGED <<nothrow, called, before>>
    BY <1>2, Runs
  <2>2. UNCHANGED <<MayMove, ~Noexcept(Moves)>>
    BY <2>1 DEF MayMove, Noexcept
  <2>3. CASE todo' # <<>>
    BY <2>1, <2>2, <2>3 DEF contract, content, status
  <2>4. CASE todo' = <<>>
    <3>1. Asked!Success' = Asked!Success /\ Asked!Failures' = Asked!Failures
      BY <2>1, Settled
    <3>2. /\ ~threw' => Contents' = Asked!Success
          /\ threw' => Contents' \in Asked!Failures
      BY <2>4, <3>1 DEF Answered
    <3>3. Contract!Success = Asked!Success /\ Contract!Failures = Asked!Failures
      BY <2>1, SameContract
    <3>4. QED
      BY <2>1, <2>2, <2>4, <3>2, <3>3 DEF Contract!Next, Contract!Reply
  <2>5. QED
    BY <2>3, <2>4
<1>3. CASE UNCHANGED vars
  BY <1>3 DEF vars, contract, content, status, MayMove, Noexcept, Contents, valid
<1>4. QED
  BY <1>1, <1>2, <1>3 DEF Next, Terminated

(* After every operation, and every exception, clients find what the       *)
(* contract of HolderContract says.                                        *)
THEOREM Implementation == Spec => ValueSemantics
<1>1. TypeOK /\ Answered' /\ [Next]_vars =>
        [Contract!Next]_<<~Noexcept(Moves), IF todo = <<>> THEN Contents ELSE before, called,
                          IF todo # <<>> THEN "pending" ELSE IF threw THEN "threw" ELSE "returned">>
  BY StepImplements DEF contract, MayMove, content, status
<1>2. IInv => TypeOK /\ Answered
  BY Back DEF Answered, IInv
<1>3. QED
  BY <1>1, <1>2, InitImplements, Invariance, PTL DEF Spec, ValueSemantics, Contract!Spec
=============================================================================
