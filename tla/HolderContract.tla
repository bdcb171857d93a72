--------------------------- MODULE HolderContract ----------------------------
(***************************************************************************)
(* What a variant promises its clients, and an optional, which is like a   *)
(* variant of one alternative: what every operation leaves behind when it  *)
(* returns, and when a constructor, an assignment or a swap of the objects *)
(* inside throws.                                                          *)
(***************************************************************************)
CONSTANTS Vars, Objects, Requests, Absent, Invalid, Unspecified

VARIABLES
  MoveThrows,  \* whether moving or swapping the objects may throw; it is settled
  content,     \* content[x]: an object, Absent (no holder) or Invalid (empty)
  request,     \* the last operation asked for, with its arguments
  status       \* "pending", "returned" or "threw"

(* What an object is after its value has been, or may have been, moved.    *)
Moved(o)      == IF o \in Objects THEN [o EXCEPT !.val = Unspecified] ELSE o
MaybeMoved(o) == {o, Moved(o)}

SameAlternative(o, p) == {o, p} \subseteq Objects /\ o.alt = p.alt

(* What a normal return leaves of the operands.                            *)
Success ==
  LET x == request.x  y == request.y  op == request.op IN
  CASE op \in {"in_place", "emplace", "assign_value", "reset"} ->
         [content EXCEPT ![x] = request.o]
    [] op \in {"construct", "assign"} ->
         [content EXCEPT ![x] = content[y],
                         ![y] = IF request.how = "move" THEN Moved(content[y])
                                ELSE content[y]]
    [] op = "destroy" -> [content EXCEPT ![x] = Absent]
    [] op = "swap"    -> [content EXCEPT ![x] = content[y], ![y] = content[x]]
    [] op = "compare" -> content

(* What is left of a by an assignment from o that threw.  Between objects  *)
(* of one alternative it is theirs to say.  Otherwise a failed copy has    *)
(* changed nothing; a failed move has emptied the target.                  *)
AssignFailures(a, o, how) ==
  LET throws == how = "copy" \/ MoveThrows IN
  IF SameAlternative(a, o) THEN IF throws THEN MaybeMoved(a) ELSE {}
  ELSE IF o \notin Objects THEN {}
  ELSE (IF how = "copy" THEN {a} ELSE {})
       \cup (IF MoveThrows THEN {Invalid} ELSE {})

(* What a failed swap of a and b leaves: one of the values at most is lost. *)
SwapFailures(a, b) ==
  IF ~MoveThrows THEN {}
  ELSE IF SameAlternative(a, b) THEN {<<a, b>>, <<Moved(a), Moved(b)>>}
  ELSE {<<p, b>> : p \in MaybeMoved(a)}
       \cup {<<Invalid, p>> : p \in MaybeMoved(b)}
       \cup {<<b, Invalid>>}

(* What an exception leaves of the operands.                               *)
Failures ==
  LET x == request.x  y == request.y  op == request.op  how == request.how
      source == IF how = "move" THEN MaybeMoved(content[y]) ELSE {content[y]}
  IN CASE op = "in_place"  -> {content}
       [] op = "construct" ->
            {c \in {[content EXCEPT ![y] = p] : p \in source} :
               how = "copy" \/ MoveThrows}
       [] op = "emplace"   -> {[content EXCEPT ![x] = Invalid]}
       [] op = "assign_value" ->
            {[content EXCEPT ![x] = o] :
               o \in AssignFailures(content[x], request.o, how)}
       [] op = "assign"    ->
            {[content EXCEPT ![y] = p, ![x] = o] : p \in source,
               o \in AssignFailures(content[x], content[y], how)}
       [] op = "swap"      ->
            {[content EXCEPT ![x] = c[1], ![y] = c[2]] :
               c \in SwapFailures(content[x], content[y])}
       [] op \in {"destroy", "reset", "compare"} -> {}

Init ==
  /\ MoveThrows \in BOOLEAN
  /\ content = [x \in Vars |-> Absent]
  /\ request \in Requests
  /\ status = "returned"

Ask ==
  /\ status # "pending" /\ status' = "pending"
  /\ request' \in Requests
  /\ UNCHANGED <<MoveThrows, content>>

Reply ==
  /\ status = "pending"
  /\ \/ status' = "returned" /\ content' = Success
     \/ status' = "threw" /\ content' \in Failures
  /\ UNCHANGED <<MoveThrows, request>>

Next == Ask \/ Reply

Spec == Init /\ [][Next]_<<MoveThrows, content, request, status>>
=============================================================================
