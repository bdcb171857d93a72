---------------------- MODULE UninitializedMemory_proofs ----------------------
(***************************************************************************)
(* Proofs about UninitializedMemory, for an array of any size: the         *)
(* inductive invariant, the nesting of object lifetimes that follows from  *)
(* it, and the refinement of AllOrNothing.                                 *)
(***************************************************************************)
EXTENDS UninitializedMemory, TLAPS

(* Inv holds in every reachable state: inside a call exactly the cells     *)
(* that the loop has passed hold objects and the guard of destroy.hpp      *)
(* stands at the start of the block.                                       *)
THEOREM Invariance == Spec => []Inv
<1> USE NAssumption DEF Cells, Forms, Sourced, NoGuard
<1>1. Init => Inv
  BY DEF Init, Inv, TypeOK, LoopInv, DestroyInv, IdleInv, OutcomeInv
<1>2. Inv /\ [Next]_vars => Inv'
  <2> SUFFICES ASSUME Inv, [Next]_vars
               PROVE  Inv'
    OBVIOUS
  <2> USE DEF Inv, TypeOK, LoopInv, DestroyInv, IdleInv, OutcomeInv, call
  <2>1. CASE Construct
    BY <2>1 DEF Construct
  <2>2. CASE Advance
    BY <2>2 DEF Advance
  <2>3. CASE AdvanceThrows
    BY <2>3 DEF AdvanceThrows
  <2>4. CASE Throws
    BY <2>4 DEF Throws
  <2>5. CASE Return
    BY <2>5 DEF Return
  <2>6. CASE Unwind
    BY <2>6 DEF Unwind
  <2>7. CASE DestroyOne
    BY <2>7 DEF DestroyOne
  <2>8. CASE DestroyDone
    BY <2>8 DEF DestroyDone
  <2>9. ASSUME NEW l \in 0 .. N, NEW h \in 0 .. N, l <= h, CallDestroy(l, h)
        PROVE  Inv'
    BY <2>9 DEF CallDestroy
  <2>10. ASSUME NEW l \in 0 .. N, NEW h \in 0 .. N, l <= h,
                NEW f \in Forms, Call(f, l, h)
         PROVE  Inv'
    BY <2>10 DEF Call
  <2>11. CASE UNCHANGED vars
    BY <2>11 DEF vars
  <2>12. QED
    BY <2>1, <2>2, <2>3, <2>4, <2>5, <2>6, <2>7, <2>8, <2>9, <2>10, <2>11
       DEF Next, Running, Client
<1>3. QED
  BY <1>1, <1>2, PTL DEF Spec

(* A constructor never runs in a cell that holds an object and a           *)
(* destructor never in one that holds none, whatever has thrown before.    *)
THEOREM Lifetimes == Spec => []LifetimesNest
<1>1. Inv => LifetimesNest
  BY DEF Inv, TypeOK, LoopInv, DestroyInv, LifetimesNest
<1>2. QED
  BY <1>1, Invariance, PTL

(* An element whose value was moved away lives in the destination.         *)
THEOREM MovedValues == Spec => []MovedValuesAreHeld
<1> DEFINE MInv == \A i \in moved : 
                     pc \in {"loop", "advance"} /\ form = "move" =>
                       /\ i < taken \/ (pc = "advance" /\ i = taken)
<1>1. Init => MInv
  BY DEF Init
<1>2. Inv /\ MInv /\ [Next]_vars => MInv'
  <2> SUFFICES ASSUME Inv, MInv, [Next]_vars
               PROVE  MInv'
    OBVIOUS
  <2>1. CASE Construct
    BY <2>1 DEF Construct, Inv, TypeOK, call
  <2>2. CASE Advance
    BY <2>2, NAssumption DEF Advance, Inv, TypeOK, call, Cells
  <2>3. CASE AdvanceThrows \/ Throws \/ Return \/ Unwind
    BY <2>3 DEF AdvanceThrows, Throws, Return, Unwind, call
  <2>4. CASE DestroyOne \/ DestroyDone \/ \E l, h \in 0 .. N : CallDestroy(l, h)
    BY <2>4 DEF DestroyOne, DestroyDone, CallDestroy, call
  <2>5. ASSUME NEW l \in 0 .. N, NEW h \in 0 .. N, NEW f \in Forms, Call(f, l, h)
        PROVE  MInv'
    BY <2>5 DEF Call
  <2>6. CASE UNCHANGED vars
    BY <2>6 DEF vars
  <2>7. QED
    BY <2>1, <2>2, <2>3, <2>4, <2>5, <2>6 DEF Next, Running, Client
<1>3. Inv /\ MInv => MovedValuesAreHeld
  BY NAssumption DEF Inv, TypeOK, LoopInv, MovedValuesAreHeld, Cells
<1>4. QED
  BY <1>1, <1>2, <1>3, Invariance, PTL DEF Spec

(* Every step of the memory algorithms is a step of AllOrNothing or is     *)
(* invisible to it: a call that returns has created its whole block, one   *)
(* that throws shows nothing, whatever the loop and the guard did.         *)
THEOREM Refinement == Spec => AllOrNothing
<1> DEFINE aform    == IF form = "destroy" THEN form ELSE "create"
           aoutcome == IF pc = "idle" THEN outcome ELSE "pending"
           avars    == <<visible, aform, lo, hi, aoutcome>>
<1> USE NAssumption DEF Cells, visible
<1>1. Init => Abstract!Init
  BY DEF Init, Abstract!Init
<1>2. Inv /\ Inv' /\ [Next]_vars => Abstract!Next \/ UNCHANGED avars
  <2> SUFFICES ASSUME Inv, Inv', [Next]_vars
               PROVE  Abstract!Next \/ UNCHANGED avars
    OBVIOUS
  <2> USE DEF Inv, TypeOK, LoopInv, DestroyInv, OutcomeInv, IdleInv, call
  <2>1. CASE Construct \/ Advance \/ AdvanceThrows \/ Throws \/ Unwind \/ DestroyOne
    BY <2>1 DEF Construct, Advance, AdvanceThrows, Throws, Unwind, DestroyOne
  <2>2. CASE Return
    <3>1. visible' = visible \cup Abstract!Block(lo, hi)
      BY <2>2 DEF Return, Abstract!Block, Abstract!Cells
    <3>2. Abstract!Succeed
      BY <2>2, <3>1 DEF Return, Abstract!Succeed
    <3>3. QED
      BY <3>2 DEF Abstract!Next
  <2>3. CASE DestroyDone
    <3>1. visible' = visible
      BY <2>3 DEF DestroyDone
    <3>2. Abstract!Succeed \/ Abstract!Fail
      BY <2>3, <3>1 DEF DestroyDone, Abstract!Succeed, Abstract!Fail
    <3>3. QED
      BY <3>2 DEF Abstract!Next
  <2>4. ASSUME NEW l \in 0 .. N, NEW h \in 0 .. N, l <= h, CallDestroy(l, h)
        PROVE  Abstract!Next
    <3>1. visible' = visible \ Abstract!Block(l, h)
      BY <2>4 DEF CallDestroy, Abstract!Block, Abstract!Cells
    <3>2. Abstract!Block(l, h) \subseteq visible
      BY <2>4 DEF CallDestroy, Abstract!Block, Abstract!Cells
    <3>3. Abstract!Ask("destroy", l, h)
      BY <2>4, <3>1, <3>2 DEF CallDestroy, Abstract!Ask
    <3>4. QED
      BY <3>3, <2>4 DEF Abstract!Next
  <2>5. ASSUME NEW l \in 0 .. N, NEW h \in 0 .. N, l <= h,
               NEW f \in Forms, Call(f, l, h)
        PROVE  Abstract!Next
    <3>1. visible' = visible \ Abstract!Block(l, h)
      BY <2>5 DEF Call, Abstract!Block, Abstract!Cells
    <3>2. Abstract!Block(l, h) \cap visible = {}
      BY <2>5 DEF Call, Abstract!Block, Abstract!Cells
    <3>3. f # "destroy"
      BY DEF Forms
    <3>4. Abstract!Ask("create", l, h)
      BY <2>5, <3>1, <3>2, <3>3 DEF Call, Abstract!Ask
    <3>5. QED
      BY <3>4, <2>5 DEF Abstract!Next
  <2>6. CASE UNCHANGED vars
    BY <2>6 DEF vars
  <2>7. QED
    BY <2>1, <2>2, <2>3, <2>4, <2>5, <2>6 DEF Next, Running, Client
<1>3. QED
  BY <1>1, <1>2, Invariance, PTL DEF Spec, AllOrNothing, Abstract!Spec
=============================================================================
