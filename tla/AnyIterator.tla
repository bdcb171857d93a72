----------------------------- MODULE AnyIterator -----------------------------
(***************************************************************************)
(* stl2/detail/iterator/any_iterator.hpp: the type-erased input iterator.  *)
(* A cursor keeps a small iterator in its own storage and a big one in a   *)
(* node on the heap that it shares, with an atomic count, with its copies. *)
(* exec_ tells what the cursor holds; deref_ always changes with it and is *)
(* left out, as are the positions of the iterators.  What a thread does to *)
(* cursors that it has to itself is one step with what precedes it.        *)
(*                                                                         *)
(* Threads work on cursors of their own, whose nodes they share; a cursor  *)
(* of the owner Shared may be copied from by all and changed by none.      *)
(***************************************************************************)
EXTENDS Integers, FiniteSets

CONSTANTS
  Threads,
  Cursors,
  Nodes,       \* the addresses of heap nodes
  Shared,      \* the owner of cursors that all threads may read
  null

ASSUME AnyIteratorAssumption ==
  /\ Shared \notin Threads /\ null \notin Nodes \cup Cursors
  /\ IsFiniteSet(Cursors)

VARIABLES
  owner,       \* owner[c]: a thread or Shared
  alive,       \* the cursors within their lifetime
  exec_,       \* exec_[c]: "noop", "small" or "big"
  tiny,        \* tiny[c]: data_.tiny holds an iterator
  big,         \* big[c]: data_.big
  cnt,         \* cnt[n]: counted::cnt of the node at n
  allocated,   \* the addresses where a node lives
  pc           \* pc[t]: where thread t is, on which cursors, and how

vars == <<owner, alive, exec_, tiny, big, cnt, allocated, pc>>

At(step, to, from, how) == [at |-> step, to |-> to, from |-> from, how |-> how]
idle == At("idle", null, null, "none")

(* Thread t goes on at step s of the same operation.                       *)
Goto(t, s) == pc' = [pc EXCEPT ![t].at = s]
Return(t)  == pc' = [pc EXCEPT ![t] = idle]

Busy(c) == \E t \in Threads : c \in {pc[t].to, pc[t].from}

Mine(t, c)     == owner[c] = t
Readable(t, c) == c \in alive /\ owner[c] \in {t, Shared}

-----------------------------------------------------------------------------
Init ==
  /\ owner \in [Cursors -> Threads]
  /\ alive = {}
  /\ exec_ = [c \in Cursors |-> "noop"]
  /\ tiny = [c \in Cursors |-> FALSE]
  /\ big = [c \in Cursors |-> null]
  /\ cnt = [n \in Nodes |-> 0]
  /\ allocated = {}
  /\ pc = [t \in Threads |-> idle]

(* cursor(I) of a small iterator, and of a big one: a new node, counted    *)
(* once.  If either throws, no cursor comes to be.                         *)
MakeSmall(t, c) ==
  /\ pc[t] = idle /\ Mine(t, c) /\ c \notin alive
  /\ alive' = alive \cup {c}
  /\ tiny' = [tiny EXCEPT ![c] = TRUE]
  /\ exec_' = [exec_ EXCEPT ![c] = "small"]
  /\ UNCHANGED <<owner, big, cnt, allocated, pc>>

MakeBig(t, c) ==
  /\ pc[t] = idle /\ Mine(t, c) /\ c \notin alive
  /\ alive' = alive \cup {c}
  /\ \E n \in Nodes \ allocated :
       /\ allocated' = allocated \cup {n}
       /\ cnt' = [cnt EXCEPT ![n] = 1]
       /\ big' = [big EXCEPT ![c] = n]
  /\ exec_' = [exec_ EXCEPT ![c] = "big"]
  /\ UNCHANGED <<owner, tiny, pc>>

(* cursor(): empty.                                                        *)
MakeEmpty(t, c) ==
  /\ pc[t] = idle /\ Mine(t, c) /\ c \notin alive
  /\ alive' = alive \cup {c}
  /\ big' = [big EXCEPT ![c] = null]
  /\ exec_' = [exec_ EXCEPT ![c] = "noop"]
  /\ UNCHANGED <<owner, tiny, cnt, allocated, pc>>

(* cursor(cursor const&) and cursor(cursor&&): empty members, then         *)
(* copy_from or move_from.                                                 *)
Construct(t, c, d, how) ==
  /\ pc[t] = idle /\ Mine(t, c) /\ c \notin alive
  /\ Readable(t, d) /\ (how = "move" => Mine(t, d))
  /\ big' = [big EXCEPT ![c] = null]
  /\ exec_' = [exec_ EXCEPT ![c] = "noop"]
  /\ pc' = [pc EXCEPT ![t] = At("take", c, d, how)]
  /\ UNCHANGED <<owner, alive, tiny, cnt, allocated>>

(* operator=: nothing on itself, else reset() and copy_from or move_from.  *)
Assign(t, c, d, how) ==
  /\ pc[t] = idle /\ Mine(t, c) /\ c \in alive
  /\ Readable(t, d) /\ (how = "move" => Mine(t, d))
  /\ c # d
  /\ pc' = [pc EXCEPT ![t] = At("nuke", c, d, how)]
  /\ UNCHANGED <<owner, alive, exec_, tiny, big, cnt, allocated>>

(* ~cursor(): like reset(), but nothing follows.                           *)
Destroy(t, c) ==
  /\ pc[t] = idle /\ Mine(t, c) /\ c \in alive
  /\ pc' = [pc EXCEPT ![t] = At("nuke", c, c, "none")]
  /\ UNCHANGED <<owner, alive, exec_, tiny, big, cnt, allocated>>

(* The threads hand a cursor on, synchronizing by other means.             *)
Hand(c, o) ==
  /\ ~Busy(c) /\ o # owner[c]
  /\ owner' = [owner EXCEPT ![c] = o]
  /\ UNCHANGED <<alive, exec_, tiny, big, cnt, allocated, pc>>

-----------------------------------------------------------------------------
(* What follows exec_(op::nuke), by the thread that has the cursor to      *)
(* itself: the end of ~cursor(), with which the members of the cursor are  *)
(* gone, or of reset() within an assignment.                               *)
Uninit(t) ==
  LET c == pc[t].to IN
  /\ exec_' = [exec_ EXCEPT ![c] = "noop"]
  /\ \/ /\ pc[t].how = "none" /\ Return(t)
        /\ alive' = alive \ {c}
        /\ big' = [big EXCEPT ![c] = null]
     \/ /\ pc[t].how # "none" /\ Goto(t, "take")
        /\ UNCHANGED <<alive, big>>

(* A faulty Nuke that decides by the count it reads before decrementing.   *)
NukeOffByOne(t) ==
  LET c == pc[t].to  n == big[c] IN
  /\ pc[t].at = "nuke"
  /\ \/ exec_[c] = "noop" /\ Uninit(t) /\ UNCHANGED <<tiny, cnt>>
     \/ /\ exec_[c] = "small" /\ Uninit(t)
        /\ tiny' = [tiny EXCEPT ![c] = FALSE] /\ UNCHANGED cnt
     \/ /\ exec_[c] = "big"
        /\ cnt' = [cnt EXCEPT ![n] = @ - 1]
        /\ IF cnt[n] = 0 THEN Goto(t, "delete") /\ UNCHANGED <<alive, exec_, big>>
           ELSE Uninit(t)
        /\ UNCHANGED tiny
  /\ UNCHANGED <<owner, allocated>>

(* exec_(op::nuke): destroy the small iterator, or give up the share of    *)
(* the node; the thread whose decrement reaches zero deletes it.           *)
Nuke(t) ==
  LET c == pc[t].to  n == big[c] IN
  /\ pc[t].at = "nuke"
  /\ \/ exec_[c] = "noop" /\ Uninit(t) /\ UNCHANGED <<tiny, cnt>>
     \/ /\ exec_[c] = "small" /\ Uninit(t)
        /\ tiny' = [tiny EXCEPT ![c] = FALSE] /\ UNCHANGED cnt
     \/ /\ exec_[c] = "big"
        /\ cnt' = [cnt EXCEPT ![n] = @ - 1]
        /\ IF cnt[n] = 1 THEN Goto(t, "delete") /\ UNCHANGED <<alive, exec_, big>>
           ELSE Uninit(t)
        /\ UNCHANGED tiny
  /\ UNCHANGED <<owner, allocated>>

Delete(t) ==
  /\ pc[t].at = "delete"
  /\ allocated' = allocated \ {big[pc[t].to]}
  /\ Uninit(t)
  /\ UNCHANGED <<owner, tiny, cnt>>

(* A faulty move_from that copies exec_ where it should swap.              *)
AdoptCopies(t) ==
  LET c == pc[t].to  d == pc[t].from IN
  /\ exec_' = [exec_ EXCEPT ![c] = exec_[d]]
  /\ alive' = alive \cup {c}
  /\ Return(t)

(* The end of copy_from or move_from: exec_ = that.exec_ or                *)
(* swap(exec_, that.exec_), by the thread that has both to itself.         *)
Adopt(t) ==
  LET c == pc[t].to  d == pc[t].from IN
  /\ exec_' = IF pc[t].how = "move"
              THEN [exec_ EXCEPT ![c] = exec_[d], ![d] = exec_[c]]
              ELSE [exec_ EXCEPT ![c] = exec_[d]]
  /\ alive' = alive \cup {c}
  /\ Return(t)

(* that.exec_(op::copy) or (op::move) on a small iterator; a move ends the *)
(* source's lifetime (the fall-through into op::nuke).                     *)
TakeSmall(t) ==
  LET c == pc[t].to  d == pc[t].from IN
  /\ pc[t].at = "take" /\ exec_[d] = "small"
  /\ tiny' = IF pc[t].how = "move"
             THEN [tiny EXCEPT ![c] = TRUE, ![d] = FALSE]
             ELSE [tiny EXCEPT ![c] = TRUE]
  /\ Adopt(t)
  /\ UNCHANGED <<owner, big, cnt, allocated>>

(* The small iterator's constructor throws: an assignment leaves *this     *)
(* empty, a construction leaves no cursor.                                 *)
TakeThrows(t) ==
  /\ pc[t].at = "take" /\ exec_[pc[t].from] = "small"
  /\ Return(t)
  /\ UNCHANGED <<owner, alive, exec_, tiny, big, cnt, allocated>>

(* A move of a big one takes the address and the share with it.            *)
MoveBig(t) ==
  LET c == pc[t].to  d == pc[t].from IN
  /\ pc[t].at = "take" /\ exec_[d] = "big" /\ pc[t].how = "move"
  /\ big' = [big EXCEPT ![c] = big[d], ![d] = null]
  /\ Adopt(t)
  /\ UNCHANGED <<owner, tiny, cnt, allocated>>

(* A faulty copy that shares the node without counting.                    *)
CopyUncounted(t) ==
  LET c == pc[t].to  d == pc[t].from IN
  /\ pc[t].at = "take" /\ exec_[d] = "big" /\ pc[t].how = "copy"
  /\ big' = [big EXCEPT ![c] = big[d]]
  /\ Adopt(t)
  /\ UNCHANGED <<owner, tiny, cnt, allocated>>

(* A copy of a big one takes the address first and counts next.            *)
CopyBig(t) ==
  LET c == pc[t].to  d == pc[t].from IN
  /\ pc[t].at = "take" /\ exec_[d] = "big" /\ pc[t].how = "copy"
  /\ big' = [big EXCEPT ![c] = big[d]]
  /\ Goto(t, "count")
  /\ UNCHANGED <<owner, alive, exec_, tiny, cnt, allocated>>

(* ++cnt                                                                   *)
Count(t) ==
  /\ pc[t].at = "count"
  /\ cnt' = [cnt EXCEPT ![big[pc[t].to]] = @ + 1]
  /\ Adopt(t)
  /\ UNCHANGED <<owner, tiny, big, allocated>>

TakeNothing(t) ==
  /\ pc[t].at = "take" /\ exec_[pc[t].from] = "noop"
  /\ Adopt(t)
  /\ UNCHANGED <<owner, tiny, big, cnt, allocated>>

Running(t) ==
  \/ Nuke(t) \/ Delete(t)
  \/ TakeSmall(t) \/ TakeThrows(t) \/ MoveBig(t) \/ CopyBig(t) \/ Count(t)
  \/ TakeNothing(t)

Client(t) ==
  \E c \in Cursors :
    \/ MakeSmall(t, c) \/ MakeBig(t, c) \/ MakeEmpty(t, c) \/ Destroy(t, c)
    \/ \E d \in Cursors, how \in {"copy", "move"} :
         Construct(t, c, d, how) \/ Assign(t, c, d, how)

Next ==
  \/ \E t \in Threads : Running(t) \/ Client(t)
  \/ \E c \in Cursors, o \in Threads \cup {Shared} : Hand(c, o)

(* A thread that has entered an operation goes on with it.                 *)
Spec == Init /\ [][Next]_vars /\ \A t \in Threads : WF_vars(Running(t))

-----------------------------------------------------------------------------
Steps == {"idle", "nuke", "delete", "take", "count"}

TypeOK ==
  /\ owner \in [Cursors -> Threads \cup {Shared}]
  /\ alive \subseteq Cursors
  /\ exec_ \in [Cursors -> {"noop", "small", "big"}]
  /\ tiny \in [Cursors -> BOOLEAN]
  /\ big \in [Cursors -> Nodes \cup {null}]
  /\ cnt \in [Nodes -> Nat]
  /\ allocated \subseteq Nodes
  /\ pc \in [Threads -> [at : Steps, to : Cursors \cup {null},
                         from : Cursors \cup {null},
                         how : {"none", "copy", "move"}]]

(* Cursor c has a share in the count of node n.                            *)
Holds(c, n) ==
  /\ c \in alive /\ exec_[c] = "big" /\ big[c] = n
  /\ \A t \in Threads : pc[t].to = c => pc[t].at = "nuke"

(* The count of a node is the number of cursors that hold it, at every     *)
(* instant of every operation of every thread; a node that nobody holds is *)
(* about to be deleted, by one thread.                                     *)
CountExact ==
  \A n \in Nodes :
    LET holders  == {c \in Cursors : Holds(c, n)}
        deleters == {t \in Threads : pc[t].at = "delete" /\ big[pc[t].to] = n}
    IN IF n \in allocated
       THEN cnt[n] = Cardinality(holders) /\ (holders = {} <=> deleters # {})
            /\ Cardinality(deleters) <= 1
       ELSE holders = {} /\ deleters = {}

(* No thread touches a node that has been deleted: counting up or down,    *)
(* deleting, or - through a cursor at rest - comparing, reading, advancing.*)
NoUseAfterFree ==
  /\ \A t \in Threads :
       LET c == pc[t].to IN
       pc[t].at \in {"delete", "count"} \/ (pc[t].at = "nuke" /\ exec_[c] = "big")
         => big[c] \in allocated
  /\ \A c \in alive : ~Busy(c) /\ exec_[c] = "big" => big[c] \in allocated

(* What a cursor at rest says it holds is what it holds, and a cursor      *)
(* outside of its lifetime holds nothing; no small iterator is constructed *)
(* over another.                                                           *)
TinyAgrees ==
  /\ \A c \in Cursors : ~Busy(c) => (tiny[c] <=> c \in alive /\ exec_[c] = "small")
  /\ \A t \in Threads : pc[t].at = "take" => ~tiny[pc[t].to]

(* A node that no cursor holds any more is deleted in the end.             *)
NoLeak ==
  \A n \in Nodes :
    (n \in allocated /\ \A c \in Cursors : ~Holds(c, n)) ~> (n \notin allocated)
=============================================================================
