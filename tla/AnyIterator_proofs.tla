-------------------------- MODULE AnyIterator_proofs --------------------------
(***************************************************************************)
(* That the count of a node is exact and that no thread touches a node     *)
(* after its deletion, for any number of threads, cursors and nodes.       *)
(***************************************************************************)
EXTENDS AnyIterator, FiniteSetTheorems, TLAPS

Places == [at : Steps, to : Cursors \cup {null}, from : Cursors \cup {null},
           how : {"none", "copy", "move"}]

(* A thread that is within an operation has the cursor it changes to       *)
(* itself, and the one it reads is its own or Shared, and stays.           *)
Op(t) ==
  \/ pc[t] = idle
  \/ /\ pc[t].at # "idle"
     /\ pc[t].to \in Cursors /\ owner[pc[t].to] = t
     /\ pc[t].at \in {"nuke", "delete"} => pc[t].to \in alive
     /\ pc[t].at = "delete" => exec_[pc[t].to] = "big"
     /\ pc[t].at \in {"take", "count"} => exec_[pc[t].to] = "noop" /\ pc[t].how # "none"
     /\ pc[t].at = "count" => /\ pc[t].how = "copy" /\ exec_[pc[t].from] = "big"
                              /\ big[pc[t].to] = big[pc[t].from]
     /\ pc[t].how # "none" => /\ pc[t].from \in alive /\ pc[t].from # pc[t].to
                              /\ owner[pc[t].from] \in {t, Shared}
                              /\ pc[t].how = "move" => owner[pc[t].from] = t

Ops == \A t \in Threads : Op(t)

(* What exec_ says is so at every instant.                                 *)
Values ==
  \A c \in Cursors :
    /\ tiny[c] <=> exec_[c] = "small"
    /\ c \notin alive => exec_[c] = "noop"
    /\ exec_[c] = "big" => big[c] \in allocated

(* A cursor holds its node until its share is given up; then one thread    *)
(* may be about to delete the node.                                        *)
Freed(c) == \E t \in Threads : pc[t].to = c /\ pc[t].at = "delete"
Holders(n) == {c \in Cursors : exec_[c] = "big" /\ big[c] = n /\ ~Freed(c)}
Deletes(t, n) == pc[t].at = "delete" /\ big[pc[t].to] = n

Counted ==
  \A n \in allocated :
    /\ cnt[n] = Cardinality(Holders(n))
    /\ Holders(n) = {} <=> \E t \in Threads : Deletes(t, n)
    /\ \A t1, t2 \in Threads : Deletes(t1, n) /\ Deletes(t2, n) => t1 = t2

IInv == TypeOK /\ Ops /\ Values /\ Counted

-----------------------------------------------------------------------------
(* Sets of cursors are finite: one more, one less, one for another.        *)
LEMMA HolderCount ==
  ASSUME NEW S \in SUBSET Cursors, NEW c \in Cursors
  PROVE  /\ IsFiniteSet(S) /\ Cardinality(S) \in Nat
         /\ Cardinality(S) = 0 <=> S = {}
         /\ c \notin S => Cardinality(S \cup {c}) = Cardinality(S) + 1
         /\ c \in S => Cardinality(S \ {c}) = Cardinality(S) - 1
<1>1. IsFiniteSet(S)
  BY AnyIteratorAssumption, FS_Subset
<1>2. Cardinality(S) \in Nat /\ (Cardinality(S) = 0 <=> S = {})
  BY <1>1, FS_CardinalityType, FS_EmptySet
<1>3. c \notin S => Cardinality(S \cup {c}) = Cardinality(S) + 1
  BY <1>1, FS_AddElement
<1>4. c \in S => Cardinality(S \ {c}) = Cardinality(S) - 1
  BY <1>1, FS_RemoveElement
<1>5. QED
  BY <1>1, <1>2, <1>3, <1>4

LEMMA SingleHolder == ASSUME NEW c PROVE Cardinality({c}) = 1
  BY FS_Singleton

(* Where a thread may be after a step.                                     *)
LEMMA PlaceType ==
  ASSUME NEW s \in Steps, NEW x \in Cursors \cup {null}, NEW y \in Cursors \cup {null},
         NEW how \in {"none", "copy", "move"}
  PROVE  At(s, x, y, how) \in Places
  BY DEF At, Places

LEMMA IdleType == idle \in Places /\ idle.at = "idle" /\ idle.to = null /\ idle.from = null
  BY DEF idle, At, Places, Steps

LEMMA GotoPlace ==
  ASSUME pc \in [Threads -> Places], NEW t \in Threads, NEW s \in Steps, Goto(t, s)
  PROVE  /\ pc' \in [Threads -> Places]
         /\ pc'[t].at = s /\ pc'[t].to = pc[t].to /\ pc'[t].from = pc[t].from /\ pc'[t].how = pc[t].how
         /\ \A t2 \in Threads \ {t} : pc'[t2] = pc[t2]
  BY DEF Goto, Places

LEMMA SetPlace ==
  ASSUME pc \in [Threads -> Places], NEW t \in Threads, NEW p \in Places, pc' = [pc EXCEPT ![t] = p]
  PROVE  /\ pc' \in [Threads -> Places] /\ pc'[t] = p
         /\ \A t2 \in Threads \ {t} : pc'[t2] = pc[t2]
  OBVIOUS

(* The other threads are where they were, on cursors that did not change.  *)
LEMMA OthersKept ==
  ASSUME IInv, NEW t \in Threads, owner' = owner,
         \A t2 \in Threads \ {t} : pc'[t2] = pc[t2],
         \A c \in Cursors : owner[c] # t =>
            (c \in alive' <=> c \in alive) /\ exec_'[c] = exec_[c] /\ big'[c] = big[c],
         Op(t)'
  PROVE  Ops'
<1> SUFFICES ASSUME NEW t2 \in Threads, t2 # t PROVE Op(t2)'
  BY DEF Ops
<1>1. Op(t2) /\ pc'[t2] = pc[t2] /\ Shared # t
  BY AnyIteratorAssumption DEF IInv, Ops
<1>2. CASE pc[t2] = idle
  BY <1>1, <1>2 DEF Op
<1>3. CASE pc[t2] # idle
  <2>1. pc[t2].to \in Cursors /\ owner[pc[t2].to] # t
    BY <1>1, <1>3 DEF Op
  <2>2. pc[t2].how # "none" => pc[t2].from \in Cursors /\ owner[pc[t2].from] # t
    BY <1>1, <1>3 DEF Op, IInv, TypeOK
  <2>3. pc[t2].at = "count" => pc[t2].how # "none"
    BY <1>1, <1>3 DEF Op
  <2>4. QED
    BY <1>1, <1>3, <2>1, <2>2, <2>3 DEF Op
<1>4. QED
  BY <1>2, <1>3

(* A step that gives no share and takes none.                              *)
LEMMA CountsKept ==
  ASSUME IInv, cnt' = cnt, allocated' = allocated,
         \A c \in Cursors : (exec_'[c] = "big" <=> exec_[c] = "big") /\ (exec_[c] = "big" => big'[c] = big[c]),
         \A t \in Threads : /\ pc'[t].at = "delete" <=> pc[t].at = "delete"
                            /\ pc[t].at = "delete" => pc'[t].to = pc[t].to
  PROVE  Counted'
<1>1. \A c \in Cursors : Freed(c)' <=> Freed(c)
  BY DEF Freed
<1>2. \A n : Holders(n)' = Holders(n)
  BY <1>1 DEF Holders
<1>3. \A t \in Threads, n \in Nodes : Deletes(t, n)' <=> Deletes(t, n)
  <2> SUFFICES ASSUME NEW t \in Threads, NEW n \in Nodes, pc[t].at = "delete"
               PROVE  big'[pc'[t].to] = big[pc[t].to]
    BY DEF Deletes
  <2>1. pc[t].to \in Cursors /\ exec_[pc[t].to] = "big"
    BY DEF IInv, Ops, Op, idle, At
  <2>2. QED
    BY <2>1
<1>4. allocated \subseteq Nodes
  BY DEF IInv, TypeOK
<1>5. QED
  BY <1>2, <1>3, <1>4 DEF IInv, Counted

LEMMA InitIInv == Init => IInv
<1> SUFFICES ASSUME Init PROVE IInv
  OBVIOUS
<1>1. TypeOK
  <2>1. pc \in [Threads -> Places]
    BY IdleType DEF Init
  <2>2. QED
    BY <2>1 DEF Init, TypeOK, Places
<1>2. Ops
  BY DEF Init, Ops, Op
<1>3. Values
  BY DEF Init, Values
<1>4. Counted
  BY DEF Init, Counted
<1>5. QED
  BY <1>1, <1>2, <1>3, <1>4 DEF IInv

(* Only its owner is about to delete what a cursor held.                   *)
LEMMA Exclusive ==
  ASSUME IInv, NEW t \in Threads, NEW c \in Cursors, owner[c] = t
  PROVE  /\ \A t2 \in Threads : pc[t2].to = c => t2 = t
         /\ Freed(c) <=> pc[t].to = c /\ pc[t].at = "delete"
<1>1. c # null
  BY AnyIteratorAssumption
<1>2. ASSUME NEW t2 \in Threads, pc[t2].to = c PROVE t2 = t
  BY <1>1, <1>2, IdleType DEF IInv, Ops, Op
<1>3. QED
  BY <1>2 DEF Freed

(* The operations that a thread at rest begins or completes at once.       *)
LEMMA MakeSmallKeeps ==
  ASSUME IInv, NEW t \in Threads, NEW c \in Cursors, MakeSmall(t, c)
  PROVE  IInv'
<1>1. TypeOK'
  BY DEF IInv, TypeOK, MakeSmall
<1>2. Values'
  BY DEF IInv, TypeOK, Values, MakeSmall
<1>3. Op(t)'
  BY DEF Op, MakeSmall, idle, At
<1>4. Ops'
  BY <1>3, OthersKept DEF MakeSmall, Mine, IInv, TypeOK
<1>5. exec_[c] # "big"
  BY DEF IInv, Values, MakeSmall
<1>6. Counted'
  BY <1>5, CountsKept DEF MakeSmall, IInv, TypeOK
<1>7. QED
  BY <1>1, <1>2, <1>4, <1>6 DEF IInv

LEMMA MakeEmptyKeeps ==
  ASSUME IInv, NEW t \in Threads, NEW c \in Cursors, MakeEmpty(t, c)
  PROVE  IInv'
<1>0. exec_[c] = "noop" /\ ~tiny[c]
  BY DEF IInv, Values, MakeEmpty
<1>1. TypeOK'
  BY DEF IInv, TypeOK, MakeEmpty
<1>2. Values'
  BY <1>0 DEF IInv, TypeOK, Values, MakeEmpty
<1>3. Op(t)'
  BY DEF Op, MakeEmpty, idle, At
<1>4. Ops'
  BY <1>3, OthersKept DEF MakeEmpty, Mine, IInv, TypeOK
<1>5. Counted'
  BY <1>0, CountsKept DEF MakeEmpty, IInv, TypeOK
<1>6. QED
  BY <1>1, <1>2, <1>4, <1>5 DEF IInv

LEMMA ConstructKeeps ==
  ASSUME IInv, NEW t \in Threads, NEW c \in Cursors, NEW d \in Cursors,
         NEW how \in {"copy", "move"}, Construct(t, c, d, how)
  PROVE  IInv'
<1>0. exec_[c] = "noop" /\ ~tiny[c] /\ c # d
  BY DEF IInv, Values, Construct, Readable
<1>p. pc \in [Threads -> Places] /\ At("take", c, d, how) \in Places
  BY PlaceType DEF IInv, TypeOK, Places, Steps
<1>q. /\ pc' \in [Threads -> Places] /\ pc'[t] = At("take", c, d, how)
      /\ \A t2 \in Threads \ {t} : pc'[t2] = pc[t2]
  BY <1>p, SetPlace DEF Construct
<1>1. TypeOK'
  BY <1>q DEF IInv, TypeOK, Construct, Places
<1>2. Values'
  BY <1>0 DEF IInv, TypeOK, Values, Construct
<1>3. Op(t)'
  <2>1. /\ pc'[t].at = "take" /\ pc'[t].to = c /\ pc'[t].from = d /\ pc'[t].how = how
        /\ owner'[c] = t /\ exec_'[c] = "noop"
    BY <1>q DEF At, Construct, Mine, IInv, TypeOK
  <2>2. d \in alive' /\ owner'[d] \in {t, Shared} /\ (how = "move" => owner'[d] = t)
    BY DEF Construct, Readable, Mine
  <2>3. QED
    BY <1>0, <2>1, <2>2 DEF Op
<1>4. Ops'
  BY <1>3, <1>q, OthersKept DEF Construct, Mine, IInv, TypeOK
<1>5. Counted'
  <2>1. pc[t].at # "delete" /\ pc'[t].at # "delete"
    BY <1>q, IdleType DEF Construct, At
  <2>2. QED
    BY <1>0, <1>q, <2>1, CountsKept DEF Construct, IInv, TypeOK
<1>6. QED
  BY <1>1, <1>2, <1>4, <1>5 DEF IInv

(* The two ways into exec_(op::nuke).                                      *)
LEMMA ToNukeKeeps ==
  ASSUME IInv, NEW t \in Threads, NEW c \in Cursors, NEW d \in Cursors,
         NEW how \in {"none", "copy", "move"},
         pc[t] = idle, owner[c] = t, c \in alive,
         how # "none" => /\ d \in alive /\ c # d /\ owner[d] \in {t, Shared}
                         /\ how = "move" => owner[d] = t,
         pc' = [pc EXCEPT ![t] = At("nuke", c, d, how)],
         UNCHANGED <<owner, alive, exec_, tiny, big, cnt, allocated>>
  PROVE  IInv'
<1>p. pc \in [Threads -> Places] /\ At("nuke", c, d, how) \in Places
  BY PlaceType DEF IInv, TypeOK, Places, Steps
<1>q. /\ pc' \in [Threads -> Places] /\ pc'[t] = At("nuke", c, d, how)
      /\ \A t2 \in Threads \ {t} : pc'[t2] = pc[t2]
  BY <1>p, SetPlace
<1>1. TypeOK'
  BY <1>q DEF IInv, TypeOK, Places
<1>2. Values'
  BY DEF IInv, Values
<1>3. Op(t)'
  BY <1>q DEF Op, At
<1>4. Ops'
  BY <1>3, <1>q, OthersKept
<1>5. Counted'
  <2>1. pc[t].at # "delete" /\ pc'[t].at # "delete"
    BY <1>q, IdleType DEF At
  <2>2. QED
    BY <1>q, <2>1, CountsKept
<1>6. QED
  BY <1>1, <1>2, <1>4, <1>5 DEF IInv

LEMMA AssignKeeps ==
  ASSUME IInv, NEW t \in Threads, NEW c \in Cursors, NEW d \in Cursors,
         NEW how \in {"copy", "move"}, Assign(t, c, d, how)
  PROVE  IInv'
  BY ToNukeKeeps DEF Assign, Mine, Readable

LEMMA DestroyKeeps ==
  ASSUME IInv, NEW t \in Threads, NEW c \in Cursors, Destroy(t, c)
  PROVE  IInv'
  BY ToNukeKeeps DEF Destroy, Mine

(* A cursor changes hands only when no operation is on it.                 *)
LEMMA HandKeeps ==
  ASSUME IInv, NEW c \in Cursors, NEW o \in Threads \cup {Shared}, Hand(c, o)
  PROVE  IInv'
<1>1. TypeOK'
  BY DEF IInv, TypeOK, Hand
<1>2. Values'
  BY DEF IInv, Values, Hand
<1>3. Ops'
  <2> SUFFICES ASSUME NEW t \in Threads PROVE Op(t)'
    BY DEF Ops
  <2>1. Op(t) /\ pc' = pc /\ c # pc[t].to /\ c # pc[t].from
    BY DEF IInv, Ops, Hand, Busy
  <2>2. \A d \in Cursors \ {c} : owner'[d] = owner[d]
    BY DEF Hand, IInv, TypeOK
  <2>3. CASE pc[t] = idle
    BY <2>1, <2>3 DEF Op
  <2>4. CASE pc[t] # idle
    <3>1. pc[t].how # "none" => pc[t].from \in Cursors
      BY <2>1, <2>4 DEF Op, IInv, TypeOK
    <3>2. QED
      BY <2>1, <2>2, <2>4, <3>1 DEF Op, Hand
  <2>5. QED
    BY <2>3, <2>4
<1>4. Counted'
  BY CountsKept DEF Hand
<1>5. QED
  BY <1>1, <1>2, <1>3, <1>4 DEF IInv

-----------------------------------------------------------------------------
(* Where the thread t is within an operation on c, reading d.              *)
LEMMA Within ==
  ASSUME IInv, NEW t \in Threads, pc[t].at # "idle"
  PROVE  /\ Op(t) /\ pc[t] # idle
         /\ pc[t].to \in Cursors /\ owner[pc[t].to] = t
         /\ pc[t].how # "none" => pc[t].from \in Cursors
         /\ pc \in [Threads -> Places]
<1>1. Op(t) /\ pc[t] # idle /\ pc \in [Threads -> Places]
  BY IdleType DEF IInv, Ops, TypeOK, Places
<1>2. QED
  BY <1>1 DEF Op, IInv, TypeOK

(* What a thread that works on c does frees no other cursor.               *)
LEMMA FreedKept ==
  ASSUME NEW t \in Threads, NEW c, pc[t].to = c, pc'[t].at = "delete" => pc'[t].to = c,
         \A t2 \in Threads \ {t} : pc'[t2] = pc[t2]
  PROVE  \A d \in Cursors \ {c} : Freed(d)' <=> Freed(d)
  BY DEF Freed

LEMMA DeletesKept ==
  ASSUME IInv, NEW t \in Threads, \A t2 \in Threads \ {t} : pc'[t2] = pc[t2],
         \A c \in Cursors : owner[c] # t => big'[c] = big[c]
  PROVE  \A t2 \in Threads \ {t}, n \in Nodes : Deletes(t2, n)' <=> Deletes(t2, n)
<1> SUFFICES ASSUME NEW t2 \in Threads \ {t}, NEW n \in Nodes, pc[t2].at = "delete"
             PROVE  big'[pc[t2].to] = big[pc[t2].to]
  BY DEF Deletes
<1>1. pc[t2].to \in Cursors /\ owner[pc[t2].to] = t2
  BY Within
<1>2. QED
  BY <1>1

LEMMA UninitKeeps ==
  ASSUME IInv, NEW t \in Threads, pc[t].at \in {"nuke", "delete"}, Uninit(t), owner' = owner
  PROVE  /\ pc' \in [Threads -> Places] /\ alive' \subseteq Cursors
         /\ exec_' = [exec_ EXCEPT ![pc[t].to] = "noop"]
         /\ big' \in [Cursors -> Nodes \cup {null}]
         /\ \A c \in Cursors \ {pc[t].to} : big'[c] = big[c] /\ (c \in alive' <=> c \in alive)
         /\ pc'[t].at # "delete" /\ (\A t2 \in Threads \ {t} : pc'[t2] = pc[t2])
         /\ Ops'
<1> DEFINE c == pc[t].to
<1>1. /\ Op(t) /\ pc[t] # idle /\ c \in Cursors /\ owner[c] = t /\ pc \in [Threads -> Places]
      /\ pc[t].how # "none" => pc[t].from \in Cursors
  BY Within
<1>2. /\ exec_' = [exec_ EXCEPT ![c] = "noop"] /\ alive' \subseteq Cursors
      /\ big' \in [Cursors -> Nodes \cup {null}]
      /\ \A d \in Cursors \ {c} : big'[d] = big[d] /\ (d \in alive' <=> d \in alive)
  BY <1>1 DEF Uninit, IInv, TypeOK
<1>3. CASE pc[t].how = "none"
  <2>1. Return(t)
    BY <1>3 DEF Uninit
  <2>2. /\ pc' \in [Threads -> Places] /\ pc'[t] = idle
        /\ \A t2 \in Threads \ {t} : pc'[t2] = pc[t2]
    BY <1>1, <2>1, IdleType, SetPlace DEF Return
  <2>3. Op(t)'
    BY <2>2 DEF Op, idle, At
  <2>4. Ops'
    BY <1>1, <1>2, <2>2, <2>3, OthersKept DEF IInv, TypeOK
  <2>5. QED
    BY <1>2, <2>2, <2>4, IdleType
<1>4. CASE pc[t].how # "none"
  <2>1. Goto(t, "take") /\ alive' = alive /\ big' = big
    BY <1>4 DEF Uninit
  <2>2. /\ pc' \in [Threads -> Places]
        /\ pc'[t].at = "take" /\ pc'[t].to = c /\ pc'[t].from = pc[t].from /\ pc'[t].how = pc[t].how
        /\ \A t2 \in Threads \ {t} : pc'[t2] = pc[t2]
    BY <1>1, <2>1, GotoPlace DEF Steps
  <2>3. exec_'[c] = "noop"
    BY <1>1, <1>2 DEF IInv, TypeOK
  <2>4. Op(t)'
    BY <1>1, <1>4, <2>1, <2>2, <2>3 DEF Op
  <2>5. Ops'
    BY <1>1, <1>2, <2>2, <2>4, OthersKept DEF IInv, TypeOK
  <2>6. QED
    BY <1>2, <2>2, <2>5
<1>5. QED
  BY <1>3, <1>4

(* A cursor without a share is emptied.                                    *)
LEMMA NukeOwnKeeps ==
  ASSUME IInv, NEW t \in Threads, Nuke(t), exec_[pc[t].to] # "big"
  PROVE  IInv'
<1> DEFINE c == pc[t].to
<1>1. pc[t].at = "nuke" /\ Uninit(t) /\ owner' = owner /\ allocated' = allocated /\ cnt' = cnt
      /\ (\/ exec_[c] = "noop" /\ tiny' = tiny
          \/ exec_[c] = "small" /\ tiny' = [tiny EXCEPT ![c] = FALSE])
  BY DEF Nuke
<1>2. c \in Cursors /\ owner[c] = t
  BY <1>1, Within
<1>3. /\ pc' \in [Threads -> Places] /\ alive' \subseteq Cursors
      /\ exec_' = [exec_ EXCEPT ![c] = "noop"]
      /\ big' \in [Cursors -> Nodes \cup {null}]
      /\ \A d \in Cursors \ {c} : big'[d] = big[d] /\ (d \in alive' <=> d \in alive)
      /\ pc'[t].at # "delete" /\ (\A t2 \in Threads \ {t} : pc'[t2] = pc[t2])
      /\ Ops'
  BY <1>1, UninitKeeps
<1>4. TypeOK'
  BY <1>1, <1>2, <1>3 DEF IInv, TypeOK, Places
<1>5. Values'
  BY <1>1, <1>2, <1>3 DEF IInv, TypeOK, Values
<1>6. Counted'
  BY <1>1, <1>2, <1>3, CountsKept DEF IInv, TypeOK
<1>7. QED
  BY <1>3, <1>4, <1>5, <1>6 DEF IInv

(* A cursor that holds n gives up its share: one holder less.              *)
LEMMA ShareGiven ==
  ASSUME IInv, NEW t \in Threads, NEW c \in Cursors, NEW n \in Nodes,
         pc[t].at = "nuke", pc[t].to = c, exec_[c] = "big", big[c] = n,
         cnt' = [cnt EXCEPT ![n] = @ - 1],
         \A m \in Nodes \ {n} : Holders(m)' = Holders(m),
         Holders(n)' = Holders(n) \ {c},
         allocated' = allocated,
         \A t2 \in Threads \ {t}, m \in Nodes : Deletes(t2, m)' <=> Deletes(t2, m),
         \A m \in Nodes : Deletes(t, m)' <=> m = n /\ cnt[n] = 1
  PROVE  /\ cnt' \in [Nodes -> Nat]
         /\ Counted'
<1>1. owner[c] = t /\ n \in allocated /\ allocated \subseteq Nodes /\ cnt \in [Nodes -> Nat]
  BY Within DEF IInv, Values, TypeOK
<1>2. c \in Holders(n)
  BY <1>1, Exclusive DEF Holders
<1>3. /\ cnt[n] = Cardinality(Holders(n)) /\ cnt[n] # 0
      /\ \A t2 \in Threads : ~Deletes(t2, n)
      /\ Cardinality(Holders(n) \ {c}) = cnt[n] - 1
      /\ Holders(n) \ {c} = {} <=> cnt[n] = 1
  <2>1. Holders(n) \in SUBSET Cursors /\ Holders(n) \ {c} \in SUBSET Cursors
    BY DEF Holders
  <2>2. cnt[n] = Cardinality(Holders(n)) /\ (\A t2 \in Threads : ~Deletes(t2, n))
    BY <1>1, <1>2 DEF IInv, Counted
  <2>3. Cardinality(Holders(n) \ {c}) = cnt[n] - 1
    BY <1>1, <1>2, <2>1, <2>2, HolderCount
  <2>4. Holders(n) \ {c} = {} <=> Cardinality(Holders(n) \ {c}) = 0
    BY <1>1, <2>1, HolderCount
  <2>5. cnt[n] # 0
    BY <1>1, <1>2, <2>1, <2>2, HolderCount
  <2>6. QED
    BY <1>1, <2>2, <2>3, <2>4, <2>5
<1>4. cnt' \in [Nodes -> Nat] /\ cnt'[n] = cnt[n] - 1 /\ \A m \in Nodes \ {n} : cnt'[m] = cnt[m]
  BY <1>1, <1>3
<1>5. Counted'
  <2> SUFFICES ASSUME NEW m \in allocated
               PROVE  /\ cnt'[m] = Cardinality(Holders(m)')
                      /\ Holders(m)' = {} <=> \E t1 \in Threads : Deletes(t1, m)'
                      /\ \A t1, t2 \in Threads : Deletes(t1, m)' /\ Deletes(t2, m)' => t1 = t2
    BY DEF Counted
  <2>1. CASE m = n
    BY <1>1, <1>3, <1>4, <2>1, ZenonT(40)
  <2>2. CASE m # n
    <3>1. m \in Nodes \ {n} /\ cnt'[m] = cnt[m] /\ Holders(m)' = Holders(m)
      BY <1>1, <1>4, <2>2
    <3>2. \A t1 \in Threads : Deletes(t1, m)' <=> Deletes(t1, m)
      BY <1>2, <2>2, <3>1 DEF Deletes
    <3>3. QED
      BY <3>1, <3>2 DEF IInv, Counted
  <2>3. QED
    BY <2>1, <2>2
<1>6. QED
  BY <1>4, <1>5

(* A cursor with a share gives it up; the last one goes on to delete.      *)
LEMMA NukeBigKeeps ==
  ASSUME IInv, NEW t \in Threads, NEW c \in Cursors, NEW n \in Nodes,
         pc[t].to = c, exec_[c] = "big", big[c] = n, Nuke(t)
  PROVE  IInv'
<1>1. /\ pc[t].at = "nuke" /\ owner' = owner /\ allocated' = allocated /\ tiny' = tiny
      /\ cnt' = [cnt EXCEPT ![n] = @ - 1]
      /\ IF cnt[n] = 1 THEN Goto(t, "delete") /\ UNCHANGED <<alive, exec_, big>> ELSE Uninit(t)
  BY DEF Nuke
<1>2. Op(t) /\ pc[t] # idle /\ owner[c] = t /\ pc \in [Threads -> Places]
  BY <1>1, Within
<1>3. CASE cnt[n] = 1
  <2>1. /\ pc' \in [Threads -> Places] /\ UNCHANGED <<alive, exec_, big>>
        /\ pc'[t].at = "delete" /\ pc'[t].to = c /\ pc'[t].from = pc[t].from /\ pc'[t].how = pc[t].how
        /\ \A t2 \in Threads \ {t} : pc'[t2] = pc[t2]
    BY <1>1, <1>2, <1>3, GotoPlace DEF Steps
  <2>2. Op(t)'
    BY <1>1, <1>2, <2>1 DEF Op
  <2>3. Ops'
    BY <1>1, <1>2, <2>1, <2>2, OthersKept
  <2>4. \A d \in Cursors \ {c} : Freed(d)' <=> Freed(d)
    BY <2>1, FreedKept
  <2>5. Freed(c)' /\ ~Freed(c)
    BY <1>1, <1>2, <2>1, Exclusive DEF Freed
  <2>6. Holders(n)' = Holders(n) \ {c} /\ \A m \in Nodes \ {n} : Holders(m)' = Holders(m)
    BY <2>1, <2>4, <2>5 DEF Holders
  <2>7. \A t2 \in Threads \ {t}, m \in Nodes : Deletes(t2, m)' <=> Deletes(t2, m)
    BY <2>1, DeletesKept
  <2>8. \A m \in Nodes : Deletes(t, m)' <=> m = n /\ cnt[n] = 1
    BY <1>3, <2>1 DEF Deletes
  <2>9. cnt' \in [Nodes -> Nat] /\ Counted'
    BY <1>1, <2>6, <2>7, <2>8, ShareGiven
  <2>10. TypeOK' /\ Values'
    BY <1>1, <2>1, <2>9 DEF IInv, TypeOK, Values, Places
  <2>11. QED
    BY <2>3, <2>9, <2>10 DEF IInv
<1>4. CASE cnt[n] # 1
  <2>1. /\ pc' \in [Threads -> Places] /\ alive' \subseteq Cursors
        /\ exec_' = [exec_ EXCEPT ![c] = "noop"]
        /\ big' \in [Cursors -> Nodes \cup {null}]
        /\ \A d \in Cursors \ {c} : big'[d] = big[d] /\ (d \in alive' <=> d \in alive)
        /\ pc'[t].at # "delete" /\ (\A t2 \in Threads \ {t} : pc'[t2] = pc[t2])
        /\ Ops'
    BY <1>1, <1>4, UninitKeeps
  <2>2. \A d \in Cursors \ {c} : Freed(d)' <=> Freed(d)
    BY <2>1, FreedKept
  <2>3. exec_'[c] = "noop" /\ \A d \in Cursors \ {c} : exec_'[d] = exec_[d]
    BY <2>1 DEF IInv, TypeOK
  <2>4. Holders(n)' = Holders(n) \ {c} /\ \A m \in Nodes \ {n} : Holders(m)' = Holders(m)
    BY <2>1, <2>2, <2>3 DEF Holders
  <2>5. \A t2 \in Threads \ {t}, m \in Nodes : Deletes(t2, m)' <=> Deletes(t2, m)
    BY <1>2, <2>1, DeletesKept
  <2>6. \A m \in Nodes : Deletes(t, m)' <=> m = n /\ cnt[n] = 1
    BY <1>4, <2>1 DEF Deletes
  <2>7. cnt' \in [Nodes -> Nat] /\ Counted'
    BY <1>1, <2>4, <2>5, <2>6, ShareGiven
  <2>8. TypeOK'
    BY <1>1, <2>1, <2>7 DEF IInv, TypeOK, Places
  <2>9. Values'
    BY <1>1, <2>1, <2>3 DEF IInv, Values
  <2>10. QED
    BY <2>1, <2>7, <2>8, <2>9 DEF IInv
<1>5. QED
  BY <1>3, <1>4

(* The node goes when no cursor holds it and no other thread deletes it.   *)
LEMMA DeleteKeeps ==
  ASSUME IInv, NEW t \in Threads, NEW c \in Cursors, NEW n \in Nodes,
         pc[t].to = c, big[c] = n, Delete(t)
  PROVE  IInv'
<1>1. /\ pc[t].at = "delete" /\ owner' = owner /\ tiny' = tiny /\ cnt' = cnt
      /\ allocated' = allocated \ {n} /\ Uninit(t)
  BY DEF Delete
<1>2. Op(t) /\ pc[t] # idle /\ owner[c] = t /\ exec_[c] = "big" /\ n \in allocated
  BY <1>1, Within DEF Op, IInv, Values
<1>3. /\ pc' \in [Threads -> Places] /\ alive' \subseteq Cursors
      /\ exec_' = [exec_ EXCEPT ![c] = "noop"]
      /\ big' \in [Cursors -> Nodes \cup {null}]
      /\ \A d \in Cursors \ {c} : big'[d] = big[d] /\ (d \in alive' <=> d \in alive)
      /\ pc'[t].at # "delete" /\ (\A t2 \in Threads \ {t} : pc'[t2] = pc[t2])
      /\ Ops'
  BY <1>1, UninitKeeps
<1>4. exec_'[c] = "noop" /\ \A d \in Cursors \ {c} : exec_'[d] = exec_[d]
  BY <1>3 DEF IInv, TypeOK
<1>5. Deletes(t, n)
  BY <1>1 DEF Deletes
<1>6. Holders(n) = {} /\ \A t2 \in Threads \ {t} : ~Deletes(t2, n)
  BY <1>2, <1>5 DEF IInv, Counted
<1>7. \A d \in Cursors \ {c} : exec_[d] = "big" => big[d] # n
  BY <1>6 DEF Holders, Freed, Deletes
<1>8. TypeOK'
  BY <1>1, <1>3 DEF IInv, TypeOK, Places
<1>9. Values'
  BY <1>1, <1>2, <1>3, <1>4, <1>7 DEF IInv, Values
<1>10. Counted'
  <2>1. \A d \in Cursors \ {c} : Freed(d)' <=> Freed(d)
    BY <1>3, FreedKept
  <2>2. Freed(c)
    BY <1>1 DEF Freed
  <2>3. \A m \in Nodes : Holders(m)' = Holders(m)
    BY <1>3, <1>4, <2>1, <2>2 DEF Holders
  <2>4. \A t2 \in Threads \ {t}, m \in Nodes : Deletes(t2, m)' <=> Deletes(t2, m)
    BY <1>2, <1>3, DeletesKept
  <2>5. \A m \in Nodes \ {n} : ~Deletes(t, m) /\ ~Deletes(t, m)'
    BY <1>3 DEF Deletes
  <2>6. \A m \in allocated' : m \in Nodes \ {n} /\ m \in allocated
    BY <1>1 DEF IInv, TypeOK
  <2>7. \A m \in Nodes \ {n}, t2 \in Threads : Deletes(t2, m)' <=> Deletes(t2, m)
    BY <2>4, <2>5
  <2>8. QED
    BY <1>1, <2>3, <2>6, <2>7 DEF IInv, Counted
<1>11. QED
  BY <1>3, <1>8, <1>9, <1>10 DEF IInv

(* The end of an operation on c that took what d holds.                    *)
LEMMA Took ==
  ASSUME IInv, NEW t \in Threads, pc[t].at \in {"take", "count"}, Return(t), owner' = owner,
         \A c \in Cursors : owner[c] # t =>
            (c \in alive' <=> c \in alive) /\ exec_'[c] = exec_[c] /\ big'[c] = big[c]
  PROVE  /\ pc' \in [Threads -> Places] /\ pc'[t] = idle /\ pc'[t].at = "idle"
         /\ \A t2 \in Threads \ {t} : pc'[t2] = pc[t2]
         /\ Ops'
<1>1. /\ pc' \in [Threads -> Places] /\ pc'[t] = idle
      /\ \A t2 \in Threads \ {t} : pc'[t2] = pc[t2]
  BY IdleType, SetPlace DEF Return, IInv, TypeOK, Places
<1>2. Op(t)'
  BY <1>1 DEF Op, idle, At
<1>3. Ops'
  BY <1>1, <1>2, OthersKept
<1>4. QED
  BY <1>1, <1>3, IdleType

LEMMA TakeThrowsKeeps ==
  ASSUME IInv, NEW t \in Threads, TakeThrows(t)
  PROVE  IInv'
<1>1. /\ pc' \in [Threads -> Places] /\ pc'[t] = idle /\ pc'[t].at = "idle"
      /\ \A t2 \in Threads \ {t} : pc'[t2] = pc[t2]
      /\ Ops'
  BY Took DEF TakeThrows
<1>2. TypeOK' /\ Values'
  BY <1>1 DEF TakeThrows, IInv, TypeOK, Values, Places
<1>3. Counted'
  BY <1>1, CountsKept DEF TakeThrows
<1>4. QED
  BY <1>1, <1>2, <1>3 DEF IInv

(* The facts of a thread that takes: c empty, d in its lifetime.           *)
LEMMA Taking ==
  ASSUME IInv, NEW t \in Threads, NEW c \in Cursors, NEW d \in Cursors,
         pc[t].at \in {"take", "count"}, pc[t].to = c, pc[t].from = d
  PROVE  /\ owner[c] = t /\ exec_[c] = "noop" /\ ~tiny[c] /\ c # d /\ d \in alive
         /\ pc[t].how \in {"copy", "move"} /\ (pc[t].how = "move" => owner[d] = t)
         /\ pc[t].at = "count" => pc[t].how = "copy" /\ exec_[d] = "big" /\ big[c] = big[d]
         /\ ~Freed(c) /\ ~Freed(d)
<1>1. /\ owner[c] = t /\ exec_[c] = "noop" /\ ~tiny[c] /\ c # d /\ d \in alive
      /\ pc[t].how \in {"copy", "move"} /\ (pc[t].how = "move" => owner[d] = t)
      /\ pc[t].at = "count" => pc[t].how = "copy" /\ exec_[d] = "big" /\ big[c] = big[d]
      /\ owner[d] \in {t, Shared}
  BY Within DEF Op, IInv, TypeOK, Values
<1>2. ~Freed(c)
  BY <1>1, Exclusive
<1>3. ASSUME NEW t2 \in Threads, pc[t2].to = d, pc[t2].at = "delete" PROVE FALSE
  <2>1. owner[d] = t2
    BY <1>3, Within
  <2>2. t2 # Shared
    BY AnyIteratorAssumption
  <2>3. QED
    BY <1>1, <1>3, <2>1, <2>2
<1>4. QED
  BY <1>1, <1>2, <1>3 DEF Freed

LEMMA TakeNothingKeeps ==
  ASSUME IInv, NEW t \in Threads, NEW c \in Cursors, NEW d \in Cursors,
         pc[t].to = c, pc[t].from = d, TakeNothing(t)
  PROVE  IInv'
<1>1. /\ pc[t].at = "take" /\ exec_[d] = "noop" /\ Return(t) /\ alive' = alive \cup {c}
      /\ UNCHANGED <<owner, tiny, big, cnt, allocated>>
  BY DEF TakeNothing, Adopt
<1>2. owner[c] = t /\ exec_[c] = "noop" /\ ~tiny[c]
  BY <1>1, Taking
<1>3. exec_' = exec_
  BY <1>1, <1>2 DEF TakeNothing, Adopt, IInv, TypeOK
<1>4. /\ pc' \in [Threads -> Places] /\ pc'[t].at = "idle"
      /\ \A t2 \in Threads \ {t} : pc'[t2] = pc[t2]
      /\ Ops'
  BY <1>1, <1>2, <1>3, Took
<1>5. TypeOK' /\ Values'
  BY <1>1, <1>2, <1>3, <1>4 DEF IInv, TypeOK, Values, Places
<1>6. Counted'
  BY <1>1, <1>3, <1>4, CountsKept
<1>7. QED
  BY <1>4, <1>5, <1>6 DEF IInv

LEMMA TakeSmallKeeps ==
  ASSUME IInv, NEW t \in Threads, NEW c \in Cursors, NEW d \in Cursors,
         pc[t].to = c, pc[t].from = d, TakeSmall(t)
  PROVE  IInv'
<1>1. /\ pc[t].at = "take" /\ exec_[d] = "small" /\ Return(t) /\ alive' = alive \cup {c}
      /\ UNCHANGED <<owner, big, cnt, allocated>>
  BY DEF TakeSmall, Adopt
<1>2. /\ owner[c] = t /\ exec_[c] = "noop" /\ ~tiny[c] /\ c # d /\ d \in alive
      /\ pc[t].how \in {"copy", "move"} /\ (pc[t].how = "move" => owner[d] = t)
  BY <1>1, Taking
<1>3. /\ exec_' \in [Cursors -> {"noop", "small", "big"}] /\ tiny' \in [Cursors -> BOOLEAN]
      /\ exec_'[c] = "small" /\ tiny'[c]
      /\ tiny'[d] <=> exec_'[d] = "small"
      /\ exec_'[d] # "big" /\ (owner[d] # t => exec_'[d] = exec_[d])
      /\ \A e \in Cursors \ {c, d} : exec_'[e] = exec_[e] /\ tiny'[e] = tiny[e]
  <2>1. CASE pc[t].how = "move"
    <3>1. /\ exec_' = [exec_ EXCEPT ![c] = exec_[d], ![d] = exec_[c]]
          /\ tiny' = [tiny EXCEPT ![c] = TRUE, ![d] = FALSE]
      BY <2>1 DEF TakeSmall, Adopt
    <3>2. QED
      BY <1>1, <1>2, <2>1, <3>1 DEF IInv, TypeOK
  <2>2. CASE pc[t].how = "copy"
    <3>1. exec_' = [exec_ EXCEPT ![c] = exec_[d]] /\ tiny' = [tiny EXCEPT ![c] = TRUE]
      BY <2>2 DEF TakeSmall, Adopt
    <3>2. tiny[d]
      BY <1>1 DEF IInv, Values
    <3>3. QED
      BY <1>1, <1>2, <3>1, <3>2 DEF IInv, TypeOK
  <2>3. QED
    BY <1>2, <2>1, <2>2
<1>4. /\ pc' \in [Threads -> Places] /\ pc'[t].at = "idle"
      /\ \A t2 \in Threads \ {t} : pc'[t2] = pc[t2]
      /\ Ops'
  BY <1>1, <1>2, <1>3, Took
<1>5. TypeOK'
  BY <1>1, <1>3, <1>4 DEF IInv, TypeOK, Places
<1>6. Values'
  BY <1>1, <1>2, <1>3 DEF IInv, Values
<1>7. Counted'
  BY <1>1, <1>2, <1>3, <1>4, CountsKept
<1>8. QED
  BY <1>4, <1>5, <1>6, <1>7 DEF IInv

(* The node changes holders, and its count stays.                          *)
LEMMA MoveBigKeeps ==
  ASSUME IInv, NEW t \in Threads, NEW c \in Cursors, NEW d \in Cursors, NEW n \in Nodes,
         pc[t].to = c, pc[t].from = d, big[d] = n, MoveBig(t)
  PROVE  IInv'
<1>1. /\ pc[t].at = "take" /\ exec_[d] = "big" /\ pc[t].how = "move" /\ Return(t)
      /\ alive' = alive \cup {c}
      /\ big' = [big EXCEPT ![c] = n, ![d] = null]
      /\ exec_' = [exec_ EXCEPT ![c] = exec_[d], ![d] = exec_[c]]
      /\ UNCHANGED <<owner, tiny, cnt, allocated>>
  BY DEF MoveBig, Adopt
<1>2. /\ owner[c] = t /\ exec_[c] = "noop" /\ ~tiny[c] /\ c # d /\ d \in alive /\ owner[d] = t
      /\ ~Freed(c) /\ ~Freed(d)
  BY <1>1, Taking
<1>3. /\ exec_'[c] = "big" /\ big'[c] = n /\ exec_'[d] = "noop"
      /\ \A e \in Cursors \ {c, d} : exec_'[e] = exec_[e] /\ big'[e] = big[e]
      /\ exec_' \in [Cursors -> {"noop", "small", "big"}] /\ big' \in [Cursors -> Nodes \cup {null}]
  BY <1>1, <1>2 DEF IInv, TypeOK
<1>4. /\ pc' \in [Threads -> Places] /\ pc'[t].at = "idle"
      /\ \A t2 \in Threads \ {t} : pc'[t2] = pc[t2]
      /\ Ops'
  BY <1>1, <1>2, <1>3, Took
<1>5. TypeOK'
  BY <1>1, <1>3, <1>4 DEF IInv, TypeOK, Places
<1>6. Values'
  BY <1>1, <1>2, <1>3 DEF IInv, Values
<1>7. Counted'
  <2>1. \A e \in Cursors : Freed(e)' <=> Freed(e)
    BY <1>1, <1>4 DEF Freed
  <2>2. Holders(n)' = (Holders(n) \ {d}) \cup {c} /\ d \in Holders(n) /\ c \notin Holders(n)
    BY <1>1, <1>2, <1>3, <2>1 DEF Holders
  <2>3. \A m \in Nodes \ {n} : Holders(m)' = Holders(m)
    BY <1>1, <1>2, <1>3, <2>1 DEF Holders
  <2>4. \A t2 \in Threads, m \in Nodes : Deletes(t2, m)' <=> Deletes(t2, m)
    <3>1. \A t2 \in Threads \ {t}, m \in Nodes : Deletes(t2, m)' <=> Deletes(t2, m)
      BY <1>2, <1>3, <1>4, DeletesKept
    <3>2. \A m \in Nodes : ~Deletes(t, m) /\ ~Deletes(t, m)'
      BY <1>1, <1>4 DEF Deletes
    <3>3. QED
      BY <3>1, <3>2
  <2>5. Cardinality(Holders(n)') = Cardinality(Holders(n)) /\ Holders(n)' # {}
    <3>1. Holders(n) \in SUBSET Cursors /\ Holders(n) \ {d} \in SUBSET Cursors
      BY DEF Holders
    <3>2. Cardinality(Holders(n) \ {d}) = Cardinality(Holders(n)) - 1 /\ Cardinality(Holders(n)) \in Nat
      BY <2>2, <3>1, HolderCount
    <3>3. Cardinality((Holders(n) \ {d}) \cup {c}) = Cardinality(Holders(n) \ {d}) + 1
      BY <2>2, <3>1, HolderCount
    <3>4. QED
      BY <2>2, <3>2, <3>3
  <2>6. allocated \subseteq Nodes /\ allocated' = allocated /\ cnt' = cnt
    BY <1>1 DEF IInv, TypeOK
  <2>7. QED
    BY <2>2, <2>3, <2>4, <2>5, <2>6 DEF IInv, Counted
<1>8. QED
  BY <1>4, <1>5, <1>6, <1>7 DEF IInv

LEMMA CopyBigKeeps ==
  ASSUME IInv, NEW t \in Threads, NEW c \in Cursors, NEW d \in Cursors,
         pc[t].to = c, pc[t].from = d, CopyBig(t)
  PROVE  IInv'
<1>1. /\ pc[t].at = "take" /\ exec_[d] = "big" /\ pc[t].how = "copy" /\ Goto(t, "count")
      /\ big' = [big EXCEPT ![c] = big[d]]
      /\ UNCHANGED <<owner, alive, exec_, tiny, cnt, allocated>>
  BY DEF CopyBig
<1>2. /\ owner[c] = t /\ exec_[c] = "noop" /\ c # d /\ d \in alive /\ Op(t) /\ pc[t] # idle
      /\ pc \in [Threads -> Places]
  BY <1>1, Taking, Within
<1>3. /\ pc' \in [Threads -> Places]
      /\ pc'[t].at = "count" /\ pc'[t].to = c /\ pc'[t].from = d /\ pc'[t].how = "copy"
      /\ \A t2 \in Threads \ {t} : pc'[t2] = pc[t2]
  BY <1>1, <1>2, GotoPlace DEF Steps
<1>4. /\ big' \in [Cursors -> Nodes \cup {null}] /\ big'[c] = big'[d]
      /\ \A e \in Cursors \ {c} : big'[e] = big[e]
  BY <1>1, <1>2 DEF IInv, TypeOK
<1>5. Op(t)'
  BY <1>1, <1>2, <1>3, <1>4 DEF Op
<1>6. Ops'
  BY <1>1, <1>2, <1>3, <1>4, <1>5, OthersKept
<1>7. TypeOK'
  BY <1>1, <1>3, <1>4 DEF IInv, TypeOK, Places
<1>8. Values'
  BY <1>1, <1>2, <1>4 DEF IInv, Values
<1>9. Counted'
  BY <1>1, <1>2, <1>3, <1>4, CountsKept
<1>10. QED
  BY <1>6, <1>7, <1>8, <1>9 DEF IInv

(* A share taken: one holder more of n.                                    *)
LEMMA ShareTaken ==
  ASSUME IInv, NEW t \in Threads, NEW c \in Cursors, NEW n \in allocated,
         c \notin Holders(n), Holders(n) # {},
         Holders(n)' = Holders(n) \cup {c}, cnt' = [cnt EXCEPT ![n] = @ + 1],
         \A m \in Nodes \ {n} : Holders(m)' = Holders(m),
         \A t2 \in Threads, m \in Nodes : Deletes(t2, m)' <=> Deletes(t2, m),
         allocated' = allocated
  PROVE  cnt' \in [Nodes -> Nat] /\ Counted'
<1>1. Holders(n) \in SUBSET Cursors /\ allocated \subseteq Nodes /\ cnt \in [Nodes -> Nat]
  BY DEF Holders, IInv, TypeOK
<1>2. Cardinality(Holders(n)') = Cardinality(Holders(n)) + 1
  BY <1>1, HolderCount
<1>3. /\ cnt' \in [Nodes -> Nat] /\ cnt'[n] = cnt[n] + 1
      /\ \A m \in Nodes \ {n} : cnt'[m] = cnt[m]
  BY <1>1
<1>4. QED
  BY <1>1, <1>2, <1>3, ZenonT(40) DEF IInv, Counted

LEMMA CountKeeps ==
  ASSUME IInv, NEW t \in Threads, NEW c \in Cursors, NEW d \in Cursors, NEW n \in Nodes,
         pc[t].to = c, pc[t].from = d, big[c] = n, Count(t)
  PROVE  IInv'
<1>1. /\ pc[t].at = "count" /\ Return(t) /\ alive' = alive \cup {c}
      /\ cnt' = [cnt EXCEPT ![n] = @ + 1]
      /\ UNCHANGED <<owner, tiny, big, allocated>>
  BY DEF Count, Adopt
<1>2. /\ owner[c] = t /\ exec_[c] = "noop" /\ ~tiny[c] /\ c # d /\ d \in alive
      /\ pc[t].how = "copy" /\ exec_[d] = "big" /\ big[d] = n
      /\ ~Freed(c) /\ ~Freed(d)
  BY <1>1, Taking
<1>3. /\ exec_' \in [Cursors -> {"noop", "small", "big"}] /\ exec_'[c] = "big"
      /\ \A e \in Cursors \ {c} : exec_'[e] = exec_[e]
  <2>1. exec_' = [exec_ EXCEPT ![c] = exec_[d]]
    BY <1>1, <1>2 DEF Count, Adopt
  <2>2. QED
    BY <1>2, <2>1 DEF IInv, TypeOK
<1>4. /\ pc' \in [Threads -> Places] /\ pc'[t].at = "idle"
      /\ \A t2 \in Threads \ {t} : pc'[t2] = pc[t2]
      /\ Ops'
  BY <1>1, <1>2, <1>3, Took
<1>5. n \in allocated /\ d \in Holders(n) /\ c \notin Holders(n)
  BY <1>2 DEF Holders, IInv, Values
<1>6. \A e \in Cursors : Freed(e)' <=> Freed(e)
  BY <1>1, <1>4 DEF Freed
<1>7. Holders(n)' = Holders(n) \cup {c} /\ \A m \in Nodes \ {n} : Holders(m)' = Holders(m)
  BY <1>1, <1>2, <1>3, <1>6 DEF Holders
<1>8. \A t2 \in Threads, m \in Nodes : Deletes(t2, m)' <=> Deletes(t2, m)
  BY <1>1, <1>4 DEF Deletes
<1>9. cnt' \in [Nodes -> Nat] /\ Counted'
  BY <1>1, <1>5, <1>7, <1>8, ShareTaken
<1>10. TypeOK'
  BY <1>1, <1>3, <1>4, <1>9 DEF IInv, TypeOK, Places
<1>11. Values'
  BY <1>1, <1>2, <1>3, <1>5 DEF IInv, Values
<1>12. QED
  BY <1>4, <1>9, <1>10, <1>11 DEF IInv

(* A new node has the one holder it is made for.                           *)
LEMMA MakeBigKeeps ==
  ASSUME IInv, NEW t \in Threads, NEW c \in Cursors, MakeBig(t, c)
  PROVE  IInv'
<1>1. /\ pc[t] = idle /\ owner[c] = t /\ c \notin alive /\ alive' = alive \cup {c}
      /\ exec_' = [exec_ EXCEPT ![c] = "big"] /\ UNCHANGED <<owner, tiny, pc>>
  BY DEF MakeBig, Mine
<1>2. PICK n \in Nodes \ allocated :
        /\ allocated' = allocated \cup {n}
        /\ cnt' = [cnt EXCEPT ![n] = 1]
        /\ big' = [big EXCEPT ![c] = n]
  BY DEF MakeBig
<1>3. /\ exec_[c] = "noop" /\ ~tiny[c] /\ exec_'[c] = "big" /\ big'[c] = n
      /\ \A e \in Cursors \ {c} : exec_'[e] = exec_[e] /\ big'[e] = big[e]
      /\ \A e \in Cursors : exec_[e] = "big" => big[e] # n
      /\ ~Freed(c)
  BY <1>1, <1>2, Exclusive, IdleType DEF IInv, Values, TypeOK
<1>4. TypeOK'
  BY <1>1, <1>2 DEF IInv, TypeOK
<1>5. Values'
  BY <1>1, <1>2, <1>3 DEF IInv, Values
<1>6. Op(t)'
  BY <1>1 DEF Op, idle, At
<1>7. Ops'
  BY <1>1, <1>3, <1>6, OthersKept
<1>8. Counted'
  <2>1. \A e \in Cursors : Freed(e)' <=> Freed(e)
    BY <1>1 DEF Freed
  <2>2. Holders(n)' = {c} /\ \A m \in Nodes \ {n} : Holders(m)' = Holders(m)
    BY <1>3, <2>1 DEF Holders
  <2>3. \A t2 \in Threads, m \in Nodes : Deletes(t2, m)' <=> Deletes(t2, m)
    <3>1. \A t2 \in Threads \ {t}, m \in Nodes : Deletes(t2, m)' <=> Deletes(t2, m)
      BY <1>1, <1>3, DeletesKept
    <3>2. \A m \in Nodes : ~Deletes(t, m) /\ ~Deletes(t, m)'
      BY <1>1, IdleType DEF Deletes
    <3>3. QED
      BY <3>1, <3>2
  <2>4. \A t2 \in Threads : ~Deletes(t2, n)
    BY <1>3, Within DEF Deletes, Op
  <2>5. cnt'[n] = 1 /\ \A m \in Nodes \ {n} : cnt'[m] = cnt[m]
    BY <1>2 DEF IInv, TypeOK
  <2>6. Cardinality({c}) = 1
    BY SingleHolder
  <2>7. allocated \subseteq Nodes
    BY DEF IInv, TypeOK
  <2>8. SUFFICES ASSUME NEW m \in allocated'
                 PROVE  /\ cnt'[m] = Cardinality(Holders(m)')
                        /\ Holders(m)' = {} <=> \E t1 \in Threads : Deletes(t1, m)'
                        /\ \A t1, t2 \in Threads : Deletes(t1, m)' /\ Deletes(t2, m)' => t1 = t2
    BY DEF Counted
  <2>9. CASE m = n
    BY <2>2, <2>3, <2>4, <2>5, <2>6, <2>9
  <2>10. CASE m # n
    <3>1. m \in allocated /\ m \in Nodes \ {n}
      BY <1>2, <2>7, <2>10
    <3>2. cnt'[m] = cnt[m] /\ Holders(m)' = Holders(m)
      BY <2>2, <2>5, <3>1
    <3>3. \A t2 \in Threads : Deletes(t2, m)' <=> Deletes(t2, m)
      BY <2>3, <3>1
    <3>4. QED
      BY <3>1, <3>2, <3>3 DEF IInv, Counted
  <2>11. QED
    BY <2>9, <2>10
<1>9. QED
  BY <1>4, <1>5, <1>7, <1>8 DEF IInv

-----------------------------------------------------------------------------
(* The steps of a thread within an operation.                              *)
LEMMA RunningKeeps ==
  ASSUME IInv, NEW t \in Threads, Running(t)
  PROVE  IInv'
<1>1. pc[t].at # "idle"
  BY DEF Running, Nuke, Delete, TakeSmall, TakeThrows, MoveBig, CopyBig, Count, TakeNothing
<1>2. PICK c \in Cursors : c = pc[t].to
  BY <1>1, Within
<1>3. exec_[c] = "big" => big[c] \in Nodes
  BY DEF IInv, Values, TypeOK
<1>4. CASE Nuke(t)
  BY <1>2, <1>3, <1>4, NukeOwnKeeps, NukeBigKeeps
<1>5. CASE Delete(t)
  <2>1. exec_[c] = "big"
    BY <1>1, <1>2, <1>5, Within DEF Delete, Op
  <2>2. QED
    BY <1>2, <1>3, <1>5, <2>1, DeleteKeeps
<1>6. CASE TakeThrows(t)
  BY <1>6, TakeThrowsKeeps
<1>7. CASE TakeSmall(t) \/ MoveBig(t) \/ CopyBig(t) \/ Count(t) \/ TakeNothing(t)
  <2>1. pc[t].at \in {"take", "count"}
    BY <1>7 DEF TakeSmall, MoveBig, CopyBig, Count, TakeNothing
  <2>2. PICK d \in Cursors : d = pc[t].from
    BY <1>1, <2>1, Within DEF Op
  <2>3. exec_[d] = "big" => big[d] \in Nodes
    BY DEF IInv, Values, TypeOK
  <2>4. pc[t].at = "count" => exec_[d] = "big" /\ big[c] = big[d]
    BY <1>2, <2>1, <2>2, Taking
  <2>5. Count(t) => big[c] \in Nodes
    BY <2>3, <2>4 DEF Count
  <2>6. MoveBig(t) => big[d] \in Nodes
    BY <2>2, <2>3 DEF MoveBig
  <2>7. QED
    BY <1>2, <1>7, <2>2, <2>5, <2>6, TakeSmallKeeps, MoveBigKeeps, CopyBigKeeps, CountKeeps,
       TakeNothingKeeps
<1>8. QED
  BY <1>4, <1>5, <1>6, <1>7 DEF Running

LEMMA NextIInv == IInv /\ [Next]_vars => IInv'
<1> SUFFICES ASSUME IInv, [Next]_vars PROVE IInv'
  OBVIOUS
<1>1. ASSUME NEW t \in Threads, Running(t) PROVE IInv'
  BY <1>1, RunningKeeps
<1>2. ASSUME NEW t \in Threads, Client(t) PROVE IInv'
  <2>1. PICK c \in Cursors :
          \/ MakeSmall(t, c) \/ MakeBig(t, c) \/ MakeEmpty(t, c) \/ Destroy(t, c)
          \/ \E d \in Cursors, how \in {"copy", "move"} :
               Construct(t, c, d, how) \/ Assign(t, c, d, how)
    BY <1>2 DEF Client
  <2>2. QED
    BY <2>1, MakeSmallKeeps, MakeBigKeeps, MakeEmptyKeeps, DestroyKeeps, ConstructKeeps, AssignKeeps
<1>3. ASSUME NEW c \in Cursors, NEW o \in Threads \cup {Shared}, Hand(c, o) PROVE IInv'
  BY <1>3, HandKeeps
<1>4. CASE UNCHANGED vars
  <2>1. TypeOK' /\ Values'
    BY <1>4 DEF vars, IInv, TypeOK, Values
  <2>2. Ops'
    BY <1>4 DEF vars, IInv, Ops, Op
  <2>3. Counted'
    BY <1>4, CountsKept DEF vars
  <2>4. QED
    BY <2>1, <2>2, <2>3 DEF IInv
<1>5. QED
  BY <1>1, <1>2, <1>3, <1>4 DEF Next

-----------------------------------------------------------------------------
(* What the invariant says of the properties of the model.                 *)
LEMMA HoldersHold ==
  ASSUME IInv, NEW c \in Cursors, NEW n \in allocated
  PROVE  Holds(c, n) <=> c \in Holders(n)
<1>1. ASSUME Holds(c, n) PROVE c \in Holders(n)
  BY <1>1 DEF Holds, Holders, Freed
<1>2. ASSUME c \in Holders(n), NEW t \in Threads, pc[t].to = c PROVE pc[t].at = "nuke"
  <2>1. pc[t].at # "idle"
    BY <1>2, AnyIteratorAssumption, IdleType DEF IInv, Ops, Op
  <2>2. pc[t].at \notin {"take", "count"}
    BY <1>2, <2>1, Within DEF Op, Holders
  <2>3. pc[t].at # "delete"
    BY <1>2 DEF Holders, Freed
  <2>4. pc[t].at \in Steps
    BY DEF IInv, TypeOK
  <2>5. QED
    BY <2>1, <2>2, <2>3, <2>4 DEF Steps
<1>3. c \in Holders(n) => c \in alive
  BY DEF Holders, IInv, Values
<1>4. QED
  BY <1>1, <1>2, <1>3 DEF Holds, Holders

LEMMA ExactCount == IInv => CountExact
<1> SUFFICES ASSUME IInv, NEW n \in Nodes
             PROVE  LET holders  == {c \in Cursors : Holds(c, n)}
                        deleters == {t \in Threads : pc[t].at = "delete" /\ big[pc[t].to] = n}
                    IN IF n \in allocated
                       THEN cnt[n] = Cardinality(holders) /\ (holders = {} <=> deleters # {})
                            /\ Cardinality(deleters) <= 1
                       ELSE holders = {} /\ deleters = {}
  BY DEF CountExact
<1> DEFINE holders  == {c \in Cursors : Holds(c, n)}
           deleters == {t \in Threads : pc[t].at = "delete" /\ big[pc[t].to] = n}
<1>1. \A t \in Threads : t \in deleters <=> Deletes(t, n)
  BY DEF Deletes
<1>2. CASE n \in allocated
  <2>1. holders = Holders(n)
    BY <1>2, HoldersHold DEF Holders
  <2>2. cnt[n] = Cardinality(holders) /\ (holders = {} <=> deleters # {})
    BY <1>1, <1>2, <2>1 DEF IInv, Counted
  <2>3. \A t1, t2 \in deleters : t1 = t2
    BY <1>1, <1>2 DEF IInv, Counted
  <2>4. deleters = {} \/ \E t \in deleters : deleters = {t}
    BY <2>3
  <2>5. Cardinality(deleters) <= 1
    <3> HIDE DEF deleters
    <3>1. CASE deleters = {}
      BY <3>1, FS_EmptySet
    <3>2. CASE \E t \in deleters : deleters = {t}
      BY <3>2, SingleHolder, SMTT(30)
    <3>3. QED
      BY <2>4, <3>1, <3>2
  <2>6. QED
    BY <1>2, <2>2, <2>5
<1>3. CASE n \notin allocated
  <2>1. holders = {}
    BY <1>3 DEF Holds, IInv, Values
  <2>2. deleters = {}
    BY <1>1, <1>3, Within DEF Deletes, Op, IInv, Values
  <2>3. QED
    BY <1>3, <2>1, <2>2
<1>4. QED
  BY <1>2, <1>3

LEMMA SafeUse == IInv => NoUseAfterFree
<1> SUFFICES ASSUME IInv PROVE NoUseAfterFree
  OBVIOUS
<1>1. ASSUME NEW t \in Threads,
             pc[t].at \in {"delete", "count"} \/ (pc[t].at = "nuke" /\ exec_[pc[t].to] = "big")
      PROVE  big[pc[t].to] \in allocated
  <2>1. pc[t].to \in Cursors /\ Op(t) /\ pc[t] # idle /\ pc[t].how \in {"none", "copy", "move"}
    BY <1>1, Within DEF IInv, TypeOK
  <2>2. CASE pc[t].at = "count"
    BY <1>1, <2>1, <2>2, Within DEF Op, IInv, Values
  <2>3. CASE pc[t].at # "count"
    BY <1>1, <2>1, <2>3 DEF Op, IInv, Values
  <2>4. QED
    BY <2>2, <2>3
<1>2. QED
  BY <1>1 DEF NoUseAfterFree, IInv, Values, TypeOK

LEMMA Agreement == IInv => TinyAgrees
<1> SUFFICES ASSUME IInv PROVE TinyAgrees
  OBVIOUS
<1>1. ASSUME NEW t \in Threads, pc[t].at = "take" PROVE ~tiny[pc[t].to]
  BY <1>1, Within DEF Op, IInv, Values
<1>2. QED
  BY <1>1 DEF TinyAgrees, IInv, Values

-----------------------------------------------------------------------------
(* At every step of every operation of any number of threads: an operation *)
(* has the cursor it changes to itself, exec_ tells what a cursor holds,   *)
(* and counted::cnt is the number of shares.                               *)
THEOREM Invariant == Spec => []IInv
  BY InitIInv, NextIInv, PTL DEF Spec

(* Every variable keeps its type (any_iterator.hpp:57-318).                *)
THEOREM TypeCorrect == Spec => []TypeOK
<1>1. IInv => TypeOK
  BY DEF IInv
<1>2. QED
  BY <1>1, Invariant, PTL

(* The count of a node is the number of cursors that hold it, and a node   *)
(* that nobody holds is about to be deleted by one thread, whatever the    *)
(* order of the threads' increments and decrements.                        *)
THEOREM CountIsExact == Spec => []CountExact
  BY Invariant, ExactCount, PTL

(* No thread counts, deletes or reads through a node that was deleted.     *)
THEOREM NeverUsedAfterFree == Spec => []NoUseAfterFree
  BY Invariant, SafeUse, PTL

(* A cursor at rest holds what exec_ says, and no small iterator is        *)
(* constructed over another.                                               *)
THEOREM TinyIsAgreed == Spec => []TinyAgrees
  BY Invariant, Agreement, PTL
=============================================================================
