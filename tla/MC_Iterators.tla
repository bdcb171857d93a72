---------------------------- MODULE MC_Iterators ------------------------------
(* Arrays of three elements with the iterators of every category, with an  *)
(* end iterator or a sentinel, under stacks of up to three adaptors.       *)
EXTENDS Iterators

Array(cat, bounded) == [view |-> "array", cat |-> cat, bounded |-> bounded]
Take(base, n) == [view |-> "take_exactly", base |-> base, n |-> n]
Over(view, base) == [view |-> view, base |-> base]

Plain == {Array(Forward, FALSE), Array(Forward, TRUE), Array(Bidirectional, TRUE),
          Array(RandomAccess, TRUE), Array(RandomAccess, FALSE)}
Taken == {Take(v, 3) : v \in {Array(Forward, TRUE), Array(RandomAccess, TRUE)}}
         \cup {Take(v, 2) : v \in {Array(Bidirectional, TRUE), Array(RandomAccess, FALSE)}}
         \cup {Take([view |-> v], 3) : v \in {"iota", "repeat"}}
Reversed == {Over("reverse", v) : v \in {Array(Bidirectional, TRUE), Array(RandomAccess, TRUE)}
                                        \cup {t \in Taken : Category(Begin(t)) >= Bidirectional}}
MoveOver == {Over("move", v) : v \in {Array(Forward, FALSE), Array(RandomAccess, TRUE)} \cup Taken}
Bounded == {Over("common", v) : v \in {Array(Forward, FALSE), Array(RandomAccess, FALSE)} \cup Taken}
Deep == {Over("reverse", Over("reverse", Take(Array(Bidirectional, TRUE), 2))),
         Take(Over("reverse", Array(RandomAccess, TRUE)), 2),
         Over("move", Over("reverse", Take(Array(RandomAccess, TRUE), 2))),
         Over("common", Take(Over("reverse", Array(Bidirectional, TRUE)), 3)),
         Over("common", Over("move", Take(Array(RandomAccess, TRUE), 2))),
         Take(Over("common", Array(Forward, FALSE)), 2)}

MCRanges == Plain \cup Taken \cup Reversed \cup MoveOver \cup Bounded \cup Deep
=============================================================================
