--------------------------- MODULE MC_Rearrange -----------------------------
(* All arrays of up to five elements with three keys, those of six and     *)
(* seven with two, and those of nine of which at most four are odd: long   *)
(* enough for merge_sort_with_buffer to go to the buffer and back twice,   *)
(* from chunks of one element.  nth_element sorts ranges of up to three,   *)
(* five or seven, so that its partition is taken from four on.             *)
EXTENDS Rearrange
MCMoved == -1
MCLong == {k \in [0 .. 8 -> 0 .. 1] : Cardinality({i \in 0 .. 8 : k[i] = 1}) <= 4}
MCArrays == UNION {[0 .. len - 1 -> 0 .. 2] : len \in 0 .. 5}
            \cup UNION {[0 .. len - 1 -> 0 .. 1] : len \in {6, 7}}
            \cup MCLong
=============================================================================
