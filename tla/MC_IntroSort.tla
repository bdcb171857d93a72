---------------------------- MODULE MC_IntroSort ----------------------------
(* All inputs of up to seven elements with three keys.  The threshold is   *)
(* 2 and the limit log2(n), where the code has 16 and 2 log2(n), so that   *)
(* seven elements suffice for partitions of several levels, for blocks     *)
(* that exceed the depth limit, and for insertions past the first block.   *)
EXTENDS IntroSort
=============================================================================
