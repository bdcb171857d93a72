----------------------------- MODULE MC_Streams -------------------------------
(* All texts of up to four items, any of them malformed: one is read      *)
(* ahead while another is written and one is left.  An iterator is made    *)
(* twice on each side, or three times on one.                              *)
EXTENDS Streams
MCTexts == UNION {[1 .. len -> {"item", "malformed"}] : len \in 0 .. 4}
=============================================================================
