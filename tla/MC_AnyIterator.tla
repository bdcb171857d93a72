--------------------------- MODULE MC_AnyIterator ---------------------------
(* Three cursors, so that one node has a count of up to three, and two     *)
(* nodes, so that an address is used again while another is in use and a   *)
(* cursor with one node is assigned from a cursor with the other.          *)
EXTENDS AnyIterator

CONSTANTS t1, t2, c1, c2, c3, n1, n2
MC_Threads == {t1, t2}
MC_Cursors == {c1, c2, c3}
MC_Nodes   == {n1, n2}
=============================================================================
