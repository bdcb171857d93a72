----------------------------- MODULE MC_Queries ------------------------------
(* All pairs of arrays of up to four elements with three keys: long enough *)
(* for a search to fail after a partial match and for a bound to double    *)
(* its step twice.                                                         *)
EXTENDS Queries
MCArrays == UNION {[0 .. len - 1 -> 0 .. 2] : len \in 0 .. 4}
=============================================================================
