----------------------- MODULE MC_UninitializedMemory -----------------------
(* Four cells: room for two blocks with a gap, in every position.          *)
EXTENDS UninitializedMemory
=============================================================================
