--------------------------- MODULE MCBufferPool ----------------------------
(* Threads, pages and contents are interchangeable; frames are not: the clock *)
(* hand orders them.                                                          *)
EXTENDS BufferPool, TLC

ThreadPageSymmetry == Permutations(Threads) \cup Permutations(Pages) \cup Permutations(Values)
=============================================================================
