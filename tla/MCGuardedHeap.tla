--------------------------- MODULE MCGuardedHeap ---------------------------
(***************************************************************************)
(* An instance of GuardedHeap for TLC: pages of 4 bytes, words of 6 bits,   *)
(* sizes about a page and about the largest.                                *)
(***************************************************************************)
EXTENDS GuardedHeap

SomeSizes == {0, 1, 2, 33} \cup {WordSize - 1 - 4 * PageSize - 1,
                                 WordSize - 1 - 4 * PageSize, WordSize - 1}
=============================================================================
