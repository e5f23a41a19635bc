---------------------------- MODULE MCMemBlock ------------------------------
(***************************************************************************)
(* A pool of three blocks, three preemptible tasks and two shared cells: more*)
(* places than blocks, so that MB_Get also finds the pool empty.            *)
(***************************************************************************)
EXTENDS MemBlock, TLC

Symmetric == Permutations(Tasks) \cup Permutations(Cells)
=============================================================================
