------------------------------ MODULE MCSlipRx ------------------------------
(***************************************************************************)
(* Two blocks of two bytes and any four bytes between two delimiters:      *)
(* short, exact and too long frames, every escape sequence, well formed or *)
(* not, and an exhausted pool.                                             *)
(***************************************************************************)
EXTENDS SlipRx, TLC

Symmetric == Permutations(Blocks)
=============================================================================
