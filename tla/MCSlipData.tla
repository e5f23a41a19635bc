---------------------------- MODULE MCSlipData -----------------------------
(***************************************************************************)
(* Two connections for one socket.  Payloads of no, one and two bytes,     *)
(* reads that end inside, at the end of and behind a block, writes that    *)
(* need one block and two, and every damage of two neighbours in which     *)
(* each byte changes in one of the given ways.                             *)
(***************************************************************************)
EXTENDS SlipData, TLC

Zero == {}
Full == 0 .. 7

TheIds == {{0}, {7}}
ThePayloads == {<<>>, <<Zero>>, <<{1}, Full>>}
TheWrites == {<<Full>>, [k \in 1 .. 9 |-> IF k % 2 = 0 THEN Zero ELSE {k % 8}]}

Changes == {{k} : k \in 0 .. 7} \cup {Zero, Full, {0, 5}, {4}, {1, 2, 6}, {3, 4, 7}}
TheErrors == (Changes \X Changes) \ {<<Zero, Zero>>}
=============================================================================
