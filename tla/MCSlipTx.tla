------------------------------ MODULE MCSlipTx ------------------------------
(***************************************************************************)
(* Two senders, two blocks, and frames with a byte of every kind.          *)
(***************************************************************************)
EXTENDS SlipTx

MCFrames == {<<"END", "data">>, <<"ESC">>, <<"ESC_END", "ESC", "END">>}
=============================================================================
