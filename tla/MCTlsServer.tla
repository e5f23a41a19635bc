----------------------------- MODULE MCTlsServer -----------------------------
(* More connections than permits, so that the server waits for a task to end *)
(* its connection; every call can fail in every task.                       *)
EXTENDS TlsServer
=============================================================================
