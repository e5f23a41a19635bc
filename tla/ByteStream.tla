----------------------------- MODULE ByteStream -----------------------------
(***************************************************************************)
(* What a socket promises whoever reads from it: the bytes that were sent  *)
(* on the connection, each once and in order.                              *)
(***************************************************************************)
EXTENDS Sequences, SequencesExt

CONSTANT Ids

VARIABLES
  sent,  \* the bytes that came on each connection
  got    \* the bytes its reader has got

vars == <<sent, got>>

Init == sent = [i \in Ids |-> <<>>] /\ got = [i \in Ids |-> <<>>]

\* More bytes come.
Send(i) ==
  /\ sent' = [sent EXCEPT ![i] = sent'[i]]
  /\ IsStrictPrefix(sent[i], sent'[i])
  /\ UNCHANGED got

\* The reader gets the next bytes.
Receive(i) ==
  /\ got' = [got EXCEPT ![i] = got'[i]]
  /\ IsStrictPrefix(got[i], got'[i]) /\ IsPrefix(got'[i], sent[i])
  /\ UNCHANGED sent

\* A new connection takes the id.
Reopen(i) ==
  /\ sent' = [sent EXCEPT ![i] = <<>>]
  /\ got' = [got EXCEPT ![i] = <<>>]

Next == \E i \in Ids : Send(i) \/ Receive(i) \/ Reopen(i)

Spec == Init /\ [][Next]_vars
=============================================================================
