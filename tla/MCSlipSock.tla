----------------------------- MODULE MCSlipSock -----------------------------
EXTENDS SlipSock, TLC

Symmetric == Permutations(Blocks) \cup Permutations(Clients) \cup Permutations(Ids) \cup Permutations(Sockets)

\* A Disconnect of the peer frees a socket in the receive task; its handle is
\* then stale.  Where a task works with such a handle, the case of sock_own, the
\* search goes no further.
NoStaleHandle ==
  \A t \in Tasks : Serving(t) =>
    /\ used[at[t]] \/ peer[sid[at[t]]] # "left"
    /\ ~(at[Rx] = at[t] /\ pc[Rx] \in FreePcs \cup {"new", "name", "offer"})
=============================================================================
