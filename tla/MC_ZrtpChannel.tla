--------------------------- MODULE MC_ZrtpChannel ---------------------------
(* Instantiation of ZrtpChannel for TLC: two endpoints alice and bob.      *)
EXTENDS ZrtpChannel

\* hvi/nonce ranks: bob's Commit wins the contention.
MCCommitRank == [p \in Peers |-> IF p = "alice" THEN 1 ELSE 2]

\* No cached secret on either side (a first call between the two ZIDs).
MCNoCache == [p \in Peers |-> [s \in SecretNames |-> None]]

\* Both sides hold the same rs1 from a previous call.
MCSharedRs1 == [p \in Peers |-> [s \in SecretNames |-> IF s = "rs1" THEN "rs1v" ELSE None]]

MCPeers == {"alice", "bob"}

MCAllTypes == MessageTypes
=============================================================================
