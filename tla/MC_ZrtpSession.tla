--------------------------- MODULE MC_ZrtpSession ---------------------------
(* Instantiation of ZrtpSession for TLC: two endpoints alice and bob.      *)
EXTENDS ZrtpSession

MCPeers == {"alice", "bob"}

\* hvi/nonce ranks: bob's Commit wins the contention.
MCCommitRank == [p \in MCPeers |-> IF p = "alice" THEN 1 ELSE 2]

\* No cached secret on either side (a first call between the two ZIDs).
MCNoCache == [p \in MCPeers |-> [s \in {"rs1", "rs2", "aux", "pbx"} |-> None]]

\* Only bob's supported key agreements list Mult: alice's user settings keep
\* DH-3072 alone, the one mandatory key agreement.
MCOffersMultBobOnly == {"bob"}

MCAllTypes == {"Hello", "HelloACK", "Commit", "DHPart1", "DHPart2",
               "Confirm1", "Confirm2", "Conf2ACK"}
=============================================================================
