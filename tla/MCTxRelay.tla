------------------------------- MODULE MCTxRelay -------------------------------
(***************************************************************************)
(* Transactions A <- B <- D; B has a witness.  p2 is preferred, relays by  *)
(* wtxid and never has to answer; p1 is honest and last in line.           *)
(***************************************************************************)
EXTENDS TxRelay, TLC

CONSTANTS p1, p2, p3

MCRank == [h \in Hashes |-> p1 :> 1 @@ p2 :> 3 @@ p3 :> 2]
MCTxid == "A" :> "a" @@ "B" :> "b" @@ "D" :> "d"
MCWtxid == "A" :> "a" @@ "B" :> "bw" @@ "D" :> "d"
MCParents == "A" :> {} @@ "B" :> {"A"} @@ "D" :> {"B"}

World(peers, txs, max, may) ==
    [peers |-> peers, txs |-> txs, max_orphan_txs |-> max, may |-> may]
MCWorlds ==
    { World({p1, p2}, {"A", "B"}, 1, {"fair"}),
      World({p1, p2, p3}, {"A"}, 1, {"fair"}),
      World({p1, p2, p3}, {"A"}, 1, {"block", "back"}),
      World({p1, p2}, {"A", "B"}, 1, {"stripped", "evict", "heavy"}),
      World({p1, p2}, {"A", "B", "D"}, 2, {}),
      World({p2}, {"A", "B"}, 1, {"block", "reorg", "submit", "evict"}) }
=============================================================================
