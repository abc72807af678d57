------------------------------- MODULE BlockTree -------------------------------
(***************************************************************************)
(* The tree of block headers (chain.h, chain.cpp).  A header commits to    *)
(* its parent and to its proof of work, so the shape of the tree and the   *)
(* work of every block are constants; what a node knows of the tree is the *)
(* state of other modules.                                                 *)
(***************************************************************************)
EXTENDS Integers, FiniteSets

CONSTANTS
    Blocks,    \* every block that can ever be heard of
    Genesis,   \* the root
    Prev,      \* hashPrevBlock, for every block but the root
    Proof,     \* GetBlockProof: the work of one block
    Addr       \* the address of a block's CBlockIndex, the last tie breaker

\* The last conjunct says that every block descends from the root.
ASSUME TreeAssumption ==
    /\ IsFiniteSet(Blocks) /\ Genesis \in Blocks
    /\ Prev \in [Blocks \ {Genesis} -> Blocks]
    /\ Proof \in [Blocks -> Nat \ {0}]
    /\ Addr \in [Blocks -> Nat]
    /\ \A a, b \in Blocks : Addr[a] = Addr[b] => a = b
    /\ \A S \in SUBSET Blocks :
          /\ Genesis \in S
          /\ \A b \in Blocks \ {Genesis} : Prev[b] \in S => b \in S
          => S = Blocks

\* CBlockIndex::nHeight.
Height[b \in Blocks] == IF b = Genesis THEN 0 ELSE 1 + Height[Prev[b]]

\* CBlockIndex::nChainWork.
Work[b \in Blocks] == Proof[b] + (IF b = Genesis THEN 0 ELSE Work[Prev[b]])

\* b and the blocks before it: those GetAncestor finds from b.
Anc[b \in Blocks] == {b} \cup (IF b = Genesis THEN {} ELSE Anc[Prev[b]])

GetAncestor(b, h) == CHOOSE a \in Anc[b] : Height[a] = h

\* CChain::FindFork and LastCommonAncestor.
FindFork(a, b) == CHOOSE f \in Anc[a] \cap Anc[b] :
                      \A g \in Anc[a] \cap Anc[b] : Height[g] <= Height[f]

\* CBlockIndexWorkComparator()(a, b): a sorts before, is worse than, b.  seq is
\* the nSequenceId of every block.
Worse(a, b, seq) ==
    \/ Work[a] < Work[b]
    \/ Work[a] = Work[b] /\ \/ seq[a] > seq[b]
                            \/ seq[a] = seq[b] /\ Addr[a] > Addr[b]
=============================================================================
