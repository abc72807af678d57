------------------------------ MODULE MCBaseIndex ------------------------------
(***************************************************************************)
(* An instance of BaseIndex for TLC, on the tree                           *)
(*                                                                         *)
(*      G - m1 - a2                                                        *)
(*            \                                                            *)
(*             b2 - b3                                                     *)
(***************************************************************************)
EXTENDS BaseIndex

CONSTANTS G, m1, a2, b2, b3

MCBlocks == {G, m1, a2, b2, b3}
MCPrev == [b \in Blocks \ {G} |-> CASE b = m1 -> G [] b \in {a2, b2} -> m1
                                    [] b = b3 -> b2]
MCProof == [b \in Blocks |-> 1]
MCAddr == [b \in Blocks |-> CHOOSE i \in 1..5 : <<G, m1, a2, b2, b3>>[i] = b]
=============================================================================
