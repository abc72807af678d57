------------------------------ MODULE MCRecovery ------------------------------
(***************************************************************************)
(* An instance of Recovery for TLC, on the tree                            *)
(*                                                                         *)
(*      G - m1 - a2                                                        *)
(*            \                                                            *)
(*             b2 - b3                                                     *)
(*                                                                         *)
(* m1 creates p.  One transaction spends p and creates r, another spends r *)
(* and creates q: a2 confirms both, b2 and b3 one each, so that q is a     *)
(* different coin on the two branches.                                     *)
(***************************************************************************)
EXTENDS Recovery

CONSTANTS G, m1, a2, b2, b3, p, q, r

MCBlocks == {G, m1, a2, b2, b3}
MCPrev == [b \in Blocks \ {G} |-> CASE b = m1 -> G [] b \in {a2, b2} -> m1
                                    [] b = b3 -> b2]
MCProof == [b \in Blocks |-> 1]
MCAddr == [b \in Blocks |-> CHOOSE i \in 1..5 : <<G, m1, a2, b2, b3>>[i] = b]
MCOutpoints == {p, q, r}
MCCoins == 1..3

Tx(vin, vout) == [vin |-> vin, vout |-> vout]
MCVtx == [b \in Blocks \ {G} |->
             CASE b = m1 -> <<Tx({}, {p})>>
               [] b = a2 -> <<Tx({}, {}), Tx({p}, {r}), Tx({r}, {q})>>
               [] b = b2 -> <<Tx({}, {}), Tx({p}, {r})>>
               [] b = b3 -> <<Tx({}, {}), Tx({r}, {q})>>]

\* Prune nothing, or up to height 2.
MCPruneHeights == {-1, 2}
=============================================================================
