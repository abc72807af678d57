----------------------------- MODULE MCChainstate -----------------------------
(***************************************************************************)
(* Instances of Chainstate for TLC, on (a part of) the tree                *)
(*                                                                         *)
(*        a1 - a2 - a3                                                     *)
(*       /  \                                                              *)
(*      G    b2 - b3                                                       *)
(*       \                                                                 *)
(*        c1 - c2 - c3                                                     *)
(*                                                                         *)
(* In ThreeWay b3 has more work than a3 and c2 has more than either, so     *)
(* that the lower branch is the best one.                                  *)
(***************************************************************************)
EXTENDS Chainstate, TLC

CONSTANTS G, a1, a2, a3, b2, b3, c1, c2, c3

MCPrev == [b \in Blocks \ {G} |->
              CASE b \in {a1, c1} -> G [] b \in {a2, b2} -> a1 [] b = a3 -> a2
                [] b = b3 -> b2 [] b = c2 -> c1 [] b = c3 -> c2]
MCAddr == [b \in Blocks |-> CHOOSE i \in 1..9 : <<G, a1, a2, b2, a3, b3, c1, c2, c3>>[i] = b]

Fork == {G, a1, a2, a3, b2, b3}
ForkProof == [b \in Blocks |-> 1]
ThreeWay == Fork \cup {c1, c2, c3}
ThreeWayProof == [b \in Blocks |-> CASE b = c2 -> 4 [] b = b3 -> 2 [] OTHER -> 1]

WithoutB2 == Blocks \ {b2}
WithoutB3 == Blocks \ {b3}
WithoutC3 == Blocks \ {c3}

PruneCalls == {"prune"} \X {G, a1, c1}
AllCalls == ({"precious"} \X {a2, b2, b3}) \cup ({"invalidate", "reconsider"} \X (Blocks \ {G}))
              \cup {<<"prune", a1>>}
=============================================================================
