------------------------------ MODULE MCConsensus ------------------------------
(***************************************************************************)
(* The consensus rules on difficulty and issuance for TLC: the schedule of *)
(* Pow with four-, two- and one-block intervals, the same rules on a test  *)
(* network, and Supply.  A behaviour is about one of the three.            *)
(***************************************************************************)
EXTENDS Pow, Supply

VARIABLES
    rules,        \* which of the three the behaviour is about
    testChain     \* headers of the test network

\* Out of order, exact, a bit slow, and very slow blocks.
MCElapsed == {-2, 4, 5, 40}

\* A test network has minimum-difficulty blocks and no other schedule than its
\* first; here a block is fast, on time or slow.
Test == INSTANCE Pow WITH
    chain <- testChain, fPowAllowMinDifficultyBlocks <- TRUE,
    nPowRetargetActivationHeight <- 0, nPowRetargetTimespan <- 0,
    nPowRetargetV2ActivationHeight <- 0, nPowRetargetV2Timespan <- 0,
    nPowRetargetV3ActivationHeight <- 0,
    nPowRetargetV3MaxFactorNum <- 0, nPowRetargetV3MaxFactorDen <- 0,
    Elapsed <- {1, 4, 12}

MCInit == rules \in {"main", "test", "money"} /\ PowInit /\ Test!PowInit /\ SupplyInit

MCNext ==
    /\ UNCHANGED rules
    /\ \/ rules = "main" /\ PowNext /\ UNCHANGED <<testChain, supplyVars>>
       \/ rules = "test" /\ Test!PowNext /\ UNCHANGED <<powVars, supplyVars>>
       \/ rules = "money" /\ SupplyNext /\ UNCHANGED <<powVars, testChain>>

MCSpec == MCInit /\ [][MCNext]_<<rules, powVars, testChain, supplyVars>>

\* On the test network a minimum-difficulty block is an exception in its interval.
TestMinDifficultyIsTemporary == Test!MinDifficultyIsTemporary
=============================================================================
