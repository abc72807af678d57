SPECIFICATION MCSpec
CONSTANTS
    powLimit = 1023
    Base = 4
    fPowAllowMinDifficultyBlocks = FALSE
    fPowNoRetargeting = FALSE
    nPowTargetSpacing = 4
    nPowTargetTimespan = 16
    nPowRetargetActivationHeight = 5
    nPowRetargetTimespan = 8
    nPowRetargetV2ActivationHeight = 7
    nPowRetargetV2Timespan = 4
    nPowRetargetV3ActivationHeight = 8
    nPowRetargetV3MaxFactorNum = 5
    nPowRetargetV3MaxFactorDen = 4
    nMedianTimeSpan = 3
    GenesisTarget = 100
    Elapsed <- MCElapsed
    MaxHeight = 9
    \* The real proportions: a premine of a tenth of the final supply, and a
    \* MAX_MONEY of a quarter of it.
    COIN = 4
    nSubsidyHalvingInterval = 2
    Premine = 20
    MAX_MONEY = 200
    Fees = {0, 7}
    Depth = 1
    MaxSupplyHeight = 132
INVARIANTS PermittedChain FollowsTime TestMinDifficultyIsTemporary SupplyOnSchedule
