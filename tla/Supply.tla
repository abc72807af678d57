-------------------------------- MODULE Supply --------------------------------
(***************************************************************************)
(* Issuance: GetBlockSubsidy and the coinbase rule of ConnectBlock, along  *)
(* a chain that grows and is reorganised.  A block takes fees out of the   *)
(* coins in circulation and its coinbase pays out at most fees plus        *)
(* subsidy.  Amounts are integers; COIN and the halving interval are       *)
(* constants, so that all 64 halvings fit a small chain.                   *)
(***************************************************************************)
EXTENDS Integers, Sequences

CONSTANTS
    COIN, nSubsidyHalvingInterval,
    Premine,       \* coins of block 1: 8,400,000
    MAX_MONEY,
    Fees,          \* fees a block may collect
    Depth,         \* bound: blocks that can be disconnected
    MaxSupplyHeight  \* bound

\* Amounts and fees are not negative.
ASSUME AmountsAssumption ==
    /\ COIN \in Nat /\ Premine \in Nat /\ nSubsidyHalvingInterval \in Nat \ {0}
    /\ Fees \subseteq Nat /\ Depth \in Nat

VARIABLES
    height,   \* of the tip
    supply,   \* value of all unspent outputs
    undo      \* supply before each of the last blocks, latest first

supplyVars == <<height, supply, undo>>

\* nSubsidy >>= halvings, for at most 63 of them.
ShiftRight(n, halvings) ==
    LET half[k \in 0..63] == IF k = 0 THEN n ELSE half[k - 1] \div 2
    IN  half[halvings]

\* Variant: block 1 is also part of the first halving interval.
SubsidyFromOne(h) ==
    IF h < 1 THEN 0
    ELSE (IF h = 1 THEN Premine * COIN ELSE 0)
         + ShiftRight(45 * COIN, (h - 1) \div nSubsidyHalvingInterval)

GetBlockSubsidy(h) ==
    IF h = 1 THEN Premine * COIN
    ELSE IF h < 2 \/ (h - 2) \div nSubsidyHalvingInterval >= 64 THEN 0
    ELSE ShiftRight(45 * COIN, (h - 2) \div nSubsidyHalvingInterval)

SupplyInit == height = 0 /\ supply = 0 /\ undo = <<>>

\* The coins in circulation after a block: its transactions leave fees behind and
\* its coinbase claims some.
Circulating(fees, claim) == supply - fees + claim

\* The value rules of ConnectBlock.
ConnectBlock(fees, claim) ==
    /\ height < MaxSupplyHeight /\ fees <= supply
    /\ claim <= fees + GetBlockSubsidy(height + 1)
    /\ height' = height + 1
    /\ supply' = Circulating(fees, claim)
    /\ undo' = SubSeq(<<supply>> \o undo, 1,
                      IF Len(undo) < Depth THEN Len(undo) + 1 ELSE Depth)

\* Undo data restores the coins as they were.
DisconnectBlock ==
    /\ undo # <<>>
    /\ height' = height - 1 /\ supply' = Head(undo) /\ undo' = Tail(undo)

\* A miner claims all it may, or nothing.
SupplyNext ==
    \/ DisconnectBlock
    \/ \E fees \in Fees :
          \E claim \in {0, fees + GetBlockSubsidy(height + 1)} : ConnectBlock(fees, claim)

SupplySpec == SupplyInit /\ [][SupplyNext]_supplyVars

-----------------------------------------------------------------------------
\* What GetBlockSubsidy may have issued up to a height, summed by interval: the
\* premine, then 45 coins a block, halved after every full interval from
\* block 2 on.
Issued(h) ==
    LET n == (h - 1) \div nSubsidyHalvingInterval
        f[k \in 0..64] == IF k = 0 THEN 0
                          ELSE f[k - 1] + nSubsidyHalvingInterval
                                              * ShiftRight(45 * COIN, k - 1)
    IN  IF h = 0 THEN 0
        ELSE Premine * COIN
             + (IF n >= 64 THEN f[64]
                ELSE f[n] + ((h - 1) % nSubsidyHalvingInterval) * ShiftRight(45 * COIN, n))

\* No run of blocks, fees and reorganisations puts more into circulation than
\* the schedule has issued at the tip's height, and the schedule stays below
\* the premine plus 90 coins for each block of one interval.
SupplyOnSchedule ==
    /\ supply <= Issued(height)
    /\ Issued(height) <= Premine * COIN + 90 * COIN * nSubsidyHalvingInterval

\* subsidy_limit_test: "BOOST_CHECK(MoneyRange(nSum))": what GetBlockSubsidy
\* issues stays within MAX_MONEY.
SupplyInMoneyRange == supply <= MAX_MONEY
=============================================================================
