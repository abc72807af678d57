---------------------------------- MODULE Pow ----------------------------------
(***************************************************************************)
(* Proof-of-work difficulty (pow.cpp): the retarget schedule with its      *)
(* three activation heights, the compact encoding of targets               *)
(* (arith_uint256.cpp), and a header chain that grows under it.            *)
(*                                                                         *)
(* A header is [time, bits].  chain[1] is the genesis header, so the       *)
(* header at height h is chain[h + 1].  Targets are naturals up to         *)
(* powLimit; nBits is <<exponent, mantissa>>, a mantissa of three digits   *)
(* in base Base (256 in the code) whose top bit is the sign.               *)
(***************************************************************************)
EXTENDS Integers, Sequences, FiniteSets

CONSTANTS
    powLimit, Base,
    fPowAllowMinDifficultyBlocks, fPowNoRetargeting,
    nPowTargetSpacing, nPowTargetTimespan,
    nPowRetargetActivationHeight, nPowRetargetTimespan,
    nPowRetargetV2ActivationHeight, nPowRetargetV2Timespan,
    nPowRetargetV3ActivationHeight,
    nPowRetargetV3MaxFactorNum, nPowRetargetV3MaxFactorDen,
    nMedianTimeSpan,
    GenesisTarget,
    Elapsed,        \* what a block's time may differ from its parent's
    MaxHeight       \* bound

\* Chain parameters are sane: an interval is at least one block, the V3 factor
\* is no less than one, and only a network with minimum-difficulty blocks is
\* without retargeting.
ASSUME PowAssumption ==
    /\ powLimit \in Nat \ {0} /\ Base \in Nat \ {0, 1} /\ GenesisTarget \in 1..powLimit
    /\ fPowAllowMinDifficultyBlocks \in BOOLEAN
    /\ fPowNoRetargeting \in BOOLEAN
    /\ fPowNoRetargeting => fPowAllowMinDifficultyBlocks
    /\ nPowTargetSpacing \in Nat \ {0}
    /\ nPowTargetTimespan \in Nat /\ nPowTargetTimespan >= nPowTargetSpacing
    /\ {nPowRetargetActivationHeight, nPowRetargetV2ActivationHeight,
        nPowRetargetV3ActivationHeight, nPowRetargetTimespan,
        nPowRetargetV2Timespan} \subseteq Nat
    /\ nPowRetargetTimespan > 0 => nPowRetargetTimespan >= nPowTargetSpacing
    /\ nPowRetargetV2Timespan > 0 => nPowRetargetV2Timespan >= nPowTargetSpacing
    /\ {nPowRetargetV3MaxFactorNum, nPowRetargetV3MaxFactorDen} \subseteq Nat
    /\ nPowRetargetV3MaxFactorNum >= nPowRetargetV3MaxFactorDen
    /\ Elapsed \subseteq Int /\ nMedianTimeSpan \in Nat \ {0} /\ MaxHeight \in Nat

-----------------------------------------------------------------------------
(* The compact encoding.                                                   *)

\* (bits() + 7) / 8.
Digits(n) == CHOOSE s \in 0..32 : n < Base^s /\ (s = 0 \/ n >= Base^(s - 1))

Mantissa(n, s) == IF s <= 3 THEN n * Base^(3 - s) ELSE n \div Base^(s - 3)

GetCompact(n) ==
    LET s == Digits(n)
        m == Mantissa(n, s)
    IN  IF 2 * m >= Base^3 THEN <<s + 1, m \div Base>> ELSE <<s, m>>

\* The sign and overflow flags stay clear for what GetCompact returns.
SetCompact(bits) ==
    IF bits[1] <= 3 THEN bits[2] \div Base^(3 - bits[1]) ELSE bits[2] * Base^(bits[1] - 3)

\* What is left of a target once it has been written as nBits.
Round(n) == SetCompact(GetCompact(n))

AtMostLimit(n) == IF n > powLimit THEN powLimit ELSE n

\* The encoding rounds down, once, and keeps the order of targets; it tells
\* apart two that differ by an eighth.
ASSUME RoundAssumption ==
    \A m, n \in 0..powLimit :
        /\ Round(n) \in 0..n /\ Round(Round(n)) = Round(n)
        /\ m <= n => Round(m) <= Round(n)
        /\ Round(m) = m /\ m >= 8 /\ 8 * n >= 9 * m - 7 => Round(n) > m

-----------------------------------------------------------------------------
(* The retarget schedule.                                                  *)

Active(activation, height) == activation > 0 /\ height >= activation

PowTargetTimespanAtHeight(height) ==
    IF Active(nPowRetargetV2ActivationHeight, height) /\ nPowRetargetV2Timespan > 0
    THEN nPowRetargetV2Timespan
    ELSE IF Active(nPowRetargetActivationHeight, height) /\ nPowRetargetTimespan > 0
    THEN nPowRetargetTimespan
    ELSE nPowTargetTimespan

DifficultyAdjustmentIntervalAtHeight(height) ==
    PowTargetTimespanAtHeight(height) \div nPowTargetSpacing

\* The V3 step limit applies.
TightBounds(height, timespan) ==
    /\ Active(nPowRetargetV3ActivationHeight, height)
    /\ Active(nPowRetargetV2ActivationHeight, height)
    /\ nPowRetargetV2Timespan > 0 /\ timespan = nPowRetargetV2Timespan
    /\ nPowRetargetV3MaxFactorNum > 0 /\ nPowRetargetV3MaxFactorDen > 0

\* PowAdjustmentTimespanBounds.
SmallestTimespan(height, timespan) ==
    IF TightBounds(height, timespan)
    THEN (timespan * nPowRetargetV3MaxFactorDen) \div nPowRetargetV3MaxFactorNum
    ELSE timespan \div 4

LargestTimespan(height, timespan) ==
    IF TightBounds(height, timespan)
    THEN (timespan * nPowRetargetV3MaxFactorNum) \div nPowRetargetV3MaxFactorDen
    ELSE timespan * 4

-----------------------------------------------------------------------------
(* Required and permitted difficulty.                                      *)

\* Variant: the step has no upper limit.
ClampBelow(x, low, high) == IF x < low THEN low ELSE x

Clamp(x, low, high) == LET y == IF x < low THEN low ELSE x
                       IN  IF y > high THEN high ELSE y

\* Scale the target of bits by actual / timespan.
Scaled(bits, actual, timespan) ==
    AtMostLimit((SetCompact(bits) * actual) \div timespan)

CalculateNextWorkRequiredForTimespan(last, firstTime, timespan, height) ==
    IF fPowNoRetargeting THEN last.bits
    ELSE GetCompact(Scaled(last.bits,
                           Clamp(last.time - firstTime,
                                 SmallestTimespan(height, timespan),
                                 LargestTimespan(height, timespan)),
                           timespan))

\* The height of the block whose time starts the measured window, for the
\* block after one at height lastHeight.  Variant: without the one-block case.
FirstHeightOfInterval(lastHeight, interval) == lastHeight - (interval - 1)
FirstHeight(lastHeight, interval) ==
    IF interval = 1 /\ lastHeight > 0 THEN lastHeight - 1
    ELSE lastHeight - (interval - 1)

\* Variant: the previous block, whatever its difficulty.
LastBlock(headers, interval) == Len(headers) - 1

\* The height of the last block that was not mined under the minimum-difficulty rule.
LastRegular(headers, interval) ==
    LET limit == GetCompact(powLimit)
        Stop(h) == h = 0 \/ h % interval = 0 \/ headers[h + 1].bits # limit
    IN  CHOOSE h \in 0..(Len(headers) - 1) :
            Stop(h) /\ \A g \in (h + 1)..(Len(headers) - 1) : ~Stop(g)

GetNextWorkRequired(headers, time) ==
    LET last     == headers[Len(headers)]
        height   == Len(headers)
        timespan == PowTargetTimespanAtHeight(height)
        interval == DifficultyAdjustmentIntervalAtHeight(height)
    IN  IF height % interval # 0
        THEN IF ~fPowAllowMinDifficultyBlocks THEN last.bits
             ELSE IF time > last.time + 2 * nPowTargetSpacing THEN GetCompact(powLimit)
             ELSE headers[LastRegular(headers, interval) + 1].bits
        ELSE CalculateNextWorkRequiredForTimespan(
                 last, headers[FirstHeight(height - 1, interval) + 1].time, timespan, height)

PermittedDifficultyTransition(height, oldBits, newBits) ==
    LET timespan == PowTargetTimespanAtHeight(height)
    IN  \/ fPowAllowMinDifficultyBlocks
        \/ /\ height % DifficultyAdjustmentIntervalAtHeight(height) = 0
           /\ SetCompact(newBits) <=
                 Round(Scaled(oldBits, LargestTimespan(height, timespan), timespan))
           /\ SetCompact(newBits) >=
                 Round(Scaled(oldBits, SmallestTimespan(height, timespan), timespan))
        \/ /\ height % DifficultyAdjustmentIntervalAtHeight(height) # 0
           /\ oldBits = newBits

\* CheckProofOfWork's range check.
InRange(bits) == SetCompact(bits) > 0 /\ SetCompact(bits) <= powLimit

-----------------------------------------------------------------------------
(* The header chain.                                                       *)

VARIABLE chain

powVars == chain

\* GetMedianTimePast of the last header.
GetMedianTimePast ==
    LET span    == IF Len(chain) < nMedianTimeSpan THEN Len(chain) ELSE nMedianTimeSpan
        recent  == (Len(chain) - span + 1)..Len(chain)
        Before(i) == {j \in recent : \/ chain[j].time < chain[i].time
                                     \/ chain[j].time = chain[i].time /\ j < i}
    IN  chain[CHOOSE i \in recent : Cardinality(Before(i)) = span \div 2].time

PowInit == chain = <<[time |-> 0, bits |-> GetCompact(GenesisTarget)]>>

\* AcceptBlockHeader on top of the chain: CheckProofOfWork (some hash met the
\* target) and the difficulty and time rules of ContextualCheckBlockHeader.
AcceptHeader(time) ==
    /\ Len(chain) <= MaxHeight
    /\ time > GetMedianTimePast
    /\ LET bits == GetNextWorkRequired(chain, time)
       IN  InRange(bits) /\ chain' = Append(chain, [time |-> time, bits |-> bits])

\* The next header builds on an earlier one.
Fork == \E n \in 1..(Len(chain) - 1) : chain' = SubSeq(chain, 1, n)

PowNext == Fork \/ \E e \in Elapsed : AcceptHeader(chain[Len(chain)].time + e)

PowSpec == PowInit /\ [][PowNext]_powVars

-----------------------------------------------------------------------------
(* Properties.                                                             *)

Heights == 1..(Len(chain) - 1)
Bits(h) == chain[h + 1].bits
Target(h) == SetCompact(Bits(h))
Time(h) == chain[h + 1].time

\* Headers carry a time and canonical bits: the sign bit of the mantissa is
\* clear and the mantissa has no leading zero digit.
PowTypeOK ==
    /\ chain \in Seq([time : Int, bits : Nat \X Nat])
    /\ \A h \in Heights : 2 * Bits(h)[2] < Base^3 /\ 2 * Base * Bits(h)[2] >= Base^3

\* Every header the node accepts is a transition PermittedDifficultyTransition
\* permits, at every height around the three activations: headers presync
\* (headerssync.cpp) never rejects a chain that full validation accepts.
PermittedChain ==
    \A h \in Heights : PermittedDifficultyTransition(h, Bits(h - 1), Bits(h))

\* "A one-block interval needs the previous block as the timestamp anchor so the
\* elapsed spacing is real": with one-block retargets the target stays where it
\* is after a block on schedule, and never moves against a fast or slow one.  A
\* block that took an eighth longer makes the next one strictly easier, down to
\* the limit: rounding never freezes the difficulty of a chain that has lost its
\* miners (targets under 8 aside).
FollowsTime ==
    \A h \in Heights \ {1} : DifficultyAdjustmentIntervalAtHeight(h) = 1 =>
        LET elapsed == Time(h - 1) - Time(h - 2)
            timespan == PowTargetTimespanAtHeight(h)
        IN  /\ elapsed >= timespan => Target(h) >= Target(h - 1)
            /\ elapsed <= timespan => Target(h) <= Target(h - 1)
            /\ 8 * elapsed >= 9 * timespan /\ Target(h - 1) \in 8..Round(powLimit) - 1
                  => Target(h) > Target(h - 1)

\* On a network with minimum-difficulty blocks, one such block does not lower
\* the difficulty of the rest of its interval: the walk back finds the bits the
\* interval started with.
MinDifficultyIsTemporary ==
    \A h \in Heights :
        LET interval == DifficultyAdjustmentIntervalAtHeight(h)
        IN  h % interval # 0 =>
                Bits(h) = IF Time(h) > Time(h - 1) + 2 * nPowTargetSpacing
                          THEN GetCompact(powLimit)
                          ELSE Bits(h - (h % interval))
=============================================================================
