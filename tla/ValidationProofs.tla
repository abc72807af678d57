--------------------------- MODULE ValidationProofs ---------------------------
(***************************************************************************)
(* What validating a block rests on, for every value of the constants.     *)
(*                                                                         *)
(* Difficulty (Pow): every header that GetNextWorkRequired asks for is one *)
(* that PermittedDifficultyTransition permits; targets move against the    *)
(* pace of the last interval; a minimum-difficulty block leaves no trace   *)
(* in the next regular one.  All rest on RInv: a header's bits are what    *)
(* its own ancestors require.  What is needed of the compact encoding is   *)
(* RoundAssumption.                                                        *)
(*                                                                         *)
(* Issuance (Supply): what circulates never exceeds what GetBlockSubsidy   *)
(* issued.                                                                 *)
(*                                                                         *)
(* The coins cache (CoinsCache): CacheTypeOK, TipSound and ViewSound are   *)
(* inductive together.  A flush of the view is sound because the FRESH     *)
(* flag of the view is true of the tip, and a flush of the tip because its *)
(* missing DIRTY flags are true of the database.  The refinement then      *)
(* needs nothing but that invariant.                                       *)
(*                                                                         *)
(* The queue of script checks (CheckQueue): for every number of workers,   *)
(* masters, checks and rounds and every batch size.                        *)
(***************************************************************************)
EXTENDS Pow, Supply, CoinsCache, CheckQueue, FiniteSetTheorems, SequenceTheorems,
        WellFoundedInduction, TLAPS

\* A leaf that names no prover is tried with Zenon.
USE Zenon

\* Encodings of targets.
Compact == {GetCompact(n) : n \in 0..powLimit}

\* Products are monotone in the second factor.
LEMMA TimesMonotone ==
    ASSUME NEW x \in Nat, NEW a \in Nat, NEW b \in Nat, a <= b
    PROVE  x * a \in Nat /\ x * b \in Nat /\ x * a <= x * b
<1>1. PICK d \in Nat : b = a + d
  <2>1. b - a \in Nat /\ b = a + (b - a) BY SMT
  <2> QED BY <2>1
<1>2. x * b = x * a + x * d BY <1>1, SMT
<1>3. x * d \in Nat /\ x * a \in Nat BY <1>1, SMT
<1> QED BY <1>2, <1>3, SMT

\* Division rounds monotonically.
LEMMA DivMonotone ==
    ASSUME NEW m \in Nat, NEW n \in Nat, m <= n, NEW t \in Nat \ {0}
    PROVE  m \div t \in Nat /\ n \div t \in Nat /\ m \div t <= n \div t
BY SMT

\* A longer timespan scales to no smaller a target, within the limit.
LEMMA ScaledMonotone ==
    ASSUME NEW bits \in Compact, NEW a \in Nat, NEW b \in Nat, a <= b,
           NEW t \in Nat \ {0}
    PROVE  /\ Scaled(bits, a, t) \in 0..powLimit /\ Scaled(bits, b, t) \in 0..powLimit
           /\ Scaled(bits, a, t) <= Scaled(bits, b, t)
<1>1. PICK n \in 0..powLimit : bits = GetCompact(n) BY DEF Compact
<1>2. SetCompact(bits) \in Nat
  <2>1. Round(n) \in 0..n BY RoundAssumption
  <2>2. Round(n) \in Nat BY <2>1, SMT
  <2> QED BY <1>1, <2>2 DEF Round
<1>3. /\ SetCompact(bits) * a \in Nat /\ SetCompact(bits) * b \in Nat
      /\ SetCompact(bits) * a <= SetCompact(bits) * b
  BY <1>2, TimesMonotone
<1>4. /\ (SetCompact(bits) * a) \div t \in Nat /\ (SetCompact(bits) * b) \div t \in Nat
      /\ (SetCompact(bits) * a) \div t <= (SetCompact(bits) * b) \div t
  BY <1>3, DivMonotone
<1> QED BY <1>4, PowAssumption, SMT DEF Scaled, AtMostLimit

\* The active timespan is at least one spacing, so the interval is at least one
\* block.
LEMMA ScheduleSane ==
    ASSUME NEW h \in Nat
    PROVE  /\ PowTargetTimespanAtHeight(h) \in Nat \ {0}
           /\ DifficultyAdjustmentIntervalAtHeight(h) \in Nat \ {0}
<1>1. /\ PowTargetTimespanAtHeight(h) \in Nat
      /\ PowTargetTimespanAtHeight(h) >= nPowTargetSpacing
  BY PowAssumption DEF PowTargetTimespanAtHeight
<1> QED BY <1>1, PowAssumption, SMT DEF DifficultyAdjustmentIntervalAtHeight

\* PowAdjustmentTimespanBounds returns an interval around the timespan.
LEMMA BoundsOrdered ==
    ASSUME NEW h \in Nat, NEW t \in Nat
    PROVE  /\ SmallestTimespan(h, t) \in Nat /\ LargestTimespan(h, t) \in Nat
           /\ SmallestTimespan(h, t) <= LargestTimespan(h, t)
           /\ SmallestTimespan(h, t) <= t /\ t <= LargestTimespan(h, t)
<1>1. CASE ~TightBounds(h, t)
  BY <1>1, SMT DEF SmallestTimespan, LargestTimespan
<1>2. CASE TightBounds(h, t)
  <2> DEFINE num == nPowRetargetV3MaxFactorNum
             den == nPowRetargetV3MaxFactorDen
  <2>1. num \in Nat \ {0} /\ den \in Nat \ {0} /\ den <= num
    BY <1>2, PowAssumption, SMT DEF TightBounds
  <2> HIDE DEF num, den
  <2>2. t * den \in Nat /\ t * num \in Nat /\ t * den <= t * num BY <2>1, TimesMonotone
  <2>3. (t * den) \div num <= t
    <3>1. t * num \in Nat /\ t * den <= t * num BY <2>2
    <3>2. (t * den) \div num <= (t * num) \div num BY <2>1, <2>2, DivMonotone
    <3>3. (t * num) \div num = t BY <2>1, SMT
    <3> QED BY <3>2, <3>3
  <2>4. t <= (t * num) \div den
    <3>1. (t * den) \div den <= (t * num) \div den BY <2>1, <2>2, DivMonotone
    <3>2. (t * den) \div den = t BY <2>1, SMT
    <3> QED BY <3>1, <3>2
  <2>5. (t * den) \div num \in Nat /\ (t * num) \div den \in Nat BY <2>1, <2>2, DivMonotone
  <2> QED BY <1>2, <2>3, <2>4, <2>5, SMT DEF SmallestTimespan, LargestTimespan, num, den
<1> QED BY <1>1, <1>2

\* Clamp stays inside a non-empty interval.
LEMMA ClampLemma ==
    ASSUME NEW x \in Int, NEW low \in Nat, NEW high \in Nat, low <= high
    PROVE  Clamp(x, low, high) \in low..high
BY SMT DEF Clamp

\* The window a retarget measures starts at a header of the chain.
LEMMA AnchorExists ==
    ASSUME NEW h \in Nat \ {0}, NEW interval \in Nat \ {0}, h % interval = 0
    PROVE  FirstHeight(h - 1, interval) + 1 \in 1..h
<1>1. h >= interval BY SMT
<1> QED BY <1>1, SMT DEF FirstHeight

\* Headers of a chain have their types.
LEMMA HeaderLemma ==
    ASSUME NEW c \in Seq([time : Int, bits : Compact]), Len(c) > 0
    PROVE  /\ Len(c) \in Nat \ {0}
           /\ \A k \in 1..Len(c) : c[k].time \in Int /\ c[k].bits \in Compact
           /\ c[Len(c)].time \in Int /\ c[Len(c)].bits \in Compact
<1> DEFINE H == [time : Int, bits : Compact]
<1>1. \A r \in H : r.time \in Int /\ r.bits \in Compact OBVIOUS
<1>2. c \in Seq(H) OBVIOUS
<1> HIDE DEF H
<1>3. Len(c) \in Nat \ {0} /\ \A k \in 1..Len(c) : c[k] \in H BY <1>2, SMT
<1>4. Len(c) \in 1..Len(c) BY <1>3, SMT
<1> QED BY <1>1, <1>3, <1>4

\* The heart of it: the bits required after a chain of encoded targets are an
\* encoded target and a permitted transition.
LEMMA RequiredIsPermitted ==
    ASSUME ~fPowAllowMinDifficultyBlocks, NEW time,
           NEW c \in Seq([time : Int, bits : Compact]), Len(c) > 0
    PROVE  /\ GetNextWorkRequired(c, time) \in Compact
           /\ PermittedDifficultyTransition(Len(c), c[Len(c)].bits, GetNextWorkRequired(c, time))
<1> DEFINE h == Len(c)
           last == c[h]
           t == PowTargetTimespanAtHeight(h)
           i == DifficultyAdjustmentIntervalAtHeight(h)
           low == SmallestTimespan(h, t)
           high == LargestTimespan(h, t)
<1>1. h \in Nat \ {0} /\ last.time \in Int /\ last.bits \in Compact
  BY HeaderLemma
<1>2. t \in Nat \ {0} /\ i \in Nat \ {0} BY <1>1, ScheduleSane
<1>3. CASE h % i # 0
  BY <1>1, <1>3 DEF GetNextWorkRequired, PermittedDifficultyTransition
<1>4. CASE h % i = 0
  <2> DEFINE first == c[FirstHeight(h - 1, i) + 1].time
             actual == Clamp(last.time - first, low, high)
             new == Scaled(last.bits, actual, t)
  <2>1. first \in Int
    <3>1. FirstHeight(h - 1, i) + 1 \in 1..h BY <1>1, <1>2, <1>4, AnchorExists
    <3> QED BY <3>1, HeaderLemma
  <2>2. low \in Nat /\ high \in Nat /\ low <= high BY <1>1, <1>2, BoundsOrdered
  <2>3. actual \in low..high
    <3>1. last.time - first \in Int BY <1>1, <2>1, SMT
    <3> QED BY <3>1, <2>2, ClampLemma
  <2>4. GetNextWorkRequired(c, time) = GetCompact(new)
    BY <1>4, PowAssumption DEF GetNextWorkRequired, CalculateNextWorkRequiredForTimespan
  <2> HIDE DEF first, actual, new, low, high, t, i, last, h
  <2>10. actual \in Nat /\ low <= actual /\ actual <= high BY <2>2, <2>3, SMT
  <2>5. /\ new \in 0..powLimit
        /\ Scaled(last.bits, low, t) \in 0..powLimit /\ Scaled(last.bits, low, t) <= new
    BY <1>1, <1>2, <2>2, <2>10, ScaledMonotone DEF new
  <2>6. Scaled(last.bits, high, t) \in 0..powLimit /\ new <= Scaled(last.bits, high, t)
    BY <1>1, <1>2, <2>2, <2>10, ScaledMonotone DEF new
  <2>7. /\ Round(new) <= Round(Scaled(last.bits, high, t))
        /\ Round(new) >= Round(Scaled(last.bits, low, t))
    <3>1. Round(Scaled(last.bits, low, t)) <= Round(new) BY <2>5, RoundAssumption
    <3>2. Round(new) <= Round(Scaled(last.bits, high, t)) BY <2>5, <2>6, RoundAssumption
    <3>3. Round(Scaled(last.bits, low, t)) \in Int /\ Round(new) \in Int
      <4>1. \A n \in 0..powLimit : Round(n) \in 0..n BY RoundAssumption
      <4>2. \A n \in 0..powLimit : Round(n) \in Int BY <4>1, SMT
      <4> QED BY <2>5, <4>2
    <3> QED BY <3>1, <3>2, <3>3
  <2>8. SetCompact(GetCompact(new)) = Round(new) BY DEF Round
  <2>9. PermittedDifficultyTransition(h, last.bits, GetCompact(new))
    BY <1>4, <2>7, <2>8 DEF PermittedDifficultyTransition, t, i, low, high, h
  <2> QED BY <2>4, <2>5, <2>9 DEF Compact, last, h
<1> QED BY <1>3, <1>4

-----------------------------------------------------------------------------
(* The bits of every header are the ones required after the headers before.  *)

Chains == Seq([time : Int, bits : Compact])

RInv ==
    /\ chain \in Chains /\ Len(chain) > 0
    /\ \A h \in Heights : Bits(h) = GetNextWorkRequired(SubSeq(chain, 1, h), Time(h))

\* The first headers of a chain are a chain.
LEMMA Prefix ==
    ASSUME NEW c \in Chains, NEW n \in 1..Len(c)
    PROVE  /\ SubSeq(c, 1, n) \in Chains /\ Len(SubSeq(c, 1, n)) = n
           /\ \A k \in 1..n : SubSeq(c, 1, n)[k] = c[k]
<1>. DEFINE H == [time : Int, bits : Compact]
<1>1. c \in Seq(H) BY DEF Chains
<1>. HIDE DEF H
<1>2. \A k \in 1..n : c[k] \in H BY <1>1, SMT
<1>3. n \in Int /\ 1 <= n BY <1>1, SMT
<1>4. /\ SubSeq(c, 1, n) \in Seq(H)
      /\ Len(SubSeq(c, 1, n)) = n
      /\ \A k \in 1..n : SubSeq(c, 1, n)[k] = c[k]
  BY <1>2, <1>3, SubSeqProperties, SMT
<1>. QED BY <1>4 DEF Chains, H

\* Chains that agree up to a height have the same first headers.
LEMMA SamePrefix ==
    ASSUME NEW c \in Chains, NEW d \in Chains, NEW n \in 1..Len(c), n \in 1..Len(d),
           \A k \in 1..n : c[k] = d[k]
    PROVE  SubSeq(c, 1, n) = SubSeq(d, 1, n)
<1>. DEFINE p == SubSeq(c, 1, n)
            q == SubSeq(d, 1, n)
<1>1. p \in Chains /\ Len(p) = n /\ \A k \in 1..n : p[k] = c[k] BY Prefix
<1>2. q \in Chains /\ Len(q) = n /\ \A k \in 1..n : q[k] = d[k] BY Prefix
<1>. HIDE DEF p, q
<1>3. \A k \in 1..Len(p) : p[k] = q[k] BY <1>1, <1>2
<1>4. Len(p) = Len(q) BY <1>1, <1>2
<1>5. p = q BY <1>1, <1>2, <1>3, <1>4, SeqEqual DEF Chains
<1>. QED BY <1>5 DEF p, q

\* The walk back over minimum-difficulty blocks ends.
LEMMA RegularExists ==
    ASSUME NEW c \in Chains, Len(c) > 0, NEW i \in Nat \ {0}
    PROVE  LET r == LastRegular(c, i)
               Stop(h) == h = 0 \/ h % i = 0 \/ c[h + 1].bits # GetCompact(powLimit)
           IN  /\ r \in 0..(Len(c) - 1) /\ Stop(r)
               /\ \A g \in (r + 1)..(Len(c) - 1) : ~Stop(g)
<1>. DEFINE limit == GetCompact(powLimit)
            Stop(h) == h = 0 \/ h % i = 0 \/ c[h + 1].bits # limit
            n == Len(c) - 1
            Right(r) == Stop(r) /\ \A g \in (r + 1)..n : ~Stop(g)
            S == {d \in 0..n : Stop(n - d)}
<1>1. n \in Nat BY SMT DEF Chains
<1>2. LastRegular(c, i) = CHOOSE r \in 0..n : Right(r)
  BY DEF LastRegular
<1>3. Stop(0) OBVIOUS
<1>. HIDE DEF n, limit, Stop
<1>4. S \subseteq Nat /\ n \in S
  BY <1>1, <1>3, SMT
<1>5. \E d \in S : \A m \in S : ~ (<<m, d>> \in OpToRel(<, Nat))
  <2>. HIDE DEF S
  <2>. QED BY <1>4, NatLessThanWellFounded, WFMin
<1>6. PICK d \in S : \A m \in S : ~ (m < d)
  BY <1>4, <1>5 DEF OpToRel
<1>7. n - d \in 0..n /\ Stop(n - d)
  BY <1>1, <1>6, SMT
<1>8. \A g \in (n - d + 1)..n : ~Stop(g)
  <2>. SUFFICES ASSUME NEW g \in (n - d + 1)..n, Stop(g) PROVE FALSE
    OBVIOUS
  <2>1. d \in 0..n
    BY <1>6
  <2>2. n - g \in 0..n /\ n - (n - g) = g /\ n - g < d
    BY <1>1, <2>1, SMT
  <2>3. n - g \in S
    BY <2>2
  <2>. QED BY <1>6, <2>2, <2>3
<1>9. \E r \in 0..n : Right(r)
  BY <1>7, <1>8
<1>10. LastRegular(c, i) \in 0..n /\ Right(LastRegular(c, i))
  <2>. HIDE DEF Right
  <2>. QED BY <1>2, <1>9
<1>. QED BY <1>10 DEF n, limit, Stop

\* What GetNextWorkRequired computes at the end of an interval.
LEMMA Retarget ==
    ASSUME NEW c \in Chains, Len(c) > 0, NEW time, ~fPowNoRetargeting,
           Len(c) % DifficultyAdjustmentIntervalAtHeight(Len(c)) = 0
    PROVE  LET h      == Len(c)
               t      == PowTargetTimespanAtHeight(h)
               i      == DifficultyAdjustmentIntervalAtHeight(h)
               first  == c[FirstHeight(h - 1, i) + 1].time
               actual == Clamp(c[h].time - first, SmallestTimespan(h, t), LargestTimespan(h, t))
           IN  /\ GetNextWorkRequired(c, time) = GetCompact(Scaled(c[h].bits, actual, t))
               /\ first \in Int /\ actual \in Nat
               /\ Scaled(c[h].bits, actual, t) \in 0..powLimit
<1>. DEFINE h == Len(c)
            t == PowTargetTimespanAtHeight(h)
            i == DifficultyAdjustmentIntervalAtHeight(h)
            low == SmallestTimespan(h, t)
            high == LargestTimespan(h, t)
            first == c[FirstHeight(h - 1, i) + 1].time
            actual == Clamp(c[h].time - first, low, high)
<1>1. /\ h \in Nat \ {0} /\ c[h].time \in Int /\ c[h].bits \in Compact
      /\ \A k \in 1..h : c[k].time \in Int
  BY HeaderLemma DEF Chains
<1>2. t \in Nat \ {0} /\ i \in Nat \ {0} /\ h % i = 0 BY <1>1, ScheduleSane
<1>3. GetNextWorkRequired(c, time) = GetCompact(Scaled(c[h].bits, actual, t))
  BY <1>2 DEF GetNextWorkRequired, CalculateNextWorkRequiredForTimespan
<1>4. low \in Nat /\ high \in Nat /\ low <= high BY <1>1, <1>2, BoundsOrdered
<1>. HIDE DEF h, t, i, low, high
<1>5. first \in Int
  <2>1. FirstHeight(h - 1, i) + 1 \in 1..h BY <1>1, <1>2, AnchorExists
  <2>. QED BY <1>1, <2>1
<1>. HIDE DEF first
<1>6. actual \in low..high
  <2>1. c[h].time - first \in Int BY <1>1, <1>5, SMT
  <2>. QED BY <1>4, <2>1, ClampLemma
<1>7. actual \in Nat BY <1>4, <1>6, SMT
<1>. HIDE DEF actual
<1>8. Scaled(c[h].bits, actual, t) \in 0..powLimit
  <2>1. actual <= actual BY <1>7, SMT
  <2>. QED BY <1>1, <1>2, <1>7, <2>1, ScaledMonotone
<1>. QED BY <1>3, <1>5, <1>7, <1>8 DEF h, t, i, low, high, first, actual

\* The bits required after a chain of encoded targets are an encoded target.
LEMMA RequiredCompact ==
    ASSUME NEW c \in Chains, Len(c) > 0, NEW time
    PROVE  GetNextWorkRequired(c, time) \in Compact
<1>. DEFINE h == Len(c)
            i == DifficultyAdjustmentIntervalAtHeight(h)
<1>1. /\ h \in Nat \ {0} /\ c[h].bits \in Compact /\ \A k \in 1..h : c[k].bits \in Compact
  BY HeaderLemma DEF Chains
<1>2. i \in Nat \ {0} BY <1>1, ScheduleSane
<1>3. GetCompact(powLimit) \in Compact BY PowAssumption, SMT DEF Compact
<1>4. CASE h % i # 0
  <2>1. LastRegular(c, i) \in 0..(h - 1) BY <1>2, RegularExists
  <2>2. LastRegular(c, i) + 1 \in 1..h BY <1>1, <2>1, SMT
  <2>. QED BY <1>1, <1>3, <1>4, <2>2 DEF GetNextWorkRequired
<1>5. CASE h % i = 0 /\ fPowNoRetargeting
  BY <1>1, <1>5 DEF GetNextWorkRequired, CalculateNextWorkRequiredForTimespan
<1>6. CASE h % i = 0 /\ ~fPowNoRetargeting
  <2>1. PICK n \in 0..powLimit : GetNextWorkRequired(c, time) = GetCompact(n)
    BY <1>6, Retarget
  <2>. QED BY <2>1 DEF Compact
<1>. QED BY <1>4, <1>5, <1>6

\* The chain starts from the genesis header.
LEMMA InitRInv == PowInit => RInv
<1>. SUFFICES ASSUME PowInit PROVE RInv OBVIOUS
<1>. DEFINE g == [time |-> 0, bits |-> GetCompact(GenesisTarget)]
<1>1. g \in [time : Int, bits : Compact]
  <2>1. GetCompact(GenesisTarget) \in Compact BY PowAssumption, SMT DEF Compact
  <2>. QED BY <2>1, SMT
<1>2. chain = <<g>> BY DEF PowInit
<1>. HIDE DEF g
<1>3. chain \in Chains /\ Len(chain) = 1 BY <1>1, <1>2, SMT DEF Chains
<1>4. Heights = {} BY <1>3, SMT DEF Heights
<1>. QED BY <1>3, <1>4, SMT DEF RInv

\* A header added by AcceptBlockHeader has the required bits; a fork from an
\* earlier header keeps the headers before it.
LEMMA NextRInv == RInv /\ [PowNext]_powVars => RInv'
<1>. SUFFICES ASSUME RInv, [PowNext]_powVars PROVE RInv' OBVIOUS
<1>. DEFINE H == [time : Int, bits : Compact]
            Good(c, h) == c[h + 1].bits = GetNextWorkRequired(SubSeq(c, 1, h), c[h + 1].time)
<1>1. /\ chain \in Chains /\ Len(chain) \in Nat \ {0} /\ Len(chain) > 0
      /\ \A h \in 1..(Len(chain) - 1) : Good(chain, h)
  BY SMT DEF RInv, Heights, Bits, Time, Chains
<1>2. ASSUME chain' \in Chains, Len(chain') > 0, \A h \in 1..(Len(chain') - 1) : Good(chain', h)
      PROVE  RInv'
  BY <1>2 DEF RInv, Heights, Bits, Time
<1>3. ASSUME chain' \in Chains, NEW h \in 1..(Len(chain) - 1), h + 1 \in 1..Len(chain'),
             \A k \in 1..(h + 1) : chain'[k] = chain[k]
      PROVE  Good(chain', h)
  <2>1. h \in 1..Len(chain) /\ h \in 1..Len(chain') /\ h + 1 \in 1..(h + 1)
        /\ \A k \in 1..h : chain'[k] = chain[k]
    BY <1>1, <1>3, SMT DEF Chains
  <2>2. SubSeq(chain', 1, h) = SubSeq(chain, 1, h) BY <1>1, <1>3, <2>1, SamePrefix
  <2>3. chain'[h + 1] = chain[h + 1] BY <1>3, <2>1
  <2>. QED BY <1>1, <2>2, <2>3
<1>. HIDE DEF Good
<1>4. CASE UNCHANGED powVars
  BY <1>1, <1>2, <1>4 DEF powVars, Good
<1>5. CASE Fork
  <2>1. PICK n \in 1..(Len(chain) - 1) : chain' = SubSeq(chain, 1, n) BY <1>5 DEF Fork
  <2>2. n \in 1..Len(chain) BY <1>1, SMT
  <2>3. chain' \in Chains /\ Len(chain') = n /\ \A k \in 1..n : chain'[k] = chain[k]
    BY <1>1, <2>1, <2>2, Prefix
  <2>4. ASSUME NEW h \in 1..(n - 1) PROVE Good(chain', h)
    <3>1. h \in 1..(Len(chain) - 1) /\ h + 1 \in 1..n /\ \A k \in 1..(h + 1) : k \in 1..n
      BY <2>2, SMT
    <3>. QED BY <1>3, <2>3, <3>1
  <2>. QED BY <1>2, <2>2, <2>3, <2>4, SMT
<1>6. CASE \E e \in Elapsed : AcceptHeader(chain[Len(chain)].time + e)
  <2>1. PICK e \in Elapsed : AcceptHeader(chain[Len(chain)].time + e) BY <1>6
  <2>. DEFINE n == Len(chain)
              time == chain[n].time + e
              bits == GetNextWorkRequired(chain, time)
              new == [time |-> time, bits |-> bits]
  <2>2. chain' = Append(chain, new) BY <2>1 DEF AcceptHeader
  <2>3. time \in Int
    <3>1. chain[n].time \in Int BY <1>1, HeaderLemma DEF Chains
    <3>2. e \in Int BY PowAssumption
    <3>. QED BY <3>1, <3>2, SMT
  <2>. HIDE DEF time
  <2>4. bits \in Compact BY <1>1, RequiredCompact
  <2>. HIDE DEF bits
  <2>5. new \in H /\ new.bits = bits /\ new.time = time BY <2>3, <2>4
  <2>. HIDE DEF new, H
  <2>6. /\ chain' \in Seq(H) /\ Len(chain') = n + 1
        /\ \A k \in 1..n : chain'[k] = chain[k]
        /\ chain'[n + 1] = new
    BY <1>1, <2>2, <2>5, SMT DEF Chains, H
  <2>7. chain' \in Chains BY <2>6 DEF Chains, H
  <2>8. Good(chain', n)
    <3>1. SubSeq(chain', 1, n) = SubSeq(chain, 1, n)
      <4>1. n \in 1..Len(chain) /\ n \in 1..Len(chain') BY <1>1, <2>6, SMT
      <4>. QED BY <1>1, <2>6, <2>7, <4>1, SamePrefix
    <3>2. SubSeq(chain, 1, n) = chain BY <1>1, SMT DEF Chains
    <3>. QED BY <2>5, <2>6, <3>1, <3>2 DEF Good, bits
  <2>9. ASSUME NEW h \in 1..(n - 1) PROVE Good(chain', h)
    <3>1. h + 1 \in 1..Len(chain') /\ \A k \in 1..(h + 1) : k \in 1..n
      BY <1>1, <2>6, SMT
    <3>. QED BY <1>3, <2>6, <2>7, <3>1
  <2>10. \A h \in 1..(Len(chain') - 1) : Good(chain', h)
    <3>1. \A h \in 1..(Len(chain') - 1) : h = n \/ h \in 1..(n - 1) BY <1>1, <2>6, SMT
    <3>. QED BY <2>8, <2>9, <3>1
  <2>. QED BY <1>1, <1>2, <2>6, <2>7, <2>10, SMT
<1>. QED BY <1>4, <1>5, <1>6 DEF PowNext

LEMMA RequiredInvariant == PowSpec => []RInv
  BY InitRInv, NextRInv, PTL DEF PowSpec

\* A header and the chain before it.
LEMMA AtHeight ==
    ASSUME RInv, NEW h \in Heights
    PROVE  /\ h \in Nat \ {0} /\ SubSeq(chain, 1, h) \in Chains /\ Len(SubSeq(chain, 1, h)) = h
           /\ \A k \in 0..(h - 1) : SubSeq(chain, 1, h)[k + 1].bits = Bits(k)
                                    /\ SubSeq(chain, 1, h)[k + 1].time = Time(k)
           /\ SubSeq(chain, 1, h)[h].bits = Bits(h - 1) /\ SubSeq(chain, 1, h)[h].time = Time(h - 1)
           /\ Bits(h) = GetNextWorkRequired(SubSeq(chain, 1, h), Time(h))
           /\ \A k \in 0..h : Bits(k) \in Compact /\ Time(k) \in Int
<1>1. chain \in Chains /\ Len(chain) \in Nat /\ h \in 1..(Len(chain) - 1)
  BY SMT DEF RInv, Heights, Chains
<1>2. h \in 1..Len(chain) /\ \A k \in 0..h : k + 1 \in 1..Len(chain)
  BY <1>1, SMT
<1>3. /\ SubSeq(chain, 1, h) \in Chains /\ Len(SubSeq(chain, 1, h)) = h
      /\ \A k \in 1..h : SubSeq(chain, 1, h)[k] = chain[k]
  BY <1>1, <1>2, Prefix
<1>4. \A k \in 0..(h - 1) : k + 1 \in 1..h
  BY <1>1, SMT
<1>5. h - 1 \in 0..(h - 1) /\ (h - 1) + 1 = h
  BY <1>1, SMT
<1>6. \A k \in 1..Len(chain) : chain[k].bits \in Compact /\ chain[k].time \in Int
  BY <1>1, HeaderLemma DEF RInv, Chains
<1>. QED BY <1>1, <1>2, <1>3, <1>4, <1>5, <1>6, SMT DEF RInv, Bits, Time

\* Headers presync accepts every chain that full header validation accepts: all
\* of its transitions are permitted (GetNextWorkRequired against
\* PermittedDifficultyTransition), on every schedule of activations.
THEOREM PowPermitted == PowSpec => []PermittedChain
<1>1. ASSUME RInv PROVE PermittedChain
  <2>1. CASE fPowAllowMinDifficultyBlocks
    BY <2>1 DEF PermittedChain, PermittedDifficultyTransition
  <2>2. CASE ~fPowAllowMinDifficultyBlocks
    <3>. SUFFICES ASSUME NEW h \in Heights
                  PROVE  PermittedDifficultyTransition(h, Bits(h - 1), Bits(h))
      BY DEF PermittedChain
    <3>. DEFINE c == SubSeq(chain, 1, h)
    <3>1. h \in Nat \ {0} /\ c \in Chains /\ Len(c) = h /\ c[h].bits = Bits(h - 1)
          /\ Bits(h) = GetNextWorkRequired(c, Time(h))
      BY <1>1, AtHeight
    <3>. HIDE DEF c
    <3>2. Len(c) > 0 /\ c \in Seq([time : Int, bits : Compact]) BY <3>1, SMT DEF Chains
    <3>3. PermittedDifficultyTransition(Len(c), c[Len(c)].bits, GetNextWorkRequired(c, Time(h)))
      BY <2>2, <3>2, RequiredIsPermitted
    <3>. QED BY <3>1, <3>3
  <2>. QED BY <2>1, <2>2
<1>. QED BY <1>1, RequiredInvariant, PTL

-----------------------------------------------------------------------------
(* One-block intervals.                                                      *)

\* The V3 step limit leaves room for an eighth (it is a quarter on the main
\* network, rounded down to a second).
StepsMatter ==
    nPowRetargetV3MaxFactorNum > 0 /\ nPowRetargetV3MaxFactorDen > 0 =>
        8 * ((nPowRetargetV2Timespan * nPowRetargetV3MaxFactorNum) \div nPowRetargetV3MaxFactorDen)
            >= 9 * nPowRetargetV2Timespan

LEMMA LargestStep ==
    ASSUME StepsMatter, NEW h \in Nat, NEW t \in Nat
    PROVE  8 * LargestTimespan(h, t) >= 9 * t
<1>1. CASE ~TightBounds(h, t)
  BY <1>1, SMT DEF LargestTimespan
<1>2. CASE TightBounds(h, t)
  BY <1>2, PowAssumption DEF TightBounds, LargestTimespan, StepsMatter
<1>. QED BY <1>1, <1>2

\* The target of encoded bits is encoded without loss.
LEMMA TargetFacts ==
    ASSUME NEW bits \in Compact
    PROVE  /\ SetCompact(bits) \in 0..powLimit /\ SetCompact(bits) \in Nat
           /\ Round(SetCompact(bits)) = SetCompact(bits)
<1>1. PICK n \in 0..powLimit : bits = GetCompact(n) BY DEF Compact
<1>2. SetCompact(bits) = Round(n) BY <1>1 DEF Round
<1>3. Round(n) \in 0..n /\ Round(Round(n)) = Round(n) BY RoundAssumption
<1>4. n \in Nat /\ n <= powLimit /\ powLimit \in Nat BY PowAssumption, SMT
<1>. QED BY <1>2, <1>3, <1>4, SMT

\* A timespan longer by an eighth scales a target up by an eighth, rounded down.
LEMMA ScaledUp ==
    ASSUME NEW x \in Nat, NEW a \in Nat, NEW t \in Nat \ {0}, 8 * a >= 9 * t
    PROVE  (x * a) \div t \in Nat /\ 8 * ((x * a) \div t) >= 9 * x - 7
<1>. DEFINE q == (x * a) \div t
<1>1. x * a \in Nat BY TimesMonotone, SMT
<1>2. q \in Nat /\ x * a < (q + 1) * t
  BY <1>1, SMT
<1>. HIDE DEF q
<1>3. x * (9 * t) <= x * (8 * a) BY TimesMonotone, SMT
<1>4. x * (9 * t) = t * (9 * x) /\ x * (8 * a) = 8 * (x * a) /\ 8 * ((q + 1) * t) = t * (8 * (q + 1))
  BY <1>2, SMT
<1>5. t * (9 * x) < t * (8 * (q + 1))
  <2>1. 8 * (x * a) < 8 * ((q + 1) * t) BY <1>1, <1>2, SMT
  <2>2. (q + 1) * t \in Nat /\ t * (9 * x) \in Nat
    <3>1. 9 * x \in Nat /\ q + 1 \in Nat BY <1>2, SMT
    <3>. QED BY <3>1, TimesMonotone, SMT
  <2>. QED BY <1>1, <1>3, <1>4, <2>1, <2>2, SMT
<1>6. 9 * x < 8 * (q + 1)
  <2>. SUFFICES ASSUME 8 * (q + 1) <= 9 * x PROVE FALSE
    BY <1>2, SMT
  <2>1. t * (8 * (q + 1)) <= t * (9 * x)
    <3>1. 8 * (q + 1) \in Nat /\ 9 * x \in Nat BY <1>2, SMT
    <3>. QED BY <3>1, TimesMonotone
  <2>2. t * (8 * (q + 1)) \in Nat /\ t * (9 * x) \in Nat
    <3>1. 8 * (q + 1) \in Nat /\ 9 * x \in Nat BY <1>2, SMT
    <3>. QED BY <3>1, TimesMonotone
  <2>. QED BY <1>5, <2>1, <2>2, SMT
<1>. QED BY <1>2, <1>6, SMT DEF q

\* The rule of a one-block interval, for a target x and the clamped time a.
LEMMA OneBlockStep ==
    ASSUME NEW bits \in Compact, NEW a \in Nat, NEW t \in Nat \ {0}
    PROVE  LET x == SetCompact(bits)
               y == Round(Scaled(bits, a, t))
           IN  /\ a >= t => y >= x
               /\ a <= t => y <= x
               /\ 8 * a >= 9 * t /\ x >= 8 /\ x < Round(powLimit) => y > x
<1>. DEFINE x == SetCompact(bits)
            n == Scaled(bits, a, t)
<1>1. x \in 0..powLimit /\ x \in Nat /\ Round(x) = x /\ powLimit \in Nat
  BY TargetFacts, PowAssumption
<1>2. Scaled(bits, t, t) = x
  <2>1. (x * t) \div t = x BY <1>1, SMT
  <2>. QED BY <1>1, <2>1, SMT DEF Scaled, AtMostLimit
<1>3. n = AtMostLimit((x * a) \div t) BY DEF Scaled
<1>. HIDE DEF x, n
<1>4. n \in 0..powLimit
  <2>1. a <= a BY SMT
  <2>. QED BY <2>1, ScaledMonotone DEF n
<1>5. \A k \in 0..powLimit : Round(k) \in Nat
  <2>1. \A k \in 0..powLimit : Round(k) \in 0..k BY RoundAssumption
  <2>. QED BY <2>1, SMT
<1>6. ASSUME a >= t PROVE Round(n) >= x
  <2>1. x <= n
    <3>1. t <= a /\ t \in Nat BY <1>6
    <3>. QED BY <1>2, <3>1, ScaledMonotone DEF n
  <2>2. Round(x) <= Round(n) BY <1>1, <1>4, <2>1, RoundAssumption
  <2>. QED BY <1>1, <1>4, <1>5, <2>2
<1>7. ASSUME a <= t PROVE Round(n) <= x
  <2>1. n <= x
    <3>1. t \in Nat OBVIOUS
    <3>. QED BY <1>2, <1>7, <3>1, ScaledMonotone DEF n
  <2>2. Round(n) <= Round(x) BY <1>1, <1>4, <2>1, RoundAssumption
  <2>. QED BY <1>1, <2>2
<1>8. ASSUME 8 * a >= 9 * t, x >= 8, x < Round(powLimit) PROVE Round(n) > x
  <2>1. (x * a) \div t \in Nat /\ 8 * ((x * a) \div t) >= 9 * x - 7
    BY <1>1, <1>8, ScaledUp
  <2>2. CASE (x * a) \div t > powLimit
    <3>1. n = powLimit BY <1>3, <2>2 DEF AtMostLimit
    <3>2. Round(powLimit) \in Nat BY <1>1, <1>5, SMT
    <3>. QED BY <1>1, <1>8, <3>1, <3>2
  <2>3. CASE ~ ((x * a) \div t > powLimit)
    <3>1. n = (x * a) \div t BY <1>3, <2>3 DEF AtMostLimit
    <3>2. 8 * n >= 9 * x - 7 BY <2>1, <3>1
    <3>. QED BY <1>1, <1>4, <1>8, <3>2, RoundAssumption
  <2>. QED BY <2>2, <2>3
<1>. QED BY <1>6, <1>7, <1>8 DEF x, n

\* For every schedule, clock and chain of blocks, a one-block retarget
\* (GetNextWorkRequired with the previous block as the anchor) follows the time
\* the last block took: it never moves against it, and a slow block always makes
\* the next one easier.
THEOREM PowFollowsTime ==
    ASSUME ~fPowNoRetargeting, StepsMatter
    PROVE  PowSpec => []FollowsTime
<1>1. ASSUME RInv PROVE FollowsTime
  <2>. SUFFICES ASSUME NEW h \in Heights \ {1}, DifficultyAdjustmentIntervalAtHeight(h) = 1
                PROVE  LET elapsed == Time(h - 1) - Time(h - 2)
                           timespan == PowTargetTimespanAtHeight(h)
                       IN  /\ elapsed >= timespan => Target(h) >= Target(h - 1)
                           /\ elapsed <= timespan => Target(h) <= Target(h - 1)
                           /\ 8 * elapsed >= 9 * timespan /\ Target(h - 1) \in 8..Round(powLimit) - 1
                                 => Target(h) > Target(h - 1)
    BY DEF FollowsTime
  <2>. DEFINE c == SubSeq(chain, 1, h)
              elapsed == Time(h - 1) - Time(h - 2)
              t == PowTargetTimespanAtHeight(h)
              low == SmallestTimespan(h, t)
              high == LargestTimespan(h, t)
              a == Clamp(elapsed, low, high)
              b == Bits(h - 1)
  <2>1. /\ h \in Nat \ {0} /\ c \in Chains /\ Len(c) = h /\ c[h].bits = b
        /\ c[h].time = Time(h - 1) /\ Bits(h) = GetNextWorkRequired(c, Time(h))
    BY <1>1, AtHeight
  <2>2. /\ \A k \in 0..(h - 1) : c[k + 1].time = Time(k)
        /\ \A k \in 0..h : Bits(k) \in Compact /\ Time(k) \in Int
    BY <1>1, AtHeight
  <2>3. h - 1 \in 0..h /\ h - 2 \in 0..h /\ h - 2 \in 0..(h - 1) /\ (h - 2) + 1 = h - 1
    BY <2>1, SMT
  <2>4. b \in Compact /\ elapsed \in Int /\ c[h - 1].time = Time(h - 2)
    <3>1. c[(h - 2) + 1].time = Time(h - 2) BY <2>2, <2>3
    <3>2. b \in Compact /\ Time(h - 1) \in Int /\ Time(h - 2) \in Int BY <2>2, <2>3
    <3>3. elapsed \in Int BY <3>2, SMT
    <3>. QED BY <2>3, <3>1, <3>2, <3>3
  <2>5. t \in Nat \ {0} BY <2>1, ScheduleSane
  <2>6. low \in Nat /\ high \in Nat /\ low <= t /\ t <= high /\ 8 * high >= 9 * t
    BY <2>1, <2>5, BoundsOrdered, LargestStep
  <2>7. FirstHeight(h - 1, 1) + 1 = h - 1 /\ h % 1 = 0 /\ h > 0
    BY <2>1, SMT DEF FirstHeight
  <2>. HIDE DEF c, b
  <2>8. Bits(h) = GetCompact(Scaled(b, a, t))
    BY <2>1, <2>4, <2>7, Retarget
  <2>9. Target(h) = Round(Scaled(b, a, t)) /\ Target(h - 1) = SetCompact(b)
    BY <2>8 DEF Target, Round, b
  <2>. HIDE DEF elapsed, t, low, high
  <2>10. /\ a \in Nat /\ (elapsed >= t => a >= t) /\ (elapsed <= t => a <= t)
         /\ 8 * elapsed >= 9 * t => 8 * a >= 9 * t
    BY <2>4, <2>5, <2>6, SMT DEF Clamp
  <2>. HIDE DEF a
  <2>11. SetCompact(b) \in Nat /\ Round(powLimit) \in Nat
    <3>1. powLimit \in 0..powLimit /\ powLimit \in Nat BY PowAssumption, SMT
    <3>2. Round(powLimit) \in 0..powLimit BY <3>1, RoundAssumption
    <3>. QED BY <2>4, <3>1, <3>2, TargetFacts, SMT
  <2>12. /\ a >= t => Round(Scaled(b, a, t)) >= SetCompact(b)
         /\ a <= t => Round(Scaled(b, a, t)) <= SetCompact(b)
         /\ 8 * a >= 9 * t /\ SetCompact(b) >= 8 /\ SetCompact(b) < Round(powLimit)
               => Round(Scaled(b, a, t)) > SetCompact(b)
    BY <2>4, <2>5, <2>10, OneBlockStep
  <2>13. SetCompact(b) \in 8..Round(powLimit) - 1 => SetCompact(b) >= 8 /\ SetCompact(b) < Round(powLimit)
    BY <2>11, SMT
  <2>14. /\ elapsed >= t => Target(h) >= Target(h - 1)
         /\ elapsed <= t => Target(h) <= Target(h - 1)
         /\ 8 * elapsed >= 9 * t /\ Target(h - 1) \in 8..Round(powLimit) - 1
               => Target(h) > Target(h - 1)
    BY <2>9, <2>10, <2>12, <2>13
  <2>. QED BY <2>14 DEF elapsed, t
<1>. QED BY <1>1, RequiredInvariant, PTL

-----------------------------------------------------------------------------
(* Networks with minimum-difficulty blocks.                                  *)

\* No activation changes the length of an interval.
OneSchedule ==
    \A h \in Nat : DifficultyAdjustmentIntervalAtHeight(h) = DifficultyAdjustmentIntervalAtHeight(0)

\* Quotient and remainder are unique.
LEMMA Remainder ==
    ASSUME NEW i \in Nat \ {0}, NEW q \in Nat, NEW r \in 0..(i - 1)
    PROVE  (i * q + r) % i = r /\ (i * q + r) \div i = q
<1>. DEFINE x == i * q + r
            p == x \div i
<1>0. i * q \in Nat BY TimesMonotone, SMT
<1>1. x \in Nat BY <1>0, SMT
<1>2. p \in Nat /\ x = i * p + (x % i) /\ x % i \in 0..(i - 1)
  <2>. HIDE DEF x
  <2>. QED BY <1>1, SMT
<1>3. x = i * q + r OBVIOUS
<1>. HIDE DEF x, p
<1>4. i * p \in Nat BY <1>2, TimesMonotone, SMT
<1>5. ~ (p + 1 <= q)
  <2>. SUFFICES ASSUME p + 1 <= q PROVE FALSE OBVIOUS
  <2>1. i * (p + 1) <= i * q BY <1>2, TimesMonotone, SMT
  <2>2. i * (p + 1) = i * p + i BY <1>2, SMT
  <2>. QED BY <1>0, <1>2, <1>3, <1>4, <2>1, <2>2, SMT
<1>6. ~ (q + 1 <= p)
  <2>. SUFFICES ASSUME q + 1 <= p PROVE FALSE OBVIOUS
  <2>1. i * (q + 1) <= i * p BY <1>2, TimesMonotone, SMT
  <2>2. i * (q + 1) = i * q + i BY SMT
  <2>. QED BY <1>0, <1>2, <1>3, <1>4, <2>1, <2>2, SMT
<1>7. p = q BY <1>2, <1>5, <1>6, SMT
<1>8. x % i = r BY <1>0, <1>2, <1>3, <1>7, SMT
<1>. QED BY <1>7, <1>8 DEF x, p

\* Heights up to the one before h that are in the interval of h.
LEMMA SameInterval ==
    ASSUME NEW i \in Nat \ {0}, NEW h \in Nat, h % i # 0,
           NEW g \in Nat, h - (h % i) < g, g < h
    PROVE  g % i # 0 /\ g - (g % i) = h - (h % i)
<1>. DEFINE q == h \div i
            s == h - (h % i)
<1>1. q \in Nat /\ h = i * q + (h % i) /\ h % i \in 0..(i - 1) BY SMT
<1>2. s = i * q /\ s \in Nat /\ g - s \in 1..(i - 1) BY <1>1, SMT
<1>. HIDE DEF q, s
<1>3. g = i * q + (g - s) BY <1>2, SMT
<1>4. g % i = g - s
  <2>1. g - s \in 0..(i - 1) BY <1>2, SMT
  <2>2. (i * q + (g - s)) % i = g - s BY <1>1, <2>1, Remainder
  <2>. QED BY <1>3, <2>2
<1>. QED BY <1>2, <1>4, SMT DEF s

\* Where an interval starts.
LEMMA IntervalStart ==
    ASSUME NEW i \in Nat \ {0}, NEW h \in Nat
    PROVE  h - (h % i) \in 0..h /\ (h - (h % i)) % i = 0
<1>. DEFINE q == h \div i
<1>1. q \in Nat /\ h = i * q + (h % i) /\ h % i \in 0..(i - 1) /\ i * q \in Nat BY SMT
<1>. HIDE DEF q
<1>2. h - (h % i) = i * q + 0 /\ 0 \in 0..(i - 1) BY <1>1, SMT
<1>3. (i * q + 0) % i = 0 BY <1>1, <1>2, Remainder
<1>4. h - (h % i) \in 0..h BY <1>1, <1>2, SMT
<1>. QED BY <1>2, <1>3, <1>4

\* On a network with minimum-difficulty blocks and one schedule, for any clock and
\* chain: a block has the minimum difficulty if it came late enough, and otherwise
\* the bits its interval started with (the walk back of GetNextWorkRequired).
THEOREM PowMinDifficulty ==
    ASSUME fPowAllowMinDifficultyBlocks, OneSchedule
    PROVE  PowSpec => []MinDifficultyIsTemporary
<1>. DEFINE i == DifficultyAdjustmentIntervalAtHeight(0)
            limit == GetCompact(powLimit)
            Late(h) == Time(h) > Time(h - 1) + 2 * nPowTargetSpacing
            Fine(h) == h % i # 0 => Bits(h) = IF Late(h) THEN limit ELSE Bits(h - (h % i))
<1>0. i \in Nat \ {0} /\ \A h \in Nat : DifficultyAdjustmentIntervalAtHeight(h) = i
  BY ScheduleSane DEF OneSchedule
<1>. HIDE DEF i
<1>1. ASSUME RInv, NEW h \in Heights, \A g \in Heights : g < h => Fine(g)
      PROVE  Fine(h)
  <2>. DEFINE c == SubSeq(chain, 1, h)
              r == LastRegular(c, i)
              s == h - (h % i)
              Stop(g) == g = 0 \/ g % i = 0 \/ c[g + 1].bits # limit
  <2>. SUFFICES ASSUME h % i # 0, ~Late(h) PROVE Bits(h) = Bits(s)
    <3>1. h % i # 0 /\ Late(h) => Bits(h) = limit
      <4>1. c \in Chains /\ Len(c) = h /\ c[h].time = Time(h - 1)
            /\ Bits(h) = GetNextWorkRequired(c, Time(h)) /\ h \in Nat
        BY <1>1, AtHeight
      <4>. QED BY <1>0, <4>1 DEF GetNextWorkRequired
    <3>. QED BY <3>1
  <2>1. c \in Chains /\ Len(c) = h /\ c[h].time = Time(h - 1)
        /\ Bits(h) = GetNextWorkRequired(c, Time(h)) /\ h \in Nat \ {0}
    BY <1>1, AtHeight
  <2>2. \A k \in 0..(h - 1) : c[k + 1].bits = Bits(k)
    BY <1>1, AtHeight
  <2>3. Bits(h) = c[r + 1].bits
    BY <1>0, <2>1 DEF GetNextWorkRequired
  <2>4. r \in 0..(h - 1) /\ Stop(r) /\ \A g \in (r + 1)..(h - 1) : ~Stop(g)
    <3>1. Len(c) > 0 BY <2>1, SMT
    <3>. HIDE DEF c
    <3>. QED BY <1>0, <2>1, <3>1, RegularExists
  <2>. HIDE DEF c, r
  <2>5. s \in 0..(h - 1) /\ Stop(s)
    <3>1. s \in 0..h /\ s % i = 0 BY <1>0, <2>1, IntervalStart
    <3>2. s # h BY <2>1, <3>1
    <3>. QED BY <2>1, <3>1, <3>2, SMT
  <2>. HIDE DEF s
  <2>6. s <= r
    <3>. SUFFICES ASSUME r + 1 <= s PROVE FALSE BY <2>1, <2>4, <2>5, SMT
    <3>1. s \in (r + 1)..(h - 1) BY <2>1, <2>4, <2>5, SMT
    <3>. QED BY <2>4, <2>5, <3>1
  <2>7. CASE r = s
    BY <2>2, <2>3, <2>4, <2>7
  <2>8. CASE r # s
    <3>1. r \in Nat /\ s < r /\ r < h /\ r \in Heights
      BY <1>1, <2>1, <2>4, <2>5, <2>6, <2>8, SMT DEF Heights
    <3>2. r % i # 0 /\ r - (r % i) = s
      BY <1>0, <2>1, <3>1, SameInterval DEF s
    <3>3. r # 0 BY <2>5, <3>1, SMT
    <3>4. Bits(r) # limit /\ Bits(h) = Bits(r)
      <4>1. c[r + 1].bits # limit BY <2>4, <3>2, <3>3
      <4>. QED BY <2>2, <2>3, <2>4, <4>1
    <3>5. Fine(r) BY <1>1, <3>1
    <3>. QED BY <3>2, <3>4, <3>5
  <2>. QED BY <2>7, <2>8
<1>2. ASSUME RInv PROVE \A h \in Heights : Fine(h)
  <2>. DEFINE Bad == {h \in Heights : ~Fine(h)}
  <2>. HIDE DEF Fine
  <2>1. Bad \subseteq Nat BY <1>2, SMT DEF Heights, RInv, Chains
  <2>. SUFFICES ASSUME Bad # {} PROVE FALSE OBVIOUS
  <2>2. \E h \in Bad : \A g \in Bad : ~ (<<g, h>> \in OpToRel(<, Nat))
    <3>. HIDE DEF Bad
    <3>. QED BY <2>1, NatLessThanWellFounded, WFMin
  <2>3. PICK h \in Bad : \A g \in Bad : ~ (g < h)
    BY <2>1, <2>2 DEF OpToRel
  <2>. QED BY <1>1, <1>2, <2>3
<1>3. ASSUME RInv PROVE MinDifficultyIsTemporary
  <2>1. \A h \in Heights : h \in Nat BY <1>3, SMT DEF Heights, RInv, Chains
  <2>. QED BY <1>0, <1>2, <1>3, <2>1 DEF MinDifficultyIsTemporary
<1>. QED BY <1>3, RequiredInvariant, PTL

-----------------------------------------------------------------------------
(* Issuance.                                                                 *)

\* A set of numbers that has 0 and the successors of its members has them all.
LEMMA Climb ==
    ASSUME NEW N \in Nat, NEW S \in SUBSET (0..N), 0 \in S,
           \A k \in 1..N : k - 1 \in S => k \in S
    PROVE  \A k \in 0..N : k \in S
<1>. DEFINE Bad == {k \in 0..N : k \notin S}
<1>. SUFFICES ASSUME Bad # {} PROVE FALSE OBVIOUS
<1>1. Bad \subseteq Nat BY SMT
<1>2. \E n \in Bad : \A m \in Bad : ~ (<<m, n>> \in OpToRel(<, Nat))
  <2>. HIDE DEF Bad
  <2>. QED BY <1>1, NatLessThanWellFounded, WFMin
<1>3. PICK n \in Bad : \A m \in Bad : ~ (m < n)
  BY <1>1, <1>2 DEF OpToRel
<1>4. n \in 1..N /\ n - 1 \in 0..N /\ n - 1 < n BY <1>3, SMT
<1>5. n - 1 \in S BY <1>3, <1>4
<1>. QED BY <1>3, <1>4, <1>5

\* A sequence of numbers given by its first element and its steps exists.
LEMMA StepsExist ==
    ASSUME NEW N \in Nat, NEW first \in Nat, NEW F \in [1..N -> [Nat -> Nat]]
    PROVE  \E g \in [0..N -> Nat] : g[0] = first /\ \A k \in 1..N : g[k] = F[k][g[k - 1]]
<1>. DEFINE Good(n, g) == g[0] = first /\ \A k \in 1..n : g[k] = F[k][g[k - 1]]
            S == {n \in 0..N : \E g \in [0..N -> Nat] : Good(n, g)}
<1>1. 0 \in S
  <2>. DEFINE g == [k \in 0..N |-> first]
  <2>1. g \in [0..N -> Nat] /\ Good(0, g) /\ 0 \in 0..N BY SMT
  <2>. HIDE DEF g
  <2>2. \E f \in [0..N -> Nat] : Good(0, f) BY <2>1
  <2>. QED BY <2>1, <2>2
<1>2. ASSUME NEW n \in 1..N, n - 1 \in S PROVE n \in S
  <2>1. PICK g \in [0..N -> Nat] : Good(n - 1, g) BY <1>2
  <2>2. n - 1 \in 0..N /\ n \in 0..N /\ n # 0 /\ n - 1 # n BY SMT
  <2>. DEFINE h == [g EXCEPT ![n] = F[n][g[n - 1]]]
  <2>3. F[n][g[n - 1]] \in Nat BY <2>2
  <2>4. h \in [0..N -> Nat] BY <2>3
  <2>5. \A k \in 0..N : k # n => h[k] = g[k] OBVIOUS
  <2>6. h[n] = F[n][h[n - 1]] BY <2>2
  <2>. HIDE DEF h
  <2>7. ASSUME NEW k \in 1..n PROVE h[k] = F[k][h[k - 1]]
    <3>1. CASE k = n BY <2>6, <3>1
    <3>2. CASE k # n
      <4>1. k \in 0..N /\ k - 1 \in 0..N /\ k - 1 # n /\ k \in 1..(n - 1) BY <3>2, SMT
      <4>. QED BY <2>1, <2>5, <3>2, <4>1
    <3>. QED BY <3>1, <3>2
  <2>8. h[0] = first
    <3>1. 0 \in 0..N /\ 0 # n BY SMT
    <3>. QED BY <2>1, <2>5, <3>1
  <2>9. Good(n, h) BY <2>7, <2>8
  <2>. QED BY <2>2, <2>4, <2>9
<1>3. S \subseteq 0..N OBVIOUS
<1>. HIDE DEF S
<1>4. N \in S
  <2>1. N \in 0..N /\ S \in SUBSET (0..N) BY <1>3, SMT
  <2>. QED BY <1>1, <1>2, <2>1, Climb
<1>. QED BY <1>4 DEF S

\* What shifting right computes.
LEMMA ShiftFacts ==
    ASSUME NEW n \in Nat
    PROVE  /\ ShiftRight(n, 0) = n
           /\ \A k \in 0..63 : ShiftRight(n, k) \in Nat
           /\ \A k \in 1..63 : 2 * ShiftRight(n, k) <= ShiftRight(n, k - 1)
<1>. DEFINE Good(g) == g = [k \in 0..63 |-> IF k = 0 THEN n ELSE g[k - 1] \div 2]
            half == CHOOSE g : Good(g)
<1>1. \A k : ShiftRight(n, k) = half[k] BY DEF ShiftRight
<1>2. \E g : Good(g)
  <2>. DEFINE F == [k \in 1..63 |-> [x \in Nat |-> x \div 2]]
  <2>1. F \in [1..63 -> [Nat -> Nat]] BY SMT
  <2>2. \E g \in [0..63 -> Nat] : g[0] = n /\ \A k \in 1..63 : g[k] = F[k][g[k - 1]]
    <3>. HIDE DEF F
    <3>1. 63 \in Nat OBVIOUS
    <3>. QED BY <2>1, <3>1, StepsExist
  <2>3. PICK g \in [0..63 -> Nat] : g[0] = n /\ \A k \in 1..63 : g[k] = F[k][g[k - 1]]
    BY <2>2
  <2>4. ASSUME NEW k \in 0..63 PROVE g[k] = IF k = 0 THEN n ELSE g[k - 1] \div 2
    <3>1. CASE k = 0 BY <2>3, <3>1
    <3>2. CASE k # 0
      <4>1. k \in 1..63 /\ k - 1 \in 0..63 BY <3>2, SMT
      <4>2. g[k - 1] \in Nat BY <4>1
      <4>. QED BY <2>3, <3>2, <4>1, <4>2
    <3>. QED BY <3>1, <3>2
  <2>5. Good(g) BY <2>4
  <2>. QED BY <2>5
<1>3. Good(half) BY <1>2
<1>. HIDE DEF half
<1>4. \A k \in 0..63 : half[k] = IF k = 0 THEN n ELSE half[k - 1] \div 2 BY <1>3
<1>5. \A k \in 0..63 : half[k] \in Nat
  <2>. DEFINE S == {k \in 0..63 : half[k] \in Nat}
  <2>1. 0 \in S BY <1>4, SMT
  <2>2. ASSUME NEW k \in 1..63, k - 1 \in S PROVE k \in S BY <1>4, <2>2, SMT
  <2>3. S \subseteq 0..63 OBVIOUS
  <2>. HIDE DEF S
  <2>4. \A k \in 0..63 : k \in S BY <2>1, <2>2, <2>3, Climb
  <2>. QED BY <2>4 DEF S
<1>6. \A k \in 1..63 : 2 * half[k] <= half[k - 1]
  <2>. SUFFICES ASSUME NEW k \in 1..63 PROVE 2 * half[k] <= half[k - 1] OBVIOUS
  <2>1. half[k - 1] \in Nat /\ half[k] = half[k - 1] \div 2 BY <1>4, <1>5, SMT
  <2>. QED BY <2>1, SMT
<1>7. half[0] = n BY <1>4, SMT
<1>. QED BY <1>1, <1>5, <1>6, <1>7

\* The subsidy of the blocks of an interval.
Reward(k) == ShiftRight(45 * COIN, k)

\* What the intervals before the k-th issue, and with it what a height does.
LEMMA IssuedForm ==
    \E f : /\ f[0] = 0
           /\ \A k \in 1..64 : f[k] = f[k - 1] + nSubsidyHalvingInterval * Reward(k - 1)
           /\ \A k \in 0..64 : f[k] \in Nat
           /\ \A h : LET n == (h - 1) \div nSubsidyHalvingInterval
                     IN  Issued(h) =
                           IF h = 0 THEN 0
                           ELSE Premine * COIN
                                + (IF n >= 64 THEN f[64]
                                   ELSE f[n] + ((h - 1) % nSubsidyHalvingInterval) * Reward(n))
<1>. DEFINE I == nSubsidyHalvingInterval
            Good(g) == g = [k \in 0..64 |-> IF k = 0 THEN 0 ELSE g[k - 1] + I * Reward(k - 1)]
            f == CHOOSE g : Good(g)
<1>1. \A h : LET n == (h - 1) \div nSubsidyHalvingInterval
             IN  Issued(h) = IF h = 0 THEN 0
                                   ELSE Premine * COIN
                                        + (IF n >= 64 THEN f[64]
                                           ELSE f[n] + ((h - 1) % nSubsidyHalvingInterval) * Reward(n))
  BY DEF Issued, Reward
<1>2. I \in Nat \ {0} /\ \A k \in 1..64 : I * Reward(k - 1) \in Nat
  <2>1. 45 * COIN \in Nat /\ I \in Nat \ {0} BY AmountsAssumption, SMT
  <2>2. \A k \in 0..63 : Reward(k) \in Nat BY <2>1, ShiftFacts DEF Reward
  <2>3. \A k \in 1..64 : k - 1 \in 0..63 BY SMT
  <2>. HIDE DEF I
  <2>. QED BY <2>1, <2>2, <2>3, SMT
<1>. HIDE DEF I
<1>3. \E g : Good(g)
  <2>. DEFINE F == [k \in 1..64 |-> [x \in Nat |-> x + I * Reward(k - 1)]]
  <2>1. F \in [1..64 -> [Nat -> Nat]]
    <3>1. \A k \in 1..64 : \A x \in Nat : x + I * Reward(k - 1) \in Nat BY <1>2, SMT
    <3>. QED BY <3>1
  <2>2. \E g \in [0..64 -> Nat] : g[0] = 0 /\ \A k \in 1..64 : g[k] = F[k][g[k - 1]]
    <3>. HIDE DEF F
    <3>1. 64 \in Nat /\ 0 \in Nat OBVIOUS
    <3>. QED BY <2>1, <3>1, StepsExist, ZenonT(30)
  <2>3. PICK g \in [0..64 -> Nat] : g[0] = 0 /\ \A k \in 1..64 : g[k] = F[k][g[k - 1]]
    BY <2>2
  <2>4. ASSUME NEW k \in 0..64 PROVE g[k] = IF k = 0 THEN 0 ELSE g[k - 1] + I * Reward(k - 1)
    <3>1. CASE k = 0 BY <2>3, <3>1
    <3>2. CASE k # 0
      <4>1. k \in 1..64 /\ k - 1 \in 0..64 BY <3>2, SMT
      <4>2. g[k - 1] \in Nat BY <4>1
      <4>3. F[k][g[k - 1]] = g[k - 1] + I * Reward(k - 1) BY <4>1, <4>2
      <4>. QED BY <2>3, <3>2, <4>1, <4>3
    <3>. QED BY <3>1, <3>2
  <2>5. Good(g) BY <2>4
  <2>. QED BY <2>5
<1>4. Good(f) BY <1>3
<1>. HIDE DEF f
<1>5. \A k \in 0..64 : f[k] = IF k = 0 THEN 0 ELSE f[k - 1] + I * Reward(k - 1) BY <1>4
<1>6. f[0] = 0 /\ \A k \in 1..64 : f[k] = f[k - 1] + I * Reward(k - 1)
  <2>1. \A k \in 1..64 : k \in 0..64 /\ k # 0 BY SMT
  <2>2. 0 \in 0..64 BY SMT
  <2>. QED BY <1>5, <2>1, <2>2
<1>7. \A k \in 0..64 : f[k] \in Nat
  <2>. DEFINE S == {k \in 0..64 : f[k] \in Nat}
  <2>1. 0 \in S BY <1>6, SMT
  <2>2. ASSUME NEW k \in 1..64, k - 1 \in S PROVE k \in S
    <3>1. f[k - 1] \in Nat /\ I * Reward(k - 1) \in Nat /\ f[k] = f[k - 1] + I * Reward(k - 1)
      BY <1>2, <1>6, <2>2
    <3>. QED BY <3>1, SMT
  <2>3. S \in SUBSET (0..64) /\ 64 \in Nat OBVIOUS
  <2>. HIDE DEF S
  <2>4. \A k \in 0..64 : k \in S BY <2>1, <2>2, <2>3, Climb
  <2>. QED BY <2>4 DEF S
<1>. QED BY <1>1, <1>6, <1>7 DEF I

\* The next height is in the same interval or starts the next one.
LEMMA NextQuotient ==
    ASSUME NEW a \in Nat, NEW i \in Nat \ {0}
    PROVE  /\ a \div i \in Nat /\ a % i \in 0..(i - 1)
           /\ (a % i) + 1 < i => (a + 1) \div i = a \div i /\ (a + 1) % i = (a % i) + 1
           /\ ~ ((a % i) + 1 < i) => /\ (a + 1) \div i = a \div i + 1 /\ (a + 1) % i = 0
                                   /\ a % i = i - 1
<1>. DEFINE q == a \div i
            r == a % i
<1>1. q \in Nat /\ r \in 0..(i - 1) /\ a = i * q + r /\ i * q \in Nat BY SMT
<1>. HIDE DEF q, r
<1>2. CASE r + 1 < i
  <2>1. r + 1 \in 0..(i - 1) /\ a + 1 = i * q + (r + 1) BY <1>1, <1>2, SMT
  <2>2. (i * q + (r + 1)) % i = r + 1 /\ (i * q + (r + 1)) \div i = q
    BY <1>1, <2>1, Remainder
  <2>3. (a + 1) \div i = q /\ (a + 1) % i = r + 1 BY <2>1, <2>2
  <2>. QED BY <1>1, <1>2, <2>3 DEF q, r
<1>3. CASE ~ (r + 1 < i)
  <2>1. 0 \in 0..(i - 1) /\ r = i - 1 /\ q + 1 \in Nat BY <1>1, <1>3, SMT
  <2>2. i * (q + 1) = i * q + i BY <1>1, SMT
  <2>3. a + 1 = i * (q + 1) + 0 BY <1>1, <2>1, <2>2, SMT
  <2>4. (i * (q + 1) + 0) % i = 0 /\ (i * (q + 1) + 0) \div i = q + 1
    BY <2>1, Remainder
  <2>5. (a + 1) \div i = q + 1 /\ (a + 1) % i = 0 BY <2>3, <2>4
  <2>. QED BY <1>1, <1>3, <2>1, <2>5 DEF q, r
<1>. QED BY <1>2, <1>3 DEF q, r

\* GetBlockSubsidy issues what the sum over the intervals says.
LEMMA IssuedStep ==
    ASSUME NEW h \in Nat
    PROVE  /\ Issued(h) \in Nat /\ GetBlockSubsidy(h + 1) \in Nat
           /\ Issued(h + 1) = Issued(h) + GetBlockSubsidy(h + 1)
<1>. DEFINE I == nSubsidyHalvingInterval
            P == Premine * COIN
<1>1. PICK f : /\ f[0] = 0 /\ \A k \in 1..64 : f[k] = f[k - 1] + I * Reward(k - 1)
               /\ \A k \in 0..64 : f[k] \in Nat
               /\ \A x : LET n == (x - 1) \div I
                         IN  Issued(x) =
                               IF x = 0 THEN 0
                               ELSE P + (IF n >= 64 THEN f[64] ELSE f[n] + ((x - 1) % I) * Reward(n))
  BY IssuedForm
<1>2. I \in Nat \ {0} /\ P \in Nat /\ \A k \in 0..63 : Reward(k) \in Nat
  <2>1. 45 * COIN \in Nat /\ I \in Nat \ {0} /\ P \in Nat BY AmountsAssumption, SMT
  <2>. QED BY <2>1, ShiftFacts DEF Reward
<1>3. GetBlockSubsidy(h + 1) = IF h = 0 THEN P
                                     ELSE IF (h - 1) \div I >= 64 THEN 0 ELSE Reward((h - 1) \div I)
  <2>1. (h + 1) - 2 = h - 1 /\ (h + 1 = 1 <=> h = 0) /\ (h # 0 => ~ (h + 1 < 2)) BY SMT
  <2>. QED BY <2>1 DEF GetBlockSubsidy, Reward
<1>. HIDE DEF I, P
<1>4. CASE h = 0
  <2>1. Issued(0) = 0 BY <1>1
  <2>2. Issued(1) = P
    <3>1. (1 - 1) \div I = 0 /\ (1 - 1) % I = 0 /\ ~ (0 >= 64) /\ 1 # 0 BY <1>2, SMT
    <3>2. Issued(1) = P + (f[0] + 0 * Reward(0)) BY <1>1, <3>1
    <3>3. 0 \in 0..63 BY SMT
    <3>4. Reward(0) \in Nat BY <1>2, <3>3
    <3>. QED BY <1>1, <1>2, <3>2, <3>4, SMT
  <2>. QED BY <1>2, <1>3, <1>4, <2>1, <2>2, SMT
<1>5. CASE h # 0
  <2>. DEFINE a == h - 1
              n == a \div I
              m == a % I
  <2>1. a \in Nat /\ h = a + 1 BY <1>5, SMT
  <2>. HIDE DEF a
  <2>2. /\ n \in Nat /\ m \in 0..(I - 1)
        /\ m + 1 < I => (a + 1) \div I = n /\ (a + 1) % I = m + 1
        /\ ~ (m + 1 < I) => (a + 1) \div I = n + 1 /\ (a + 1) % I = 0 /\ m = I - 1
    BY <1>2, <2>1, NextQuotient
  <2>3. Issued(h) = P + (IF n >= 64 THEN f[64] ELSE f[n] + m * Reward(n))
    BY <1>1, <1>5 DEF a
  <2>4. Issued(h + 1) = P + (IF (a + 1) \div I >= 64 THEN f[64]
                                   ELSE f[(a + 1) \div I] + ((a + 1) % I) * Reward((a + 1) \div I))
    <3>1. (h + 1) - 1 = a + 1 /\ h + 1 # 0 BY <2>1, SMT
    <3>. QED BY <1>1, <3>1
  <2>5. GetBlockSubsidy(h + 1) = IF n >= 64 THEN 0 ELSE Reward(n)
    BY <1>3, <1>5 DEF a
  <2>. HIDE DEF n, m
  <2>6. 64 \in 0..64 /\ f[64] \in Nat BY <1>1, SMT
  <2>7. CASE n >= 64
    <3>1. (a + 1) \div I >= 64 BY <2>2, <2>7, SMT
    <3>. QED BY <1>2, <2>3, <2>4, <2>5, <2>6, <2>7, <3>1, SMT
  <2>8. CASE ~ (n >= 64)
    <3>1. n \in 0..63 /\ n \in 0..64 /\ n + 1 \in 1..64 /\ (n + 1) - 1 = n BY <2>2, <2>8, SMT
    <3>2. Reward(n) \in Nat /\ f[n] \in Nat BY <1>1, <1>2, <3>1
    <3>3. f[n + 1] = f[n] + I * Reward(n) BY <1>1, <3>1
    <3>4. m * Reward(n) \in Nat /\ I * Reward(n) \in Nat BY <1>2, <2>2, <3>2, SMT
    <3>5. CASE m + 1 < I
      <4>1. (m + 1) * Reward(n) = m * Reward(n) + Reward(n) BY <2>2, <3>2, SMT
      <4>2. Issued(h + 1) = P + (f[n] + (m + 1) * Reward(n)) BY <2>2, <2>4, <2>8, <3>5
      <4>3. Issued(h) = P + (f[n] + m * Reward(n)) /\ GetBlockSubsidy(h + 1) = Reward(n)
        BY <2>3, <2>5, <2>8
      <4>. QED BY <1>2, <3>2, <3>4, <4>1, <4>2, <4>3, SMT
    <3>6. CASE ~ (m + 1 < I)
      <4>1. I * Reward(n) = m * Reward(n) + Reward(n) BY <1>2, <2>2, <3>2, <3>6, SMT
      <4>2. Issued(h + 1) = P + f[n + 1]
        <5>1. CASE n + 1 >= 64
          <6>1. n + 1 = 64 BY <3>1, <5>1, SMT
          <6>. QED BY <2>2, <2>4, <3>6, <5>1, <6>1
        <5>2. CASE ~ (n + 1 >= 64)
          <6>1. n + 1 \in 0..63 BY <3>1, <5>2, SMT
          <6>2. Reward(n + 1) \in Nat /\ f[n + 1] \in Nat BY <1>2, <3>2, <3>3, <3>4, <6>1, SMT
          <6>3. Issued(h + 1) = P + (f[n + 1] + 0 * Reward(n + 1))
            BY <2>2, <2>4, <3>6, <5>2
          <6>. QED BY <1>2, <6>2, <6>3, SMT
        <5>. QED BY <5>1, <5>2
      <4>3. Issued(h) = P + (f[n] + m * Reward(n)) /\ GetBlockSubsidy(h + 1) = Reward(n)
        BY <2>3, <2>5, <2>8
      <4>. QED BY <1>2, <3>2, <3>3, <3>4, <4>1, <4>2, <4>3, SMT
    <3>. QED BY <3>5, <3>6
  <2>. QED BY <2>7, <2>8
<1>. QED BY <1>4, <1>5

\* Halving bounds the sum: what is issued and twice what the current interval
\* would issue never exceeds twice the first interval.
LEMMA IssuedBound ==
    ASSUME NEW h \in Nat
    PROVE  Issued(h) <= Premine * COIN + 90 * COIN * nSubsidyHalvingInterval
<1>. DEFINE I == nSubsidyHalvingInterval
            P == Premine * COIN
            B == 90 * COIN * I
<1>1. PICK f : /\ f[0] = 0 /\ \A k \in 1..64 : f[k] = f[k - 1] + I * Reward(k - 1)
               /\ \A k \in 0..64 : f[k] \in Nat
               /\ \A x : LET n == (x - 1) \div I
                         IN  Issued(x) =
                               IF x = 0 THEN 0
                               ELSE P + (IF n >= 64 THEN f[64] ELSE f[n] + ((x - 1) % I) * Reward(n))
  BY IssuedForm
<1>2. COIN \in Nat /\ 45 * COIN \in Nat /\ I \in Nat \ {0} /\ P \in Nat /\ B \in Nat
  BY AmountsAssumption, SMT
<1>3. /\ Reward(0) = 45 * COIN /\ \A k \in 0..63 : Reward(k) \in Nat
      /\ \A k \in 1..63 : 2 * Reward(k) <= Reward(k - 1)
  BY <1>2, ShiftFacts DEF Reward
<1>4. I * (2 * Reward(0)) = B
  <2>1. 2 * Reward(0) = 90 * COIN BY <1>2, <1>3, SMT
  <2>2. \A x \in Nat, y \in Nat : x * y = y * x BY SMT
  <2>. QED BY <1>2, <2>1, <2>2, SMT
<1>. HIDE DEF I, P, B
<1>5. \A k \in 0..63 : f[k] + I * (2 * Reward(k)) <= B
  <2>. DEFINE S == {k \in 0..63 : f[k] + I * (2 * Reward(k)) <= B}
  <2>1. 0 \in S BY <1>1, <1>2, <1>4, SMT
  <2>2. ASSUME NEW k \in 1..63, k - 1 \in S PROVE k \in S
    <3>1. k \in 1..64 /\ k \in 0..63 /\ k - 1 \in 0..63 /\ k - 1 \in 0..64 BY SMT
    <3>2. /\ f[k] = f[k - 1] + I * Reward(k - 1) /\ f[k - 1] \in Nat
          /\ Reward(k) \in Nat /\ Reward(k - 1) \in Nat /\ 2 * Reward(k) <= Reward(k - 1)
      BY <1>1, <1>3, <3>1
    <3>3. f[k - 1] + I * (2 * Reward(k - 1)) <= B BY <2>2
    <3>4. I * (2 * Reward(k)) <= I * Reward(k - 1) /\ I * (2 * Reward(k)) \in Nat
          /\ I * Reward(k - 1) \in Nat
      <4>1. 2 * Reward(k) \in Nat BY <3>2, SMT
      <4>. QED BY <1>2, <3>2, <4>1, TimesMonotone
    <3>5. I * (2 * Reward(k - 1)) = I * Reward(k - 1) + I * Reward(k - 1) BY <1>2, <3>2, SMT
    <3>6. f[k] + I * (2 * Reward(k)) <= B BY <1>2, <3>2, <3>3, <3>4, <3>5, SMT
    <3>. QED BY <3>1, <3>6
  <2>3. S \in SUBSET (0..63) /\ 63 \in Nat OBVIOUS
  <2>. HIDE DEF S
  <2>4. \A k \in 0..63 : k \in S BY <2>1, <2>2, <2>3, Climb
  <2>. QED BY <2>4 DEF S
<1>6. ASSUME NEW k \in 0..63, NEW m \in Nat, m <= I PROVE f[k] + m * Reward(k) <= B
  <2>1. f[k] \in Nat /\ Reward(k) \in Nat
    <3>1. k \in 0..64 BY SMT
    <3>. QED BY <1>1, <1>3, <3>1
  <2>2. Reward(k) * m \in Nat /\ Reward(k) * I \in Nat /\ Reward(k) * m <= Reward(k) * I
    BY <1>2, <1>6, <2>1, TimesMonotone
  <2>3. m * Reward(k) = Reward(k) * m
        /\ I * (2 * Reward(k)) = Reward(k) * I + Reward(k) * I
    BY <1>2, <2>1, SMT
  <2>4. f[k] + I * (2 * Reward(k)) <= B BY <1>5
  <2>. QED BY <1>2, <2>1, <2>2, <2>3, <2>4, SMT
<1>7. f[64] <= B
  <2>1. 64 \in 1..64 /\ 64 - 1 = 63 /\ 63 \in 0..63 BY SMT
  <2>2. f[64] = f[63] + I * Reward(63) BY <1>1, <2>1, SMT
  <2>3. f[63] + I * Reward(63) <= B
    <3>1. I \in Nat /\ I <= I BY <1>2, SMT
    <3>. QED BY <1>6, <2>1, <3>1
  <2>. QED BY <2>2, <2>3
<1>8. CASE h = 0
  <2>1. Issued(0) = 0 BY <1>1
  <2>. QED BY <1>2, <1>8, <2>1, SMT DEF I, P, B
<1>9. CASE h # 0
  <2>. DEFINE n == (h - 1) \div I
              m == (h - 1) % I
  <2>1. n \in Nat /\ m \in Nat /\ m <= I BY <1>2, <1>9, SMT
  <2>2. Issued(h) = P + (IF n >= 64 THEN f[64] ELSE f[n] + m * Reward(n))
    BY <1>1, <1>9
  <2>. HIDE DEF n, m
  <2>3. CASE n >= 64
    <3>1. Issued(h) = P + f[64] BY <2>2, <2>3
    <3>2. f[64] \in Nat BY <1>1, SMT
    <3>3. P + f[64] <= P + B BY <1>2, <1>7, <3>2, SMT
    <3>. QED BY <3>1, <3>3 DEF I, P, B
  <2>4. CASE ~ (n >= 64)
    <3>1. n \in 0..63 /\ n \in 0..64 BY <2>1, <2>4, SMT
    <3>2. f[n] + m * Reward(n) <= B BY <1>6, <2>1, <3>1
    <3>3. f[n] \in Nat /\ Reward(n) \in Nat BY <1>1, <1>3, <3>1
    <3>4. m * Reward(n) \in Nat BY <2>1, <3>3, SMT
    <3>5. Issued(h) = P + (f[n] + m * Reward(n)) BY <2>2, <2>4
    <3>6. P + (f[n] + m * Reward(n)) <= P + B BY <1>2, <3>2, <3>3, <3>4, SMT
    <3>. QED BY <3>5, <3>6 DEF I, P, B
  <2>. QED BY <2>3, <2>4
<1>. QED BY <1>8, <1>9

\* What was in circulation before each of the last blocks did not exceed what was
\* issued at its height either.
SInv ==
    /\ height \in Nat /\ supply \in Int /\ supply <= Issued(height)
    /\ undo \in Seq(Int) /\ Len(undo) <= height
    /\ \A k \in 1..Len(undo) : undo[k] <= Issued(height - k)

LEMMA ConnectSInv ==
    ASSUME SInv, NEW fees \in Fees,
           NEW claim \in {0, fees + GetBlockSubsidy(height + 1)},
           ConnectBlock(fees, claim)
    PROVE  SInv'
<1>. DEFINE w == <<supply>> \o undo
            d == IF Len(undo) < Depth THEN Len(undo) + 1 ELSE Depth
<1>1. height' = height + 1 /\ supply' = supply - fees + claim /\ undo' = SubSeq(w, 1, d)
  BY DEF ConnectBlock, Circulating
<1>2. /\ height \in Nat /\ supply \in Int /\ fees \in Nat /\ Depth \in Nat
      /\ undo \in Seq(Int) /\ Len(undo) \in Nat
  BY AmountsAssumption, SMT DEF SInv
<1>3. /\ Issued(height) \in Nat /\ GetBlockSubsidy(height + 1) \in Nat
      /\ Issued(height + 1) = Issued(height) + GetBlockSubsidy(height + 1)
  BY <1>2, IssuedStep
<1>4. supply' \in Int /\ supply' <= Issued(height + 1) /\ claim \in Nat
  BY <1>1, <1>2, <1>3, SMT DEF SInv
<1>5. /\ w \in Seq(Int) /\ Len(w) = Len(undo) + 1 /\ w[1] = supply
      /\ \A k \in 2..(Len(undo) + 1) : w[k] = undo[k - 1]
  BY <1>2, SMT
<1>6. d \in Nat /\ d <= Len(undo) + 1 BY <1>2, SMT
<1>. HIDE DEF w, d
<1>7. /\ undo' \in Seq(Int) /\ Len(undo') = d /\ \A k \in 1..d : undo'[k] = w[k]
  <2>1. \A k \in 1..d : w[k] \in Int BY <1>5, <1>6, SMT
  <2>2. d \in Int /\ 1 \in Int BY <1>6, SMT
  <2>3. /\ SubSeq(w, 1, d) \in Seq(Int)
        /\ Len(SubSeq(w, 1, d)) = IF 1 <= d THEN d - 1 + 1 ELSE 0
        /\ \A k \in 1..(d - 1 + 1) : SubSeq(w, 1, d)[k] = w[1 + k - 1]
    BY <2>1, <2>2, SubSeqProperties, SMT
  <2>4. d - 1 + 1 = d /\ (IF 1 <= d THEN d - 1 + 1 ELSE 0) = d BY <1>6, SMT
  <2>5. \A k \in 1..d : 1 + k - 1 = k BY <1>6, SMT
  <2>. QED BY <1>1, <2>3, <2>4, <2>5
<1>8. ASSUME NEW k \in 1..d PROVE undo'[k] <= Issued(height + 1 - k)
  <2>1. CASE k = 1
    <3>1. height + 1 - 1 = height BY <1>2, SMT
    <3>2. undo'[1] = supply BY <1>5, <1>7, <2>1
    <3>. QED BY <2>1, <3>1, <3>2 DEF SInv
  <2>2. CASE k # 1
    <3>1. k \in 2..(Len(undo) + 1) /\ k - 1 \in 1..Len(undo) /\ height - (k - 1) = height + 1 - k
      BY <1>2, <1>6, <2>2, SMT
    <3>2. undo'[k] = undo[k - 1] BY <1>5, <1>7, <3>1
    <3>3. undo[k - 1] <= Issued(height - (k - 1)) BY <3>1 DEF SInv
    <3>. QED BY <3>1, <3>2, <3>3
  <2>. QED BY <2>1, <2>2
<1>9. Len(undo') <= height + 1 BY <1>2, <1>6, <1>7, SMT DEF SInv
<1>10. /\ height' \in Nat /\ supply' <= Issued(height')
       /\ Len(undo') <= height'
       /\ \A k \in 1..Len(undo') : undo'[k] <= Issued(height' - k)
  BY <1>1, <1>2, <1>4, <1>7, <1>8, <1>9, SMT
<1>. QED BY <1>4, <1>7, <1>10 DEF SInv, Issued, ShiftRight

LEMMA DisconnectSInv ==
    ASSUME SInv, DisconnectBlock
    PROVE  SInv'
<1>1. undo # <<>> /\ height' = height - 1 /\ supply' = Head(undo) /\ undo' = Tail(undo)
  BY DEF DisconnectBlock
<1>2. /\ height \in Nat /\ undo \in Seq(Int) /\ Len(undo) \in Nat \ {0} /\ Len(undo) <= height
      /\ \A k \in 1..Len(undo) : undo[k] <= Issued(height - k)
  BY <1>1, SMT DEF SInv
<1>3. Head(undo) = undo[1] /\ undo[1] \in Int /\ 1 \in 1..Len(undo)
  BY <1>1, <1>2, SMT
<1>4. /\ Tail(undo) \in Seq(Int) /\ Len(Tail(undo)) = Len(undo) - 1
      /\ \A k \in 1..(Len(undo) - 1) : Tail(undo)[k] = undo[k + 1]
  BY <1>1, <1>2, SMT
<1>5. height' \in Nat /\ supply' \in Int /\ Len(undo') <= height' /\ undo' \in Seq(Int)
  BY <1>1, <1>2, <1>3, <1>4, SMT
<1>6. supply' <= Issued(height') BY <1>1, <1>2, <1>3
<1>7. ASSUME NEW k \in 1..Len(undo') PROVE undo'[k] <= Issued(height' - k)
  <2>1. /\ k \in 1..(Len(undo) - 1) /\ k + 1 \in 1..Len(undo)
        /\ height - (k + 1) = height - 1 - k
    BY <1>1, <1>2, <1>4, SMT
  <2>2. undo'[k] = undo[k + 1] BY <1>1, <1>4, <2>1
  <2>3. undo[k + 1] <= Issued(height - (k + 1)) BY <1>2, <2>1
  <2>. QED BY <1>1, <2>1, <2>2, <2>3
<1>. QED BY <1>5, <1>6, <1>7 DEF SInv, Issued, ShiftRight

\* SupplyOnSchedule for every amount, interval, set of fees and depth of
\* reorganisation: ConnectBlock's "bad-cb-amount" bound and DisconnectBlock's
\* undo data keep the coins in circulation within what GetBlockSubsidy has
\* issued, and its halvings bound that for every height.
THEOREM SupplyKeepsSchedule == SupplySpec => []SupplyOnSchedule
<1>1. SupplyInit => SInv
  <2>. SUFFICES ASSUME SupplyInit PROVE SInv OBVIOUS
  <2>1. height = 0 /\ supply = 0 /\ undo = <<>> BY DEF SupplyInit
  <2>2. Issued(0) \in Nat
    <3>1. 0 \in Nat OBVIOUS
    <3>. QED BY <3>1, IssuedStep
  <2>. QED BY <2>1, <2>2, SMT DEF SInv
<1>2. SInv /\ [SupplyNext]_supplyVars => SInv'
  <2>. SUFFICES ASSUME SInv, [SupplyNext]_supplyVars PROVE SInv' OBVIOUS
  <2>1. CASE DisconnectBlock BY <2>1, DisconnectSInv
  <2>2. CASE \E fees \in Fees :
               \E claim \in {0, fees + GetBlockSubsidy(height + 1)} :
                 ConnectBlock(fees, claim)
    BY <2>2, ConnectSInv
  <2>3. CASE UNCHANGED supplyVars
    BY <2>3 DEF supplyVars, SInv, Issued, ShiftRight
  <2>. QED BY <2>1, <2>2, <2>3 DEF SupplyNext
<1>3. SInv => SupplyOnSchedule BY IssuedBound DEF SInv, SupplyOnSchedule
<1>. QED BY <1>1, <1>2, <1>3, PTL DEF SupplySpec

-----------------------------------------------------------------------------
(* The coins cache.                                                         *)

MaybeEntry == ValidEntry \cup {NoEntry}

\* A lookup keeps the entry sound and never changes the coin read.
LEMMA FetchLemma ==
    ASSUME NEW e \in MaybeEntry, NEW base \in AnyCoin, SoundEntry(e, base)
    PROVE  /\ FetchCoin(e, base) \in MaybeEntry
           /\ SoundEntry(FetchCoin(e, base), base)
           /\ GetCoin(FetchCoin(e, base), base) = GetCoin(e, base)
  BY CoinAssumption
     DEF MaybeEntry, ValidEntry, Entry, Flags, AnyCoin, SoundEntry, FetchCoin, GetCoin

\* Spending leaves a sound entry through which the coin reads as spent: erasing
\* a FRESH entry uncovers a base that has no such coin.
LEMMA SpendLemma ==
    ASSUME NEW e \in MaybeEntry, NEW base \in AnyCoin, SoundEntry(e, base)
    PROVE  /\ SpendCoin(e, base) \in MaybeEntry
           /\ SoundEntry(SpendCoin(e, base), base)
           /\ GetCoin(SpendCoin(e, base), base) = Spent
<1>. DEFINE it == FetchCoin(e, base)
            new == [coin |-> Spent, flags |-> it.flags \cup {"DIRTY"}]
<1>1. it \in MaybeEntry /\ SoundEntry(it, base) BY FetchLemma
<1>2. SpendCoin(e, base) = IF it = NoEntry \/ "FRESH" \in it.flags THEN NoEntry ELSE new
  BY DEF SpendCoin
<1>3. it = NoEntry => base = Spent BY CoinAssumption, SMT DEF FetchCoin, Entry, AnyCoin
<1>. HIDE DEF it
<1>4. CASE it = NoEntry \/ "FRESH" \in it.flags
  <2>1. base = Spent BY <1>1, <1>3, <1>4 DEF SoundEntry
  <2>2. SpendCoin(e, base) = NoEntry BY <1>2, <1>4
  <2>. QED BY <2>1, <2>2 DEF MaybeEntry, SoundEntry, GetCoin
<1>5. CASE it # NoEntry /\ "FRESH" \notin it.flags
  <2>1. it.flags \in SUBSET Flags /\ it.flags \cup {"DIRTY"} = {"DIRTY"}
    BY <1>1, <1>5 DEF MaybeEntry, ValidEntry, Entry, Flags
  <2>2. new \in ValidEntry BY <2>1 DEF ValidEntry, Entry, Flags, AnyCoin
  <2>3. new # NoEntry BY <2>2, CoinAssumption DEF ValidEntry
  <2>4. SpendCoin(e, base) = new BY <1>2, <1>5
  <2>5. new.coin = Spent /\ "DIRTY" \in new.flags /\ "FRESH" \notin new.flags BY <2>1
  <2>. HIDE DEF new
  <2>. QED BY <2>2, <2>3, <2>4, <2>5 DEF MaybeEntry, SoundEntry, GetCoin
<1>. QED BY <1>4, <1>5

\* Adding a coin the caller has vouched for leaves a sound entry that reads as
\* that coin.
LEMMA AddLemma ==
    ASSUME NEW e \in MaybeEntry, NEW base \in AnyCoin, SoundEntry(e, base),
           NEW coin \in Coins, NEW possible_overwrite \in BOOLEAN,
           possible_overwrite \/ GetCoin(e, base) = Spent
    PROVE  /\ AddCoin(e, coin, possible_overwrite) \in MaybeEntry
           /\ SoundEntry(AddCoin(e, coin, possible_overwrite), base)
           /\ GetCoin(AddCoin(e, coin, possible_overwrite), base) = coin
  BY CoinAssumption, SMT
     DEF MaybeEntry, ValidEntry, Entry, Flags, AnyCoin, SoundEntry, GetCoin, AddCoin

\* Writing a sound child entry to the parent leaves a sound parent entry, and
\* the parent then reads as the child did.
LEMMA BatchWriteLemma ==
    ASSUME NEW child \in MaybeEntry, NEW e \in MaybeEntry, NEW base \in AnyCoin,
           SoundEntry(e, base), SoundEntry(child, GetCoin(e, base))
    PROVE  /\ BatchWriteEntry(child, e) \in MaybeEntry
           /\ SoundEntry(BatchWriteEntry(child, e), base)
           /\ GetCoin(BatchWriteEntry(child, e), base)
                  = GetCoin(child, GetCoin(e, base))
  BY CoinAssumption, SMT
     DEF MaybeEntry, ValidEntry, Entry, Flags, AnyCoin, SoundEntry, GetCoin,
         BatchWriteEntry, IsDirty

\* Writing a sound entry to the database makes the record what the entry read
\* as, and what Sync or Flush keeps of the entry is sound over it.
LEMMA WriteLemma ==
    ASSUME NEW e \in MaybeEntry, NEW base \in AnyCoin, SoundEntry(e, base)
    PROVE  /\ WriteRecord(e, base) = GetCoin(e, base)
           /\ WriteRecord(e, base) \in AnyCoin
           /\ SyncEntry(e) \in MaybeEntry
           /\ SoundEntry(SyncEntry(e), WriteRecord(e, base))
           /\ GetCoin(SyncEntry(e), WriteRecord(e, base)) = GetCoin(e, base)
  BY CoinAssumption
     DEF MaybeEntry, ValidEntry, Entry, Flags, AnyCoin, SoundEntry, GetCoin,
         WriteRecord, SyncEntry, IsDirty

\* Uncache only ever drops what the base already knows.
LEMMA UncacheLemma ==
    ASSUME NEW e \in MaybeEntry, NEW base \in AnyCoin, SoundEntry(e, base)
    PROVE  /\ UncacheEntry(e) \in MaybeEntry
           /\ SoundEntry(UncacheEntry(e), base)
           /\ GetCoin(UncacheEntry(e), base) = GetCoin(e, base)
  BY CoinAssumption
     DEF MaybeEntry, ValidEntry, Entry, Flags, AnyCoin, SoundEntry, GetCoin, UncacheEntry

\* What a sound entry reads as is a coin.
LEMMA GetCoinType ==
    ASSUME NEW e \in MaybeEntry, NEW base \in AnyCoin
    PROVE  GetCoin(e, base) \in AnyCoin
  BY DEF MaybeEntry, ValidEntry, Entry, GetCoin

-----------------------------------------------------------------------------
\* The inductive invariant.
CacheIInv == CacheTypeOK /\ TipSound /\ ViewSound

\* CacheIInv at one outpoint.
LEMMA AtOutpoint ==
    ASSUME CacheIInv, NEW o \in Outpoints
    PROVE  /\ db[o] \in AnyCoin /\ TipCoin(o) \in AnyCoin
           /\ tip[o] \in MaybeEntry /\ SoundEntry(tip[o], db[o])
           /\ view[o] \in MaybeEntry /\ SoundEntry(view[o], TipCoin(o))
  BY GetCoinType DEF CacheIInv, CacheTypeOK, TipSound, ViewSound, Cache, MaybeEntry, TipCoin

\* A step that keeps, at every outpoint, the types and the soundness of both
\* entries keeps CacheIInv.
LEMMA OutpointByOutpoint ==
    ASSUME db' \in [Outpoints -> AnyCoin],
           DOMAIN tip' = Outpoints, tip' = [o \in Outpoints |-> tip'[o]],
           DOMAIN view' = Outpoints, view' = [o \in Outpoints |-> view'[o]],
           {dbBest', tipBest', viewBest'} \subseteq Blocks \cup {Null},
           \A o \in Outpoints :
               /\ tip'[o] \in MaybeEntry /\ SoundEntry(tip'[o], db'[o])
               /\ view'[o] \in MaybeEntry
               /\ SoundEntry(view'[o], GetCoin(tip'[o], db'[o]))
    PROVE  CacheIInv'
  BY DEF CacheIInv, CacheTypeOK, TipSound, ViewSound, Cache, MaybeEntry, TipCoin

\* Empty caches over any database are sound.
LEMMA InitCacheIInv == CacheInit => CacheIInv
  BY CoinAssumption DEF CacheInit, CacheIInv, CacheTypeOK, TipSound, ViewSound, Cache, EmptyCache,
     SoundEntry

\* Every step of the code keeps the invariant.
LEMMA StepCacheIInv == CacheIInv /\ [CacheNext]_cacheVars => CacheIInv'
<1> SUFFICES ASSUME CacheIInv, [CacheNext]_cacheVars PROVE CacheIInv'
  OBVIOUS
<1> USE DEF dbVars, tipVars, viewVars
<1>t. /\ db \in [Outpoints -> AnyCoin]
      /\ tip \in [Outpoints -> MaybeEntry] /\ view \in [Outpoints -> MaybeEntry]
      /\ dbBest \in Blocks \cup {Null} /\ tipBest \in Blocks \cup {Null}
      /\ viewBest \in Blocks \cup {Null}
  BY DEF CacheIInv, CacheTypeOK, Cache, MaybeEntry
<1>e. EmptyCache = [o \in Outpoints |-> NoEntry] /\ NoEntry \in MaybeEntry
  BY DEF EmptyCache, MaybeEntry
<1>1. CASE TipGetBestBlock
  BY <1>1, <1>t, AtOutpoint, OutpointByOutpoint DEF TipGetBestBlock, LazyBest, TipCoin
<1>2. CASE ViewGetBestBlock
  BY <1>2, <1>t, AtOutpoint, OutpointByOutpoint DEF ViewGetBestBlock, LazyBest, TipCoin
<1>3. ASSUME NEW o \in Outpoints, TipAccess(o) PROVE CacheIInv'
  <2>1. ASSUME NEW p \in Outpoints
        PROVE  /\ tip'[p] \in MaybeEntry /\ SoundEntry(tip'[p], db[p])
               /\ GetCoin(tip'[p], db[p]) = TipCoin(p)
    BY <1>3, <1>t, AtOutpoint, FetchLemma, SMT DEF TipAccess, TipCoin
  <2> QED
    BY <1>3, <1>t, <2>1, AtOutpoint, OutpointByOutpoint DEF TipAccess
<1>4. ASSUME NEW o \in Outpoints, ViewAccess(o) PROVE CacheIInv'
  <2>1. ASSUME NEW p \in Outpoints
        PROVE  /\ tip'[p] \in MaybeEntry /\ SoundEntry(tip'[p], db[p])
               /\ GetCoin(tip'[p], db[p]) = TipCoin(p)
    BY <1>4, <1>t, AtOutpoint, FetchLemma, SMT DEF ViewAccess, FetchThroughTip, TipCoin
  <2>2. ASSUME NEW p \in Outpoints
        PROVE  view'[p] \in MaybeEntry /\ SoundEntry(view'[p], TipCoin(p))
    BY <1>4, <1>t, AtOutpoint, FetchLemma DEF ViewAccess
  <2> QED
    BY <1>4, <1>t, <2>1, <2>2, OutpointByOutpoint DEF ViewAccess, FetchThroughTip
<1>5. ASSUME NEW o \in Outpoints, TipUncache(o) PROVE CacheIInv'
  <2>1. ASSUME NEW p \in Outpoints
        PROVE  /\ tip'[p] \in MaybeEntry /\ SoundEntry(tip'[p], db[p])
               /\ GetCoin(tip'[p], db[p]) = TipCoin(p)
    BY <1>5, <1>t, AtOutpoint, UncacheLemma, SMT DEF TipUncache, TipCoin
  <2> QED
    BY <1>5, <1>t, <2>1, AtOutpoint, OutpointByOutpoint DEF TipUncache
<1>6. ASSUME NEW o \in Outpoints, ViewSpendCoin(o) PROVE CacheIInv'
  <2>1. ASSUME NEW p \in Outpoints
        PROVE  /\ tip'[p] \in MaybeEntry /\ SoundEntry(tip'[p], db[p])
               /\ GetCoin(tip'[p], db[p]) = TipCoin(p)
    BY <1>6, <1>t, AtOutpoint, FetchLemma, SMT DEF ViewSpendCoin, FetchThroughTip, TipCoin
  <2>2. ASSUME NEW p \in Outpoints
        PROVE  view'[p] \in MaybeEntry /\ SoundEntry(view'[p], TipCoin(p))
    BY <1>6, <1>t, AtOutpoint, SpendLemma DEF ViewSpendCoin
  <2> QED
    BY <1>6, <1>t, <2>1, <2>2, OutpointByOutpoint DEF ViewSpendCoin, FetchThroughTip
<1>7. ASSUME NEW o \in Outpoints, NEW coin \in Coins, NEW po \in BOOLEAN,
             ViewAddCoin(o, coin, po)
      PROVE  CacheIInv'
  BY <1>7, <1>t, AtOutpoint, AddLemma, OutpointByOutpoint, ZenonT(30) DEF ViewAddCoin, TipCoin, ViewCoin
<1>8. ASSUME NEW b \in Blocks, ViewSetBestBlock(b) PROVE CacheIInv'
  BY <1>8, <1>t, AtOutpoint, OutpointByOutpoint DEF ViewSetBestBlock, TipCoin
<1>9. CASE ViewFlush
  <2>1. \A o \in Outpoints : /\ tip'[o] = BatchWriteEntry(view[o], tip[o])
                             /\ view'[o] = NoEntry
    BY <1>9, <1>e DEF ViewFlush
  <2>2. ASSUME NEW o \in Outpoints
        PROVE  /\ tip'[o] \in MaybeEntry /\ SoundEntry(tip'[o], db[o])
               /\ view'[o] \in MaybeEntry /\ SoundEntry(view'[o], GetCoin(tip'[o], db[o]))
    <3>1. /\ db[o] \in AnyCoin /\ tip[o] \in MaybeEntry /\ SoundEntry(tip[o], db[o])
          /\ view[o] \in MaybeEntry /\ SoundEntry(view[o], GetCoin(tip[o], db[o]))
      BY AtOutpoint DEF TipCoin
    <3>2. tip'[o] \in MaybeEntry /\ SoundEntry(tip'[o], db[o])
      BY <2>1, <3>1, BatchWriteLemma
    <3>3. \A c : SoundEntry(NoEntry, c) BY DEF SoundEntry
    <3>. QED BY <1>e, <2>1, <3>2, <3>3
  <2>. QED BY <1>9, <1>t, <1>e, <2>2, OutpointByOutpoint, SMT DEF ViewFlush
<1>10. CASE ViewDrop
  BY <1>10, <1>t, <1>e, AtOutpoint, OutpointByOutpoint DEF ViewDrop, TipCoin, SoundEntry
<1>11. CASE TipFlush
  <2>1. ASSUME NEW p \in Outpoints
        PROVE  db'[p] \in AnyCoin /\ db'[p] = TipCoin(p)
    BY <1>11, <1>t, AtOutpoint, WriteLemma DEF TipFlush, WriteTip, TipCoin
  <2>2. ASSUME NEW p \in Outpoints
        PROVE  /\ tip'[p] \in MaybeEntry /\ SoundEntry(tip'[p], db'[p])
               /\ GetCoin(tip'[p], db'[p]) = TipCoin(p)
    BY <1>11, <1>e, <2>1 DEF TipFlush, SoundEntry, GetCoin
  <2> QED
    BY <1>11, <1>t, <1>e, <2>1, <2>2, AtOutpoint, OutpointByOutpoint DEF TipFlush, WriteTip, LazyBest
<1>12. CASE TipSync
  <2>1. ASSUME NEW p \in Outpoints
        PROVE  /\ db'[p] \in AnyCoin /\ tip'[p] \in MaybeEntry
               /\ SoundEntry(tip'[p], db'[p])
               /\ GetCoin(tip'[p], db'[p]) = TipCoin(p)
    BY <1>12, <1>t, AtOutpoint, WriteLemma DEF TipSync, WriteTip, TipCoin
  <2> QED
    BY <1>12, <1>t, <2>1, AtOutpoint, OutpointByOutpoint DEF TipSync, WriteTip, LazyBest
<1>13. CASE UNCHANGED cacheVars
  BY <1>13, <1>t, AtOutpoint, OutpointByOutpoint DEF cacheVars, TipCoin
<1> QED
  BY <1>1, <1>2, <1>3, <1>4, <1>5, <1>6, <1>7, <1>8, <1>9, <1>10, <1>11, <1>12, <1>13, ZenonT(30)
     DEF CacheNext

\* In every reachable state the flags of both caches are sound.
THEOREM CacheInvariant == CacheSpec => []CacheIInv
  BY InitCacheIInv, StepCacheIInv, PTL DEF CacheSpec

\* CacheTypeOK of the run, for any outpoints, coins and blocks: no cache ever holds
\* a flag combination SanityCheck rejects.
THEOREM CoinsTypeOK == CacheSpec => []CacheTypeOK
  BY CacheInvariant, PTL DEF CacheIInv

\* DIRTY and FRESH in CoinsTip() are always true of the database.
THEOREM CoinsTipSound == CacheSpec => []TipSound
  BY CacheInvariant, PTL DEF CacheIInv

\* DIRTY and FRESH in the view are always true of CoinsTip().
THEOREM CoinsViewSound == CacheSpec => []ViewSound
  BY CacheInvariant, PTL DEF CacheIInv

\* No flush ever meets a misapplied FRESH flag, and no AddCoin its caller
\* vouched for an unspent coin.
THEOREM CoinsNeverThrows == CacheSpec => []NeverThrows
<1>1. CacheIInv => NeverThrows
  <2> SUFFICES ASSUME CacheIInv, NEW o \in Outpoints
               PROVE  /\ ~BatchWriteThrows(view[o], tip[o])
                      /\ \A po \in BOOLEAN : po \/ ViewCoin(o) = Spent
                             => ~AddCoinThrows(view[o], po)
    BY DEF NeverThrows
  <2>1. ~BatchWriteThrows(view[o], tip[o])
    BY AtOutpoint DEF SoundEntry, BatchWriteThrows, IsDirty, TipCoin, GetCoin
  <2>2. ASSUME NEW po \in BOOLEAN, po \/ ViewCoin(o) = Spent
        PROVE  ~AddCoinThrows(view[o], po)
    BY <2>2 DEF AddCoinThrows, ViewCoin, GetCoin
  <2> QED
    BY <2>1, <2>2
<1> QED
  BY <1>1, CacheInvariant, PTL

-----------------------------------------------------------------------------
\* The state functions the refinement mapping is made of.
TipMap == [o \in Outpoints |-> TipCoin(o)]
WorkMap == [o \in Outpoints |-> ViewCoin(o)]
TipLabel == LazyBest(tipBest, dbBest)
WorkLabel == LazyBest(viewBest, TipLabel)

\* The maps are unchanged by a step that changes no coin.
LEMMA SameMaps ==
    ASSUME \A p \in Outpoints : /\ GetCoin(tip'[p], db'[p]) = TipCoin(p)
                                /\ GetCoin(view'[p], TipCoin(p)) = ViewCoin(p)
    PROVE  TipMap' = TipMap /\ WorkMap' = WorkMap
  BY DEF TipMap, WorkMap, TipCoin, ViewCoin

\* Lookups, evictions and the lazy best block are invisible through the cache.
LEMMA ReadsStutter ==
    ASSUME CacheIInv,
           \/ TipGetBestBlock \/ ViewGetBestBlock
           \/ \E o \in Outpoints : TipAccess(o) \/ ViewAccess(o) \/ TipUncache(o)
    PROVE  UNCHANGED Layers!vars
<1> USE DEF dbVars, tipVars, viewVars
<1>t. /\ tip \in [Outpoints -> MaybeEntry] /\ view \in [Outpoints -> MaybeEntry]
      /\ Null \notin Blocks
  BY BlockAssumption DEF CacheIInv, CacheTypeOK, Cache, MaybeEntry
<1>1. db' = db /\ dbBest' = dbBest
  BY DEF TipGetBestBlock, ViewGetBestBlock, TipAccess, ViewAccess, TipUncache
<1>2. TipLabel' = TipLabel /\ WorkLabel' = WorkLabel
  BY DEF TipGetBestBlock, ViewGetBestBlock, TipAccess, ViewAccess, TipUncache,
     TipLabel, WorkLabel, LazyBest
<1>3. ASSUME NEW p \in Outpoints
      PROVE  GetCoin(tip'[p], db'[p]) = TipCoin(p)
  BY <1>t, <1>1, AtOutpoint, FetchLemma, UncacheLemma, SMT
     DEF TipGetBestBlock, ViewGetBestBlock, TipAccess, ViewAccess, TipUncache,
         FetchThroughTip, TipCoin
<1>4. ASSUME NEW p \in Outpoints
      PROVE  GetCoin(view'[p], TipCoin(p)) = ViewCoin(p)
  BY <1>t, AtOutpoint, FetchLemma
     DEF TipGetBestBlock, ViewGetBestBlock, TipAccess, ViewAccess, TipUncache, ViewCoin
<1> QED
  BY <1>1, <1>2, <1>3, <1>4, SameMaps
     DEF Layers!vars, TipMap, WorkMap, TipLabel, WorkLabel

\* Creating or spending a coin in the view is one write of the scratch map.
LEMMA ViewWrite ==
    ASSUME CacheIInv, NEW o \in Outpoints, NEW c \in AnyCoin,
           dbVars' = dbVars, tipBest' = tipBest, viewBest' = viewBest,
           \A p \in Outpoints : GetCoin(tip'[p], db[p]) = TipCoin(p),
           \A p \in Outpoints \ {o} : view'[p] = view[p],
           GetCoin(view'[o], TipCoin(o)) = c
    PROVE  Layers!Write
<1>1. TipMap' = TipMap
  BY DEF TipMap, TipCoin, dbVars
<1>2. WorkMap' = [WorkMap EXCEPT ![o] = c]
  BY DEF WorkMap, ViewCoin, TipCoin, dbVars
<1>3. UNCHANGED <<db, dbBest, TipLabel, WorkLabel>>
  BY DEF dbVars, TipLabel, WorkLabel, LazyBest
<1> QED
  BY <1>1, <1>2, <1>3
     DEF Layers!Write, TipMap, WorkMap, TipLabel, WorkLabel

\* SpendCoin on the view is one write of the scratch map.
LEMMA SpendRefines ==
    ASSUME CacheIInv, NEW o \in Outpoints, ViewSpendCoin(o)
    PROVE  Layers!Write
<1>t. /\ tip \in [Outpoints -> MaybeEntry] /\ view \in [Outpoints -> MaybeEntry]
  BY DEF CacheIInv, CacheTypeOK, Cache, MaybeEntry
<1>1. \A p \in Outpoints : GetCoin(tip'[p], db[p]) = TipCoin(p)
  BY <1>t, AtOutpoint, FetchLemma, SMT DEF ViewSpendCoin, FetchThroughTip, TipCoin
<1>2. GetCoin(view'[o], TipCoin(o)) = Spent
  BY <1>t, AtOutpoint, SpendLemma DEF ViewSpendCoin
<1>3. Spent \in AnyCoin
  BY DEF AnyCoin
<1>4. \A p \in Outpoints \ {o} : view'[p] = view[p]
  BY <1>t DEF ViewSpendCoin
<1> QED
  BY <1>1, <1>2, <1>3, <1>4, ViewWrite DEF ViewSpendCoin, dbVars

\* AddCoin on the view is one write of the scratch map.
LEMMA AddRefines ==
    ASSUME CacheIInv, NEW o \in Outpoints, NEW coin \in Coins, NEW po \in BOOLEAN,
           ViewAddCoin(o, coin, po)
    PROVE  Layers!Write
<1>t. /\ tip \in [Outpoints -> MaybeEntry] /\ view \in [Outpoints -> MaybeEntry]
  BY DEF CacheIInv, CacheTypeOK, Cache, MaybeEntry
<1>1. \A p \in Outpoints : GetCoin(tip'[p], db[p]) = TipCoin(p)
  BY DEF ViewAddCoin, tipVars, TipCoin
<1>2. GetCoin(view'[o], TipCoin(o)) = coin
  BY <1>t, AtOutpoint, AddLemma DEF ViewAddCoin, ViewCoin
<1>3. coin \in AnyCoin
  BY DEF AnyCoin
<1>4. \A p \in Outpoints \ {o} : view'[p] = view[p]
  BY <1>t DEF ViewAddCoin
<1> QED
  BY <1>1, <1>2, <1>3, <1>4, ViewWrite DEF ViewAddCoin, dbVars, tipVars

\* Flushing the view replaces the whole tip map by the scratch map.
LEMMA FlushViewRefines ==
    ASSUME CacheIInv, ViewFlush
    PROVE  Layers!Commit
<1>1. ASSUME NEW p \in Outpoints
      PROVE  GetCoin(tip'[p], db'[p]) = ViewCoin(p)
  BY AtOutpoint, BatchWriteLemma DEF ViewFlush, dbVars, TipCoin, ViewCoin
<1>2. TipMap' = WorkMap
  BY <1>1 DEF TipMap, WorkMap, TipCoin
<1>3. WorkMap' = WorkMap
  BY <1>1 DEF WorkMap, ViewFlush, ViewCoin, TipCoin, EmptyCache, GetCoin
<1>4. WorkLabel # Null /\ TipLabel' = WorkLabel /\ WorkLabel' = WorkLabel
  BY DEF ViewFlush, WorkLabel, TipLabel, LazyBest, dbVars
<1> QED
  BY <1>2, <1>3, <1>4
     DEF Layers!Commit, ViewFlush, dbVars, TipMap, WorkMap, TipLabel, WorkLabel

\* Dropping the view resets the scratch map to the tip map.
LEMMA DropRefines ==
    ASSUME CacheIInv, ViewDrop
    PROVE  Layers!Discard
<1>1. TipMap' = TipMap /\ TipLabel' = TipLabel
  BY DEF TipMap, TipCoin, TipLabel, ViewDrop, dbVars, tipVars
<1>2. WorkMap' = TipMap
  BY DEF TipMap, WorkMap, TipCoin, ViewCoin, ViewDrop, dbVars, tipVars, EmptyCache, GetCoin
<1>3. WorkLabel' = TipLabel
  BY DEF WorkLabel, TipLabel, LazyBest, ViewDrop, dbVars, tipVars
<1> QED
  BY <1>1, <1>2, <1>3
     DEF Layers!Discard, ViewDrop, dbVars, TipMap, WorkMap, TipLabel, WorkLabel

\* A flush or a sync of the tip makes the database the whole tip map at once,
\* label included, and changes what no reader sees.
LEMMA WriteRefines ==
    ASSUME CacheIInv, TipFlush \/ TipSync
    PROVE  Layers!Persist
<1>w. WriteTip
  BY DEF TipFlush, TipSync
<1>1. ASSUME NEW p \in Outpoints PROVE db'[p] = TipCoin(p)
  BY <1>w, AtOutpoint, WriteLemma DEF WriteTip, TipCoin
<1>2. ASSUME NEW p \in Outpoints
      PROVE  GetCoin(tip'[p], db'[p]) = TipCoin(p)
  BY <1>w, <1>1, AtOutpoint, WriteLemma, SMTT(30)
     DEF WriteTip, TipFlush, TipSync, EmptyCache, TipCoin, GetCoin
<1>3. TipMap' = TipMap /\ WorkMap' = WorkMap
  BY <1>w, <1>2, SameMaps DEF WriteTip, viewVars, ViewCoin
<1>4. db' = TipMap
  BY <1>w, <1>1 DEF WriteTip, TipMap
<1>5. /\ TipLabel # Null /\ dbBest' = TipLabel
      /\ TipLabel' = TipLabel /\ WorkLabel' = WorkLabel
  BY <1>w DEF WriteTip, TipLabel, WorkLabel, LazyBest, viewVars
<1> QED
  BY <1>3, <1>4, <1>5 DEF Layers!Persist, TipMap, WorkMap, TipLabel, WorkLabel

\* The hierarchy of caches implements three labelled maps of coins.
THEOREM CoinsRefines == CacheSpec => Refines
<1>1. CacheInit => Layers!Init
  BY DEF CacheInit, Layers!Init, Layers!UtxoMap, EmptyCache, TipCoin, ViewCoin, GetCoin, LazyBest
<1>2. CacheIInv /\ [CacheNext]_cacheVars => [Layers!Next]_(Layers!vars)
  <2> SUFFICES ASSUME CacheIInv, [CacheNext]_cacheVars PROVE [Layers!Next]_(Layers!vars)
    OBVIOUS
  <2>1. ASSUME NEW b \in Blocks, ViewSetBestBlock(b) PROVE Layers!Label
    BY <2>1, BlockAssumption
       DEF ViewSetBestBlock, Layers!Label, dbVars, tipVars, LazyBest, TipCoin, ViewCoin
  <2>2. CASE UNCHANGED cacheVars
    BY <2>2 DEF cacheVars, Layers!vars, TipCoin, ViewCoin
  <2> QED
    BY <2>1, <2>2, ReadsStutter, SpendRefines, AddRefines, FlushViewRefines,
       DropRefines, WriteRefines
       DEF CacheNext, Layers!Next
<1> QED
  BY <1>1, <1>2, CacheInvariant, PTL DEF CacheSpec, Refines, Layers!Spec

-----------------------------------------------------------------------------
(* The queue of script checks.                                              *)

\* Each check is in one place, and all of them came through this control.
Placed ==
    /\ Outstanding \subseteq added
    /\ \A t \in Threads : vChecks[t] \cap queue = {}
    /\ \A t, u \in Threads : t # u => vChecks[t] \cap vChecks[u] = {}
    /\ \A t \in Threads : vChecks[t] # {} => pc[t] \in {"run", "clean"}

Counted == nTodo = Cardinality(Outstanding)

\* A failure that was reported is in fAllOk until the verdict is returned, one
\* that was found is in fOk until it is reported, and nothing else is.
Judged ==
    /\ (\A m \in Masters : pc[m] # "return") /\ fAllOk
          => \A c \in added : c \in Valid \/ c \in Outstanding
    /\ \A t \in Threads : pc[t] = "clean" /\ fOk[t] => vChecks[t] \subseteq Valid
    /\ added \subseteq Valid => fAllOk
    /\ \A t \in Threads : added \subseteq Valid /\ vChecks[t] # {} => fOk[t]

\* One master is inside, and none once the queue is being destroyed.
Exclusive ==
    /\ \A m \in Masters : pc[m] # "out" <=> control = m
    /\ control = None => added = {} /\ fAllOk
    /\ m_request_stop <=> dtor # "alive"
    /\ m_request_stop => control = None

\* A master that has its verdict, and one that waits for it.
Attended ==
    \A m \in Masters :
        /\ pc[m] = "return" => /\ fRet[m] = (added \subseteq Valid)
                               /\ fAllOk /\ Outstanding = {}
        /\ pc[m] = "wait" => queue = {} /\ Outstanding # {}

QueueIInv == TypeOK /\ Placed /\ Counted /\ Judged /\ Exclusive /\ Attended

-----------------------------------------------------------------------------
(* What a critical section of Loop does to the checks.                       *)

\* A section of Loop by t: it reports the batch t had and takes batch B.
Section(t, l, B) ==
    /\ Report(t, l)
    /\ B \subseteq queue /\ queue' = queue \ B
    /\ vChecks' = [vChecks EXCEPT ![t] = B]
    /\ B # {} => l = "run"

\* The batch that was reported is no longer outstanding and nothing else changed;
\* NowTodo is what is left.
LEMMA SectionTodo ==
    ASSUME TypeOK, Placed, Counted,
           NEW t \in Threads, NEW l, NEW B, Section(t, l, B)
    PROVE  /\ Outstanding' = Outstanding \ vChecks[t]
           /\ NowTodo(t) = Cardinality(Outstanding')
           /\ NowTodo(t) \in Nat
           /\ NowTodo(t) = 0 <=> Outstanding' = {}
<1>1. Outstanding' = Outstanding \ vChecks[t]
  BY SMT DEF Section, Outstanding, Placed, TypeOK
<1>2. IsFiniteSet(Outstanding) /\ vChecks[t] \subseteq Outstanding
  <2>1. Outstanding \subseteq Checks /\ vChecks[t] \subseteq Outstanding
    BY DEF Outstanding, TypeOK
  <2>. QED BY <2>1, CheckQueueAssumption, FS_Subset
<1>3. Cardinality(Outstanding \ vChecks[t]) = Cardinality(Outstanding) - Cardinality(vChecks[t])
  <2>1. Outstanding \cap vChecks[t] = vChecks[t]
    BY <1>2
  <2>. QED BY <1>2, <2>1, FS_Difference
<1>4. IsFiniteSet(Outstanding')
  BY <1>1, <1>2, FS_Difference
<1>. QED BY <1>1, <1>3, <1>4, FS_CardinalityType, FS_EmptySet DEF NowTodo, Counted

\* Whom a section wakes: at most the waiting masters, and never a thread that
\* holds a batch.
LEMMA SectionMoves ==
    ASSUME TypeOK, NEW t \in Threads, NEW l \in Places, Report(t, l)
    PROVE  /\ pc' \in [Threads -> Places]
           /\ pc'[t] = l
           /\ \A u \in Threads \ {t} :
                 \/ pc'[u] = pc[u]
                 \/ u \in Masters /\ pc[u] = "wait" /\ pc'[u] = "woken"
<1>1. PICK woken \in WokenByReport(t) : pc' = Moved(t, l, woken)
  BY DEF Report
<1>2. \A u \in woken : u \in Masters /\ pc[u] = "wait"
  BY DEF WokenByReport, NotifyOne, Waiting
<1>3. pc' \in [Threads -> Places]
  BY <1>1 DEF Moved, TypeOK, Places, InLoop
<1>. QED BY <1>1, <1>2, <1>3 DEF Moved

\* The checks stay in one place each and stay counted.
LEMMA SectionPlaced ==
    ASSUME TypeOK, Placed, Counted,
           NEW t \in Threads, NEW l \in Places, NEW B, Section(t, l, B)
    PROVE  Placed' /\ Counted'
<1>1. Outstanding' \subseteq added'
  BY SectionTodo DEF Placed, Section, Report
<1>2. \A u \in Threads : vChecks'[u] \cap queue' = {}
  BY DEF Placed, Section, TypeOK
<1>3. \A u, v \in Threads : u # v => vChecks'[u] \cap vChecks'[v] = {}
  BY DEF Placed, Section, TypeOK
<1>4. \A u \in Threads : vChecks'[u] # {} => pc'[u] \in {"run", "clean"}
  BY SectionMoves, SMT DEF Placed, Section, TypeOK
<1>5. Counted'
  BY SectionTodo DEF Section, Report, Counted
<1>. QED BY <1>1, <1>2, <1>3, <1>4, <1>5 DEF Placed

\* What t reports goes into fAllOk, and a new batch starts from there.
LEMMA SectionJudged ==
    ASSUME TypeOK, Placed, Counted, Judged,
           NEW t \in Threads, NEW l \in Places, NEW B, Section(t, l, B),
           fAllOk' = NowOk(t),
           fOk' = [fOk EXCEPT ![t] = NowOk(t)] \/ (fOk' = fOk /\ B = {}),
           l # "clean", l # "return"
    PROVE  Judged'
<1>. USE SectionMoves DEF Section
<1>1. added' = added /\ pc[t] \in {"enter", "woken", "clean"}
  BY DEF Report
<1>2. \A u \in Threads \ {t} : vChecks'[u] = vChecks[u] /\ fOk'[u] = fOk[u]
  BY ZenonT(30) DEF TypeOK
<1>3. vChecks[t] # {} => pc[t] = "clean"
  BY <1>1 DEF Placed
<1>4. ASSUME \A m \in Masters : pc'[m] # "return", fAllOk', NEW c \in added
      PROVE  c \in Valid \/ c \in Outstanding'
  <2>1. \A m \in Masters : pc[m] # "return"
    BY <1>1, <1>4 DEF Threads
  <2>2. fAllOk /\ (vChecks[t] # {} => fOk[t])
    BY <1>4 DEF NowOk
  <2>3. vChecks[t] \subseteq Valid
    BY <2>2, <1>3 DEF Judged
  <2>4. c \in Valid \/ c \in Outstanding
    BY <2>1, <2>2 DEF Judged
  <2>. QED BY <2>3, <2>4, SectionTodo
<1>5. ASSUME NEW u \in Threads, pc'[u] = "clean", fOk'[u]
      PROVE  vChecks'[u] \subseteq Valid
  BY <1>2, <1>5, SMT DEF Judged
<1>6. ASSUME added' \subseteq Valid
      PROVE  fAllOk' /\ \A u \in Threads : vChecks'[u] # {} => fOk'[u]
  <2>1. NowOk(t)
    BY <1>1, <1>6 DEF Judged, NowOk
  <2>2. \A u \in Threads \ {t} : vChecks'[u] # {} => fOk'[u]
    BY <1>1, <1>2, <1>6 DEF Judged
  <2>3. vChecks'[t] # {} => fOk'[t]
    BY <2>1 DEF TypeOK
  <2>. QED BY <2>1, <2>2, <2>3
<1>. QED BY <1>1, <1>4, <1>5, <1>6 DEF Judged

\* A section neither enters nor leaves a control.
LEMMA SectionExclusive ==
    ASSUME TypeOK, Exclusive,
           NEW t \in Threads, NEW l \in Places, Report(t, l),
           fAllOk' = NowOk(t) \/ fAllOk' = TRUE, vChecks[t] \subseteq added, l # "out"
    PROVE  Exclusive'
<1>. USE SectionMoves DEF Report
<1>1. \A m \in Masters : pc'[m] # "out" <=> control' = m
  BY ZenonT(30) DEF Exclusive, Threads
<1>2. control' = None => added' = {} /\ fAllOk'
  BY DEF Exclusive, NowOk
<1>. QED BY <1>1, <1>2 DEF Exclusive

\* A report that leaves nothing to do wakes the master that waits.
LEMMA SectionAttended ==
    ASSUME TypeOK, Placed, Counted, Exclusive, Attended,
           NEW t \in Threads, NEW l \in Places, NEW B, Section(t, l, B),
           fAllOk' = NowOk(t), fRet' = fRet, l # "return",
           l = "wait" /\ t \in Masters => queue = {} /\ NowTodo(t) # 0
    PROVE  Attended'
<1>. SUFFICES ASSUME NEW m \in Masters
              PROVE  /\ pc'[m] = "return" => /\ fRet'[m] = (added' \subseteq Valid)
                                             /\ fAllOk' /\ Outstanding' = {}
                     /\ pc'[m] = "wait" => queue' = {} /\ Outstanding' # {}
  BY DEF Attended
<1>. USE SectionMoves, SectionTodo DEF Section, Threads
<1>1. added' = added /\ pc[t] \in {"enter", "woken", "clean"}
  BY DEF Report
<1>2. CASE pc'[m] = "return"
  <2>1. pc[m] = "return" /\ m # t
    BY <1>1, <1>2
  <2>2. Outstanding = {} /\ fAllOk /\ fRet[m] = (added \subseteq Valid)
    BY <2>1 DEF Attended
  <2>3. vChecks[t] = {}
    BY <2>2, SMT DEF Outstanding
  <2>. QED BY <1>1, <1>2, <2>2, <2>3 DEF NowOk
<1>3. CASE pc'[m] = "wait" /\ m = t
  BY <1>3
<1>4. CASE pc'[m] = "wait" /\ m # t
  <2>1. pc[m] = "wait" /\ queue = {} /\ Outstanding # {}
    BY <1>4 DEF Attended
  <2>2. t \in Workers /\ control = m
    BY <1>1, <1>4, <2>1 DEF Exclusive
  <2>3. SUFFICES ASSUME Outstanding' = {} PROVE FALSE
    BY <1>4, <2>1
  <2>4. vChecks[t] # {} /\ NowTodo(t) = 0
    BY <2>1, <2>3
  <2>5. Waiting(Masters) = {m}
    BY <2>1, <2>2, SMT DEF Waiting, Exclusive
  <2>6. WokenByReport(t) = {{m}}
    BY <2>2, <2>4, <2>5, SMT DEF WokenByReport, NotifyOne
  <2>7. pc'[m] = "woken"
    BY <1>4, <2>6 DEF Report, Moved
  <2>. QED BY <1>4, <2>7
<1>. QED BY <1>2, <1>3, <1>4

-----------------------------------------------------------------------------
(* The actions keep the invariant.                                           *)

\* The sections of Loop that wait, quit or take a batch.
LEMMA LoopStep ==
    ASSUME QueueIInv, NEW t \in Threads, Block(t) \/ Quit(t) \/ Take(t)
    PROVE  QueueIInv'
<1>1. PICK l \in {"wait", "exit", "run"}, B \in SUBSET queue :
          /\ Section(t, l, B)
          /\ fAllOk' = NowOk(t) /\ fRet' = fRet
          /\ fOk' = [fOk EXCEPT ![t] = NowOk(t)] \/ (fOk' = fOk /\ B = {})
          /\ l = "wait" /\ t \in Masters => queue = {} /\ NowTodo(t) # 0
          /\ nIdle' \in Int /\ nTotal' \in Int
  <2>1. NowIdle(t) \in Int /\ NowTotal(t) \in Int
    BY SMT DEF QueueIInv, TypeOK, NowIdle, NowTotal
  <2>2. CASE Block(t)
    <3>1. Section(t, "wait", {})
      BY <2>2 DEF Block, Section
    <3>. QED BY <2>1, <2>2, <3>1, SMT DEF Block, MustWait
  <2>3. CASE Quit(t)
    <3>1. Section(t, "exit", {})
      BY <2>3 DEF Quit, Section
    <3>. QED BY <2>1, <2>3, <3>1, SMT DEF Quit
  <2>4. CASE Take(t)
    <3>1. PICK B \in kSubset(nNow(t), queue) :
              queue' = queue \ B /\ vChecks' = [vChecks EXCEPT ![t] = B]
      BY <2>4 DEF Take
    <3>2. B \in SUBSET queue
      BY <3>1 DEF kSubset
    <3>3. Section(t, "run", B)
      BY <2>4, <3>1, <3>2 DEF Take, Section
    <3>. QED BY <2>1, <2>4, <3>2, <3>3 DEF Take
  <2>. QED BY <2>2, <2>3, <2>4
<1>2. l \in Places /\ Report(t, l)
  BY <1>1 DEF Places, InLoop, Section
<1>3. Placed' /\ Counted'
  BY <1>1, <1>2, SectionPlaced DEF QueueIInv
<1>4. Judged'
  BY <1>1, <1>2, SectionJudged DEF QueueIInv
<1>5. Exclusive'
  <2>1. vChecks[t] \subseteq added
    BY DEF QueueIInv, Placed, Outstanding
  <2>. QED BY <1>1, <1>2, <2>1, SectionExclusive DEF QueueIInv
<1>6. Attended'
  BY <1>1, <1>2, SectionAttended DEF QueueIInv
<1>7. TypeOK'
  <2>1. pc' \in [Threads -> Places] /\ NowTodo(t) \in Nat
    BY <1>1, <1>2, SectionMoves, SectionTodo DEF QueueIInv
  <2>2. queue' \subseteq Checks /\ vChecks' \in [Threads -> SUBSET Checks]
    BY <1>1 DEF Section, QueueIInv, TypeOK
  <2>3. NowOk(t) \in BOOLEAN
    BY DEF NowOk, QueueIInv, TypeOK
  <2>. QED BY <1>1, <1>2, <2>1, <2>2, <2>3 DEF Report, QueueIInv, TypeOK
<1>. QED BY <1>3, <1>4, <1>5, <1>6, <1>7 DEF QueueIInv

\* The verdict that is returned: everything was reported, and what failed is in
\* fAllOk or in the master's own fOk.
LEMMA ReturnStep ==
    ASSUME QueueIInv, NEW m \in Masters, Return(m)
    PROVE  QueueIInv'
<1>1. m \in Threads /\ "return" \in Places
  BY DEF Threads, Places
<1>2. Report(m, "return") /\ Section(m, "return", {})
  BY DEF Return, Section
<1>3. Placed' /\ Counted'
  BY <1>1, <1>2, SectionPlaced DEF QueueIInv
<1>4. Outstanding' = {} /\ NowTodo(m) = 0
  BY <1>1, <1>2, SectionTodo DEF QueueIInv, Return
<1>5. added' = added /\ pc[m] \in {"enter", "woken", "clean"} /\ control = m
  BY <1>2 DEF Report, QueueIInv, Exclusive
<1>6. \A u \in Threads : vChecks'[u] = {}
  BY <1>4 DEF Outstanding
<1>7. NowOk(m) = (added \subseteq Valid)
  <2>1. ASSUME added \subseteq Valid PROVE NowOk(m)
    BY <2>1, <1>1 DEF QueueIInv, Judged, NowOk
  <2>2. ASSUME NowOk(m), NEW c \in added PROVE c \in Valid
    <3>1. \A n \in Masters : pc[n] # "return"
      BY <1>5 DEF QueueIInv, Exclusive
    <3>2. c \in Valid \/ c \in vChecks[m]
      BY <2>2, <3>1, <1>1, <1>2, <1>4, SectionTodo DEF QueueIInv, Judged, NowOk
    <3>3. vChecks[m] \subseteq Valid
      BY <2>2, <1>1, <1>5 DEF QueueIInv, Judged, Placed, NowOk
    <3>. QED BY <3>2, <3>3
  <2>3. NowOk(m) \in BOOLEAN
    BY <1>1 DEF NowOk, QueueIInv, TypeOK
  <2>. QED BY <2>1, <2>2, <2>3
<1>8. Judged'
  <2>1. pc'[m] = "return"
    BY <1>1, <1>2, SectionMoves DEF QueueIInv
  <2>. QED BY <2>1, <1>6 DEF Judged, Return
<1>9. Exclusive'
  <2>1. vChecks[m] \subseteq added
    BY <1>1 DEF QueueIInv, Placed, Outstanding
  <2>. QED BY <1>1, <1>2, <2>1, SectionExclusive DEF QueueIInv, Return
<1>10. Attended'
  <2>1. \A n \in Masters : pc'[n] = "return" => n = m
    BY <1>5, <1>9 DEF Exclusive, Report, Return
  <2>2. \A n \in Masters : pc'[n] # "wait"
    BY <1>1, <1>2, <1>5, <1>9, SectionMoves, SMTT(30) DEF Exclusive, Report, QueueIInv
  <2>. QED BY <2>1, <2>2, <1>4, <1>5, <1>7 DEF Attended, Return, QueueIInv, TypeOK
<1>11. TypeOK'
  <2>1. pc' \in [Threads -> Places]
    BY <1>1, <1>2, SectionMoves DEF QueueIInv
  <2>2. NowIdle(m) \in Int /\ NowTotal(m) \in Int /\ NowOk(m) \in BOOLEAN
    BY <1>1, SMT DEF NowOk, QueueIInv, TypeOK, NowIdle, NowTotal
  <2>3. fRet' \in [Masters -> BOOLEAN] /\ vChecks' \in [Threads -> SUBSET Checks]
    BY <1>1, <2>2 DEF Return, QueueIInv, TypeOK
  <2>4. nTotal' \in Int /\ nIdle' \in Int /\ nTodo' \in Nat /\ fAllOk' \in BOOLEAN
    BY <1>2, <1>4, <2>2, SMT DEF Return, Report
  <2>. QED BY <1>2, <2>1, <2>3, <2>4 DEF Return, Report, QueueIInv, TypeOK
<1>. QED BY <1>3, <1>8, <1>9, <1>10, <1>11 DEF QueueIInv

\* A step that only moves threads, none of them into or out of a batch, to a
\* verdict or to wait.
LEMMA MoveStep ==
    ASSUME QueueIInv, UNCHANGED <<queue, fAllOk, nTodo, vChecks, fOk, fRet, added>>,
           pc' \in [Threads -> Places],
           \A u \in Threads : /\ \A l \in {"run", "clean", "return"} : pc'[u] = l <=> pc[u] = l
                              /\ pc'[u] = "wait" => pc[u] = "wait"
    PROVE  Placed' /\ Counted' /\ Judged' /\ Attended'
<1>1. Outstanding' = Outstanding
  BY DEF Outstanding
<1>2. Placed' /\ Counted'
  BY <1>1 DEF QueueIInv, Placed, Counted
<1>3. Judged'
  BY <1>1 DEF QueueIInv, Judged, Threads
<1>4. Attended'
  BY <1>1 DEF QueueIInv, Attended, Threads
<1>. QED BY <1>2, <1>3, <1>4

\* The constructor of a control finds m_control_mutex free.
LEMMA BeginStep ==
    ASSUME QueueIInv, NEW m \in Masters, Begin(m)
    PROVE  QueueIInv'
<1>. m \in Threads /\ m # None
  BY CheckQueueAssumption DEF Threads
<1>1. TypeOK'
  BY SMT DEF Begin, shared, QueueIInv, TypeOK, Places
<1>2. Placed' /\ Counted' /\ Judged' /\ Attended'
  BY <1>1, MoveStep DEF Begin, shared, TypeOK, QueueIInv
<1>3. Exclusive'
  BY CheckQueueAssumption DEF Begin, shared, QueueIInv, TypeOK, Exclusive, Threads
<1>. QED BY <1>1, <1>2, <1>3 DEF QueueIInv

\* The notification at the end of Add wakes workers only.
LEMMA NotifyStep ==
    ASSUME QueueIInv, NEW m \in Masters, Notify(m)
    PROVE  QueueIInv'
<1>. m \in Threads
  BY DEF Threads
<1>1. PICK woken \in SUBSET Waiting(Workers) : pc' = Moved(m, "adding", woken)
  BY DEF Notify, NotifyOne, NotifyAll
<1>2. pc' \in [Threads -> Places] /\ pc'[m] = "adding"
  BY <1>1 DEF Moved, Places, InLoop, QueueIInv, TypeOK
<1>3. \A u \in Threads \ {m} :
          pc'[u] = pc[u] \/ (u \in Workers /\ pc[u] = "wait" /\ pc'[u] = "woken")
  BY <1>1 DEF Moved, Waiting
<1>4. TypeOK'
  BY <1>2 DEF Notify, shared, QueueIInv, TypeOK
<1>5. Placed' /\ Counted' /\ Judged' /\ Attended'
  BY <1>2, <1>3, MoveStep DEF Notify, shared
<1>6. Exclusive'
  BY <1>2, <1>3, CheckQueueAssumption DEF Notify, shared, QueueIInv, Exclusive, Threads
<1>. QED BY <1>4, <1>5, <1>6 DEF QueueIInv

\* The master joins the workers.
LEMMA WaitStep ==
    ASSUME QueueIInv, NEW m \in Masters, Wait(m)
    PROVE  QueueIInv'
<1>. m \in Threads
  BY DEF Threads
<1>1. TypeOK'
  BY DEF Wait, shared, QueueIInv, TypeOK, Places
<1>2. Placed' /\ Counted' /\ Judged' /\ Attended'
  BY <1>1, MoveStep DEF Wait, shared, QueueIInv, TypeOK
<1>3. Exclusive'
  BY DEF Wait, shared, QueueIInv, TypeOK, Exclusive, Threads
<1>. QED BY <1>1, <1>2, <1>3 DEF QueueIInv

\* A wake-up without a notification.
LEMMA SpuriousStep ==
    ASSUME QueueIInv, NEW t \in Threads, Spurious(t)
    PROVE  QueueIInv'
<1>1. TypeOK'
  BY DEF Spurious, shared, QueueIInv, TypeOK, Places, InLoop
<1>2. Placed' /\ Counted' /\ Judged' /\ Attended'
  BY <1>1, MoveStep DEF Spurious, shared, QueueIInv, TypeOK
<1>3. Exclusive'
  BY DEF Spurious, shared, QueueIInv, TypeOK, Exclusive, Threads
<1>. QED BY <1>1, <1>2, <1>3 DEF QueueIInv

\* The destructor of the queue wakes workers only.
LEMMA DestroyStep ==
    ASSUME QueueIInv, Destroy
    PROVE  QueueIInv'
<1>1. pc' \in [Threads -> Places] /\ \A u \in Threads :
          pc'[u] = pc[u] \/ (u \in Workers /\ pc[u] = "wait" /\ pc'[u] = "woken")
  BY DEF Destroy, RequestStop, NotifyStop, Join, Waiting, Places, InLoop, QueueIInv, TypeOK
<1>2. TypeOK'
  BY <1>1 DEF Destroy, RequestStop, NotifyStop, Join, shared, QueueIInv, TypeOK
<1>3. Placed' /\ Counted' /\ Judged' /\ Attended'
  BY <1>1, MoveStep DEF Destroy, RequestStop, NotifyStop, Join, shared
<1>4. Exclusive'
  <2>1. \A m \in Masters : pc'[m] # "out" <=> pc[m] # "out"
    BY <1>1, CheckQueueAssumption DEF Threads
  <2>. QED BY <2>1 DEF Destroy, RequestStop, NotifyStop, Join, shared, QueueIInv, Exclusive
<1>. QED BY <1>2, <1>3, <1>4 DEF QueueIInv

\* The checks are new, so they were outstanding nowhere.
LEMMA AddStep ==
    ASSUME QueueIInv, NEW m \in Masters, NEW checks \in SUBSET Checks, Add(m, checks)
    PROVE  QueueIInv'
<1>. m \in Threads
  BY DEF Threads
<1>1. Outstanding' = Outstanding \cup checks /\ Outstanding \cap checks = {}
  <2>1. Outstanding \subseteq added /\ checks \cap added = {} BY DEF Add, QueueIInv, Placed
  <2>2. queue' = queue \cup checks /\ vChecks' = vChecks BY DEF Add
  <2>3. Outstanding' = Outstanding \cup checks BY <2>2, ZenonT(30) DEF Outstanding
  <2>. QED BY <2>1, <2>3
<1>2. /\ IsFiniteSet(Outstanding) /\ IsFiniteSet(checks)
      /\ Cardinality(Outstanding) \in Nat /\ Cardinality(checks) \in Nat
  <2>1. Outstanding \subseteq Checks
    BY DEF Outstanding, QueueIInv, TypeOK
  <2>. QED BY <2>1, CheckQueueAssumption, FS_Subset, FS_CardinalityType
<1>3. Cardinality(Outstanding') = Cardinality(Outstanding) + Cardinality(checks)
  BY <1>1, <1>2, FS_Union, FS_EmptySet, SMT
<1>4. TypeOK'
  <2>1. pc' \in [Threads -> Places]
    BY DEF Add, QueueIInv, TypeOK, Places
  <2>2. nTodo' \in Nat
    <3>1. nTodo \in Nat /\ nTodo' = nTodo + Cardinality(checks) BY DEF Add, QueueIInv, TypeOK
    <3>. QED BY <1>2, <3>1, SMT
  <2>3. queue' \subseteq Checks /\ added' \subseteq Checks BY DEF Add, QueueIInv, TypeOK
  <2>. QED BY <2>1, <2>2, <2>3 DEF Add, QueueIInv, TypeOK
<1>5. control = m /\ pc'[m] \in {"notify_one", "notify_all"}
  BY DEF Add, QueueIInv, TypeOK, Exclusive
<1>6. \A u \in Threads \ {m} : pc'[u] = pc[u]
  BY DEF Add, QueueIInv, TypeOK
<1>7. Placed'
  <2>1. Placed BY DEF QueueIInv
  <2>2. /\ checks \cap added = {} /\ queue' = queue \cup checks /\ vChecks' = vChecks
        /\ added' = added \cup checks /\ pc[m] = "adding"
    BY DEF Add
  <2>3. Outstanding' \subseteq added' BY <1>1, <2>1, <2>2 DEF Placed
  <2>4. \A t \in Threads : vChecks'[t] \cap queue' = {}
    <3>1. \A t \in Threads : vChecks[t] \subseteq added BY <2>1 DEF Placed, Outstanding
    <3>. QED BY <2>1, <2>2, <3>1 DEF Placed
  <2>5. \A t \in Threads : vChecks'[t] # {} => pc'[t] \in {"run", "clean"}
    BY <1>6, <2>1, <2>2 DEF Placed
  <2>. QED BY <2>1, <2>2, <2>3, <2>4, <2>5 DEF Placed
<1>8. Counted'
  BY <1>3 DEF Add, QueueIInv, Counted
<1>9. Judged'
  <2>1. vChecks[m] = {}
    BY DEF Add, QueueIInv, Placed
  <2>2. \A n \in Masters : pc[n] # "return"
    BY <1>5 DEF Add, QueueIInv, Exclusive
  <2>3. \A c \in added' : fAllOk' => c \in Valid \/ c \in Outstanding'
    BY <1>1, <2>2 DEF Add, QueueIInv, Judged
  <2>4. \A u \in Threads : pc'[u] = "clean" /\ fOk'[u] => vChecks'[u] \subseteq Valid
    BY <1>5, <1>6, <2>1 DEF Add, QueueIInv, Judged
  <2>. QED BY <2>3, <2>4 DEF Add, QueueIInv, Judged
<1>10. Exclusive'
  BY <1>5, <1>6, CheckQueueAssumption DEF Add, QueueIInv, Exclusive, Threads
<1>11. Attended'
  <2>1. \A n \in Masters : pc'[n] \notin {"return", "wait"}
    BY <1>5, <1>6 DEF QueueIInv, Exclusive, Threads
  <2>. QED BY <2>1 DEF Attended
<1>. QED BY <1>4, <1>7, <1>8, <1>9, <1>10, <1>11 DEF QueueIInv

\* The master has its verdict, so nothing is outstanding.
LEMMA LeaveStep ==
    ASSUME QueueIInv, NEW m \in Masters, Leave(m)
    PROVE  QueueIInv'
<1>. m \in Threads
  BY DEF Threads
<1>1. Outstanding' = {} /\ Outstanding = {} /\ fAllOk /\ control = m
  BY DEF Leave, shared, Outstanding, QueueIInv, Attended, Exclusive
<1>2. \A u \in Threads : vChecks'[u] = {}
  BY <1>1 DEF Outstanding
<1>3. \A n \in Masters : pc'[n] = "out"
  BY <1>1 DEF Leave, QueueIInv, TypeOK, Exclusive, Threads
<1>4. TypeOK'
  BY DEF Leave, shared, QueueIInv, TypeOK, Places
<1>5. Placed' /\ Counted'
  BY <1>1, <1>2 DEF Leave, shared, QueueIInv, Placed, Counted
<1>6. Judged' /\ Attended'
  BY <1>1, <1>2, <1>3 DEF Leave, shared, Judged, Attended
<1>7. Exclusive'
  BY <1>1, <1>3, CheckQueueAssumption DEF Leave, shared, QueueIInv, Exclusive, Threads
<1>. QED BY <1>4, <1>5, <1>6, <1>7 DEF QueueIInv

\* What a batch contains decides fOk.
LEMMA ExecuteStep ==
    ASSUME QueueIInv, NEW t \in Threads, Execute(t)
    PROVE  QueueIInv'
<1>1. \A u \in Threads \ {t} : pc'[u] = pc[u] /\ fOk'[u] = fOk[u]
  BY DEF Execute, QueueIInv, TypeOK
<1>2. pc'[t] = "clean" /\ fOk'[t] = (fOk[t] /\ vChecks[t] \subseteq Valid)
  BY DEF Execute, QueueIInv, TypeOK
<1>3. TypeOK'
  <2>1. pc' \in [Threads -> Places] /\ fOk' \in [Threads -> BOOLEAN]
    BY DEF Execute, QueueIInv, TypeOK, Places, InLoop
  <2>. QED BY <2>1 DEF Execute, shared, QueueIInv, TypeOK
<1>4. Outstanding' = Outstanding
  BY DEF Execute, shared, Outstanding
<1>5. Placed' /\ Counted'
  BY <1>1, <1>2, <1>4 DEF Execute, shared, QueueIInv, Placed, Counted
<1>6. Judged'
  <2>1. \A u \in Threads : pc'[u] = "clean" /\ fOk'[u] => vChecks'[u] \subseteq Valid
    BY <1>1, <1>2 DEF Execute, QueueIInv, Judged
  <2>2. vChecks[t] \subseteq added
    BY DEF QueueIInv, Placed, Outstanding
  <2>3. \A u \in Threads : added' \subseteq Valid /\ vChecks'[u] # {} => fOk'[u]
    BY <1>1, <1>2, <2>2 DEF Execute, QueueIInv, Judged
  <2>4. \A m \in Masters : pc'[m] = "return" <=> pc[m] = "return"
    BY <1>1, <1>2 DEF Execute, Threads
  <2>. QED BY <1>4, <2>1, <2>3, <2>4 DEF Execute, shared, QueueIInv, Judged
<1>7. Exclusive'
  BY <1>1, <1>2 DEF Execute, shared, QueueIInv, Exclusive, Threads
<1>8. Attended'
  BY <1>1, <1>2, <1>4 DEF Execute, shared, QueueIInv, Attended, Threads
<1>. QED BY <1>3, <1>5, <1>6, <1>7, <1>8 DEF QueueIInv

-----------------------------------------------------------------------------

\* The queue starts empty.
LEMMA InitQueueIInv == Init => QueueIInv
<1>. SUFFICES ASSUME Init PROVE QueueIInv
  OBVIOUS
<1>1. Outstanding = {}
  BY DEF Init, Outstanding
<1>2. TypeOK
  <2>1. pc \in [Threads -> Places]
    BY DEF Init, Places
  <2>2. vChecks \in [Threads -> SUBSET Checks] /\ fOk \in [Threads -> BOOLEAN]
    BY DEF Init
  <2>3. fRet \in [Masters -> BOOLEAN]
    BY DEF Init
  <2>4. fAllOk \in BOOLEAN /\ m_request_stop \in BOOLEAN
    BY DEF Init
  <2>5. queue \subseteq Checks /\ added \subseteq Checks
    BY DEF Init
  <2>6. nIdle \in Int /\ nTotal \in Int /\ nTodo \in Nat /\ rounds \in Nat
    BY SMT DEF Init
  <2>7. control \in Masters \cup {None} /\ dtor \in {"alive", "notify", "join", "done"}
    BY DEF Init
  <2>. QED BY <2>1, <2>2, <2>3, <2>4, <2>5, <2>6, <2>7, ZenonT(30) DEF TypeOK
<1>3. \A m \in Masters : pc[m] = "out"
  BY CheckQueueAssumption DEF Init, Threads
<1>4. Counted
  BY <1>1, FS_EmptySet DEF Init, Counted
<1>5. Placed /\ Judged
  BY <1>1 DEF Init, Placed, Judged
<1>6. Exclusive /\ Attended
  BY <1>3, CheckQueueAssumption DEF Init, Exclusive, Attended, Threads
<1>. QED BY <1>2, <1>4, <1>5, <1>6 DEF QueueIInv

\* Every step of the pool, of a master and of the destructor keeps the invariant.
LEMMA NextQueueIInv == QueueIInv /\ [Next]_vars => QueueIInv'
<1>. SUFFICES ASSUME QueueIInv, [Next]_vars PROVE QueueIInv'
  OBVIOUS
<1>1. ASSUME NEW m \in Masters, Begin(m) PROVE QueueIInv'
  BY <1>1, BeginStep
<1>2. ASSUME NEW m \in Masters, Notify(m) \/ Wait(m) \/ Leave(m) \/ Return(m) PROVE QueueIInv'
  BY <1>2, NotifyStep, WaitStep, LeaveStep, ReturnStep
<1>3. ASSUME NEW t \in Threads, Loop(t) PROVE QueueIInv'
  BY <1>3, LoopStep, ExecuteStep DEF Loop
<1>4. ASSUME NEW m \in Masters, NEW checks \in SUBSET Checks, Add(m, checks) PROVE QueueIInv'
  BY <1>4, AddStep
<1>5. ASSUME NEW t \in Threads, Spurious(t) PROVE QueueIInv'
  BY <1>5, SpuriousStep
<1>6. CASE Destroy
  BY <1>6, DestroyStep
<1>7. CASE UNCHANGED vars
  BY <1>7, SMTT(30) DEF vars, shared, QueueIInv, TypeOK, Placed, Counted, Judged, Exclusive, Attended, Outstanding
<1>. QED BY <1>1, <1>2, <1>3, <1>4, <1>5, <1>6, <1>7, ZenonT(30) DEF Next, Master, Destroyed, Threads

\* The invariant holds in every behaviour.
LEMMA QueueInvariant == Spec => []QueueIInv
BY InitQueueIInv, NextQueueIInv, PTL DEF Spec

\* nTodo, which is unsigned, never wraps, and everything else keeps its type.
THEOREM QueueTypeOK == Spec => []TypeOK
<1>1. QueueIInv => TypeOK
  BY DEF QueueIInv
<1>. QED BY <1>1, QueueInvariant, PTL

\* nTodo is the number of checks that nobody has reported yet, each in one place.
THEOREM QueueTodoExact == Spec => []TodoExact
<1>1. QueueIInv => TodoExact
  BY DEF QueueIInv, Placed, Counted, TodoExact
<1>. QED BY <1>1, QueueInvariant, PTL

\* Wait() returns exactly whether all the checks of this control are valid, with
\* any number of workers and whatever the batches are.
THEOREM QueueVerdictExact == Spec => []VerdictExact
<1>1. QueueIInv => VerdictExact
  BY DEF QueueIInv, Attended, VerdictExact
<1>. QED BY <1>1, QueueInvariant, PTL

\* A control starts with an empty pool and without a failure.
THEOREM QueueCleanBetweenControls == Spec => []CleanBetweenControls
<1>1. QueueIInv => CleanBetweenControls
  <2>. SUFFICES ASSUME QueueIInv, control = None PROVE Outstanding = {} /\ nTodo = 0 /\ fAllOk
    BY DEF CleanBetweenControls
  <2>1. Outstanding = {} /\ fAllOk
    BY DEF QueueIInv, Exclusive, Placed
  <2>. QED BY <2>1, FS_EmptySet DEF QueueIInv, Counted
<1>. QED BY <1>1, QueueInvariant, PTL

\* A master that waits has a worker left that will wake it.
THEOREM QueueMasterNotForgotten == Spec => []MasterNotForgotten
<1>1. QueueIInv => MasterNotForgotten
  <2>. SUFFICES ASSUME QueueIInv, NEW m \in Masters, pc[m] = "wait"
                PROVE  queue = {} /\ \E w \in Workers : pc[w] \in {"run", "clean"}
    BY DEF MasterNotForgotten
  <2>1. queue = {} /\ Outstanding # {}
    BY DEF QueueIInv, Attended
  <2>2. PICK t \in Threads : vChecks[t] # {}
    BY <2>1 DEF Outstanding
  <2>3. pc[t] \in {"run", "clean"}
    BY <2>2 DEF QueueIInv, Placed
  <2>4. t \in Workers
    BY <2>3 DEF QueueIInv, Exclusive, Threads
  <2>. QED BY <2>1, <2>3, <2>4
<1>. QED BY <1>1, QueueInvariant, PTL
=============================================================================
