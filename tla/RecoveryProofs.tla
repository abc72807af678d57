---------------------------- MODULE RecoveryProofs ----------------------------
(***************************************************************************)
(* Proofs about Recovery, for every finite tree of valid blocks and any    *)
(* number of flushes, prunings and crashes.                                *)
(*                                                                         *)
(* At every outpoint a block either decides what is there afterwards, or   *)
(* leaves it alone.  Rolling a block back or forward therefore makes the   *)
(* coin right or keeps it, whatever mixture of two states the database was *)
(* left in; that is why a replay is correct, and can be repeated.          *)
(***************************************************************************)
EXTENDS Recovery, BlockTreeProofs

\* A leaf that names no prover is tried with Zenon.
USE Zenon

MaybeEntry == ValidEntry \cup {NoEntry}

\* An entry with truthful flags over a base coin, through which c is seen.
Shows(e, base, c) ==
    e \in MaybeEntry /\ base \in AnyCoin /\ SoundEntry(e, base) /\ GetCoin(e, base) = c

LEMMA NoEntryShows ==
    ASSUME NEW base \in AnyCoin
    PROVE  Shows(NoEntry, base, base)
  BY DEF Shows, MaybeEntry, SoundEntry, GetCoin

LEMMA SpendShows ==
    ASSUME NEW e, NEW base, NEW c, Shows(e, base, c)
    PROVE  Shows(SpendCoin(e, base), base, Spent)
  BY CoinAssumption, SMT
     DEF Shows, MaybeEntry, ValidEntry, Entry, Flags, AnyCoin, SoundEntry, FetchCoin,
         GetCoin, SpendCoin

LEMMA AddShows ==
    ASSUME NEW e, NEW base, NEW c, Shows(e, base, c), NEW coin \in Coins,
           NEW overwrite \in BOOLEAN, overwrite \/ c = Spent
    PROVE  Shows(AddCoin(e, coin, overwrite), base, coin)
  BY CoinAssumption, SMT
     DEF Shows, MaybeEntry, ValidEntry, Entry, Flags, AnyCoin, SoundEntry, GetCoin, AddCoin

\* Flushing a view into the cache below it.
LEMMA FlushShows ==
    ASSUME NEW e, NEW base, NEW c, Shows(e, base, c), NEW v, NEW d, Shows(v, c, d)
    PROVE  Shows(BatchWriteEntry(v, IF v = NoEntry THEN e ELSE FetchCoin(e, base)), base, d)
<1>1. CASE v = NoEntry
  BY <1>1 DEF Shows, GetCoin, BatchWriteEntry, IsDirty
<1>2. CASE v # NoEntry
  <2>1. Shows(FetchCoin(e, base), base, c)
    BY CoinAssumption
       DEF Shows, MaybeEntry, ValidEntry, Entry, Flags, AnyCoin, SoundEntry, FetchCoin, GetCoin
  <2>2. ASSUME NEW f, Shows(f, base, c) PROVE Shows(BatchWriteEntry(v, f), base, d)
    BY <2>2, CoinAssumption, SMT
       DEF Shows, MaybeEntry, ValidEntry, Entry, Flags, AnyCoin, SoundEntry, GetCoin,
           BatchWriteEntry, IsDirty
  <2>. QED BY <1>2, <2>1, <2>2
<1>. QED BY <1>1, <1>2

-----------------------------------------------------------------------------
(* Recursion and induction over numbers.                                     *)

\* A set of numbers that has 0 and the successors of its members has them all.
LEMMA Climb ==
    ASSUME NEW N \in Nat, NEW S \in SUBSET (0..N), 0 \in S,
           \A k \in 1..N : k - 1 \in S => k \in S
    PROVE  \A k \in 0..N : k \in S
<1>. DEFINE Bad == {k \in 0..N : k \notin S}
<1>. SUFFICES ASSUME Bad # {} PROVE FALSE OBVIOUS
<1>1. Bad \subseteq Nat BY SMT
<1>2. PICK n \in Bad : \A m \in Bad : ~ (m < n)
  <2>. HIDE DEF Bad
  <2>. QED BY <1>1, LeastNumber
<1>3. n \in 1..N /\ n - 1 \in 0..N /\ n - 1 < n BY <1>2, SMT
<1>4. n - 1 \in S BY <1>2, <1>3
<1>. QED BY <1>2, <1>3, <1>4

\* A sequence given by its first element and its steps.
IsSteps(F, N, V) == N \in Nat /\ F \in [1..N -> [V -> V]]
HasSequence(F, N, V, first) ==
    \E g \in [0..N -> V] : g[0] = first /\ \A k \in 1..N : g[k] = F[k][g[k - 1]]

\* It exists.
LEMMA StepsExist ==
    ASSUME NEW N, NEW V, NEW first \in V, NEW F, IsSteps(F, N, V)
    PROVE  HasSequence(F, N, V, first)
<1>0. N \in Nat /\ F \in [1..N -> [V -> V]] BY DEF IsSteps
<1>. DEFINE Good(n, g) == g[0] = first /\ \A k \in 1..n : g[k] = F[k][g[k - 1]]
            S == {n \in 0..N : \E g \in [0..N -> V] : Good(n, g)}
<1>1. 0 \in S
  <2>. DEFINE g == [k \in 0..N |-> first]
  <2>1. g \in [0..N -> V] /\ Good(0, g) /\ 0 \in 0..N BY <1>0, SMT
  <2>. HIDE DEF g
  <2>2. \E f \in [0..N -> V] : Good(0, f) BY <2>1
  <2>. QED BY <2>1, <2>2
<1>2. ASSUME NEW n \in 1..N, n - 1 \in S PROVE n \in S
  <2>1. PICK g \in [0..N -> V] : Good(n - 1, g) BY <1>2
  <2>2. n - 1 \in 0..N /\ n \in 0..N /\ n # 0 /\ n - 1 # n BY <1>0, SMT
  <2>. DEFINE h == [g EXCEPT ![n] = F[n][g[n - 1]]]
  <2>3. F[n][g[n - 1]] \in V BY <1>0, <2>2
  <2>4. h \in [0..N -> V] BY <2>3
  <2>5. \A k \in 0..N : k # n => h[k] = g[k] OBVIOUS
  <2>6. h[n] = F[n][h[n - 1]] BY <2>2
  <2>. HIDE DEF h
  <2>7. ASSUME NEW k \in 1..n PROVE h[k] = F[k][h[k - 1]]
    <3>1. CASE k = n BY <2>6, <3>1
    <3>2. CASE k # n
      <4>1. k \in 0..N /\ k - 1 \in 0..N /\ k - 1 # n /\ k \in 1..(n - 1) BY <1>0, <3>2, SMT
      <4>. QED BY <2>1, <2>5, <3>2, <4>1
    <3>. QED BY <3>1, <3>2
  <2>8. h[0] = first
    <3>1. 0 \in 0..N /\ 0 # n BY <1>0, SMT
    <3>. QED BY <2>1, <2>5, <3>1
  <2>9. Good(n, h) BY <2>7, <2>8
  <2>. QED BY <2>2, <2>4, <2>9
<1>3. S \subseteq 0..N OBVIOUS
<1>. HIDE DEF S
<1>4. N \in S
  <2>1. N \in 0..N /\ S \in SUBSET (0..N) BY <1>0, <1>3, SMT
  <2>. QED BY <1>0, <1>1, <1>2, <2>1, Climb
<1>. QED BY <1>4 DEF S, HasSequence

-----------------------------------------------------------------------------
(* What a block does to the coins.                                           *)

Touched(b) == Spends(b) \cup Creates(b)

CoinMap == [Outpoints -> AnyCoin]

\* No coin before or in the first block.
LEMMA UtxoEmpty == \A o \in Outpoints : Utxo[Null][o] = Spent /\ Utxo[Genesis][o] = Spent
<1>1. Genesis \in Blocks /\ Null \notin Blocks BY TreeAssumption, RecoveryAssumption
<1>2. Anc[Genesis] = {Genesis} BY <1>1, AncDef
<1>. QED BY <1>1, <1>2 DEF Utxo

\* A block decides what is at the outpoints it touches, and leaves the others.
LEMMA UtxoStep ==
    ASSUME NEW b \in Blocks \ {Genesis}, NEW o \in Outpoints
    PROVE  Utxo[b][o] = IF o \in Spends(b) THEN Spent
                        ELSE IF o \in Creates(b) THEN Height[b] ELSE Utxo[Prev[b]][o]
<1>. DEFINE T(x) == {a \in Anc[x] \ {Genesis} : o \in Spends(a) \cup Creates(a)}
            L(x) == CHOOSE a \in T(x) : \A c \in T(x) : Height[c] <= Height[a]
<1>1. Prev[b] \in Blocks /\ Null \notin Blocks BY PrevType, RecoveryAssumption
<1>2. ASSUME NEW x \in Blocks
      PROVE  Utxo[x][o] = IF T(x) = {} \/ o \in Spends(L(x)) THEN Spent ELSE Height[L(x)]
  <2>1. x # Null BY <1>1
  <2>. QED BY <2>1, SMT DEF Utxo
<1>3. Anc[b] = {b} \cup Anc[Prev[b]] BY AncDef
<1>4. CASE o \in Spends(b) \cup Creates(b)
  <2>1. b \in T(b) BY <1>3, <1>4
  <2>2. \A a \in T(b) : Height[a] \in Nat /\ (a = b \/ Height[a] < Height[b])
    BY AncHeight, HeightDef
  <2>3. Height[b] \in Nat BY HeightDef
  <2>4. \A a \in T(b) : Height[a] <= Height[b] BY <2>2, <2>3, SMT
  <2>5. ASSUME NEW a \in T(b), \A c \in T(b) : Height[c] <= Height[a] PROVE a = b
    BY <2>1, <2>2, <2>3, <2>5, SMT
  <2>6. L(b) = b
    <3>. HIDE DEF T
    <3>. QED BY <2>1, <2>4, <2>5
  <2>. QED BY <1>2, <1>4, <2>1, <2>6
<1>5. CASE o \notin Spends(b) \cup Creates(b)
  <2>1. T(b) = T(Prev[b]) BY <1>3, <1>5
  <2>. HIDE DEF T
  <2>2. L(b) = L(Prev[b]) BY <2>1
  <2>3. Utxo[b][o] = Utxo[Prev[b]][o] BY <1>1, <1>2, <2>1, <2>2
  <2>. QED BY <1>5, <2>3
<1>. QED BY <1>4, <1>5

LEMMA UtxoType == \A b \in Blocks \cup {Null} : Utxo[b] \in CoinMap
<1>. DEFINE S == {b \in Blocks : \A o \in Outpoints : Utxo[b][o] \in AnyCoin}
<1>1. Genesis \in S BY UtxoEmpty, TreeAssumption DEF AnyCoin
<1>2. ASSUME NEW b \in Blocks \ {Genesis}, Prev[b] \in S PROVE b \in S
  <2>1. Height[b] \in Coins BY RecoveryAssumption
  <2>. QED BY <1>2, <2>1, UtxoStep DEF AnyCoin
<1>3. S = Blocks
  <2>1. S \in SUBSET Blocks OBVIOUS
  <2>. HIDE DEF S
  <2>. QED BY <1>1, <1>2, <2>1, TreeInduction
<1>4. \A o \in Outpoints : Utxo[Null][o] \in AnyCoin BY UtxoEmpty DEF AnyCoin
<1>5. \A b \in Blocks \cup {Null} : \A o \in Outpoints : Utxo[b][o] \in AnyCoin BY <1>3, <1>4
<1>6. \A b \in Blocks \cup {Null} : Utxo[b] = [o \in Outpoints |-> Utxo[b][o]] BY SMT DEF Utxo
<1>. QED BY <1>5, <1>6 DEF CoinMap

-----------------------------------------------------------------------------
(* Views that a block's transactions are applied to.                         *)

AnyEntry == Entry \cup {NoEntry}

\* The truthful view v over base shows the coins c.
ViewShows(v, base, c) ==
    v \in [Outpoints -> MaybeEntry] /\ \A o \in Outpoints : Shows(v[o], base[o], c[o])

LEMMA EmptyShows == ASSUME NEW base \in CoinMap PROVE ViewShows(EmptyCache, base, base)
  BY NoEntryShows DEF ViewShows, EmptyCache, CoinMap, MaybeEntry

LEMMA EntryClosed ==
    ASSUME NEW e \in AnyEntry, NEW c \in AnyCoin, NEW overwrite \in BOOLEAN
    PROVE  SpendCoin(e, c) \in AnyEntry /\ AddCoin(e, c, overwrite) \in AnyEntry
<1>1. SpendCoin(e, c) \in AnyEntry
  BY CoinAssumption DEF AnyEntry, Entry, Flags, AnyCoin, FetchCoin, SpendCoin
<1>2. AddCoin(e, c, overwrite) \in AnyEntry
  BY CoinAssumption DEF AnyEntry, Entry, Flags, AddCoin
<1>. QED BY <1>1, <1>2

\* The transactions of a block.
LEMMA BlockShape ==
    ASSUME NEW b \in Blocks \ {Genesis}
    PROVE  /\ Len(Vtx[b]) \in Nat /\ DOMAIN Vtx[b] = 1..Len(Vtx[b])
           /\ \A i \in 1..Len(Vtx[b]) : Vtx[b][i].vin \subseteq Outpoints /\ Vtx[b][i].vout \subseteq Outpoints
           /\ \A i, j \in 1..Len(Vtx[b]) : \A o \in Outpoints :
                 /\ o \in Vtx[b][i].vin /\ o \in Vtx[b][j].vin => i = j
                 /\ o \in Vtx[b][i].vout /\ o \in Vtx[b][j].vout => i = j
                 /\ o \in Vtx[b][i].vout /\ o \in Vtx[b][j].vin => i < j
           /\ Height[b] \in Coins /\ Height[b] \in AnyCoin
           /\ Spends(b) \subseteq Outpoints /\ Creates(b) \subseteq Outpoints
<1>1. Vtx[b] \in Seq([vin : SUBSET Outpoints, vout : SUBSET Outpoints]) BY RecoveryAssumption
<1>2. Len(Vtx[b]) \in Nat /\ DOMAIN Vtx[b] = 1..Len(Vtx[b]) BY <1>1, SMT
<1>3. \A i \in 1..Len(Vtx[b]) : Vtx[b][i] \in [vin : SUBSET Outpoints, vout : SUBSET Outpoints]
  <2>. DEFINE Txs == [vin : SUBSET Outpoints, vout : SUBSET Outpoints]
  <2>1. Vtx[b] \in Seq(Txs) BY <1>1
  <2>. HIDE DEF Txs
  <2>2. \A i \in 1..Len(Vtx[b]) : Vtx[b][i] \in Txs BY <2>1, SMT
  <2>. QED BY <2>2 DEF Txs
<1>4. \A i \in 1..Len(Vtx[b]) : Vtx[b][i].vin \subseteq Outpoints /\ Vtx[b][i].vout \subseteq Outpoints
  BY <1>3
<1>5. \A i, j \in 1..Len(Vtx[b]) :
         /\ Vtx[b][i].vin \cap Vtx[b][j].vin # {} => i = j
         /\ Vtx[b][i].vout \cap Vtx[b][j].vout # {} => i = j
         /\ Vtx[b][i].vout \cap Vtx[b][j].vin # {} => i < j
  BY <1>2, RecoveryAssumption
<1>6. ASSUME NEW i \in 1..Len(Vtx[b]), NEW j \in 1..Len(Vtx[b]), NEW o
      PROVE  /\ o \in Vtx[b][i].vin /\ o \in Vtx[b][j].vin => i = j
             /\ o \in Vtx[b][i].vout /\ o \in Vtx[b][j].vout => i = j
             /\ o \in Vtx[b][i].vout /\ o \in Vtx[b][j].vin => i < j
  <2>1. /\ o \in Vtx[b][i].vin /\ o \in Vtx[b][j].vin => Vtx[b][i].vin \cap Vtx[b][j].vin # {}
        /\ o \in Vtx[b][i].vout /\ o \in Vtx[b][j].vout => Vtx[b][i].vout \cap Vtx[b][j].vout # {}
        /\ o \in Vtx[b][i].vout /\ o \in Vtx[b][j].vin => Vtx[b][i].vout \cap Vtx[b][j].vin # {}
    OBVIOUS
  <2>. QED BY <1>5, <2>1
<1>7. Height[b] \in Coins /\ Height[b] \in AnyCoin BY RecoveryAssumption DEF AnyCoin
<1>8. Spends(b) \subseteq Outpoints /\ Creates(b) \subseteq Outpoints
  BY <1>2, <1>4 DEF Spends, Creates
<1>. QED BY <1>2, <1>4, <1>6, <1>7, <1>8

\* Outpoints that the transactions from one to another spend and create.
SpentBy(b, i, j) == {o \in Outpoints : \E k \in i..j : o \in Vtx[b][k].vin}
CreatedBy(b, i, j) == {o \in Outpoints : \E k \in i..j : o \in Vtx[b][k].vout}

\* The coins after the first k transactions.
After(b, k, c) == [o \in Outpoints |-> IF o \in SpentBy(b, 1, k) THEN Spent
                                      ELSE IF o \in CreatedBy(b, 1, k) THEN Height[b] ELSE c[o]]

LEMMA AfterStep ==
    ASSUME NEW b \in Blocks \ {Genesis}, NEW k \in 1..Len(Vtx[b]), NEW c, NEW o \in Outpoints
    PROVE  After(b, k, c)[o] = IF o \in Vtx[b][k].vin THEN Spent
                               ELSE IF o \in Vtx[b][k].vout THEN Height[b]
                               ELSE After(b, k - 1, c)[o]
<1>1. Len(Vtx[b]) \in Nat BY BlockShape
<1>2. /\ k \in 1..k /\ \A j \in 1..k : j = k \/ j \in 1..(k - 1)
      /\ \A j \in 1..(k - 1) : j \in 1..k
      /\ \A j \in 1..k : j \in 1..Len(Vtx[b]) /\ ~ (k < j)
  BY <1>1, SMT
<1>3. /\ o \in SpentBy(b, 1, k) <=> o \in Vtx[b][k].vin \/ o \in SpentBy(b, 1, k - 1)
      /\ o \in CreatedBy(b, 1, k) <=> o \in Vtx[b][k].vout \/ o \in CreatedBy(b, 1, k - 1)
  BY <1>2 DEF SpentBy, CreatedBy
<1>4. o \in Vtx[b][k].vout => o \notin SpentBy(b, 1, k)
  BY <1>2, BlockShape DEF SpentBy
<1>. QED BY <1>3, <1>4 DEF After

LEMMA AfterAll ==
    ASSUME NEW b \in Blocks \ {Genesis}, NEW c, NEW o \in Outpoints
    PROVE  /\ After(b, 0, c)[o] = c[o]
           /\ After(b, Len(Vtx[b]), c)[o] = IF o \in Touched(b) THEN Utxo[b][o] ELSE c[o]
<1>1. Len(Vtx[b]) \in Nat /\ DOMAIN Vtx[b] = 1..Len(Vtx[b]) BY BlockShape
<1>2. 1..0 = {} BY SMT
<1>3. /\ o \in SpentBy(b, 1, Len(Vtx[b])) <=> o \in Spends(b)
      /\ o \in CreatedBy(b, 1, Len(Vtx[b])) <=> o \in Creates(b)
  BY <1>1 DEF SpentBy, CreatedBy, Spends, Creates
<1>4. o \notin SpentBy(b, 1, 0) /\ o \notin CreatedBy(b, 1, 0) BY <1>2 DEF SpentBy, CreatedBy
<1>. QED BY <1>3, <1>4, UtxoStep DEF After, Touched

\* The recursion of ConnectBlock over the transactions.
LEMMA ConnectViewsDef ==
    ASSUME NEW b \in Blocks \ {Genesis}, NEW base \in CoinMap
    PROVE  /\ ConnectViews(base, b)[0] = EmptyCache
           /\ \A i \in 1..Len(Vtx[b]) :
                 ConnectViews(base, b)[i] = UpdateCoins(ConnectViews(base, b)[i - 1], base, b, i)
<1>. DEFINE N == Len(Vtx[b])
            V == [Outpoints -> AnyEntry]
            Good(g) == g = [i \in 0..N |-> IF i = 0 THEN EmptyCache
                                           ELSE UpdateCoins(g[i - 1], base, b, i)]
            f == CHOOSE g : Good(g)
<1>1. N \in Nat /\ Height[b] \in AnyCoin BY BlockShape
<1>2. EmptyCache \in V BY DEF EmptyCache, AnyEntry
<1>3. ASSUME NEW v \in V, NEW i \in 1..N PROVE UpdateCoins(v, base, b, i) \in V
  <2>1. \A o \in Outpoints : v[o] \in AnyEntry /\ base[o] \in AnyCoin /\ (i = 1) \in BOOLEAN
    BY DEF CoinMap
  <2>2. \A o \in Outpoints : /\ SpendCoin(v[o], base[o]) \in AnyEntry
                             /\ AddCoin(v[o], Height[b], i = 1) \in AnyEntry
    BY <1>1, <2>1, EntryClosed
  <2>. QED BY <2>1, <2>2 DEF UpdateCoins
<1>. HIDE DEF V, N
<1>4. \E g : Good(g)
  <2>. DEFINE F == [i \in 1..N |-> [v \in V |-> UpdateCoins(v, base, b, i)]]
  <2>1. IsSteps(F, N, V) BY <1>1, <1>3 DEF IsSteps
  <2>. HIDE DEF F
  <2>2. PICK g \in [0..N -> V] : g[0] = EmptyCache /\ \A i \in 1..N : g[i] = F[i][g[i - 1]]
    <3>1. HasSequence(F, N, V, EmptyCache) BY <1>2, <2>1, StepsExist
    <3>. QED BY <3>1 DEF HasSequence
  <2>3. ASSUME NEW i \in 0..N
        PROVE  g[i] = IF i = 0 THEN EmptyCache ELSE UpdateCoins(g[i - 1], base, b, i)
    <3>1. CASE i = 0 BY <2>2, <3>1
    <3>2. CASE i # 0
      <4>1. i \in 1..N /\ i - 1 \in 0..N BY <1>1, <3>2, SMT
      <4>2. g[i - 1] \in V BY <4>1
      <4>. QED BY <2>2, <3>2, <4>1, <4>2 DEF F
    <3>. QED BY <3>1, <3>2
  <2>4. Good(g) BY <2>3
  <2>. QED BY <2>4
<1>5. Good(f) BY <1>4
<1>6. ConnectViews(base, b) = f BY DEF ConnectViews, N
<1>. HIDE DEF f
<1>7. \A i \in 0..N : f[i] = IF i = 0 THEN EmptyCache ELSE UpdateCoins(f[i - 1], base, b, i)
  BY <1>5
<1>8. 0 \in 0..N /\ \A i \in 1..N : i \in 0..N /\ i # 0 BY <1>1, SMT
<1>. QED BY <1>6, <1>7, <1>8 DEF N

\* Connecting a block on the coins of its parent.
LEMMA ConnectShows ==
    ASSUME NEW b \in Blocks \ {Genesis}, NEW base \in CoinMap, base = Utxo[Prev[b]]
    PROVE  \A k \in 0..Len(Vtx[b]) : ViewShows(ConnectViews(base, b)[k], base, After(b, k, base))
<1>. DEFINE N == Len(Vtx[b])
            w == ConnectViews(base, b)
            S == {k \in 0..N : ViewShows(w[k], base, After(b, k, base))}
<1>1. N \in Nat /\ Height[b] \in Coins /\ DOMAIN Vtx[b] = 1..N BY BlockShape
<1>2. w[0] = EmptyCache /\ \A i \in 1..N : w[i] = UpdateCoins(w[i - 1], base, b, i)
  BY ConnectViewsDef
<1>3. 0 \in S
  <2>1. \A o \in Outpoints : After(b, 0, base)[o] = base[o] BY AfterAll
  <2>2. ViewShows(EmptyCache, base, After(b, 0, base)) BY <2>1, EmptyShows DEF ViewShows
  <2>. QED BY <1>1, <1>2, <2>2, SMT
<1>4. ASSUME NEW k \in 1..N, k - 1 \in S PROVE k \in S
  <2>. DEFINE v == w[k - 1]
              c == After(b, k - 1, base)
              d == After(b, k, base)
  <2>1. ViewShows(v, base, c) /\ w[k] = UpdateCoins(v, base, b, k) BY <1>2, <1>4
  <2>2. \A o \in Outpoints : d[o] = IF o \in Vtx[b][k].vin THEN Spent
                                    ELSE IF o \in Vtx[b][k].vout THEN Height[b] ELSE c[o]
    BY AfterStep, SMT
  <2>3. ASSUME NEW o \in Outpoints, o \in Vtx[b][k].vout PROVE c[o] = Spent
    <3>1. o \in Creates(b) BY <1>1, <2>3 DEF Creates
    <3>2. base[o] = Spent BY <3>1, RecoveryAssumption
    <3>3. o \notin CreatedBy(b, 1, k - 1)
      <4>1. \A j \in 1..(k - 1) : j \in 1..N /\ j # k BY <1>1, SMT
      <4>. QED BY <2>3, <4>1, BlockShape DEF CreatedBy
    <3>. QED BY <3>2, <3>3 DEF After
  <2>. HIDE DEF v, c, d, w
  <2>4. ASSUME NEW o \in Outpoints PROVE Shows(w[k][o], base[o], d[o])
    <3>1. Shows(v[o], base[o], c[o]) BY <2>1 DEF ViewShows
    <3>2. w[k][o] = IF o \in Vtx[b][k].vin THEN SpendCoin(v[o], base[o])
                    ELSE IF o \in Vtx[b][k].vout THEN AddCoin(v[o], Height[b], k = 1) ELSE v[o]
      BY <2>1 DEF UpdateCoins
    <3>3. CASE o \in Vtx[b][k].vin BY <2>2, <3>1, <3>2, <3>3, SpendShows, SMT
    <3>4. CASE o \notin Vtx[b][k].vin /\ o \in Vtx[b][k].vout
      <4>1. (k = 1) \in BOOLEAN OBVIOUS
      <4>2. Shows(AddCoin(v[o], Height[b], k = 1), base[o], Height[b])
        BY <1>1, <2>3, <3>1, <3>4, <4>1, AddShows
      <4>. QED BY <2>2, <3>2, <3>4, <4>2
    <3>5. CASE o \notin Vtx[b][k].vin /\ o \notin Vtx[b][k].vout BY <2>2, <3>1, <3>2, <3>5
    <3>. QED BY <3>3, <3>4, <3>5
  <2>5. w[k] = [o \in Outpoints |-> w[k][o]] BY <2>1 DEF UpdateCoins
  <2>6. w[k] \in [Outpoints -> MaybeEntry] BY <2>4, <2>5 DEF Shows
  <2>7. ViewShows(w[k], base, d) BY <2>4, <2>6 DEF ViewShows
  <2>. QED BY <1>1, <2>7, SMT DEF d
<1>5. S \in SUBSET (0..N) OBVIOUS
<1>. HIDE DEF S, w
<1>6. \A k \in 0..N : k \in S BY <1>1, <1>3, <1>4, <1>5, Climb
<1>. QED BY <1>6 DEF S, w

\* What the undo data of a block has to be.
RightUndo(b) == [o \in Spends(b) |-> IF o \in Creates(b) THEN Height[b] ELSE Utxo[Prev[b]][o]]

\* The undo data that ConnectBlock writes.
LEMMA UndoRight ==
    ASSUME NEW b \in Blocks \ {Genesis}
    PROVE  Undo(Utxo[Prev[b]], b) = RightUndo(b)
<1>. DEFINE N == Len(Vtx[b])
            base == Utxo[Prev[b]]
            tx(o) == CHOOSE j \in DOMAIN Vtx[b] : o \in Vtx[b][j].vin
<1>1. N \in Nat /\ DOMAIN Vtx[b] = 1..N /\ Spends(b) \subseteq Outpoints BY BlockShape
<1>2. base \in CoinMap BY PrevType, UtxoType
<1>3. ASSUME NEW o \in Spends(b)
      PROVE  Seen(ConnectViews(base, b)[tx(o) - 1], base, o) = RightUndo(b)[o]
  <2>. DEFINE i == tx(o)
  <2>1. i \in 1..N /\ o \in Vtx[b][i].vin /\ o \in Outpoints BY <1>1, <1>3 DEF Spends
  <2>. HIDE DEF i, base
  <2>2. i - 1 \in 0..N BY <1>1, <2>1, SMT
  <2>3. ViewShows(ConnectViews(base, b)[i - 1], base, After(b, i - 1, base))
    BY <1>2, <2>2, ConnectShows DEF base
  <2>4. Seen(ConnectViews(base, b)[i - 1], base, o) = After(b, i - 1, base)[o]
    BY <2>1, <2>3 DEF ViewShows, Shows, Seen
  <2>5. o \notin SpentBy(b, 1, i - 1)
    <3>1. \A j \in 1..(i - 1) : j \in 1..N /\ j # i BY <1>1, <2>1, SMT
    <3>. QED BY <2>1, <3>1, BlockShape DEF SpentBy
  <2>6. o \in CreatedBy(b, 1, i - 1) <=> o \in Creates(b)
    <3>1. ASSUME o \in CreatedBy(b, 1, i - 1) PROVE o \in Creates(b)
      <4>1. PICK j \in 1..(i - 1) : o \in Vtx[b][j].vout BY <3>1 DEF CreatedBy
      <4>2. j \in 1..N BY <1>1, <2>1, SMT
      <4>. QED BY <1>1, <4>1, <4>2 DEF Creates
    <3>2. ASSUME o \in Creates(b) PROVE o \in CreatedBy(b, 1, i - 1)
      <4>1. PICK j \in 1..N : o \in Vtx[b][j].vout BY <1>1, <3>2 DEF Creates
      <4>2. j < i BY <2>1, <4>1, BlockShape
      <4>3. j \in 1..(i - 1) BY <1>1, <2>1, <4>2, SMT
      <4>. QED BY <2>1, <4>1, <4>3 DEF CreatedBy
    <3>. QED BY <3>1, <3>2
  <2>7. After(b, i - 1, base)[o] = IF o \in Creates(b) THEN Height[b] ELSE base[o]
    BY <2>1, <2>5, <2>6 DEF After
  <2>8. Seen(ConnectViews(base, b)[i - 1], base, o) = RightUndo(b)[o]
    BY <1>3, <2>4, <2>7 DEF RightUndo, base
  <2>. QED BY <2>8 DEF i
<1>4. Undo(base, b) = [o \in Spends(b) |-> Seen(ConnectViews(base, b)[tx(o) - 1], base, o)]
  BY DEF Undo
<1>5. RightUndo(b) = [o \in Spends(b) |-> RightUndo(b)[o]] BY DEF RightUndo
<1>. HIDE DEF tx, base
<1>6. Undo(base, b) = RightUndo(b) BY <1>3, <1>4, <1>5
<1>. QED BY <1>6 DEF base

\* Connecting a block on the coins of its parent gives its own.
LEMMA ConnectedCoins ==
    ASSUME NEW b \in Blocks \ {Genesis}
    PROVE  ViewShows(ConnectCoins(Utxo[Prev[b]], b), Utxo[Prev[b]], Utxo[b])
<1>. DEFINE N == Len(Vtx[b])
            base == Utxo[Prev[b]]
<1>1. N \in Nat /\ N \in 0..N BY BlockShape, SMT
<1>2. base \in CoinMap BY PrevType, UtxoType
<1>3. ViewShows(ConnectCoins(base, b), base, After(b, N, base))
  BY <1>1, <1>2, ConnectShows DEF ConnectCoins
<1>4. \A o \in Outpoints : After(b, N, base)[o] = Utxo[b][o]
  BY AfterAll, UtxoStep, SMT DEF Touched
<1>. HIDE DEF base, N
<1>5. ViewShows(ConnectCoins(base, b), base, Utxo[b]) BY <1>3, <1>4 DEF ViewShows
<1>. QED BY <1>5 DEF base

\* The recursion of RollforwardBlock.
LEMMA RollforwardDef ==
    ASSUME NEW b \in Blocks \ {Genesis}, NEW base \in CoinMap, NEW view \in [Outpoints -> AnyEntry]
    PROVE  \E f : /\ f[0] = view /\ RollforwardBlock(view, base, b) = f[Len(Vtx[b])]
                  /\ \A i \in 1..Len(Vtx[b]) : f[i] = RollforwardTx(f[i - 1], base, b, i)
<1>. DEFINE N == Len(Vtx[b])
            V == [Outpoints -> AnyEntry]
            Good(g) == g = [i \in 0..N |-> IF i = 0 THEN view ELSE RollforwardTx(g[i - 1], base, b, i)]
            f == CHOOSE g : Good(g)
<1>1. N \in Nat /\ Height[b] \in AnyCoin BY BlockShape
<1>2. view \in V OBVIOUS
<1>3. ASSUME NEW v \in V, NEW i \in 1..N PROVE RollforwardTx(v, base, b, i) \in V
  <2>1. \A o \in Outpoints : /\ v[o] \in AnyEntry /\ base[o] \in AnyCoin
                             /\ (Seen(v, base, o) # Spent) \in BOOLEAN
    BY DEF CoinMap
  <2>2. \A o \in Outpoints : /\ SpendCoin(v[o], base[o]) \in AnyEntry
                             /\ AddCoin(v[o], Height[b], Seen(v, base, o) # Spent) \in AnyEntry
    BY <1>1, <2>1, EntryClosed
  <2>. QED BY <2>1, <2>2 DEF RollforwardTx
<1>. HIDE DEF V, N
<1>4. \E g : Good(g)
  <2>. DEFINE F == [i \in 1..N |-> [v \in V |-> RollforwardTx(v, base, b, i)]]
  <2>1. IsSteps(F, N, V) BY <1>1, <1>3 DEF IsSteps
  <2>. HIDE DEF F
  <2>2. PICK g \in [0..N -> V] : g[0] = view /\ \A i \in 1..N : g[i] = F[i][g[i - 1]]
    <3>1. HasSequence(F, N, V, view) BY <1>2, <2>1, StepsExist
    <3>. QED BY <3>1 DEF HasSequence
  <2>3. ASSUME NEW i \in 0..N
        PROVE  g[i] = IF i = 0 THEN view ELSE RollforwardTx(g[i - 1], base, b, i)
    <3>1. CASE i = 0 BY <2>2, <3>1
    <3>2. CASE i # 0
      <4>1. i \in 1..N /\ i - 1 \in 0..N BY <1>1, <3>2, SMT
      <4>2. g[i - 1] \in V BY <4>1
      <4>. QED BY <2>2, <3>2, <4>1, <4>2 DEF F
    <3>. QED BY <3>1, <3>2
  <2>4. Good(g) BY <2>3
  <2>. QED BY <2>4
<1>5. Good(f) BY <1>4
<1>6. RollforwardBlock(view, base, b) = f[N] BY DEF RollforwardBlock, N
<1>. HIDE DEF f
<1>7. \A i \in 0..N : f[i] = IF i = 0 THEN view ELSE RollforwardTx(f[i - 1], base, b, i)
  BY <1>5
<1>8. 0 \in 0..N /\ \A i \in 1..N : i \in 0..N /\ i # 0 BY <1>1, SMT
<1>. QED BY <1>6, <1>7, <1>8 DEF N

\* Rolling a block forward, over any coins: where it touches, its coins are seen,
\* and elsewhere what was.
LEMMA RollforwardShows ==
    ASSUME NEW b \in Blocks \ {Genesis}, NEW base \in CoinMap, NEW view, NEW c,
           ViewShows(view, base, c)
    PROVE  ViewShows(RollforwardBlock(view, base, b), base,
                     [o \in Outpoints |-> IF o \in Touched(b) THEN Utxo[b][o] ELSE c[o]])
<1>. DEFINE N == Len(Vtx[b])
<1>1. N \in Nat /\ Height[b] \in Coins /\ DOMAIN Vtx[b] = 1..N BY BlockShape
<1>2. view \in [Outpoints -> AnyEntry]
  BY DEF ViewShows, MaybeEntry, ValidEntry, AnyEntry
<1>3. PICK w : /\ w[0] = view /\ RollforwardBlock(view, base, b) = w[N]
               /\ \A i \in 1..N : w[i] = RollforwardTx(w[i - 1], base, b, i)
  BY <1>2, RollforwardDef
<1>. DEFINE S == {k \in 0..N : ViewShows(w[k], base, After(b, k, c))}
<1>4. 0 \in S
  <2>1. \A o \in Outpoints : After(b, 0, c)[o] = c[o] BY AfterAll
  <2>2. ViewShows(view, base, After(b, 0, c)) BY <2>1 DEF ViewShows
  <2>. QED BY <1>1, <1>3, <2>2, SMT
<1>5. ASSUME NEW k \in 1..N, k - 1 \in S PROVE k \in S
  <2>. DEFINE v == w[k - 1]
              d == After(b, k - 1, c)
              e == After(b, k, c)
  <2>1. ViewShows(v, base, d) /\ w[k] = RollforwardTx(v, base, b, k) BY <1>3, <1>5
  <2>2. \A o \in Outpoints : e[o] = IF o \in Vtx[b][k].vin THEN Spent
                                    ELSE IF o \in Vtx[b][k].vout THEN Height[b] ELSE d[o]
    BY AfterStep, SMT
  <2>. HIDE DEF v, d, e
  <2>4. ASSUME NEW o \in Outpoints PROVE Shows(w[k][o], base[o], e[o])
    <3>1. Shows(v[o], base[o], d[o]) /\ Seen(v, base, o) = d[o] BY <2>1 DEF ViewShows, Shows, Seen
    <3>2. w[k][o] = IF o \in Vtx[b][k].vin THEN SpendCoin(v[o], base[o])
                    ELSE IF o \in Vtx[b][k].vout
                    THEN AddCoin(v[o], Height[b], Seen(v, base, o) # Spent) ELSE v[o]
      BY <2>1 DEF RollforwardTx
    <3>3. CASE o \in Vtx[b][k].vin BY <2>2, <3>1, <3>2, <3>3, SpendShows, SMT
    <3>4. CASE o \notin Vtx[b][k].vin /\ o \in Vtx[b][k].vout
      <4>1. (d[o] # Spent) \in BOOLEAN /\ ((d[o] # Spent) \/ d[o] = Spent) OBVIOUS
      <4>2. Shows(AddCoin(v[o], Height[b], d[o] # Spent), base[o], Height[b])
        BY <1>1, <3>1, <4>1, AddShows
      <4>. QED BY <2>2, <3>1, <3>2, <3>4, <4>2
    <3>5. CASE o \notin Vtx[b][k].vin /\ o \notin Vtx[b][k].vout BY <2>2, <3>1, <3>2, <3>5
    <3>. QED BY <3>3, <3>4, <3>5
  <2>5. w[k] = [o \in Outpoints |-> w[k][o]] BY <2>1 DEF RollforwardTx
  <2>6. w[k] \in [Outpoints -> MaybeEntry] BY <2>4, <2>5 DEF Shows
  <2>7. ViewShows(w[k], base, e) BY <2>4, <2>6 DEF ViewShows
  <2>. QED BY <1>1, <2>7, SMT DEF e
<1>6. S \in SUBSET (0..N) OBVIOUS
<1>. HIDE DEF S
<1>7. \A k \in 0..N : k \in S BY <1>1, <1>4, <1>5, <1>6, Climb
<1>8. N \in S BY <1>1, <1>7, SMT
<1>9. ViewShows(w[N], base, After(b, N, c)) BY <1>8 DEF S
<1>10. \A o \in Outpoints : After(b, N, c)[o] = IF o \in Touched(b) THEN Utxo[b][o] ELSE c[o]
  BY AfterAll
<1>. QED BY <1>3, <1>9, <1>10 DEF ViewShows

\* The coins after the last k transactions of a block are undone.
Undone(b, k, c) ==
    LET n == Len(Vtx[b])
    IN  [o \in Outpoints |-> IF o \in CreatedBy(b, n + 1 - k, n) THEN Spent
                             ELSE IF o \in SpentBy(b, n + 1 - k, n) THEN RightUndo(b)[o] ELSE c[o]]

LEMMA UndoneStep ==
    ASSUME NEW b \in Blocks \ {Genesis}, NEW k \in 1..Len(Vtx[b]), NEW c, NEW o \in Outpoints
    PROVE  LET m == Len(Vtx[b]) + 1 - k
           IN  /\ Undone(b, k, c)[o] = IF o \in Vtx[b][m].vout THEN Spent
                                       ELSE IF o \in Vtx[b][m].vin THEN RightUndo(b)[o]
                                       ELSE Undone(b, k - 1, c)[o]
               /\ c[o] = Utxo[b][o] =>
                     /\ o \in Vtx[b][m].vout => Undone(b, k - 1, c)[o] = Height[b]
                     /\ o \in Vtx[b][m].vin => Undone(b, k - 1, c)[o] = Spent
<1>. DEFINE N == Len(Vtx[b])
            m == N + 1 - k
<1>1. N \in Nat /\ DOMAIN Vtx[b] = 1..N BY BlockShape
<1>2. /\ m \in 1..N /\ m \in m..N /\ N + 1 - (k - 1) = m + 1
      /\ \A j \in m..N : j = m \/ j \in (m + 1)..N
      /\ \A j \in (m + 1)..N : j \in m..N /\ j \in 1..N /\ m < j /\ ~ (j < m) /\ j # m
      /\ \A j \in m..N : j \in 1..N /\ ~ (j < m)
      /\ \A j \in 1..N : m < j => j \in (m + 1)..N
  BY <1>1, SMTT(30)
<1>. HIDE DEF m, N
<1>3. /\ o \in SpentBy(b, m, N) <=> o \in Vtx[b][m].vin \/ o \in SpentBy(b, m + 1, N)
      /\ o \in CreatedBy(b, m, N) <=> o \in Vtx[b][m].vout \/ o \in CreatedBy(b, m + 1, N)
  BY <1>2 DEF SpentBy, CreatedBy
<1>4. o \in Vtx[b][m].vin => o \notin CreatedBy(b, m, N) /\ o \notin CreatedBy(b, m + 1, N)
                             /\ o \notin SpentBy(b, m + 1, N)
  BY <1>2, BlockShape DEF SpentBy, CreatedBy, N
<1>5. o \in Vtx[b][m].vout => o \notin CreatedBy(b, m + 1, N)
  BY <1>2, BlockShape DEF CreatedBy, N
<1>6. /\ Undone(b, k, c)[o] = IF o \in CreatedBy(b, m, N) THEN Spent
                              ELSE IF o \in SpentBy(b, m, N) THEN RightUndo(b)[o] ELSE c[o]
      /\ Undone(b, k - 1, c)[o] = IF o \in CreatedBy(b, m + 1, N) THEN Spent
                                  ELSE IF o \in SpentBy(b, m + 1, N) THEN RightUndo(b)[o] ELSE c[o]
  BY <1>2 DEF Undone, m, N
<1>7. ASSUME c[o] = Utxo[b][o], o \in Vtx[b][m].vout
      PROVE  Undone(b, k - 1, c)[o] = Height[b]
  <2>1. o \in Creates(b) BY <1>1, <1>2, <1>7 DEF Creates
  <2>2. CASE o \in SpentBy(b, m + 1, N)
    <3>1. o \in Spends(b) BY <1>1, <1>2, <2>2 DEF Spends, SpentBy
    <3>2. RightUndo(b)[o] = Height[b] BY <2>1, <3>1 DEF RightUndo
    <3>. QED BY <1>5, <1>6, <1>7, <2>2, <3>2
  <2>3. CASE o \notin SpentBy(b, m + 1, N)
    <3>1. o \notin Spends(b)
      <4>1. \A j \in 1..N : o \in Vtx[b][j].vin => m < j
        BY <1>2, <1>7, BlockShape DEF N
      <4>. QED BY <1>1, <1>2, <2>3, <4>1 DEF Spends, SpentBy
    <3>2. Utxo[b][o] = Height[b] BY <2>1, <3>1, UtxoStep
    <3>. QED BY <1>5, <1>6, <1>7, <2>3, <3>2
  <2>. QED BY <2>2, <2>3
<1>8. ASSUME c[o] = Utxo[b][o], o \in Vtx[b][m].vin
      PROVE  Undone(b, k - 1, c)[o] = Spent
  <2>1. o \in Spends(b) BY <1>1, <1>2, <1>8 DEF Spends
  <2>2. Utxo[b][o] = Spent BY <2>1, UtxoStep
  <2>. QED BY <1>4, <1>6, <1>8, <2>2
<1>9. Undone(b, k, c)[o] = IF o \in Vtx[b][m].vout THEN Spent
                           ELSE IF o \in Vtx[b][m].vin THEN RightUndo(b)[o]
                           ELSE Undone(b, k - 1, c)[o]
  BY <1>3, <1>4, <1>6
<1>. QED BY <1>7, <1>8, <1>9 DEF m, N

LEMMA UndoneAll ==
    ASSUME NEW b \in Blocks \ {Genesis}, NEW c, NEW o \in Outpoints
    PROVE  /\ Undone(b, 0, c)[o] = c[o]
           /\ Undone(b, Len(Vtx[b]), c)[o] = IF o \in Touched(b) THEN Utxo[Prev[b]][o] ELSE c[o]
<1>. DEFINE N == Len(Vtx[b])
<1>1. N \in Nat /\ DOMAIN Vtx[b] = 1..N BY BlockShape
<1>2. (N + 1 - 0)..N = {} /\ N + 1 - N = 1 BY <1>1, SMT
<1>3. /\ o \in SpentBy(b, 1, N) <=> o \in Spends(b)
      /\ o \in CreatedBy(b, 1, N) <=> o \in Creates(b)
  BY <1>1 DEF SpentBy, CreatedBy, Spends, Creates
<1>4. o \notin SpentBy(b, N + 1 - 0, N) /\ o \notin CreatedBy(b, N + 1 - 0, N)
  BY <1>2 DEF SpentBy, CreatedBy
<1>5. Undone(b, 0, c)[o] = c[o] BY <1>4 DEF Undone
<1>6. Undone(b, N, c)[o] = IF o \in Creates(b) THEN Spent
                           ELSE IF o \in Spends(b) THEN RightUndo(b)[o] ELSE c[o]
  BY <1>2, <1>3 DEF Undone
<1>7. o \in Creates(b) => Utxo[Prev[b]][o] = Spent BY RecoveryAssumption
<1>8. o \in Spends(b) /\ o \notin Creates(b) => RightUndo(b)[o] = Utxo[Prev[b]][o] BY DEF RightUndo
<1>. QED BY <1>5, <1>6, <1>7, <1>8 DEF Touched

\* What undo data restores is a coin.
LEMMA RightUndoCoin ==
    ASSUME NEW b \in Blocks \ {Genesis}, NEW o \in Spends(b)
    PROVE  RightUndo(b)[o] \in Coins
<1>1. Height[b] \in Coins /\ o \in Outpoints BY BlockShape
<1>2. Utxo[Prev[b]][o] \in AnyCoin BY <1>1, PrevType, UtxoType DEF CoinMap
<1>3. o \notin Creates(b) => Utxo[Prev[b]][o] # Spent BY RecoveryAssumption
<1>. QED BY <1>1, <1>2, <1>3 DEF RightUndo, AnyCoin

\* The recursion of DisconnectBlock.
LEMMA DisconnectDef ==
    ASSUME NEW b \in Blocks \ {Genesis}, NEW base \in CoinMap, NEW view \in [Outpoints -> AnyEntry],
           rev[b] = RightUndo(b)
    PROVE  \E f : /\ f[0] = [view |-> view, clean |-> TRUE]
                  /\ DisconnectBlock(view, base, b) = f[Len(Vtx[b])]
                  /\ \A i \in 1..Len(Vtx[b]) :
                        f[i] = DisconnectTx(f[i - 1], base, b, Len(Vtx[b]) + 1 - i)
<1>. DEFINE N == Len(Vtx[b])
            V == [view : [Outpoints -> AnyEntry], clean : BOOLEAN]
            first == [view |-> view, clean |-> TRUE]
            Good(g) == g = [i \in 0..N |-> IF i = 0 THEN first
                                           ELSE DisconnectTx(g[i - 1], base, b, N + 1 - i)]
            f == CHOOSE g : Good(g)
<1>1. N \in Nat /\ DOMAIN Vtx[b] = 1..N BY BlockShape
<1>2. first \in V OBVIOUS
<1>3. ASSUME NEW v \in V, NEW i \in 1..N PROVE DisconnectTx(v, base, b, N + 1 - i) \in V
  <2>. DEFINE tx == Vtx[b][N + 1 - i]
  <2>1. \A o \in Outpoints : /\ v.view[o] \in AnyEntry /\ base[o] \in AnyCoin
                             /\ (Seen(v.view, base, o) # Spent) \in BOOLEAN
    BY DEF CoinMap
  <2>2. \A o \in Outpoints : o \in tx.vin => rev[b][o] \in AnyCoin
    <3>1. N + 1 - i \in DOMAIN Vtx[b] BY <1>1, SMT
    <3>. QED BY <3>1, RightUndoCoin DEF Spends, AnyCoin
  <2>3. \A o \in Outpoints : SpendCoin(v.view[o], base[o]) \in AnyEntry
    BY <2>1, EntryClosed
  <2>4. \A o \in Outpoints : o \in tx.vin =>
           AddCoin(v.view[o], rev[b][o], Seen(v.view, base, o) # Spent) \in AnyEntry
    BY <2>1, <2>2, EntryClosed
  <2>5. v.clean \in BOOLEAN OBVIOUS
  <2>. QED BY <2>1, <2>3, <2>4, <2>5 DEF DisconnectTx
<1>. HIDE DEF V, N, first
<1>4. \E g : Good(g)
  <2>. DEFINE F == [i \in 1..N |-> [v \in V |-> DisconnectTx(v, base, b, N + 1 - i)]]
  <2>1. IsSteps(F, N, V) BY <1>1, <1>3 DEF IsSteps
  <2>. HIDE DEF F
  <2>2. PICK g \in [0..N -> V] : g[0] = first /\ \A i \in 1..N : g[i] = F[i][g[i - 1]]
    <3>1. HasSequence(F, N, V, first) BY <1>2, <2>1, StepsExist
    <3>. QED BY <3>1 DEF HasSequence
  <2>3. ASSUME NEW i \in 0..N
        PROVE  g[i] = IF i = 0 THEN first ELSE DisconnectTx(g[i - 1], base, b, N + 1 - i)
    <3>1. CASE i = 0 BY <2>2, <3>1
    <3>2. CASE i # 0
      <4>1. i \in 1..N /\ i - 1 \in 0..N BY <1>1, <3>2, SMT
      <4>2. g[i - 1] \in V BY <4>1
      <4>. QED BY <2>2, <3>2, <4>1, <4>2 DEF F
    <3>. QED BY <3>1, <3>2
  <2>4. Good(g) BY <2>3
  <2>. QED BY <2>4
<1>5. Good(f) BY <1>4
<1>6. DisconnectBlock(view, base, b) = f[N] BY DEF DisconnectBlock, N, first
<1>. HIDE DEF f
<1>7. \A i \in 0..N : f[i] = IF i = 0 THEN first ELSE DisconnectTx(f[i - 1], base, b, N + 1 - i)
  BY <1>5
<1>8. 0 \in 0..N /\ \A i \in 1..N : i \in 0..N /\ i # 0 BY <1>1, SMT
<1>. QED BY <1>6, <1>7, <1>8 DEF N, first

\* Rolling a block back, over any coins: where it touches, the coins of its parent
\* are seen, and elsewhere what was.  From its own coins, the rollback is clean.
LEMMA DisconnectShows ==
    ASSUME NEW b \in Blocks \ {Genesis}, NEW base \in CoinMap, NEW view, NEW c,
           ViewShows(view, base, c), rev[b] = RightUndo(b)
    PROVE  /\ ViewShows(DisconnectBlock(view, base, b).view, base,
                        [o \in Outpoints |-> IF o \in Touched(b) THEN Utxo[Prev[b]][o] ELSE c[o]])
           /\ (\A o \in Outpoints : c[o] = Utxo[b][o]) => DisconnectBlock(view, base, b).clean
<1>. DEFINE N == Len(Vtx[b])
            Own == \A o \in Outpoints : c[o] = Utxo[b][o]
<1>1. N \in Nat /\ Height[b] \in Coins /\ DOMAIN Vtx[b] = 1..N BY BlockShape
<1>2. view \in [Outpoints -> AnyEntry]
  BY DEF ViewShows, MaybeEntry, ValidEntry, AnyEntry
<1>3. PICK w : /\ w[0] = [view |-> view, clean |-> TRUE] /\ DisconnectBlock(view, base, b) = w[N]
               /\ \A i \in 1..N : w[i] = DisconnectTx(w[i - 1], base, b, N + 1 - i)
  BY <1>2, DisconnectDef, SMT
<1>. DEFINE S == {k \in 0..N : ViewShows(w[k].view, base, Undone(b, k, c)) /\ (Own => w[k].clean)}
<1>4. 0 \in S
  <2>1. \A o \in Outpoints : Undone(b, 0, c)[o] = c[o] BY UndoneAll
  <2>2. ViewShows(view, base, Undone(b, 0, c)) BY <2>1 DEF ViewShows
  <2>. QED BY <1>1, <1>3, <2>2, SMT
<1>5. ASSUME NEW k \in 1..N, k - 1 \in S PROVE k \in S
  <2>. DEFINE m == N + 1 - k
              v == w[k - 1].view
              d == Undone(b, k - 1, c)
              e == Undone(b, k, c)
  <2>1. /\ ViewShows(v, base, d) /\ w[k] = DisconnectTx(w[k - 1], base, b, m)
        /\ Own => w[k - 1].clean
    BY <1>3, <1>5
  <2>2. \A o \in Outpoints : e[o] = IF o \in Vtx[b][m].vout THEN Spent
                                    ELSE IF o \in Vtx[b][m].vin THEN RightUndo(b)[o] ELSE d[o]
    BY UndoneStep, SMT
  <2>3. \A o \in Outpoints : Own => /\ o \in Vtx[b][m].vout => d[o] = Height[b]
                                    /\ o \in Vtx[b][m].vin => d[o] = Spent
    <3>. SUFFICES ASSUME NEW o \in Outpoints, Own
                  PROVE  /\ o \in Vtx[b][m].vout => d[o] = Height[b]
                         /\ o \in Vtx[b][m].vin => d[o] = Spent
      OBVIOUS
    <3>1. c[o] = Utxo[b][o] OBVIOUS
    <3>. HIDE DEF Own
    <3>2. /\ e[o] = IF o \in Vtx[b][m].vout THEN Spent
                    ELSE IF o \in Vtx[b][m].vin THEN RightUndo(b)[o] ELSE d[o]
          /\ c[o] = Utxo[b][o] => /\ o \in Vtx[b][m].vout => d[o] = Height[b]
                                  /\ o \in Vtx[b][m].vin => d[o] = Spent
      BY UndoneStep, SMT
    <3>. QED BY <3>1, <3>2
  <2>4. m \in 1..N /\ Vtx[b][m].vin \subseteq Outpoints /\ Vtx[b][m].vout \subseteq Outpoints
    <3>1. m \in 1..N BY <1>1, SMT
    <3>. QED BY <3>1, BlockShape
  <2>5. \A o \in Outpoints : o \in Vtx[b][m].vin => rev[b][o] = RightUndo(b)[o] /\ rev[b][o] \in Coins
    <3>1. \A o \in Vtx[b][m].vin : o \in Spends(b) BY <1>1, <2>4 DEF Spends
    <3>. QED BY <3>1, RightUndoCoin
  <2>. HIDE DEF v, d, e, m
  <2>6. \A o \in Outpoints : Shows(v[o], base[o], d[o]) /\ Seen(v, base, o) = d[o]
    BY <2>1 DEF ViewShows, Shows, Seen
  <2>7. /\ \A o \in Outpoints : w[k].view[o] = IF o \in Vtx[b][m].vout THEN SpendCoin(v[o], base[o])
                                    ELSE IF o \in Vtx[b][m].vin
                                    THEN AddCoin(v[o], rev[b][o], Seen(v, base, o) # Spent) ELSE v[o]
        /\ w[k].view = [o \in Outpoints |-> w[k].view[o]]
        /\ w[k].clean = (/\ w[k - 1].clean
                         /\ \A o \in Vtx[b][m].vout : Seen(v, base, o) = Height[b]
                         /\ \A o \in Vtx[b][m].vin : Seen(v, base, o) = Spent)
    BY <2>1, SMT DEF DisconnectTx, v
  <2>8. ASSUME NEW o \in Outpoints PROVE Shows(w[k].view[o], base[o], e[o])
    <3>1. CASE o \in Vtx[b][m].vout BY <2>2, <2>6, <2>7, <3>1, SpendShows, SMT
    <3>2. CASE o \notin Vtx[b][m].vout /\ o \in Vtx[b][m].vin
      <4>1. (Seen(v, base, o) # Spent) \in BOOLEAN /\ (Seen(v, base, o) # Spent \/ d[o] = Spent)
        BY <2>6
      <4>2. Shows(AddCoin(v[o], rev[b][o], Seen(v, base, o) # Spent), base[o], rev[b][o])
        BY <2>5, <2>6, <3>2, <4>1, AddShows
      <4>. QED BY <2>2, <2>5, <2>7, <3>2, <4>2
    <3>3. CASE o \notin Vtx[b][m].vin /\ o \notin Vtx[b][m].vout BY <2>2, <2>6, <2>7, <3>3
    <3>. QED BY <3>1, <3>2, <3>3
  <2>9. w[k].view \in [Outpoints -> MaybeEntry] BY <2>7, <2>8 DEF Shows
  <2>10. ViewShows(w[k].view, base, e) BY <2>8, <2>9 DEF ViewShows
  <2>11. Own => w[k].clean BY <2>1, <2>3, <2>4, <2>6, <2>7, ZenonT(30)
  <2>. QED BY <1>1, <2>10, <2>11, SMT DEF e
<1>6. S \in SUBSET (0..N) OBVIOUS
<1>. HIDE DEF S
<1>7. N \in S
  <2>1. N \in 0..N BY <1>1, SMT
  <2>. QED BY <1>1, <1>4, <1>5, <1>6, <2>1, Climb
<1>8. ViewShows(DisconnectBlock(view, base, b).view, base, Undone(b, N, c))
      /\ (Own => DisconnectBlock(view, base, b).clean)
  BY <1>3, <1>7 DEF S
<1>9. \A o \in Outpoints : Undone(b, N, c)[o] = IF o \in Touched(b) THEN Utxo[Prev[b]][o] ELSE c[o]
  BY UndoneAll
<1>. HIDE DEF N
<1>. QED BY <1>8, <1>9 DEF ViewShows

-----------------------------------------------------------------------------
(* The two branches of a replay.                                             *)

\* The ancestors of a block, by height.
LEMMA AncPath ==
    ASSUME NEW b \in Blocks
    PROVE  /\ \A a \in Anc[b] : GetAncestor(b, Height[a]) = a
           /\ \A h \in 1..Height[b] :
                 /\ GetAncestor(b, h) \in Anc[b] /\ GetAncestor(b, h) \in Blocks \ {Genesis}
                 /\ Height[GetAncestor(b, h)] = h
                 /\ Prev[GetAncestor(b, h)] = GetAncestor(b, h - 1)
<1>1. Height[b] \in Nat BY HeightDef
<1>2. ASSUME NEW a \in Anc[b] PROVE GetAncestor(b, Height[a]) = a
  <2>. DEFINE g == GetAncestor(b, Height[a])
  <2>1. a \in Blocks /\ Height[a] \in 0..Height[b] BY <1>1, AncHeight, HeightDef, SMT
  <2>2. g \in Anc[b] /\ Height[g] = Height[a] BY <2>1, AncAtHeight
  <2>. HIDE DEF g
  <2>3. g \in Anc[a] \/ a \in Anc[g] BY <2>2, AncLine
  <2>4. g \in Blocks /\ Height[a] \in Nat BY <2>1, <2>2, AncHeight, HeightDef
  <2>5. g = a BY <2>1, <2>2, <2>3, <2>4, AncHeight, SMT
  <2>. QED BY <2>5 DEF g
<1>3. ASSUME NEW h \in 1..Height[b]
      PROVE  /\ GetAncestor(b, h) \in Anc[b] /\ GetAncestor(b, h) \in Blocks \ {Genesis}
             /\ Height[GetAncestor(b, h)] = h
             /\ Prev[GetAncestor(b, h)] = GetAncestor(b, h - 1)
  <2>. DEFINE t == GetAncestor(b, h - 1)
  <2>1. h - 1 \in 0..Height[b] /\ h \in 0..Height[b] /\ h - 1 # Height[b] /\ (h - 1) + 1 = h BY <1>1, SMT
  <2>2. t \in Anc[b] /\ Height[t] = h - 1 BY <2>1, AncAtHeight
  <2>. HIDE DEF t
  <2>3. t # b BY <2>1, <2>2
  <2>4. GetAncestor(b, h) = GetAncestor(b, Height[t] + 1) BY <2>1, <2>2
  <2>5. /\ GetAncestor(b, h) \in Anc[b] /\ GetAncestor(b, h) \in Blocks \ {Genesis}
        /\ Prev[GetAncestor(b, h)] = t
    BY <2>2, <2>3, <2>4, NextOnBranch, SMT
  <2>6. Height[GetAncestor(b, h)] = h BY <2>1, AncAtHeight
  <2>. QED BY <2>5, <2>6 DEF t
<1>. QED BY <1>2, <1>3

\* Where a replay turns round, and where it starts.
Fork(new, old) == IF old = Null THEN Genesis ELSE FindFork(old, new)
From(old) == IF old = Null THEN Genesis ELSE old

LEMMA ForkType ==
    ASSUME NEW new \in Blocks, NEW old \in Blocks \cup {Null}
    PROVE  /\ From(old) \in Blocks /\ Fork(new, old) \in Blocks
           /\ Fork(new, old) \in Anc[From(old)] /\ Fork(new, old) \in Anc[new]
           /\ ForkHeight(new, old) = Height[Fork(new, old)]
           /\ Height[Fork(new, old)] \in 0..Height[From(old)]
           /\ Height[Fork(new, old)] \in 0..Height[new]
           /\ Height[From(old)] \in Nat /\ Height[new] \in Nat
<1>1. Genesis \in Blocks /\ Null \notin Blocks BY TreeAssumption, RecoveryAssumption
<1>2. /\ From(old) \in Blocks
      /\ Fork(new, old) \in Anc[From(old)] /\ Fork(new, old) \in Anc[new]
  <2>1. CASE old = Null BY <1>1, <2>1, AncClosed DEF From, Fork
  <2>2. CASE old # Null
    <3>. DEFINE T == Anc[old] \cap Anc[new]
    <3>1. old \in Blocks /\ Genesis \in T BY <2>2, AncClosed
    <3>2. \E f \in T : \A g \in T : Height[g] <= Height[f]
      <4>1. T \in SUBSET Anc[old] /\ T # {} BY <3>1
      <4>. HIDE DEF T
      <4>. QED BY <3>1, <4>1, HighestExists
    <3>3. FindFork(old, new) \in T BY <3>2 DEF FindFork
    <3>. QED BY <2>2, <3>1, <3>3 DEF From, Fork
  <2>. QED BY <2>1, <2>2
<1>3. ForkHeight(new, old) = Height[Fork(new, old)] BY <1>1, HeightDef DEF ForkHeight, Fork
<1>4. Fork(new, old) \in Blocks BY <1>2, AncHeight
<1>5. /\ Height[Fork(new, old)] \in Nat /\ Height[From(old)] \in Nat /\ Height[new] \in Nat
      /\ Height[Fork(new, old)] <= Height[From(old)] /\ Height[Fork(new, old)] <= Height[new]
  <2>1. Height[Fork(new, old)] \in Nat /\ Height[From(old)] \in Nat /\ Height[new] \in Nat
    BY <1>2, <1>4, HeightDef
  <2>2. /\ Fork(new, old) = From(old) \/ Height[Fork(new, old)] < Height[From(old)]
        /\ Fork(new, old) = new \/ Height[Fork(new, old)] < Height[new]
    BY <1>2, AncHeight
  <2>. QED BY <2>1, <2>2, SMT
<1>. QED BY <1>2, <1>3, <1>4, <1>5, SMT

\* The length and the elements of both branches.
LEMMA BranchShape ==
    ASSUME NEW new \in Blocks, NEW old \in Blocks \cup {Null}
    PROVE  LET f == Height[Fork(new, old)]
               down == Height[From(old)] - f
               up == Height[new] - f
           IN  /\ down \in Nat /\ Len(OldBranch(new, old)) = down
               /\ DOMAIN OldBranch(new, old) = 1..down
               /\ \A i \in 1..down : OldBranch(new, old)[i] = GetAncestor(From(old), Height[From(old)] + 1 - i)
               /\ up \in Nat /\ Len(NewBranch(new, old)) = up
               /\ DOMAIN NewBranch(new, old) = 1..up
               /\ \A i \in 1..up : NewBranch(new, old)[i] = GetAncestor(new, f + i)
<1>. DEFINE f == Height[Fork(new, old)]
            down == Height[From(old)] - f
            up == Height[new] - f
<1>1. f \in Nat /\ down \in Nat /\ up \in Nat BY ForkType, SMT
<1>2. OldBranch(new, old) = [i \in 1..down |-> GetAncestor(From(old), Height[From(old)] + 1 - i)]
  <2>1. CASE old = Null
    <3>1. down = 0 BY <2>1, ForkType, SMT DEF From, Fork
    <3>2. 1..down = {} BY <3>1, SMT
    <3>. QED BY <2>1, <3>2, SMT DEF OldBranch
  <2>2. CASE old # Null BY <2>2, ForkType DEF OldBranch, From
  <2>. QED BY <2>1, <2>2
<1>3. NewBranch(new, old) = [i \in 1..up |-> GetAncestor(new, f + i)]
  BY ForkType DEF NewBranch, Branch
<1>. HIDE DEF f, down, up
<1>4. Len(OldBranch(new, old)) = down BY <1>1, <1>2, SMT
<1>5. Len(NewBranch(new, old)) = up BY <1>1, <1>3, SMT
<1>. QED BY <1>1, <1>2, <1>3, <1>4, <1>5 DEF f, down, up

\* The truthful views over base, and those among them that show at every outpoint
\* the coin of x or that of y.
SoundViews(base) ==
    {v \in [Outpoints -> MaybeEntry] : \A o \in Outpoints : Shows(v[o], base[o], Seen(v, base, o))}
Mixed(v, base, x, y) ==
    v \in SoundViews(base) /\ \A o \in Outpoints : Seen(v, base, o) \in {Utxo[x][o], Utxo[y][o]}

LEMMA SoundShows ==
    ASSUME NEW v, NEW base, NEW c, ViewShows(v, base, c)
    PROVE  v \in SoundViews(base) /\ \A o \in Outpoints : Seen(v, base, o) = c[o]
  BY DEF ViewShows, Shows, Seen, SoundViews

\* Going back over b makes the coins those of its parent or leaves them alone.
LEMMA BackStep ==
    ASSUME NEW b \in Blocks \ {Genesis}, NEW base \in CoinMap, NEW v \in SoundViews(base),
           rev[b] = RightUndo(b)
    PROVE  /\ DisconnectBlock(v, base, b).view \in SoundViews(base)
           /\ \A y : Mixed(v, base, b, y) => Mixed(DisconnectBlock(v, base, b).view, base, Prev[b], y)
<1>. DEFINE c == [o \in Outpoints |-> Seen(v, base, o)]
            w == DisconnectBlock(v, base, b).view
            d == [o \in Outpoints |-> IF o \in Touched(b) THEN Utxo[Prev[b]][o] ELSE c[o]]
<1>1. ViewShows(v, base, c) BY DEF SoundViews, ViewShows
<1>. HIDE DEF c
<1>2. ViewShows(w, base, d) BY <1>1, DisconnectShows
<1>. HIDE DEF w
<1>3. w \in SoundViews(base) /\ \A o \in Outpoints : Seen(w, base, o) = d[o]
  <2>. HIDE DEF d
  <2>. QED BY <1>2, SoundShows
<1>4. ASSUME NEW y, Mixed(v, base, b, y), NEW o \in Outpoints
      PROVE  Seen(w, base, o) \in {Utxo[Prev[b]][o], Utxo[y][o]}
  <2>1. c[o] \in {Utxo[b][o], Utxo[y][o]} BY <1>4 DEF Mixed, c
  <2>2. o \notin Touched(b) => Utxo[b][o] = Utxo[Prev[b]][o] BY UtxoStep DEF Touched
  <2>. QED BY <1>3, <2>1, <2>2
<1>. QED BY <1>3, <1>4 DEF Mixed, w

\* Going forward over b makes the coins those of b or leaves them alone.
LEMMA ForwardStep ==
    ASSUME NEW b \in Blocks \ {Genesis}, NEW base \in CoinMap, NEW v \in SoundViews(base)
    PROVE  /\ RollforwardBlock(v, base, b) \in SoundViews(base)
           /\ \A y : Mixed(v, base, Prev[b], y) => Mixed(RollforwardBlock(v, base, b), base, b, y)
<1>. DEFINE c == [o \in Outpoints |-> Seen(v, base, o)]
            w == RollforwardBlock(v, base, b)
            d == [o \in Outpoints |-> IF o \in Touched(b) THEN Utxo[b][o] ELSE c[o]]
<1>1. ViewShows(v, base, c) BY DEF SoundViews, ViewShows
<1>. HIDE DEF c
<1>2. ViewShows(w, base, d) BY <1>1, RollforwardShows
<1>. HIDE DEF w
<1>3. w \in SoundViews(base) /\ \A o \in Outpoints : Seen(w, base, o) = d[o]
  <2>. HIDE DEF d
  <2>. QED BY <1>2, SoundShows
<1>4. ASSUME NEW y, Mixed(v, base, Prev[b], y), NEW o \in Outpoints
      PROVE  Seen(w, base, o) \in {Utxo[b][o], Utxo[y][o]}
  <2>1. c[o] \in {Utxo[Prev[b]][o], Utxo[y][o]} BY <1>4 DEF Mixed, c
  <2>2. o \notin Touched(b) => Utxo[b][o] = Utxo[Prev[b]][o] BY UtxoStep DEF Touched
  <2>. QED BY <1>3, <2>1, <2>2
<1>. QED BY <1>3, <1>4 DEF Mixed, w

\* The old branch is rolled back to the fork.
LEMMA RolledBackMixed ==
    ASSUME NEW coins \in CoinMap, NEW new \in Blocks, NEW old \in Blocks \cup {Null},
           \A i \in DOMAIN OldBranch(new, old) :
              rev[OldBranch(new, old)[i]] = RightUndo(OldBranch(new, old)[i]),
           Mixed(EmptyCache, coins, From(old), new)
    PROVE  Mixed(RolledBack(coins, new, old), coins, Fork(new, old), new)
<1>. DEFINE blocks == OldBranch(new, old)
            N == Height[From(old)] - Height[Fork(new, old)]
            V == SoundViews(coins)
            Step(v, i) == DisconnectBlock(v, coins, blocks[i]).view
            at(i) == GetAncestor(From(old), Height[From(old)] - i)
            Good(g) == g = [i \in 0..N |-> IF i = 0 THEN EmptyCache ELSE Step(g[i - 1], i)]
            f == CHOOSE g : Good(g)
<1>0. /\ From(old) \in Blocks /\ Height[From(old)] \in Nat /\ Height[Fork(new, old)] \in Nat
      /\ Height[Fork(new, old)] <= Height[From(old)] /\ Fork(new, old) \in Anc[From(old)]
  BY ForkType, SMT
<1>1. N \in Nat /\ Len(blocks) = N /\ DOMAIN blocks = 1..N BY BranchShape
<1>2. ASSUME NEW i \in 1..N
      PROVE  /\ blocks[i] = at(i - 1) /\ blocks[i] \in Blocks \ {Genesis} /\ Prev[blocks[i]] = at(i)
             /\ rev[blocks[i]] = RightUndo(blocks[i])
  <2>. DEFINE h == Height[From(old)] + 1 - i
  <2>1. h \in 1..Height[From(old)] /\ h = Height[From(old)] - (i - 1) /\ h - 1 = Height[From(old)] - i
    BY <1>0, SMT
  <2>2. blocks[i] = GetAncestor(From(old), h) BY BranchShape
  <2>. HIDE DEF h, blocks
  <2>3. /\ GetAncestor(From(old), h) \in Blocks \ {Genesis}
        /\ Prev[GetAncestor(From(old), h)] = GetAncestor(From(old), h - 1)
    BY <1>0, <2>1, AncPath
  <2>4. rev[blocks[i]] = RightUndo(blocks[i]) BY <1>1 DEF blocks
  <2>. QED BY <2>1, <2>2, <2>3, <2>4
<1>3. at(0) = From(old) /\ at(N) = Fork(new, old)
  <2>1. Height[From(old)] - 0 = Height[From(old)] /\ Height[From(old)] - N = Height[Fork(new, old)]
    BY <1>0, SMT
  <2>. QED BY <1>0, <2>1, AncPath, AncClosed
<1>4. EmptyCache \in V BY DEF Mixed
<1>5. ASSUME NEW v \in V, NEW i \in 1..N
      PROVE  Step(v, i) \in V /\ (Mixed(v, coins, at(i - 1), new) => Mixed(Step(v, i), coins, at(i), new))
  BY <1>2, BackStep, SMT
<1>6. RolledBack(coins, new, old) = f[N] BY <1>1 DEF RolledBack
<1>. HIDE DEF V, N, Step, at, blocks
<1>7. \E g : Good(g)
  <2>. DEFINE F == [i \in 1..N |-> [v \in V |-> Step(v, i)]]
  <2>1. IsSteps(F, N, V) BY <1>1, <1>5 DEF IsSteps
  <2>. HIDE DEF F
  <2>2. PICK g \in [0..N -> V] : g[0] = EmptyCache /\ \A i \in 1..N : g[i] = F[i][g[i - 1]]
    <3>1. HasSequence(F, N, V, EmptyCache) BY <1>4, <2>1, StepsExist
    <3>. QED BY <3>1 DEF HasSequence
  <2>3. ASSUME NEW i \in 0..N PROVE g[i] = IF i = 0 THEN EmptyCache ELSE Step(g[i - 1], i)
    <3>1. CASE i = 0 BY <2>2, <3>1
    <3>2. CASE i # 0
      <4>1. i \in 1..N /\ i - 1 \in 0..N BY <1>1, <3>2, SMT
      <4>2. g[i - 1] \in V BY <4>1
      <4>. QED BY <2>2, <3>2, <4>1, <4>2 DEF F
    <3>. QED BY <3>1, <3>2
  <2>4. Good(g) BY <2>3
  <2>. QED BY <2>4
<1>8. Good(f) BY <1>7
<1>. HIDE DEF f
<1>9. \A i \in 0..N : f[i] = IF i = 0 THEN EmptyCache ELSE Step(f[i - 1], i) BY <1>8
<1>. DEFINE S == {i \in 0..N : f[i] \in V /\ Mixed(f[i], coins, at(i), new)}
<1>10. 0 \in S
  <2>1. 0 \in 0..N BY <1>1, SMT
  <2>. QED BY <1>3, <1>4, <1>9, <2>1
<1>11. ASSUME NEW i \in 1..N, i - 1 \in S PROVE i \in S
  <2>1. i \in 0..N /\ i # 0 BY <1>1, SMT
  <2>2. f[i] = Step(f[i - 1], i) BY <1>9, <2>1
  <2>. QED BY <1>5, <1>11, <2>1, <2>2
<1>12. S \in SUBSET (0..N) /\ N \in 0..N BY <1>1, SMT
<1>. HIDE DEF S
<1>13. N \in S BY <1>1, <1>10, <1>11, <1>12, Climb
<1>. QED BY <1>3, <1>6, <1>13 DEF S

\* The new branch is rolled forward from the fork.
LEMMA RolledForwardMixed ==
    ASSUME NEW coins \in CoinMap, NEW new \in Blocks, NEW old \in Blocks \cup {Null}, NEW start,
           Mixed(start, coins, Fork(new, old), new)
    PROVE  Mixed(RolledForward(start, coins, new, old), coins, new, new)
<1>. DEFINE blocks == NewBranch(new, old)
            h == Height[Fork(new, old)]
            N == Height[new] - h
            V == SoundViews(coins)
            Step(v, i) == RollforwardBlock(v, coins, blocks[i])
            at(i) == GetAncestor(new, h + i)
            Good(g) == g = [i \in 0..N |-> IF i = 0 THEN start ELSE Step(g[i - 1], i)]
            f == CHOOSE g : Good(g)
<1>0. Height[new] \in Nat /\ h \in Nat /\ h <= Height[new] /\ Fork(new, old) \in Anc[new]
  BY ForkType, SMT
<1>1. N \in Nat /\ Len(blocks) = N /\ DOMAIN blocks = 1..N BY BranchShape
<1>2. ASSUME NEW i \in 1..N
      PROVE  blocks[i] = at(i) /\ blocks[i] \in Blocks \ {Genesis} /\ Prev[blocks[i]] = at(i - 1)
  <2>1. h + i \in 1..Height[new] /\ (h + i) - 1 = h + (i - 1) BY <1>0, SMT
  <2>2. blocks[i] = GetAncestor(new, h + i) BY BranchShape
  <2>. HIDE DEF h, blocks
  <2>3. /\ GetAncestor(new, h + i) \in Blocks \ {Genesis}
        /\ Prev[GetAncestor(new, h + i)] = GetAncestor(new, (h + i) - 1)
    BY <2>1, AncPath
  <2>. QED BY <2>1, <2>2, <2>3
<1>3. at(0) = Fork(new, old) /\ at(N) = new
  <2>1. h + 0 = h /\ h + N = Height[new] BY <1>0, SMT
  <2>. QED BY <1>0, <2>1, AncPath, AncClosed
<1>4. start \in V BY DEF Mixed
<1>5. ASSUME NEW v \in V, NEW i \in 1..N
      PROVE  Step(v, i) \in V /\ (Mixed(v, coins, at(i - 1), new) => Mixed(Step(v, i), coins, at(i), new))
  BY <1>2, ForwardStep, SMT
<1>6. RolledForward(start, coins, new, old) = f[N] BY <1>1 DEF RolledForward
<1>. HIDE DEF V, N, Step, at, blocks, h
<1>7. \E g : Good(g)
  <2>. DEFINE F == [i \in 1..N |-> [v \in V |-> Step(v, i)]]
  <2>1. IsSteps(F, N, V) BY <1>1, <1>5 DEF IsSteps
  <2>. HIDE DEF F
  <2>2. PICK g \in [0..N -> V] : g[0] = start /\ \A i \in 1..N : g[i] = F[i][g[i - 1]]
    <3>1. HasSequence(F, N, V, start) BY <1>4, <2>1, StepsExist
    <3>. QED BY <3>1 DEF HasSequence
  <2>3. ASSUME NEW i \in 0..N PROVE g[i] = IF i = 0 THEN start ELSE Step(g[i - 1], i)
    <3>1. CASE i = 0 BY <2>2, <3>1
    <3>2. CASE i # 0
      <4>1. i \in 1..N /\ i - 1 \in 0..N BY <1>1, <3>2, SMT
      <4>2. g[i - 1] \in V BY <4>1
      <4>. QED BY <2>2, <3>2, <4>1, <4>2 DEF F
    <3>. QED BY <3>1, <3>2
  <2>4. Good(g) BY <2>3
  <2>. QED BY <2>4
<1>8. Good(f) BY <1>7
<1>. HIDE DEF f
<1>9. \A i \in 0..N : f[i] = IF i = 0 THEN start ELSE Step(f[i - 1], i) BY <1>8
<1>. DEFINE S == {i \in 0..N : f[i] \in V /\ Mixed(f[i], coins, at(i), new)}
<1>10. 0 \in S
  <2>1. 0 \in 0..N BY <1>1, SMT
  <2>. QED BY <1>3, <1>4, <1>9, <2>1
<1>11. ASSUME NEW i \in 1..N, i - 1 \in S PROVE i \in S
  <2>1. i \in 0..N /\ i # 0 BY <1>1, SMT
  <2>2. f[i] = Step(f[i - 1], i) BY <1>9, <2>1
  <2>. QED BY <1>5, <1>11, <2>1, <2>2
<1>12. S \in SUBSET (0..N) /\ N \in 0..N BY <1>1, SMT
<1>. HIDE DEF S
<1>13. N \in S BY <1>1, <1>10, <1>11, <1>12, Climb
<1>. QED BY <1>3, <1>6, <1>13 DEF S

\* A replay over any mixture of the coins of the two tips shows those of the new one.
LEMMA ReplayShows ==
    ASSUME NEW coins \in CoinMap, NEW new \in Blocks, NEW old \in Blocks \cup {Null},
           \A o \in Outpoints : coins[o] \in {Utxo[new][o], Utxo[old][o]},
           \A i \in DOMAIN OldBranch(new, old) :
              rev[OldBranch(new, old)[i]] = RightUndo(OldBranch(new, old)[i])
    PROVE  ViewShows(Replayed(coins, new, old), coins, Utxo[new])
<1>1. Mixed(EmptyCache, coins, From(old), new)
  <2>1. EmptyCache \in SoundViews(coins) /\ \A o \in Outpoints : Seen(EmptyCache, coins, o) = coins[o]
    BY EmptyShows, SoundShows, SMT
  <2>2. \A o \in Outpoints : Utxo[From(old)][o] = Utxo[old][o] BY UtxoEmpty DEF From
  <2>. QED BY <2>1, <2>2 DEF Mixed
<1>2. Mixed(Replayed(coins, new, old), coins, new, new)
  BY <1>1, RolledBackMixed, RolledForwardMixed DEF Replayed
<1>. QED BY <1>2 DEF Mixed, SoundViews, ViewShows

-----------------------------------------------------------------------------
(* The inductive invariant.                                                  *)

\* The blocks a coins database names: its best block, or both heads.
Tips(d) == IF d.heads = <<>> THEN {d.best} ELSE {d.heads[1], d.heads[2]}

\* A block the index has, with what a replay reads of it unless it lies Keep
\* below a known block.
Kept(idx, b) ==
    /\ <<b, "TREE">> \in idx
    /\ \/ b = Genesis
       \/ <<b, "DATA">> \in idx /\ <<b, "UNDO">> \in idx
       \/ \E t \in Blocks : <<t, "TREE">> \in idx /\ Height[b] <= Height[t] - Keep
ChainKept(idx, t) == t # Null => \A a \in Anc[t] : Kept(idx, a)

Running == pc \in {"run", "files", "index", "unlink"}
Writing == pc \in {"coins", "replay"}

\* Undo data that can be read is right.
Undos == /\ rev = [b \in Blocks |-> rev[b]]
         /\ \A b \in Blocks \ {Genesis} : <<b, "UNDO">> \in files => rev[b] = RightUndo(b)

\* The cache over the database shows the coins of its best block; while it is being
\* written, what is in the database already is right.
Cached ==
    /\ Running => db.heads = <<>> /\ ViewShows(cache, db.coins, Utxo[cacheBest])
    /\ Writing => /\ cacheBest \in Blocks
                  /\ db.heads # <<>> => db.heads[1] = cacheBest
                  /\ \A o \in Outpoints : IF o \in batch THEN cache[o].coin = Utxo[cacheBest][o]
                                          ELSE db.coins[o] = Utxo[cacheBest][o]
    /\ ~Writing => batch = {}

\* What the files hold of what the two indexes claim, as the flush proceeds.
Stores ==
    /\ diskFiles \subseteq files
    /\ diskIndex \ (Blocks \X {"TREE"}) \subseteq diskFiles
    /\ index \ (Blocks \X {"TREE"}) \subseteq files
    /\ pc = "index" => diskFiles = files
    /\ pc = "unlink" => diskIndex = index
    /\ pc \in {"files", "index", "unlink"} => index \cap (pruned \X {"DATA", "UNDO"}) = {}
    /\ \A b \in Blocks : /\ <<b, "DATA">> \in index => <<b, "TREE">> \in index
                         /\ <<b, "DATA">> \in diskIndex => <<b, "TREE">> \in diskIndex

\* The indexes keep the chains of every tip that a start may have to go to or from.
Chains ==
    /\ \A t \in Tips(db) \cup Tips(disk) : ChainKept(diskIndex, t)
    /\ Running \/ Writing => /\ <<Genesis, "TREE">> \in index
                             /\ \A t \in Tips(db) \cup Tips(disk) \cup {cacheBest, chain} :
                                   ChainKept(index, t)
    /\ Writing => ChainKept(diskIndex, cacheBest)

IInv == /\ TypeOK /\ NamesItsState(db) /\ NamesItsState(disk)
        /\ Undos /\ Cached /\ Stores /\ Chains /\ FailsOnlyIfPruned

\* The indexes and files are sets of facts about blocks.
LEMMA StoresNext ==
    ASSUME TypeOK, Stores, [Next]_vars
    PROVE  Stores'
<1>0. index \subseteq Facts /\ diskIndex \subseteq Facts /\ files \subseteq Facts
      /\ diskFiles \subseteq Facts /\ Genesis \in Blocks
  BY TreeAssumption DEF TypeOK
<1>1. CASE Start
  <2>. DEFINE isNew == <<Genesis, "TREE">> \notin diskIndex
  <2>1. /\ index' = diskIndex \cup (IF isNew THEN {Genesis} \X {"TREE", "DATA"} ELSE {})
        /\ files' = files \cup (IF isNew THEN {<<Genesis, "DATA">>} ELSE {})
        /\ pc' \in {"failed", "replay", "run"} /\ UNCHANGED <<diskIndex, diskFiles, pruned>>
    BY <1>1 DEF Start
  <2>. HIDE DEF isNew
  <2>. QED BY <1>0, <2>1, SMT DEF Stores, Facts
<1>2. CASE Reindex BY <1>2 DEF Reindex, Stores
<1>3. ASSUME NEW b \in Blocks, AcceptBlock(b) PROVE Stores'
  BY <1>0, <1>3, SMT DEF AcceptBlock, Ready, Stores, Facts, coinsVars, cacheVars, flushVars, bounds
<1>4. ASSUME NEW b \in Blocks, ConnectTip(b) PROVE Stores'
  <2>. DEFINE new == b # Genesis /\ <<b, "UNDO">> \notin index
  <2>1. /\ index' = index \cup (IF new THEN {<<b, "UNDO">>} ELSE {})
        /\ files' = files \cup (IF new THEN {<<b, "UNDO">>} ELSE {})
        /\ UNCHANGED <<diskIndex, diskFiles, pc>> /\ pc = "run"
    BY <1>4 DEF ConnectTip, Ready
  <2>. HIDE DEF new
  <2>. QED BY <1>0, <2>1 DEF Stores, Facts
<1>5. CASE DisconnectTip BY <1>5 DEF DisconnectTip, Ready, Stores, storeVars
<1>6. CASE SetTip BY <1>6 DEF SetTip, Stores, storeVars
<1>7. ASSUME NEW last \in PruneHeights, NEW isFull \in BOOLEAN, FlushStateToDisk(last, isFull)
      PROVE  Stores'
  <2>1. /\ index' = index \ (pruned' \X {"DATA", "UNDO"}) /\ pc' = "files"
        /\ UNCHANGED <<diskIndex, files, diskFiles>>
    BY <1>7 DEF FlushStateToDisk
  <2>. QED BY <1>0, <2>1 DEF Stores, Facts
<1>8. CASE FlushBlockFile BY <1>0, <1>8 DEF FlushBlockFile, Stores, Facts, flushVars
<1>9. CASE WriteBlockIndexDB BY <1>0, <1>9 DEF WriteBlockIndexDB, Stores, Facts, flushVars
<1>10. CASE UnlinkPrunedFiles
  <2>1. /\ files' = files \ (pruned \X {"DATA", "UNDO"})
        /\ diskFiles' = diskFiles \ (pruned \X {"DATA", "UNDO"})
        /\ pc' \in {"coins", "run"} /\ pc = "unlink" /\ UNCHANGED <<index, diskIndex>>
    BY <1>10 DEF UnlinkPrunedFiles
  <2>. QED BY <1>0, <2>1 DEF Stores, Facts
<1>11. ASSUME NEW done \in SUBSET batch, WritePartialBatch(done) PROVE Stores'
  BY <1>11 DEF WritePartialBatch, Stores, storeVars
<1>12. CASE WriteFinalBatch BY <1>12 DEF WriteFinalBatch, Stores, storeVars
<1>13. CASE Freeze BY <1>13 DEF Freeze, Stores, storeVars
<1>14. ASSUME NEW power \in BOOLEAN, Crash(power) PROVE Stores'
  <2>1. /\ files' = (IF power THEN diskFiles ELSE files) \cap diskIndex
        /\ diskFiles' = diskFiles \cap diskIndex /\ index' = {} /\ pc' = "down"
        /\ UNCHANGED diskIndex
    BY <1>14 DEF Crash
  <2>. QED BY <1>0, <2>1 DEF Stores, Facts
<1>15. CASE UNCHANGED vars BY <1>15 DEF vars, storeVars, flushVars, Stores
<1>. QED BY <1>1, <1>2, <1>3, <1>4, <1>5, <1>6, <1>7, <1>8, <1>9, <1>10, <1>11, <1>12,
            <1>13, <1>14, <1>15, ZenonT(30) DEF Next

-----------------------------------------------------------------------------
(* The coins.                                                                *)

CoinsDB == [coins : CoinMap, best : Blocks \cup {Null},
            heads : {<<>>} \cup (Blocks \X (Blocks \cup {Null}))]
CoinsInv == TypeOK /\ NamesItsState(db) /\ NamesItsState(disk) /\ Undos /\ Cached

\* The base of the views of ConnectTip and DisconnectTip.
LEMMA BaseExact ==
    ASSUME TypeOK, Cached, Running
    PROVE  /\ [o \in Outpoints |-> Seen(cache, db.coins, o)] = Utxo[cacheBest]
           /\ Utxo[cacheBest] \in CoinMap /\ cacheBest \in Blocks \cup {Null}
           /\ db \in CoinsDB /\ db.coins \in CoinMap
           /\ ViewShows(cache, db.coins, Utxo[cacheBest])
<1>1. db \in CoinsDB /\ cacheBest \in Blocks \cup {Null} BY DEF TypeOK, CoinsDB, CoinMap
<1>2. db.coins \in CoinMap BY <1>1 DEF CoinsDB
<1>3. ViewShows(cache, db.coins, Utxo[cacheBest]) BY DEF Cached
<1>4. Utxo[cacheBest] \in CoinMap BY <1>1, UtxoType
<1>5. \A o \in Outpoints : Seen(cache, db.coins, o) = Utxo[cacheBest][o]
  BY <1>3 DEF ViewShows, Shows, Seen
<1>6. [o \in Outpoints |-> Seen(cache, db.coins, o)] = Utxo[cacheBest]
  BY <1>4, <1>5 DEF CoinMap
<1>. QED BY <1>1, <1>2, <1>3, <1>4, <1>6

\* A view over the cache is flushed into it.
LEMMA ViewFlushed ==
    ASSUME NEW v, NEW w, NEW base, NEW c, NEW d, ViewShows(v, base, c), ViewShows(w, c, d)
    PROVE  ViewShows([o \in Outpoints |->
                         BatchWriteEntry(w[o], IF w[o] = NoEntry THEN v[o] ELSE FetchCoin(v[o], base[o]))],
                     base, d)
<1>. DEFINE r == [o \in Outpoints |->
                    BatchWriteEntry(w[o], IF w[o] = NoEntry THEN v[o] ELSE FetchCoin(v[o], base[o]))]
<1>1. ASSUME NEW o \in Outpoints PROVE Shows(r[o], base[o], d[o])
  <2>1. Shows(v[o], base[o], c[o]) /\ Shows(w[o], c[o], d[o]) BY DEF ViewShows
  <2>. QED BY <2>1, FlushShows
<1>2. r = [o \in Outpoints |-> r[o]] OBVIOUS
<1>. HIDE DEF r
<1>3. r \in [Outpoints -> MaybeEntry] BY <1>1, <1>2 DEF Shows
<1>4. ViewShows(r, base, d) BY <1>1, <1>3 DEF ViewShows
<1>. QED BY <1>4 DEF r

LEMMA ConnectTipCoins ==
    ASSUME CoinsInv, NEW b \in Blocks, ConnectTip(b)
    PROVE  CoinsInv'
<1>. DEFINE base == [o \in Outpoints |-> Seen(cache, db.coins, o)]
            view == IF b = Genesis THEN EmptyCache ELSE ConnectCoins(base, b)
            new == b # Genesis /\ <<b, "UNDO">> \notin index
<1>1. /\ pc = "run" /\ pc' = "run" /\ chain = cacheBest /\ cacheBest' = b
      /\ IF b = Genesis THEN chain = Null ELSE chain = Prev[b]
      /\ cache' = [o \in Outpoints |->
                     BatchWriteEntry(view[o], IF view[o] = NoEntry THEN cache[o] ELSE FetchCoin(cache[o], db.coins[o]))]
      /\ rev' = IF new THEN [rev EXCEPT ![b] = Undo(base, b)] ELSE rev
      /\ index' = index \cup (IF new THEN {<<b, "UNDO">>} ELSE {})
      /\ files' = files \cup (IF new THEN {<<b, "UNDO">>} ELSE {})
      /\ UNCHANGED <<db, disk, frozen, chain, diskIndex, diskFiles, full, pruned, batch>>
  BY DEF ConnectTip, Ready, coinsVars, flushVars
<1>2. /\ base = Utxo[cacheBest] /\ Utxo[cacheBest] \in CoinMap
      /\ ViewShows(cache, db.coins, Utxo[cacheBest])
  BY <1>1, BaseExact DEF CoinsInv, Running
<1>3. ViewShows(view, base, Utxo[b])
  <2>1. CASE b = Genesis
    <3>1. cacheBest = Null /\ \A o \in Outpoints : Utxo[Genesis][o] = Utxo[Null][o]
      BY <1>1, <2>1, UtxoEmpty
    <3>2. ViewShows(EmptyCache, base, base) BY <1>2, EmptyShows
    <3>. HIDE DEF base
    <3>3. \A o \in Outpoints : base[o] = Utxo[b][o] BY <1>2, <2>1, <3>1
    <3>. QED BY <2>1, <3>2, <3>3 DEF ViewShows
  <2>2. CASE b # Genesis
    <3>. HIDE DEF base
    <3>. QED BY <1>1, <1>2, <2>2, ConnectedCoins
  <2>. QED BY <2>1, <2>2
<1>4. new => Undo(base, b) = RightUndo(b)
  <2>. HIDE DEF base
  <2>. QED BY <1>1, <1>2, UndoRight
<1>. HIDE DEF base, view, new
<1>5. ViewShows(cache', db.coins, Utxo[b])
  BY <1>1, <1>2, <1>3, ViewFlushed
<1>6. cache' \in [Outpoints -> ValidEntry \cup {NoEntry}] BY <1>5 DEF ViewShows, MaybeEntry
<1>7. batch = {} BY <1>1 DEF CoinsInv, Cached, Writing
<1>8. TypeOK'
  <2>1. <<b, "UNDO">> \in Facts BY DEF Facts
  <2>2. index' \cup diskIndex' \cup files' \cup diskFiles' \subseteq Facts
    BY <1>1, <2>1 DEF CoinsInv, TypeOK
  <2>3. batch' \subseteq DirtyOutpoints(cache') BY <1>1, <1>7
  <2>. QED BY <1>1, <1>6, <2>2, <2>3 DEF CoinsInv, TypeOK
<1>9. Undos'
  BY <1>1, <1>4 DEF CoinsInv, Undos
<1>10. Cached'
  BY <1>1, <1>5, <1>7 DEF CoinsInv, Cached, Running, Writing
<1>11. NamesItsState(db)' /\ NamesItsState(disk)' BY <1>1 DEF CoinsInv, NamesItsState
<1>. QED BY <1>8, <1>9, <1>10, <1>11 DEF CoinsInv

LEMMA DisconnectTipCoins ==
    ASSUME CoinsInv, DisconnectTip
    PROVE  CoinsInv'
<1>. DEFINE base == [o \in Outpoints |-> Seen(cache, db.coins, o)]
            view == DisconnectBlock(EmptyCache, base, chain).view
<1>1. /\ pc = "run" /\ pc' = "run" /\ chain = cacheBest /\ cacheBest' = Prev[chain]
      /\ chain \notin {Null, Genesis} /\ <<chain, "UNDO">> \in files
      /\ cache' = [o \in Outpoints |->
                     BatchWriteEntry(view[o], IF view[o] = NoEntry THEN cache[o] ELSE FetchCoin(cache[o], db.coins[o]))]
      /\ UNCHANGED <<db, disk, frozen, chain, index, diskIndex, files, diskFiles, rev, full, pruned, batch>>
  BY DEF DisconnectTip, Ready, CanRead, coinsVars, storeVars, flushVars
<1>2. /\ base = Utxo[cacheBest] /\ Utxo[cacheBest] \in CoinMap
      /\ ViewShows(cache, db.coins, Utxo[cacheBest]) /\ chain \in Blocks \ {Genesis}
  BY <1>1, BaseExact DEF CoinsInv, Running
<1>3. rev[chain] = RightUndo(chain) BY <1>1, <1>2 DEF CoinsInv, Undos
<1>4. ViewShows(view, base, Utxo[Prev[chain]])
  <2>. HIDE DEF base
  <2>1. ViewShows(EmptyCache, base, base) BY <1>2, EmptyShows
  <2>2. ViewShows(view, base, [o \in Outpoints |-> IF o \in Touched(chain) THEN Utxo[Prev[chain]][o] ELSE base[o]])
    BY <1>2, <1>3, <2>1, DisconnectShows, SMT
  <2>3. \A o \in Outpoints : o \notin Touched(chain) => base[o] = Utxo[Prev[chain]][o]
    BY <1>1, <1>2, UtxoStep DEF Touched
  <2>. HIDE DEF view
  <2>. QED BY <2>2, <2>3 DEF ViewShows
<1>. HIDE DEF base, view
<1>5. ViewShows(cache', db.coins, Utxo[Prev[chain]])
  BY <1>1, <1>2, <1>4, ViewFlushed
<1>6. cache' \in [Outpoints -> ValidEntry \cup {NoEntry}] BY <1>5 DEF ViewShows, MaybeEntry
<1>7. batch = {} /\ Prev[chain] \in Blocks BY <1>1, <1>2, PrevType DEF CoinsInv, Cached, Writing
<1>8. TypeOK'
  BY <1>1, <1>6, <1>7 DEF CoinsInv, TypeOK
<1>9. Undos' BY <1>1 DEF CoinsInv, Undos
<1>10. Cached'
  BY <1>1, <1>5, <1>7 DEF CoinsInv, Cached, Running, Writing
<1>11. NamesItsState(db)' /\ NamesItsState(disk)' BY <1>1 DEF CoinsInv, NamesItsState
<1>. QED BY <1>8, <1>9, <1>10, <1>11 DEF CoinsInv

\* What a view does not mark DIRTY is in the database.
LEMMA CleanIsWritten ==
    ASSUME NEW v, NEW base, NEW c, ViewShows(v, base, c), NEW o \in Outpoints
    PROVE  IF o \in DirtyOutpoints(v) THEN v[o].coin = c[o] ELSE base[o] = c[o]
  BY DEF ViewShows, Shows, SoundEntry, GetCoin, DirtyOutpoints, IsDirty

LEMMA StartCoins ==
    ASSUME CoinsInv, Start
    PROVE  CoinsInv'
<1>. DEFINE isNew == <<Genesis, "TREE">> \notin diskIndex
            idx == diskIndex \cup (IF isNew THEN {Genesis} \X {"TREE", "DATA"} ELSE {})
            fs == files \cup (IF isNew THEN {<<Genesis, "DATA">>} ELSE {})
            new == db.heads[1]
            old == db.heads[2]
            replay == db.heads # <<>>
            ok == IF replay THEN CanReplay(new, old, idx, fs)
                  ELSE db.best = Null \/ <<db.best, "TREE">> \in idx
<1>1. /\ index' = idx /\ files' = fs
      /\ pc' = IF ~ok THEN "failed" ELSE IF replay THEN "replay" ELSE "run"
      /\ cache' = IF ok /\ replay THEN Replayed(db.coins, new, old) ELSE EmptyCache
      /\ cacheBest' = IF ~ok THEN Null ELSE IF replay THEN new ELSE db.best
      /\ chain' = IF ok /\ ~replay THEN db.best ELSE Null
      /\ batch' = DirtyOutpoints(cache')
      /\ UNCHANGED <<db, disk, frozen, diskIndex, diskFiles, rev, full, pruned>>
  BY DEF Start, coinsVars
<1>2. db \in CoinsDB /\ db.coins \in CoinMap /\ db.best \in Blocks \cup {Null}
  BY DEF CoinsInv, TypeOK, CoinsDB, CoinMap
<1>3. replay => new \in Blocks /\ old \in Blocks \cup {Null}
  BY <1>2 DEF CoinsDB
<1>4. idx \subseteq Facts /\ fs \subseteq Facts
  BY TreeAssumption, SMT DEF CoinsInv, TypeOK, Facts
<1>5. \A b \in Blocks : <<b, "UNDO">> \in fs => <<b, "UNDO">> \in files OBVIOUS
<1>6. ok /\ replay => ViewShows(cache', db.coins, Utxo[new])
  <2>. SUFFICES ASSUME ok, replay PROVE ViewShows(Replayed(db.coins, new, old), db.coins, Utxo[new])
    BY <1>1
  <2>1. \A o \in Outpoints : db.coins[o] \in {Utxo[new][o], Utxo[old][o]}
    BY DEF CoinsInv, NamesItsState
  <2>2. CanReplay(new, old, idx, fs) OBVIOUS
  <2>. HIDE DEF new, old, idx, fs, ok, replay
  <2>3. ASSUME NEW i \in DOMAIN OldBranch(new, old)
        PROVE  rev[OldBranch(new, old)[i]] = RightUndo(OldBranch(new, old)[i])
    <3>1. <<OldBranch(new, old)[i], "UNDO">> \in fs BY <2>2 DEF CanReplay, CanRead
    <3>2. OldBranch(new, old)[i] \in Blocks \ {Genesis}
      <4>. DEFINE t == From(old)
                  h == Height[t] + 1 - i
      <4>1. t \in Blocks /\ Height[t] \in Nat /\ Height[Fork(new, old)] \in Nat BY <1>3, ForkType
      <4>2. i \in 1..(Height[t] - Height[Fork(new, old)]) /\ OldBranch(new, old)[i] = GetAncestor(t, h)
        BY <1>3, BranchShape
      <4>3. h \in 1..Height[t] BY <4>1, <4>2, SMT
      <4>. HIDE DEF h, t
      <4>. QED BY <4>1, <4>2, <4>3, AncPath, SMT
    <3>. QED BY <1>5, <3>1, <3>2 DEF CoinsInv, Undos
  <2>. QED BY <1>2, <1>3, <2>1, <2>3, ReplayShows
<1>7. ~(ok /\ replay) => ViewShows(cache', db.coins, db.coins) BY <1>1, <1>2, EmptyShows
<1>8. ok /\ ~replay => db.coins = Utxo[db.best] BY DEF CoinsInv, NamesItsState
<1>. HIDE DEF new, old, idx, fs, ok, replay
<1>9. cache' \in [Outpoints -> ValidEntry \cup {NoEntry}] BY <1>6, <1>7 DEF ViewShows, MaybeEntry
<1>10. ~(ok /\ replay) => batch' = {}
  BY <1>1 DEF EmptyCache, DirtyOutpoints, IsDirty
<1>11. TypeOK'
  BY <1>1, <1>2, <1>3, <1>4, <1>9 DEF CoinsInv, TypeOK
<1>12. Undos' BY <1>1, <1>5 DEF CoinsInv, Undos
<1>13. Cached'
  <2>1. CASE ok /\ replay
    <3>1. pc' = "replay" /\ cacheBest' = new /\ new \in Blocks BY <1>1, <1>3, <2>1
    <3>2. \A o \in Outpoints : IF o \in batch' THEN cache'[o].coin = Utxo[cacheBest'][o]
                               ELSE db.coins'[o] = Utxo[cacheBest'][o]
      BY <1>1, <1>6, <2>1, <3>1, CleanIsWritten, SMT
    <3>. QED BY <1>1, <3>1, <3>2 DEF Cached, Running, Writing, new
  <2>2. CASE ok /\ ~replay
    <3>1. pc' = "run" /\ cacheBest' = db.best /\ db.heads = <<>> BY <1>1, <2>2 DEF replay
    <3>. QED BY <1>1, <1>7, <1>8, <1>10, <2>2, <3>1 DEF Cached, Running, Writing
  <2>3. CASE ~ok
    <3>1. pc' = "failed" BY <1>1, <2>3
    <3>. QED BY <1>10, <2>3, <3>1 DEF Cached, Running, Writing
  <2>. QED BY <2>1, <2>2, <2>3
<1>14. NamesItsState(db)' /\ NamesItsState(disk)' BY <1>1 DEF CoinsInv, NamesItsState
<1>. QED BY <1>11, <1>12, <1>13, <1>14 DEF CoinsInv

LEMMA UnlinkCoins ==
    ASSUME CoinsInv, UnlinkPrunedFiles
    PROVE  CoinsInv'
<1>. DEFINE coins == full /\ cacheBest # Null
<1>1. /\ pc = "unlink" /\ pc' = IF coins THEN "coins" ELSE "run"
      /\ files' \subseteq files /\ diskFiles' \subseteq diskFiles
      /\ batch' = (IF coins THEN DirtyOutpoints(cache) ELSE {}) /\ full' = FALSE /\ pruned' = {}
      /\ UNCHANGED <<db, disk, frozen, cache, cacheBest, chain, index, diskIndex, rev>>
  BY DEF UnlinkPrunedFiles, coinsVars, cacheVars
<1>2. /\ ViewShows(cache, db.coins, Utxo[cacheBest]) /\ cacheBest \in Blocks \cup {Null}
      /\ db.heads = <<>>
  BY <1>1, BaseExact DEF CoinsInv, Running, Cached
<1>3. TypeOK' BY <1>1 DEF CoinsInv, TypeOK
<1>4. Undos' BY <1>1 DEF CoinsInv, Undos
<1>5. Cached'
  <2>1. CASE coins
    <3>1. \A o \in Outpoints : IF o \in DirtyOutpoints(cache) THEN cache[o].coin = Utxo[cacheBest][o]
                               ELSE db.coins[o] = Utxo[cacheBest][o]
      BY <1>2, CleanIsWritten, SMT
    <3>2. /\ batch' = DirtyOutpoints(cache) /\ pc' = "coins"
          /\ cache' = cache /\ db' = db /\ cacheBest' = cacheBest /\ chain' = chain
          /\ cacheBest \in Blocks
      BY <1>1, <1>2, <2>1
    <3>. QED BY <1>1, <1>2, <3>1, <3>2 DEF Cached, Running, Writing
  <2>2. CASE ~coins BY <1>1, <1>2, <2>2 DEF Cached, Running, Writing
  <2>. QED BY <2>1, <2>2
<1>6. NamesItsState(db)' /\ NamesItsState(disk)' BY <1>1 DEF CoinsInv, NamesItsState
<1>. QED BY <1>3, <1>4, <1>5, <1>6 DEF CoinsInv

\* What the entries of a batch leave in the database.
LEMMA Written ==
    ASSUME CoinsInv, Writing, NEW done \in SUBSET batch
    PROVE  /\ cacheBest \in Blocks /\ Utxo[cacheBest] \in CoinMap
           /\ db \in CoinsDB /\ db.coins \in CoinMap
           /\ WriteCoins(done) \in CoinMap
           /\ \A o \in Outpoints : WriteCoins(done)[o] = IF o \in done THEN Utxo[cacheBest][o] ELSE db.coins[o]
           /\ \A o \in Outpoints : o \notin batch => db.coins[o] = Utxo[cacheBest][o]
<1>1. cacheBest \in Blocks BY DEF CoinsInv, Cached
<1>2. Utxo[cacheBest] \in CoinMap BY <1>1, UtxoType
<1>3. db \in CoinsDB BY DEF CoinsInv, TypeOK, CoinsDB, CoinMap
<1>4. db.coins \in CoinMap BY <1>3 DEF CoinsDB
<1>5. \A o \in done : IsDirty(cache[o]) /\ cache[o].coin = Utxo[cacheBest][o]
  BY DEF CoinsInv, TypeOK, DirtyOutpoints, Cached
<1>6. \A o \in Outpoints : WriteCoins(done)[o] = IF o \in done THEN Utxo[cacheBest][o] ELSE db.coins[o]
  BY <1>5 DEF WriteCoins, WriteRecord
<1>7. WriteCoins(done) = [o \in Outpoints |-> WriteCoins(done)[o]] BY DEF WriteCoins
<1>8. WriteCoins(done) \in CoinMap BY <1>2, <1>4, <1>6, <1>7 DEF CoinMap
<1>9. \A o \in Outpoints : o \notin batch => db.coins[o] = Utxo[cacheBest][o]
  BY DEF CoinsInv, Cached
<1>. QED BY <1>1, <1>2, <1>3, <1>4, <1>6, <1>8, <1>9

LEMMA PartialCoins ==
    ASSUME CoinsInv, NEW done \in SUBSET batch, WritePartialBatch(done)
    PROVE  CoinsInv'
<1>. DEFINE state == PartialState(done)
<1>1. /\ pc \in {"coins", "replay"} /\ db' = state /\ disk' = (IF frozen THEN disk ELSE state)
      /\ batch' = batch \ done
      /\ UNCHANGED <<frozen, cache, cacheBest, chain, index, diskIndex, files, diskFiles, rev, pc, full, pruned>>
  BY DEF WritePartialBatch, WriteBatch, cacheVars, storeVars
<1>2. Writing BY <1>1 DEF Writing
<1>3. /\ cacheBest \in Blocks /\ db \in CoinsDB /\ WriteCoins(done) \in CoinMap
      /\ \A o \in Outpoints : WriteCoins(done)[o] = IF o \in done THEN Utxo[cacheBest][o] ELSE db.coins[o]
      /\ \A o \in Outpoints : o \notin batch => db.coins[o] = Utxo[cacheBest][o]
  BY <1>2, Written
<1>4. OldTip \in Blocks \cup {Null} BY <1>3 DEF OldTip, CoinsDB
<1>5. /\ state.coins = WriteCoins(done) /\ state.best = Null /\ state.heads = <<cacheBest, OldTip>>
      /\ state.heads # <<>> /\ state.heads[1] = cacheBest /\ state.heads[2] = OldTip
  BY DEF PartialState
<1>6. state \in CoinsDB BY <1>3, <1>4 DEF PartialState, CoinsDB
<1>. HIDE DEF state
<1>7. NamesItsState(state)
  <2>1. ASSUME NEW o \in Outpoints, o \notin done
        PROVE  db.coins[o] \in {Utxo[cacheBest][o], Utxo[OldTip][o]}
    <3>1. CASE db.heads = <<>>
      <4>1. OldTip = db.best /\ db.coins = Utxo[db.best]
        BY <3>1 DEF OldTip, CoinsInv, NamesItsState
      <4>. QED BY <4>1
    <3>2. CASE db.heads # <<>>
      <4>1. OldTip = db.heads[2] /\ db.heads[1] = cacheBest
        BY <1>2, <3>2 DEF OldTip, CoinsInv, NamesItsState, Cached
      <4>. QED BY <3>2, <4>1 DEF CoinsInv, NamesItsState
    <3>. QED BY <3>1, <3>2
  <2>. QED BY <1>3, <1>5, <2>1 DEF NamesItsState
<1>8. TypeOK'
  <2>1. {db', disk'} \subseteq CoinsDB BY <1>1, <1>6 DEF CoinsInv, TypeOK, CoinsDB, CoinMap
  <2>. QED BY <1>1, <2>1 DEF CoinsInv, TypeOK, CoinsDB, CoinMap
<1>9. Undos' BY <1>1 DEF CoinsInv, Undos
<1>10. Cached'
  <2>1. \A o \in Outpoints : o \in batch => cache[o].coin = Utxo[cacheBest][o]
    BY <1>2 DEF CoinsInv, Cached
  <2>2. \A o \in Outpoints : o \notin batch' => db'.coins[o] = Utxo[cacheBest][o]
    BY <1>1, <1>3, <1>5
  <2>. QED BY <1>1, <1>3, <1>5, <2>1, <2>2 DEF Cached, Running, Writing
<1>11. NamesItsState(db)' /\ NamesItsState(disk)'
  <2>1. NamesItsState(db') /\ NamesItsState(disk') BY <1>1, <1>7 DEF CoinsInv
  <2>. QED BY <2>1 DEF NamesItsState
<1>. QED BY <1>8, <1>9, <1>10, <1>11 DEF CoinsInv

LEMMA FinalCoins ==
    ASSUME CoinsInv, WriteFinalBatch
    PROVE  CoinsInv'
<1>. DEFINE state == [coins |-> WriteCoins(batch), best |-> cacheBest, heads |-> <<>>]
<1>1. /\ pc \in {"coins", "replay"} /\ db' = state /\ disk' = (IF frozen THEN disk ELSE state)
      /\ batch' = {} /\ cache' = EmptyCache /\ chain' \in {chain, cacheBest} /\ pc' = "run"
      /\ UNCHANGED <<frozen, cacheBest, index, diskIndex, files, diskFiles, rev, full, pruned>>
  BY DEF WriteFinalBatch, WriteBatch, storeVars
<1>2. Writing BY <1>1 DEF Writing
<1>3. /\ cacheBest \in Blocks /\ WriteCoins(batch) \in CoinMap /\ Utxo[cacheBest] \in CoinMap
      /\ \A o \in Outpoints : WriteCoins(batch)[o] = IF o \in batch THEN Utxo[cacheBest][o] ELSE db.coins[o]
      /\ \A o \in Outpoints : o \notin batch => db.coins[o] = Utxo[cacheBest][o]
  BY <1>2, Written
<1>4. WriteCoins(batch) = Utxo[cacheBest]
  <2>1. \A o \in Outpoints : WriteCoins(batch)[o] = Utxo[cacheBest][o] BY <1>3
  <2>. QED BY <1>3, <2>1, SMT DEF CoinMap
<1>5. state \in CoinsDB /\ state.heads = <<>> /\ state.coins = Utxo[cacheBest] /\ state.best = cacheBest
  BY <1>3, <1>4 DEF CoinsDB
<1>. HIDE DEF state
<1>6. NamesItsState(state) BY <1>5 DEF NamesItsState
<1>7. ViewShows(EmptyCache, Utxo[cacheBest], Utxo[cacheBest]) BY <1>3, EmptyShows
<1>8. TypeOK'
  <2>1. {db', disk'} \subseteq CoinsDB BY <1>1, <1>5 DEF CoinsInv, TypeOK, CoinsDB, CoinMap
  <2>2. cache' \in [Outpoints -> ValidEntry \cup {NoEntry}] BY <1>1 DEF EmptyCache
  <2>. QED BY <1>1, <2>1, <2>2 DEF CoinsInv, TypeOK, CoinsDB, CoinMap
<1>9. Undos' BY <1>1 DEF CoinsInv, Undos
<1>10. Cached' BY <1>1, <1>5, <1>7 DEF Cached, Running, Writing
<1>11. NamesItsState(db)' /\ NamesItsState(disk)'
  <2>1. NamesItsState(db') /\ NamesItsState(disk') BY <1>1, <1>6 DEF CoinsInv
  <2>. QED BY <2>1 DEF NamesItsState
<1>. QED BY <1>8, <1>9, <1>10, <1>11 DEF CoinsInv

LEMMA CrashCoins ==
    ASSUME CoinsInv, Stores, NEW power \in BOOLEAN, Crash(power)
    PROVE  CoinsInv'
<1>1. /\ db' = (IF power THEN disk ELSE db) /\ frozen' = (frozen /\ ~power) /\ disk' = disk
      /\ files' = (IF power THEN diskFiles ELSE files) \cap diskIndex
      /\ diskFiles' = diskFiles \cap diskIndex
      /\ rev' = [b \in Blocks |-> IF <<b, "UNDO">> \in files' THEN rev[b] ELSE <<>>]
      /\ index' = {} /\ cache' = EmptyCache /\ cacheBest' = Null /\ chain' = Null
      /\ pc' = "down" /\ full' = FALSE /\ pruned' = {} /\ batch' = {} /\ diskIndex' = diskIndex
  BY DEF Crash
<1>2. files' \subseteq files BY <1>1 DEF Stores
<1>3. TypeOK'
  <2>1. {db', disk'} \subseteq CoinsDB BY <1>1 DEF CoinsInv, TypeOK, CoinsDB, CoinMap
  <2>2. cache' \in [Outpoints -> ValidEntry \cup {NoEntry}] BY <1>1 DEF EmptyCache
  <2>. QED BY <1>1, <2>1, <2>2 DEF CoinsInv, TypeOK, CoinsDB, CoinMap
<1>4. Undos' BY <1>1, <1>2 DEF CoinsInv, Undos
<1>5. Cached' BY <1>1 DEF Cached, Running, Writing
<1>6. NamesItsState(db)' /\ NamesItsState(disk)'
  <2>1. NamesItsState(db') /\ NamesItsState(disk') BY <1>1 DEF CoinsInv
  <2>. QED BY <2>1 DEF NamesItsState
<1>. QED BY <1>3, <1>4, <1>5, <1>6 DEF CoinsInv

\* The empty databases.
LEMMA EmptyDBNames == EmptyDB \in CoinsDB /\ EmptyDB.heads = <<>> /\ NamesItsState(EmptyDB)
<1>1. EmptyDB \in CoinsDB /\ EmptyDB.heads = <<>> /\ EmptyDB.best = Null
      /\ EmptyDB.coins = [o \in Outpoints |-> Spent]
  BY DEF EmptyDB, CoinsDB, CoinMap, AnyCoin
<1>2. Utxo[Null] \in CoinMap /\ \A o \in Outpoints : Utxo[Null][o] = Spent BY UtxoType, UtxoEmpty
<1>3. EmptyDB.coins = Utxo[Null] BY <1>1, <1>2 DEF CoinMap
<1>. QED BY <1>1, <1>3 DEF NamesItsState

LEMMA ReindexCoins ==
    ASSUME CoinsInv, Reindex
    PROVE  CoinsInv'
<1>1. /\ db' = EmptyDB /\ disk' = EmptyDB /\ frozen' = FALSE /\ pc = "failed" /\ pc' = "down"
      /\ index' = {} /\ diskIndex' = {} /\ files' = {} /\ diskFiles' = {}
      /\ rev' = [b \in Blocks |-> <<>>]
      /\ UNCHANGED <<cache, cacheBest, chain, full, pruned, batch>>
  BY DEF Reindex, cacheVars, flushVars
<1>2. TypeOK'
  <2>1. {db', disk'} \subseteq CoinsDB BY <1>1, EmptyDBNames
  <2>. QED BY <1>1, <2>1 DEF CoinsInv, TypeOK, CoinsDB, CoinMap
<1>3. Undos' BY <1>1 DEF Undos
<1>4. Cached' BY <1>1 DEF CoinsInv, Cached, Running, Writing
<1>5. NamesItsState(db)' /\ NamesItsState(disk)'
  <2>1. NamesItsState(db') /\ NamesItsState(disk') BY <1>1, EmptyDBNames
  <2>. QED BY <2>1 DEF NamesItsState
<1>. QED BY <1>2, <1>3, <1>4, <1>5 DEF CoinsInv

LEMMA CoinsNext ==
    ASSUME CoinsInv, Stores, [Next]_vars
    PROVE  CoinsInv'
<1>0. /\ TypeOK /\ NamesItsState(db) /\ NamesItsState(disk) /\ Undos /\ Cached
      /\ index \subseteq Facts /\ diskIndex \subseteq Facts /\ files \subseteq Facts
      /\ diskFiles \subseteq Facts
  BY DEF CoinsInv, TypeOK
\* A step that leaves the coins and the undo data alone.
<1>a. ASSUME UNCHANGED <<db, disk, cache, cacheBest, rev, batch>>,
             \A b \in Blocks : <<b, "UNDO">> \in files' => <<b, "UNDO">> \in files,
             Running' => Running, Writing' <=> Writing, TypeOK'
      PROVE  CoinsInv'
  <2>1. Undos' BY <1>0, <1>a DEF Undos
  <2>2. Cached' BY <1>0, <1>a DEF Cached
  <2>3. NamesItsState(db)' /\ NamesItsState(disk)' BY <1>0, <1>a DEF NamesItsState
  <2>. QED BY <1>a, <2>1, <2>2, <2>3 DEF CoinsInv
<1>1. CASE Start BY <1>1, StartCoins
<1>2. CASE Reindex BY <1>2, ReindexCoins
<1>3. ASSUME NEW b \in Blocks, AcceptBlock(b) PROVE CoinsInv'
  <2>1. /\ index' = index \cup {<<b, "TREE">>, <<b, "DATA">>} /\ files' = files \cup {<<b, "DATA">>}
        /\ UNCHANGED <<db, disk, frozen, cache, cacheBest, chain, diskIndex, diskFiles, rev, pc, full, pruned, batch>>
    BY <1>3 DEF AcceptBlock, coinsVars, cacheVars, flushVars
  <2>2. TypeOK' BY <1>0, <2>1, SMT DEF TypeOK, Facts
  <2>. QED BY <1>a, <2>1, <2>2 DEF Running, Writing
<1>4. ASSUME NEW b \in Blocks, ConnectTip(b) PROVE CoinsInv' BY <1>4, ConnectTipCoins
<1>5. CASE DisconnectTip BY <1>5, DisconnectTipCoins
<1>6. CASE SetTip
  <2>1. /\ chain' = cacheBest
        /\ UNCHANGED <<db, disk, frozen, cache, cacheBest, index, diskIndex, files, diskFiles, rev, pc, full, pruned, batch>>
    BY <1>6 DEF SetTip, coinsVars, cacheVars, storeVars, flushVars
  <2>2. TypeOK' BY <1>0, <2>1 DEF TypeOK
  <2>. QED BY <1>a, <2>1, <2>2 DEF Running, Writing
<1>7. ASSUME NEW last \in PruneHeights, NEW isFull \in BOOLEAN, FlushStateToDisk(last, isFull)
      PROVE  CoinsInv'
  <2>1. /\ index' \subseteq index /\ pc = "run" /\ pc' = "files" /\ pruned' \subseteq Blocks
        /\ full' \in BOOLEAN
        /\ UNCHANGED <<db, disk, frozen, cache, cacheBest, chain, diskIndex, files, diskFiles, rev, batch>>
    BY <1>7 DEF FlushStateToDisk, FilesToPrune, Stored, coinsVars, cacheVars
  <2>2. TypeOK' BY <1>0, <2>1 DEF TypeOK
  <2>. QED BY <1>a, <2>1, <2>2 DEF Running, Writing
<1>8. CASE FlushBlockFile
  <2>1. /\ diskFiles' = files /\ pc = "files" /\ pc' = "index"
        /\ UNCHANGED <<db, disk, frozen, cache, cacheBest, chain, index, diskIndex, files, rev, full, pruned, batch>>
    BY <1>8 DEF FlushBlockFile, coinsVars, cacheVars, flushVars
  <2>2. TypeOK' BY <1>0, <2>1 DEF TypeOK
  <2>. QED BY <1>a, <2>1, <2>2 DEF Running, Writing
<1>9. CASE WriteBlockIndexDB
  <2>1. /\ diskIndex' = index /\ pc = "index" /\ pc' = "unlink"
        /\ UNCHANGED <<db, disk, frozen, cache, cacheBest, chain, index, files, diskFiles, rev, full, pruned, batch>>
    BY <1>9 DEF WriteBlockIndexDB, coinsVars, cacheVars, flushVars
  <2>2. TypeOK' BY <1>0, <2>1 DEF TypeOK
  <2>. QED BY <1>a, <2>1, <2>2 DEF Running, Writing
<1>10. CASE UnlinkPrunedFiles BY <1>10, UnlinkCoins
<1>11. ASSUME NEW done \in SUBSET batch, WritePartialBatch(done) PROVE CoinsInv'
  BY <1>11, PartialCoins
<1>12. CASE WriteFinalBatch BY <1>12, FinalCoins
<1>13. CASE Freeze
  <2>1. /\ frozen' = TRUE
        /\ UNCHANGED <<db, disk, cache, cacheBest, chain, index, diskIndex, files, diskFiles, rev, pc, full, pruned, batch>>
    BY <1>13 DEF Freeze, cacheVars, storeVars, flushVars
  <2>2. TypeOK' BY <1>0, <2>1 DEF TypeOK
  <2>. QED BY <1>a, <2>1, <2>2 DEF Running, Writing
<1>14. ASSUME NEW power \in BOOLEAN, Crash(power) PROVE CoinsInv' BY <1>14, CrashCoins
<1>15. CASE UNCHANGED vars
  <2>1. UNCHANGED <<db, disk, frozen, cache, cacheBest, chain, index, diskIndex, files, diskFiles,
                    rev, pc, full, pruned, batch>>
    BY <1>15 DEF vars, coinsVars, cacheVars, storeVars, flushVars
  <2>2. TypeOK' BY <1>0, <2>1 DEF TypeOK
  <2>. QED BY <1>a, <2>1, <2>2 DEF Running, Writing
<1>. QED BY <1>1, <1>2, <1>3, <1>4, <1>5, <1>6, <1>7, <1>8, <1>9, <1>10, <1>11, <1>12,
            <1>13, <1>14, <1>15, ZenonT(30) DEF Next

-----------------------------------------------------------------------------
(* The chains.                                                               *)

LEMMA KeptGrows ==
    ASSUME NEW idx, NEW more, idx \subseteq more, NEW t, ChainKept(idx, t)
    PROVE  ChainKept(more, t)
  BY DEF ChainKept, Kept

\* The chain of a tip contains the genesis block and the tip.
LEMMA KeptEnds ==
    ASSUME NEW idx, NEW t \in Blocks, ChainKept(idx, t)
    PROVE  <<t, "TREE">> \in idx /\ <<Genesis, "TREE">> \in idx /\ \A a \in Anc[t] : ChainKept(idx, a)
<1>1. t # Null /\ t \in Anc[t] /\ Genesis \in Anc[t] /\ \A a \in Anc[t] : Anc[a] \subseteq Anc[t]
  BY AncClosed, RecoveryAssumption
<1>. QED BY <1>1 DEF ChainKept, Kept

\* Pruning keeps every chain.
LEMMA PruningKeeps ==
    ASSUME TypeOK, NEW last \in Int, chain # Null => ChainKept(index, chain), NEW t \in Blocks \cup {Null},
           ChainKept(index, t)
    PROVE  ChainKept(index \ (FilesToPrune(last) \X {"DATA", "UNDO"}), t)
<1>. DEFINE P == FilesToPrune(last)
            idx == index \ (P \X {"DATA", "UNDO"})
<1>1. \A x : <<x, "TREE">> \in index => <<x, "TREE">> \in idx OBVIOUS
<1>2. \A x : x \notin P => /\ <<x, "DATA">> \in index => <<x, "DATA">> \in idx
                           /\ <<x, "UNDO">> \in index => <<x, "UNDO">> \in idx
  OBVIOUS
<1>3. ASSUME NEW x \in P
      PROVE  x = Genesis \/ \E u \in Blocks : <<u, "TREE">> \in index /\ Height[x] <= Height[u] - Keep
  <2>1. x \in Blocks /\ chain # Null /\ (Height[x] = 0 \/ Height[x] <= Height[chain] - Keep)
    BY <1>3 DEF FilesToPrune, Stored
  <2>2. chain \in Blocks BY <2>1 DEF TypeOK
  <2>3. <<chain, "TREE">> \in index BY <2>1, <2>2, KeptEnds
  <2>4. Height[x] = 0 => x = Genesis BY <2>1, HeightDef, PrevType, SMT
  <2>. QED BY <2>1, <2>2, <2>3, <2>4
<1>. HIDE DEF P, idx
<1>4. ASSUME NEW a, Kept(index, a) PROVE Kept(idx, a)
  BY <1>1, <1>2, <1>3, <1>4 DEF Kept
<1>5. ChainKept(idx, t) BY <1>4 DEF ChainKept
<1>. QED BY <1>5 DEF idx, P

LEMMA TipsType ==
    ASSUME TypeOK
    PROVE  /\ \A t \in Tips(db) \cup Tips(disk) \cup {cacheBest, chain} : t \in Blocks \cup {Null}
           /\ db \in CoinsDB /\ disk \in CoinsDB
<1>1. db \in CoinsDB /\ disk \in CoinsDB BY DEF TypeOK, CoinsDB, CoinMap
<1>2. cacheBest \in Blocks \cup {Null} /\ chain \in Blocks \cup {Null} BY DEF TypeOK
<1>. QED BY <1>1, <1>2 DEF Tips, CoinsDB

LEMMA ChainsNext ==
    ASSUME IInv, [Next]_vars
    PROVE  Chains'
<1>0. /\ TypeOK /\ NamesItsState(db) /\ Cached /\ Stores /\ Chains
      /\ Null \notin Blocks /\ Genesis \in Blocks
  BY TreeAssumption, RecoveryAssumption DEF IInv
<1>t. /\ \A t \in Tips(db) \cup Tips(disk) \cup {cacheBest, chain} : t \in Blocks \cup {Null}
      /\ db \in CoinsDB /\ disk \in CoinsDB
  BY <1>0, TipsType
<1>k. /\ \A t \in Tips(db) \cup Tips(disk) : ChainKept(diskIndex, t)
      /\ Running \/ Writing => /\ <<Genesis, "TREE">> \in index
                               /\ \A t \in Tips(db) \cup Tips(disk) \cup {cacheBest, chain} :
                                     ChainKept(index, t)
      /\ Writing => ChainKept(diskIndex, cacheBest)
  BY <1>0 DEF Chains
<1>n. \A idx : ChainKept(idx, Null) BY DEF ChainKept
\* A step that writes nothing on disk and whose index only grows.
<1>a. ASSUME UNCHANGED <<db, disk, diskIndex>>, pc' = pc, index \subseteq index',
             Running, chain' \in {chain, cacheBest},
             ChainKept(index', cacheBest')
      PROVE  Chains'
  <2>1. Tips(db)' = Tips(db) /\ Tips(disk)' = Tips(disk) BY <1>a DEF Tips
  <2>2. \A t \in Tips(db) \cup Tips(disk) \cup {cacheBest, chain} : ChainKept(index', t)
    BY <1>a, <1>k, KeptGrows
  <2>3. <<Genesis, "TREE">> \in index' /\ ~Writing' BY <1>a, <1>k DEF Running, Writing
  <2>. QED BY <1>a, <1>k, <2>1, <2>2, <2>3 DEF Chains
<1>1. CASE Start
  <2>. DEFINE ok == IF db.heads # <<>>
                    THEN CanReplay(db.heads[1], db.heads[2], index', files')
                    ELSE db.best = Null \/ <<db.best, "TREE">> \in index'
  <2>1. /\ diskIndex \subseteq index' /\ <<Genesis, "TREE">> \in index'
        /\ UNCHANGED <<db, disk, diskIndex>>
        /\ pc' = IF ~ok THEN "failed" ELSE IF db.heads # <<>> THEN "replay" ELSE "run"
        /\ cacheBest' = IF ~ok THEN Null ELSE IF db.heads # <<>> THEN db.heads[1] ELSE db.best
        /\ chain' = IF ok /\ ~(db.heads # <<>>) THEN db.best ELSE Null
    BY <1>1 DEF Start, coinsVars
  <2>. HIDE DEF ok
  <2>2. Tips(db)' = Tips(db) /\ Tips(disk)' = Tips(disk) BY <2>1 DEF Tips
  <2>3. \A t \in Tips(db) \cup Tips(disk) : ChainKept(index', t) BY <1>k, <2>1, KeptGrows
  <2>4. /\ cacheBest' \in Tips(db) \cup {Null} /\ chain' \in Tips(db) \cup {Null}
    BY <2>1 DEF Tips
  <2>5. \A t \in {cacheBest', chain'} : ChainKept(index', t) /\ ChainKept(diskIndex, t)
    BY <1>k, <1>n, <2>3, <2>4
  <2>. QED BY <1>k, <2>1, <2>2, <2>3, <2>5 DEF Chains
<1>2. CASE Reindex
  <2>1. db' = EmptyDB /\ disk' = EmptyDB /\ pc' = "down" BY <1>2 DEF Reindex
  <2>2. Tips(db)' = {Null} /\ Tips(disk)' = {Null}
    <3>1. EmptyDB.heads = <<>> /\ EmptyDB.best = Null BY DEF EmptyDB
    <3>. QED BY <2>1, <3>1 DEF Tips
  <2>3. ~Running' /\ ~Writing' BY <2>1 DEF Running, Writing
  <2>. QED BY <1>n, <2>2, <2>3 DEF Chains
<1>3. ASSUME NEW b \in Blocks, AcceptBlock(b) PROVE Chains'
  <2>1. /\ index \subseteq index' /\ pc = "run"
        /\ UNCHANGED <<db, disk, diskIndex, pc, chain, cacheBest>>
    BY <1>3 DEF AcceptBlock, Ready, coinsVars, cacheVars
  <2>2. Running BY <2>1 DEF Running
  <2>3. ChainKept(index', cacheBest) BY <1>k, <2>1, <2>2, KeptGrows
  <2>. QED BY <1>a, <2>1, <2>2, <2>3
<1>4. ASSUME NEW b \in Blocks, ConnectTip(b) PROVE Chains'
  <2>1. /\ index \subseteq index' /\ pc = "run" /\ cacheBest' = b /\ chain = cacheBest
        /\ UNCHANGED <<db, disk, diskIndex, pc, chain>>
        /\ IF b = Genesis THEN chain = Null ELSE chain = Prev[b]
        /\ <<b, "DATA">> \in index /\ (b # Genesis => <<b, "UNDO">> \in index')
    BY <1>4 DEF ConnectTip, Ready, CanRead, coinsVars
  <2>2. Running BY <2>1 DEF Running
  <2>3. ChainKept(index', cacheBest) BY <1>k, <2>1, <2>2, KeptGrows
  <2>4. Kept(index', b)
    BY <1>0, <2>1 DEF Kept, Stores
  <2>5. ChainKept(index', b)
    <3>1. Anc[b] = {b} \cup (IF b = Genesis THEN {} ELSE Anc[Prev[b]]) BY AncDef
    <3>2. b # Genesis => Prev[b] # Null BY <1>0, PrevType
    <3>. QED BY <2>1, <2>3, <2>4, <3>1, <3>2 DEF ChainKept
  <2>. QED BY <1>a, <2>1, <2>2, <2>5
<1>5. CASE DisconnectTip
  <2>1. /\ pc = "run" /\ chain \notin {Null, Genesis} /\ cacheBest' = Prev[chain]
        /\ UNCHANGED <<db, disk, index, diskIndex, pc, chain>>
    BY <1>5 DEF DisconnectTip, Ready, coinsVars, storeVars
  <2>2. Running /\ chain \in Blocks \ {Genesis} BY <1>t, <2>1 DEF Running
  <2>3. Prev[chain] \in Anc[chain] BY <2>2, AncDef, PrevType
  <2>4. ChainKept(index', cacheBest') BY <1>k, <2>1, <2>2, <2>3, KeptEnds
  <2>. QED BY <1>a, <2>1, <2>2, <2>4
<1>6. CASE SetTip
  <2>1. pc = "run" /\ chain' = cacheBest /\ UNCHANGED <<db, disk, index, diskIndex, pc, cacheBest>>
    BY <1>6 DEF SetTip, coinsVars, cacheVars, storeVars
  <2>2. Running BY <2>1 DEF Running
  <2>. QED BY <1>a, <1>k, <2>1, <2>2
<1>7. ASSUME NEW last \in PruneHeights, NEW isFull \in BOOLEAN, FlushStateToDisk(last, isFull)
      PROVE  Chains'
  <2>1. /\ index' = index \ (FilesToPrune(last) \X {"DATA", "UNDO"}) /\ pc = "run" /\ pc' = "files"
        /\ UNCHANGED <<db, disk, diskIndex, chain, cacheBest>>
    BY <1>7 DEF FlushStateToDisk, coinsVars, cacheVars
  <2>2. Running /\ Running' /\ ~Writing' BY <2>1 DEF Running, Writing
  <2>3. last \in Int BY RecoveryAssumption
  <2>4. \A t \in Tips(db) \cup Tips(disk) \cup {cacheBest, chain} : ChainKept(index', t)
    BY <1>0, <1>k, <1>t, <2>1, <2>2, <2>3, PruningKeeps
  <2>5. Tips(db)' = Tips(db) /\ Tips(disk)' = Tips(disk) BY <2>1 DEF Tips
  <2>6. <<Genesis, "TREE">> \in index' BY <1>k, <2>1, <2>2
  <2>. QED BY <1>k, <2>1, <2>2, <2>4, <2>5, <2>6 DEF Chains
<1>8. CASE FlushBlockFile
  <2>1. pc = "files" /\ pc' = "index" /\ UNCHANGED <<db, disk, index, diskIndex, chain, cacheBest>>
    BY <1>8 DEF FlushBlockFile, coinsVars, cacheVars
  <2>2. Running /\ ~Writing' BY <2>1 DEF Running, Writing
  <2>5. Tips(db)' = Tips(db) /\ Tips(disk)' = Tips(disk) BY <2>1 DEF Tips
  <2>. QED BY <1>k, <2>1, <2>2, <2>5 DEF Chains
<1>9. CASE WriteBlockIndexDB
  <2>1. pc = "index" /\ pc' = "unlink" /\ diskIndex' = index /\ UNCHANGED <<db, disk, index, chain, cacheBest>>
    BY <1>9 DEF WriteBlockIndexDB, coinsVars, cacheVars
  <2>2. Running /\ ~Writing' BY <2>1 DEF Running, Writing
  <2>5. Tips(db)' = Tips(db) /\ Tips(disk)' = Tips(disk) BY <2>1 DEF Tips
  <2>. QED BY <1>k, <2>1, <2>2, <2>5 DEF Chains
<1>10. CASE UnlinkPrunedFiles
  <2>1. pc = "unlink" /\ UNCHANGED <<db, disk, index, diskIndex, chain, cacheBest>>
    BY <1>10 DEF UnlinkPrunedFiles, coinsVars, cacheVars
  <2>2. Running /\ diskIndex = index BY <1>0, <2>1 DEF Running, Stores
  <2>5. Tips(db)' = Tips(db) /\ Tips(disk)' = Tips(disk) BY <2>1 DEF Tips
  <2>. QED BY <1>k, <2>1, <2>2, <2>5 DEF Chains
<1>11. ASSUME NEW done \in SUBSET batch, WritePartialBatch(done) PROVE Chains'
  <2>1. /\ pc \in {"coins", "replay"} /\ db' = PartialState(done)
        /\ disk' \in {disk, db'} /\ UNCHANGED <<cacheBest, chain, index, diskIndex, pc>>
    BY <1>11 DEF WritePartialBatch, WriteBatch, cacheVars, storeVars
  <2>2. Writing BY <2>1 DEF Writing
  <2>3. OldTip \in Tips(db)
    BY <1>0 DEF OldTip, Tips, NamesItsState
  <2>4. Tips(db)' = {cacheBest, OldTip}
    <3>1. /\ PartialState(done).heads # <<>> /\ PartialState(done).heads[1] = cacheBest
          /\ PartialState(done).heads[2] = OldTip
      BY DEF PartialState
    <3>. QED BY <2>1, <3>1 DEF Tips
  <2>5. Tips(disk)' \subseteq Tips(disk) \cup Tips(db)' BY <2>1 DEF Tips
  <2>. QED BY <1>k, <2>1, <2>2, <2>3, <2>4, <2>5 DEF Chains
<1>12. CASE WriteFinalBatch
  <2>1. /\ pc \in {"coins", "replay"} /\ pc' = "run"
        /\ db' = [coins |-> WriteCoins(batch), best |-> cacheBest, heads |-> <<>>]
        /\ disk' \in {disk, db'} /\ chain' \in {chain, cacheBest} /\ UNCHANGED <<cacheBest, index, diskIndex>>
    BY <1>12 DEF WriteFinalBatch, WriteBatch, storeVars
  <2>2. Writing /\ ~Writing' BY <2>1 DEF Writing
  <2>3. Tips(db)' = {cacheBest}
    <3>1. db'.heads = <<>> /\ db'.best = cacheBest BY <2>1
    <3>. QED BY <3>1 DEF Tips
  <2>4. Tips(disk)' \subseteq Tips(disk) \cup Tips(db)' BY <2>1 DEF Tips
  <2>. QED BY <1>k, <2>1, <2>2, <2>3, <2>4 DEF Chains
<1>13. CASE Freeze
  <2>1. UNCHANGED <<db, disk, index, diskIndex, chain, cacheBest, pc>>
    BY <1>13 DEF Freeze, cacheVars, storeVars
  <2>. QED BY <1>0, <2>1 DEF Chains, Running, Writing, Tips
<1>14. ASSUME NEW power \in BOOLEAN, Crash(power) PROVE Chains'
  <2>1. db' \in {db, disk} /\ UNCHANGED <<disk, diskIndex>> /\ pc' = "down"
    BY <1>14 DEF Crash
  <2>2. ~Running' /\ ~Writing' BY <2>1 DEF Running, Writing
  <2>3. Tips(db)' \subseteq Tips(db) \cup Tips(disk) /\ Tips(disk)' = Tips(disk) BY <2>1 DEF Tips
  <2>. QED BY <1>k, <2>1, <2>2, <2>3 DEF Chains
<1>15. CASE UNCHANGED vars
  <2>1. UNCHANGED <<db, disk, index, diskIndex, chain, cacheBest, pc>>
    BY <1>15 DEF vars, coinsVars, cacheVars, storeVars
  <2>. QED BY <1>0, <2>1 DEF Chains, Running, Writing, Tips
<1>. QED BY <1>1, <1>2, <1>3, <1>4, <1>5, <1>6, <1>7, <1>8, <1>9, <1>10, <1>11, <1>12,
            <1>13, <1>14, <1>15, ZenonT(30) DEF Next

\* The blocks of both branches are on the chains of the tips, above the genesis block.
LEMMA OnChains ==
    ASSUME NEW new \in Blocks, NEW old \in Blocks \cup {Null}
    PROVE  /\ \A i \in DOMAIN OldBranch(new, old) :
                 old # Null /\ OldBranch(new, old)[i] \in Anc[old] \ {Genesis}
           /\ \A i \in DOMAIN NewBranch(new, old) : NewBranch(new, old)[i] \in Anc[new] \ {Genesis}
<1>. DEFINE f == Height[Fork(new, old)]
            t == From(old)
<1>1. /\ t \in Blocks /\ f \in Nat /\ Height[t] \in Nat /\ Height[new] \in Nat
      /\ f <= Height[t] /\ f <= Height[new]
  BY ForkType, SMT
<1>2. ASSUME NEW i \in DOMAIN OldBranch(new, old)
      PROVE  old # Null /\ OldBranch(new, old)[i] \in Anc[old] \ {Genesis}
  <2>1. i \in 1..(Height[t] - f) /\ OldBranch(new, old)[i] = GetAncestor(t, Height[t] + 1 - i)
    BY BranchShape
  <2>2. Height[t] + 1 - i \in 1..Height[t] BY <1>1, <2>1, SMT
  <2>3. Height[t] # 0 BY <1>1, <2>1, SMT
  <2>4. old # Null BY <2>3, HeightDef, TreeAssumption DEF From
  <2>5. t = old BY <2>4 DEF From
  <2>. HIDE DEF t, f
  <2>6. GetAncestor(t, Height[t] + 1 - i) \in Anc[t] \ {Genesis} BY <1>1, <2>2, AncPath
  <2>. QED BY <2>1, <2>4, <2>5, <2>6
<1>3. ASSUME NEW i \in DOMAIN NewBranch(new, old)
      PROVE  NewBranch(new, old)[i] \in Anc[new] \ {Genesis}
  <2>1. i \in 1..(Height[new] - f) /\ NewBranch(new, old)[i] = GetAncestor(new, f + i)
    BY BranchShape
  <2>2. f + i \in 1..Height[new] BY <1>1, <2>1, SMT
  <2>. HIDE DEF t, f
  <2>. QED BY <2>1, <2>2, AncPath, SMT
<1>. QED BY <1>2, <1>3

\* Only a start fails, and it finds what Chains says.
LEMMA FailsNext ==
    ASSUME IInv, [Next]_vars
    PROVE  FailsOnlyIfPruned'
<1>0. TypeOK /\ Stores /\ Chains /\ FailsOnlyIfPruned /\ Stores' /\ Null \notin Blocks
  BY StoresNext, RecoveryAssumption DEF IInv
<1>1. CASE Start
  <2>. DEFINE new == db.heads[1]
              old == db.heads[2]
              ok == IF db.heads # <<>> THEN CanReplay(new, old, index', files')
                    ELSE db.best = Null \/ <<db.best, "TREE">> \in index'
              recent(b) == \A t \in Blocks : <<t, "TREE">> \in index' => Height[b] > Height[t] - Keep
  <2>1. /\ diskIndex \subseteq index' /\ UNCHANGED <<db, diskIndex>>
        /\ pc' = IF ~ok THEN "failed" ELSE IF db.heads # <<>> THEN "replay" ELSE "run"
    BY <1>1 DEF Start, coinsVars
  <2>2. db \in CoinsDB BY <1>0, TipsType
  <2>3. \A t \in Tips(db) : ChainKept(diskIndex, t) BY <1>0 DEF Chains
  <2>4. \A t \in Tips(db) : ChainKept(index', t) BY <2>1, <2>3, KeptGrows
  <2>5. db.heads = <<>> => ok
    <3>1. db.heads = <<>> => db.best \in Tips(db) /\ db.best \in Blocks \cup {Null} BY <2>2 DEF Tips, CoinsDB
    <3>. QED BY <2>4, <3>1, KeptEnds
  <2>6. SUFFICES ASSUME ~ok PROVE FailsOnlyIfPruned' BY <2>1 DEF FailsOnlyIfPruned
  <2>7. /\ db.heads # <<>> /\ new \in Blocks /\ old \in Blocks \cup {Null}
        /\ new \in Tips(db) /\ old \in Tips(db)
    BY <2>2, <2>5, <2>6 DEF CoinsDB, Tips
  <2>. HIDE DEF ok, new, old
  <2>8. \A b \in {new, old} \ {Null} : <<b, "TREE">> \in index' BY <2>4, <2>7, KeptEnds
  <2>9. ASSUME NEW a \in Blocks \ {Genesis}, Kept(index', a),
               ~CanRead(a, "DATA", index', files') \/ ~CanRead(a, "UNDO", index', files')
        PROVE  ~recent(a)
    <3>1. <<a, "DATA">> \notin index' \/ <<a, "UNDO">> \notin index'
      BY <1>0, <2>9 DEF CanRead, Stores
    <3>2. PICK t \in Blocks : <<t, "TREE">> \in index' /\ Height[a] <= Height[t] - Keep
      BY <2>9, <3>1 DEF Kept
    <3>3. Height[a] \in Nat /\ Height[t] \in Nat /\ Keep \in Nat BY HeightDef, RecoveryAssumption
    <3>. QED BY <3>2, <3>3, SMT
  <2>10. /\ \A i \in DOMAIN OldBranch(new, old) : Kept(index', OldBranch(new, old)[i])
                                                 /\ OldBranch(new, old)[i] \in Blocks \ {Genesis}
         /\ \A i \in DOMAIN NewBranch(new, old) : Kept(index', NewBranch(new, old)[i])
                                                 /\ NewBranch(new, old)[i] \in Blocks \ {Genesis}
    <3>1. new # Null /\ \A a \in Anc[new] : Kept(index', a) /\ a \in Blocks
      BY <1>0, <2>4, <2>7, AncHeight DEF ChainKept
    <3>2. old # Null => \A a \in Anc[old] : Kept(index', a) /\ a \in Blocks
      BY <2>4, <2>7, AncHeight DEF ChainKept
    <3>. QED BY <2>7, <3>1, <3>2, OnChains
  <2>. DEFINE gone(bs, what) == {b \in Blocks : /\ \E i \in DOMAIN bs : b = bs[i]
                                                /\ ~CanRead(b, what, index', files')}
  <2>11. \A b \in gone(OldBranch(new, old), "DATA") \cup gone(OldBranch(new, old), "UNDO")
                  \cup gone(NewBranch(new, old), "DATA") : ~recent(b)
    <3>. HIDE DEF recent
    <3>. QED BY <2>9, <2>10
  <2>12. /\ new = db.heads'[1] /\ old = db.heads'[2] /\ db.heads' # <<>> BY <2>1, <2>7 DEF new, old
  <2>. HIDE DEF recent, gone
  <2>13. FailsOnlyIfPruned' =
           (pc' = "failed" =>
              /\ db.heads' # <<>>
              /\ \A b \in {db.heads'[1], db.heads'[2]} \ {Null} : <<b, "TREE">> \in index'
              /\ \A b \in gone(OldBranch(db.heads'[1], db.heads'[2]), "DATA")
                          \cup gone(OldBranch(db.heads'[1], db.heads'[2]), "UNDO")
                          \cup gone(NewBranch(db.heads'[1], db.heads'[2]), "DATA") : ~recent(b))
    BY DEF FailsOnlyIfPruned, recent, gone, CanRead
  <2>. QED BY <2>8, <2>11, <2>12, <2>13
<1>2. CASE pc' # "failed" BY <1>2 DEF FailsOnlyIfPruned
<1>3. CASE UNCHANGED vars
  BY <1>0, <1>3 DEF vars, coinsVars, storeVars, FailsOnlyIfPruned, CanRead
<1>4. Start \/ pc' # "failed" \/ UNCHANGED vars
  <2>. SUFFICES ASSUME Next, ~Start PROVE pc' # "failed" BY DEF Next
  <2>1. CASE Reindex BY <2>1 DEF Reindex
  <2>2. ASSUME NEW b \in Blocks, AcceptBlock(b) PROVE pc' # "failed" BY <2>2 DEF AcceptBlock, Ready
  <2>3. ASSUME NEW b \in Blocks, ConnectTip(b) PROVE pc' # "failed" BY <2>3 DEF ConnectTip, Ready
  <2>4. CASE DisconnectTip BY <2>4 DEF DisconnectTip, Ready
  <2>5. CASE SetTip BY <2>5 DEF SetTip
  <2>6. ASSUME NEW last \in PruneHeights, NEW isFull \in BOOLEAN, FlushStateToDisk(last, isFull)
        PROVE  pc' # "failed"
    BY <2>6 DEF FlushStateToDisk
  <2>7. CASE FlushBlockFile BY <2>7 DEF FlushBlockFile
  <2>8. CASE WriteBlockIndexDB BY <2>8 DEF WriteBlockIndexDB
  <2>9. CASE UnlinkPrunedFiles BY <2>9 DEF UnlinkPrunedFiles
  <2>10. ASSUME NEW done \in SUBSET batch, WritePartialBatch(done) PROVE pc' # "failed"
    BY <2>10 DEF WritePartialBatch
  <2>11. CASE WriteFinalBatch BY <2>11 DEF WriteFinalBatch
  <2>12. CASE Freeze BY <2>12 DEF Freeze
  <2>13. ASSUME NEW power \in BOOLEAN, Crash(power) PROVE pc' # "failed" BY <2>13 DEF Crash
  <2>. QED BY <2>1, <2>2, <2>3, <2>4, <2>5, <2>6, <2>7, <2>8, <2>9, <2>10, <2>11, <2>12, <2>13, ZenonT(30) DEF Next
<1>. QED BY <1>1, <1>2, <1>3, <1>4

-----------------------------------------------------------------------------
LEMMA InvInit == Init => IInv
<1>. SUFFICES ASSUME Init PROVE IInv OBVIOUS
<1>1. EmptyDB \in CoinsDB /\ EmptyDB.heads = <<>> /\ EmptyDB.best = Null /\ NamesItsState(EmptyDB)
  BY EmptyDBNames DEF EmptyDB
<1>2. db = EmptyDB /\ disk = EmptyDB BY DEF Init
<1>3. TypeOK
  <2>1. {db, disk} \subseteq CoinsDB BY <1>1, <1>2
  <2>2. cache \in [Outpoints -> ValidEntry \cup {NoEntry}] BY DEF Init, EmptyCache
  <2>. HIDE DEF EmptyDB
  <2>. QED BY <2>1, <2>2 DEF Init, TypeOK, CoinsDB, CoinMap
<1>4. Undos /\ Stores BY DEF Init, Undos, Stores
<1>5. Cached /\ FailsOnlyIfPruned BY DEF Init, Cached, Running, Writing, FailsOnlyIfPruned
<1>6. Chains
  <2>1. Tips(db) = {Null} /\ Tips(disk) = {Null} BY <1>1, <1>2 DEF Tips
  <2>2. ~Running /\ ~Writing BY DEF Init, Running, Writing
  <2>. QED BY <2>1, <2>2 DEF Chains, ChainKept
<1>. QED BY <1>1, <1>2, <1>3, <1>4, <1>5, <1>6 DEF IInv

\* The invariant holds of every behaviour of the node.
THEOREM RecoveryInvariant == Spec => []IInv
<1>1. IInv /\ [Next]_vars => IInv'
  <2>. SUFFICES ASSUME IInv, [Next]_vars PROVE IInv' OBVIOUS
  <2>1. CoinsInv /\ Stores /\ TypeOK BY DEF IInv, CoinsInv
  <2>2. CoinsInv' /\ Stores' BY <2>1, CoinsNext, StoresNext
  <2>3. Chains' /\ FailsOnlyIfPruned' BY ChainsNext, FailsNext
  <2>. QED BY <2>2, <2>3 DEF IInv, CoinsInv
<1>. QED BY <1>1, InvInit, PTL DEF Spec

\* What a crash leaves is consistent, whenever it comes: FlushStateToDisk writes
\* files, index and coins in an order that lets each refer only to what is safe.
THEOREM RecoveryDiskConsistent == Spec => []DiskConsistent
<1>1. IInv => DiskConsistent BY DEF IInv, Stores, DiskConsistent
<1>. QED BY <1>1, RecoveryInvariant, PTL

\* The coins a running node reads are those of its best block, after any number of
\* crashes, of partial flushes and of interrupted runs of ReplayBlocks.
THEOREM RecoveryCoinsExact == Spec => []CoinsExact
<1>1. IInv => CoinsExact
  BY DEF IInv, Cached, Running, CoinsExact, ViewShows, Shows, Seen
<1>. QED BY <1>1, RecoveryInvariant, PTL

\* ReplayBlocks finds every block it needs, except those that pruning may have taken.
THEOREM RecoveryFailsOnlyIfPruned == Spec => []FailsOnlyIfPruned
<1>1. IInv => FailsOnlyIfPruned BY DEF IInv
<1>. QED BY <1>1, RecoveryInvariant, PTL

\* DisconnectBlock never finds the undo data of the tip in conflict with the coins.
THEOREM RecoveryDisconnectsCleanly == Spec => []DisconnectsCleanly
<1>1. IInv => DisconnectsCleanly
  <2>. SUFFICES ASSUME IInv, Ready, chain \notin {Null, Genesis}, CanRead(chain, "UNDO", index, files)
                PROVE  DisconnectBlock(EmptyCache, [o \in Outpoints |-> Seen(cache, db.coins, o)], chain).clean
    BY DEF DisconnectsCleanly
  <2>. DEFINE base == [o \in Outpoints |-> Seen(cache, db.coins, o)]
  <2>1. TypeOK /\ Cached /\ Running /\ Undos /\ chain = cacheBest BY DEF IInv, Ready, Running
  <2>2. base = Utxo[chain] /\ base \in CoinMap /\ chain \in Blocks \ {Genesis}
    BY <2>1, BaseExact
  <2>3. rev[chain] = RightUndo(chain) BY <2>1, <2>2 DEF Undos, CanRead
  <2>. HIDE DEF base
  <2>4. ViewShows(EmptyCache, base, base) BY <2>2, EmptyShows
  <2>5. DisconnectBlock(EmptyCache, base, chain).clean
    BY <2>2, <2>3, <2>4, DisconnectShows
  <2>. QED BY <2>5 DEF base
<1>. QED BY <1>1, RecoveryInvariant, PTL
=============================================================================
