------------------------------ MODULE Mempool ------------------------------
(***************************************************************************)
(* CTxMemPool (txmempool.cpp): the unconfirmed transactions, the links      *)
(* between them and the totals over ancestors and descendants that every    *)
(* entry caches; acceptance and replacement (MemPoolAccept), and what       *)
(* connecting and disconnecting blocks does to the pool, up to              *)
(* MaybeUpdateMempoolForReorg (validation.cpp).                             *)
(*                                                                          *)
(* Every action is one section under cs_main and the pool's lock.  In the   *)
(* middle of a reorganisation the links are knowingly incomplete; the       *)
(* operators below follow the code through those states, and the action     *)
(* shows what is left when the locks are released.                          *)
(*                                                                          *)
(* Abstracted: every transaction has the same size, so sizes are counts;    *)
(* which blocks are connected is decided elsewhere (Chainstate), here it is *)
(* any valid extension; the clock, so any entries may be the expired ones;  *)
(* the fee floor, which only keeps transactions from being tried.           *)
(***************************************************************************)
EXTENDS Integers, SequencesExt

CONSTANTS
    Txs,            \* the transactions that may be loose
    Base,           \* a transaction below every block, with spendable outputs
    vin,            \* [Txs -> sets of outpoints], an outpoint is <<tx, n>>
    nFee,           \* [Txs -> Nat], the base fee
    nLockTime,      \* [Txs -> Nat], the last height it may not be mined at
    SignalsRBF,     \* the transactions that may be replaced
    Policies,       \* the sets of transactions that a block may have and the pool not
    Coinbases,      \* [1..MaxHeight -> sets of coinbase transactions]
    Deltas,         \* the pairs <<tx, delta>> prioritisetransaction is called with
    AncestorLimit, DescendantLimit, \* m_limits
    MaxPool,        \* m_max_size_bytes, in transactions
    MaxDisconnected,\* MAX_DISCONNECTED_TX_POOL_BYTES, in transactions
    MaxReplacements,\* MAX_REPLACEMENT_CANDIDATES
    Maturity,       \* COINBASE_MATURITY
    MaxHeight, MaxBlockTxs, MaxConnect, \* bounds: chain, block, blocks per step
    None

VARIABLES
    policy, \* the transactions that standardness or script checks refuse
    chain,  \* the active chain: a sequence of blocks, sequences of transactions
    pool    \* mapTx, mapNextTx, mapDeltas and "no assertion has failed"

vars == <<policy, chain, pool>>

NoEntry == [parents |-> None]

Outpoints == UNION {vin[t] : t \in Txs}

In(p) == {t \in Txs : p.mapTx[t] # NoEntry}

EmptyPool ==
    [mapTx     |-> [t \in Txs |-> NoEntry],
     mapNextTx |-> [o \in Outpoints |-> None],
     mapDeltas |-> [t \in Txs |-> 0],
     ok        |-> TRUE]

-----------------------------------------------------------------------------
(* Links and totals.                                                        *)

\* All entries reached from those in S over the cached links of one side.
RECURSIVE Reach(_, _, _)
Reach(p, S, side) ==
    LET R == S \cup UNION {p.mapTx[t][side] : t \in S}
    IN  IF R = S THEN S ELSE Reach(p, R, side)

CalculateDescendants(p, S) == Reach(p, S, "children")

CachedAncestors(p, t) == Reach(p, p.mapTx[t].parents, "parents")

\* fSearchForParents: the parents are looked up by the inputs.
ParentsOf(p, t) == {o[1] : o \in vin[t]} \cap In(p)

CalculateMemPoolAncestors(p, t) == Reach(p, ParentsOf(p, t), "parents")

WithinLimits(p, ancestors, ancestorCount, descendantCount) ==
    /\ Cardinality(ancestors) + 1 <= ancestorCount
    /\ \A a \in ancestors : p.mapTx[a].desc.count + 1 <= descendantCount

FeesOf(p, S) == MapThenSumSet(LAMBDA t : p.mapTx[t].fee, S)

\* UpdateAncestorState or UpdateDescendantState of every entry in S, with the
\* assertion that a count stays positive.
UpdateState(p, S, side, count, fees) ==
    LET map == [t \in Txs |->
                  IF t \notin S THEN p.mapTx[t]
                  ELSE [p.mapTx[t] EXCEPT ![side] = [count |-> @.count + count, fees |-> @.fees + fees]]]
    IN  [p EXCEPT !.mapTx = map, !.ok = @ /\ \A t \in S : map[t][side].count > 0]

addUnchecked(p, t, ancestors) ==
    LET fee == nFee[t] + p.mapDeltas[t]
        parents == ParentsOf(p, t)
        entry == [parents |-> parents, children |-> {}, fee |-> fee,
                  anc  |-> [count |-> 1 + Cardinality(ancestors), fees |-> fee + FeesOf(p, ancestors)],
                  desc |-> [count |-> 1, fees |-> fee]]
        map == [u \in Txs |-> IF u = t THEN entry
                              ELSE IF u \in parents THEN [p.mapTx[u] EXCEPT !.children = @ \cup {t}]
                              ELSE p.mapTx[u]]
        next == [o \in Outpoints |-> IF o \in vin[t] /\ p.mapNextTx[o] = None THEN t ELSE p.mapNextTx[o]]
    IN  UpdateState([p EXCEPT !.mapTx = map, !.mapNextTx = next], ancestors, "desc", 1, fee)

\* UpdateForRemoveFromMempool, its three passes over the entries to remove.
DebitDescendants(p, S) ==
    FoldSet(LAMBDA r, q : UpdateState(q, CalculateDescendants(q, {r}) \ {r}, "anc", -1, -q.mapTx[r].fee), p, S)

\* A variant that searches for the ancestors by input instead of following the
\* cached links, which differ in the middle of a reorganisation.
DebitSearchedAncestors(p, S) ==
    LET unlink(q, r) == [q EXCEPT !.mapTx = [t \in Txs |->
                            IF t \in q.mapTx[r].parents THEN [q.mapTx[t] EXCEPT !.children = @ \ {r}]
                            ELSE q.mapTx[t]]]
    IN  FoldSet(LAMBDA r, q : UpdateState(unlink(q, r), CalculateMemPoolAncestors(q, r), "desc", -1, -q.mapTx[r].fee), p, S)

UpdateAncestorsOfRemoved(p, S) ==
    LET unlink(q, r) == [q EXCEPT !.mapTx = [t \in Txs |->
                            IF t \in q.mapTx[r].parents THEN [q.mapTx[t] EXCEPT !.children = @ \ {r}]
                            ELSE q.mapTx[t]]]
    IN  FoldSet(LAMBDA r, q : UpdateState(unlink(q, r), CachedAncestors(q, r), "desc", -1, -q.mapTx[r].fee), p, S)

UpdateChildrenForRemoval(p, S) ==
    [p EXCEPT !.mapTx = [t \in Txs |->
        LET cut == {r \in S : t \in p.mapTx[r].children}
        IN  IF cut = {} THEN p.mapTx[t] ELSE [p.mapTx[t] EXCEPT !.parents = @ \ cut]]]

removeUnchecked(p, S) ==
    [p EXCEPT !.mapTx = [t \in Txs |-> IF t \in S THEN NoEntry ELSE p.mapTx[t]],
              !.mapNextTx = [o \in Outpoints |-> IF \E t \in S : o \in vin[t] THEN None ELSE p.mapNextTx[o]]]

RemoveStaged(p, S, updateDescendants) ==
    LET debited == IF updateDescendants THEN DebitDescendants(p, S) ELSE p
    IN  removeUnchecked(UpdateChildrenForRemoval(UpdateAncestorsOfRemoved(debited, S), S), S)

\* A variant that looks for nothing but the transaction itself.
RemoveOnlyIfPresent(p, t) ==
    IF t \in In(p) THEN RemoveStaged(p, CalculateDescendants(p, {t}), FALSE) ELSE p

\* A transaction that is not in the pool itself is found by who spends it.
removeRecursive(p, t) ==
    LET spenders == {p.mapNextTx[o] : o \in {u \in Outpoints : u[1] = t}} \ {None}
        roots == IF t \in In(p) THEN {t} ELSE spenders
    IN  IF roots \subseteq In(p) THEN RemoveStaged(p, CalculateDescendants(p, roots), FALSE)
        ELSE [p EXCEPT !.ok = FALSE]

ClearPrioritisation(p, t) == IF t \in Txs THEN [p EXCEPT !.mapDeltas[t] = 0] ELSE p

-----------------------------------------------------------------------------
(* The chain as the pool sees it.                                           *)

AllCoinbases == UNION {Coinbases[h] : h \in DOMAIN Coinbases}

Inputs(t) == IF t \in Txs THEN vin[t] ELSE {}

Confirmed(c) == UNION {ToSet(c[h]) : h \in DOMAIN c}

HaveCoin(c, o) == /\ o[1] \in Confirmed(c) \cup {Base}
                  /\ \A t \in Confirmed(c) : o \notin Inputs(t)

\* Mature for the block that follows the tip.
MatureCoin(c, o) ==
    \A h \in DOMAIN c : o[1] = c[h][1] => Len(c) + 1 - h >= Maturity

CheckFinalTxAtTip(c, t) == nLockTime[t] < Len(c) + 1

removeConflicts(p, t) ==
    FoldSet(LAMBDA o, q : LET other == q.mapNextTx[o]
                          IN  IF other \in {None, t} THEN q
                              ELSE removeRecursive(ClearPrioritisation(q, other), other),
            p, Inputs(t))

removeForBlock(p, block) ==
    LET confirm(q, t) ==
            LET gone == IF t \in In(q) THEN RemoveStaged(q, {t}, TRUE) ELSE q
            IN  ClearPrioritisation(removeConflicts(gone, t), t)
    IN  FoldLeft(confirm, p, block)

\* The blocks that may follow a chain: a coinbase and spends of available,
\* mature coins (ConnectBlock's checks).
RECURSIVE Bodies(_, _, _)
Bodies(c, block, n) ==
    LET d == Append(c, block)
        next == {t \in Txs \ Confirmed(d) : /\ CheckFinalTxAtTip(c, t)
                                            /\ \A o \in vin[t] : /\ HaveCoin(d, o) /\ MatureCoin(c, o)
                                                                  /\ o[1] # block[1]}
    IN  {block} \cup (IF n = 0 THEN {} ELSE UNION {Bodies(c, Append(block, t), n - 1) : t \in next})

ValidBlocks(c) ==
    IF Len(c) = MaxHeight THEN {}
    ELSE UNION {Bodies(c, <<b>>, MaxBlockTxs) : b \in Coinbases[Len(c) + 1]}

RECURSIVE Extensions(_, _)
Extensions(c, n) ==
    {<<>>} \cup (IF n = 0 THEN {}
                 ELSE UNION {{<<b>> \o rest : rest \in Extensions(Append(c, b), n - 1)} : b \in ValidBlocks(c)})

-----------------------------------------------------------------------------
(* MemPoolAccept.                                                           *)

ConflictsOf(p, t) == {p.mapNextTx[o] : o \in vin[t]} \ {None}

\* The limits allow for one conflict, and once more for the carve-out.
AncestorsAllowed(p, t) ==
    LET ancestors == CalculateMemPoolAncestors(p, t)
        descendants == DescendantLimit + (IF Cardinality(ConflictsOf(p, t)) = 1 THEN 1 ELSE 0)
    IN  \/ WithinLimits(p, ancestors, AncestorLimit, descendants)
        \/ WithinLimits(p, ancestors, 2, descendants + 1)

\* With IsStandardTx and the like, and what PolicyScriptChecks and
\* ConsensusScriptChecks refuse.
PreChecks(p, c, t) ==
    /\ t \notin policy
    /\ CheckFinalTxAtTip(c, t)
    /\ t \notin In(p)
    /\ ConflictsOf(p, t) \subseteq SignalsRBF
    /\ \A o \in vin[t] : \/ o[1] \in In(p)
                         \/ HaveCoin(c, o) /\ MatureCoin(c, o)
    /\ AncestorsAllowed(p, t)
    /\ CalculateMemPoolAncestors(p, t) \cap ConflictsOf(p, t) = {}

ReplacementChecks(p, t) ==
    LET conflicts == ConflictsOf(p, t)
        fee == nFee[t] + p.mapDeltas[t]
    IN  /\ \A u \in conflicts : fee > p.mapTx[u].fee
        /\ MapThenSumSet(LAMBDA u : p.mapTx[u].desc.count, conflicts) <= MaxReplacements
        /\ ParentsOf(p, t) \subseteq UNION {{o[1] : o \in vin[u]} : u \in conflicts}
        /\ fee > FeesOf(p, CalculateDescendants(p, conflicts))

Accepts(p, c, t) ==
    /\ PreChecks(p, c, t)
    /\ ConflictsOf(p, t) # {} => ReplacementChecks(p, t)

\* The ancestors were computed before the conflicts are removed.
Finalize(p, t) ==
    addUnchecked(RemoveStaged(p, CalculateDescendants(p, ConflictsOf(p, t)), FALSE),
                 t, CalculateMemPoolAncestors(p, t))

\* CompareTxMemPoolEntryByDescendantScore, without its tie-break on time.
DescendantScore(e) ==
    IF e.desc.fees > e.fee * e.desc.count THEN e.desc ELSE [count |-> 1, fees |-> e.fee]

Lowest(p) ==
    {t \in In(p) : \A u \in In(p) :
        LET a == DescendantScore(p.mapTx[t])
            b == DescendantScore(p.mapTx[u])
        IN  a.fees * b.count <= b.fees * a.count}

RECURSIVE TrimToSize(_)
TrimToSize(p) ==
    IF Cardinality(In(p)) <= MaxPool THEN {p}
    ELSE UNION {TrimToSize(RemoveStaged(p, CalculateDescendants(p, {t}), FALSE)) : t \in Lowest(p)}

Expire(p, S) == RemoveStaged(p, CalculateDescendants(p, S), FALSE)

\* Every pool that LimitMempoolSize may leave.
LimitMempoolSize(p) == UNION {TrimToSize(Expire(p, S)) : S \in SUBSET In(p)}

-----------------------------------------------------------------------------
(* Reorganisations.                                                         *)

\* The descendants of t, walked over the links.  Below an entry met as a child
\* that was handled before, its cached descendants stand for the walk.
RECURSIVE Walk(_, _, _, _)
Walk(p, cache, stage, found) ==
    IF stage = {} THEN found
    ELSE LET d == CHOOSE x \in stage : TRUE
             children == p.mapTx[d].children
             known == {x \in children : cache[x] # {}}
             seen == found \cup {d} \cup UNION {cache[x] : x \in known}
         IN  Walk(p, cache, (stage \ {d}) \cup ((children \ known) \ seen), seen)

\* A variant that never marks a descendant for removal.
UpdateWithoutLimit(r, t, exclude) ==
    LET mine == Walk(r.pool, r.cache, r.pool.mapTx[t].children, {}) \ exclude
        below == UpdateState(r.pool, mine, "anc", 1, r.pool.mapTx[t].fee)
    IN  [r EXCEPT !.pool = UpdateState(below, {t}, "desc", Cardinality(mine), FeesOf(below, mine)),
                  !.cache[t] = mine]

\* r collects the pool, the descendants cached so far, and who must go.
UpdateForDescendants(r, t, exclude) ==
    LET mine == Walk(r.pool, r.cache, r.pool.mapTx[t].children, {}) \ exclude
        below == UpdateState(r.pool, mine, "anc", 1, r.pool.mapTx[t].fee)
    IN  [pool   |-> UpdateState(below, {t}, "desc", Cardinality(mine), FeesOf(below, mine)),
         cache  |-> [r.cache EXCEPT ![t] = mine],
         remove |-> r.remove \cup {d \in mine : below.mapTx[d].anc.count > AncestorLimit}]

\* Link t to the children that were in the pool before it.
LinkChildren(p, t, exclude) ==
    LET children == {p.mapNextTx[o] : o \in {u \in Outpoints : u[1] = t}} \ (exclude \cup {None})
    IN  [p EXCEPT !.mapTx = [u \in Txs |->
            IF u = t THEN [p.mapTx[u] EXCEPT !.children = @ \cup children]
            ELSE IF u \in children THEN [p.mapTx[u] EXCEPT !.parents = @ \cup {t}]
            ELSE p.mapTx[u]]]

UpdateTransactionsFromBlock(p, hashes) ==
    LET included == ToSet(hashes)
        update(r, t) == IF t \notin In(r.pool) THEN r
                        ELSE UpdateForDescendants([r EXCEPT !.pool = LinkChildren(@, t, included)], t, included)
        done == FoldLeft(update, [pool |-> p, cache |-> [t \in Txs |-> {}], remove |-> {}], Reverse(hashes))
    IN  FoldSet(LAMBDA t, q : IF t \in In(q) THEN removeRecursive(q, t) ELSE q, done.pool, done.remove)

\* filter_final_and_mature; a coin that is neither in the pool nor unspent
\* fails its assertion.
NotFinalOrImmature(p, c, t) ==
    \/ ~CheckFinalTxAtTip(c, t)
    \/ \E o \in vin[t] : o[1] \in AllCoinbases /\ ~MatureCoin(c, o)

removeForReorg(p, c) ==
    LET gone == {t \in In(p) : NotFinalOrImmature(p, c, t)}
        found == \A t \in In(p) : \A o \in vin[t] :
                    CheckFinalTxAtTip(c, t) /\ vin[t] \cap (AllCoinbases \X Nat) # {}
                        => o[1] \in In(p) \/ HaveCoin(c, o)
    IN  RemoveStaged([p EXCEPT !.ok = @ /\ found], CalculateDescendants(p, gone), FALSE)

MaybeUpdateMempoolForReorg(p, c, queuedTx, fAddToMempool) ==
    LET readd(r, t) ==
            IF fAddToMempool /\ t \notin AllCoinbases /\ Accepts(r.pool, c, t)
            THEN [pool |-> Finalize(r.pool, t), hashes |-> Append(r.hashes, t)]
            ELSE [r EXCEPT !.pool = removeRecursive(@, t)]
        readded == FoldLeft(readd, [pool |-> p, hashes |-> <<>>], Reverse(queuedTx))
    IN  LimitMempoolSize(removeForReorg(UpdateTransactionsFromBlock(readded.pool, readded.hashes), c))

\* DisconnectTip on r = [chain, pool, queuedTx]: the block joins the queue,
\* which drops from its front what is over the limit.
DisconnectTip(r) ==
    LET queue == r.queuedTx \o Reverse(Last(r.chain))
        over == IF Len(queue) > MaxDisconnected THEN Len(queue) - MaxDisconnected ELSE 0
    IN  [chain    |-> Front(r.chain),
         pool     |-> FoldLeft(removeRecursive, r.pool, SubSeq(queue, 1, over)),
         queuedTx |-> SubSeq(queue, over + 1, Len(queue))]

ConnectTip(r, block) ==
    [chain    |-> Append(r.chain, block),
     pool     |-> removeForBlock(r.pool, block),
     queuedTx |-> SelectSeq(r.queuedTx, LAMBDA t : ~Contains(block, t))]

RECURSIVE DisconnectTips(_, _)
DisconnectTips(r, n) == IF n = 0 THEN r ELSE DisconnectTips(DisconnectTip(r), n - 1)

Here == [chain |-> chain, pool |-> pool, queuedTx |-> <<>>]

-----------------------------------------------------------------------------
Init == policy \in Policies /\ chain = <<>> /\ pool = EmptyPool

AcceptToMemoryPool(t) ==
    /\ Accepts(pool, chain, t)
    /\ pool' \in LimitMempoolSize(Finalize(pool, t))
    /\ UNCHANGED <<policy, chain>>

\* The guard on mapDeltas bounds the calls: once, until a block clears it.
PrioritiseTransaction(t, delta) ==
    LET p == [pool EXCEPT !.mapDeltas[t] = @ + delta]
        own == [p EXCEPT !.mapTx[t] = [@ EXCEPT !.fee = @ + delta, !.anc.fees = @ + delta,
                                                !.desc.fees = @ + delta]]
        above == UpdateState(own, CachedAncestors(own, t), "desc", 0, delta)
    IN  /\ pool.mapDeltas[t] = 0
        /\ pool' = IF t \notin In(pool) THEN p
                   ELSE UpdateState(above, CalculateDescendants(above, {t}) \ {t}, "anc", 0, delta)
        /\ UNCHANGED <<policy, chain>>

\* Leave n blocks for those of an extension of the fork.  A block that fails on
\* the way ends the step with fewer, a system error without adding anything.
ActivateBestChainStep(n, fError) ==
    LET off == DisconnectTips(Here, n)
    IN  \E blocks \in Extensions(off.chain, MaxConnect) :
            LET on == FoldLeft(ConnectTip, off, blocks)
            IN  /\ chain' = on.chain
                /\ IF n > 0 \/ fError
                   THEN pool' \in MaybeUpdateMempoolForReorg(on.pool, on.chain, on.queuedTx, ~fError)
                   ELSE pool' = on.pool
                /\ UNCHANGED policy

\* One round of the loop of InvalidateBlock; only the first ten add back.
InvalidateBlock(fAddToMempool) ==
    /\ chain # <<>>
    /\ LET off == DisconnectTip(Here)
       IN  /\ chain' = off.chain
           /\ pool' \in MaybeUpdateMempoolForReorg(off.pool, off.chain, off.queuedTx, fAddToMempool)
           /\ UNCHANGED policy

Next ==
    \/ \E t \in Txs : AcceptToMemoryPool(t)
    \/ \E d \in Deltas : PrioritiseTransaction(d[1], d[2])
    \/ \E n \in 0..Len(chain), fError \in BOOLEAN : ActivateBestChainStep(n, fError)
    \/ \E fAddToMempool \in BOOLEAN : InvalidateBlock(fAddToMempool)

Spec == Init /\ [][Next]_vars

-----------------------------------------------------------------------------
(* Properties, of every state in which the locks are free.                  *)

\* What CTxMemPool::check() asserts, and the same for descendants: mapNextTx,
\* the links and the cached totals of every entry are the ones its
\* transactions define, prioritisation included, and no assertion failed on
\* the way, whatever blocks came and went.
EntriesExact ==
    /\ pool.ok
    /\ \A o \in Outpoints : {pool.mapNextTx[o]} \ {None} = {t \in In(pool) : o \in vin[t]}
    /\ \A t \in In(pool) :
        LET e == pool.mapTx[t]
            above == CachedAncestors(pool, t)
            below == CalculateDescendants(pool, {t})
        IN  /\ e.parents = ParentsOf(pool, t)
            /\ e.children = {u \in In(pool) : t \in ParentsOf(pool, u)}
            /\ e.fee = nFee[t] + pool.mapDeltas[t]
            /\ e.anc = [count |-> Cardinality(above) + 1, fees |-> FeesOf(pool, above \cup {t})]
            /\ e.desc = [count |-> Cardinality(below), fees |-> FeesOf(pool, below)]

\* The whole pool could be mined on the tip: no transaction in it is confirmed,
\* none waits for a height, and every input is an output of the pool or a mature
\* unspent coin.
PoolMineable ==
    \A t \in In(pool) :
        /\ t \notin Confirmed(chain)
        /\ CheckFinalTxAtTip(chain, t)
        /\ \A o \in vin[t] : o[1] \in In(pool) \/ (HaveCoin(chain, o) /\ MatureCoin(chain, o))

\* No reorganisation leaves a transaction with more unconfirmed ancestors than
\* m_limits.ancestor_count allows, although the ones added back are put under
\* descendants that were admitted without them; nor a pool over its size.
LimitsKept ==
    /\ Cardinality(In(pool)) <= MaxPool
    /\ \A t \in In(pool) : pool.mapTx[t].anc.count <= AncestorLimit
=============================================================================
