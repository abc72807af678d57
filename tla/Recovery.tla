------------------------------- MODULE Recovery -------------------------------
(***************************************************************************)
(* What survives a crash: the block and undo files, the block index        *)
(* database and the coins database, in the order in which                  *)
(* Chainstate::FlushStateToDisk writes them, CCoinsViewDB::BatchWrite with *)
(* its partial batches, and Chainstate::ReplayBlocks at the next start.    *)
(*                                                                         *)
(* A coin is the height of the block that created it: the same transaction *)
(* confirmed on two branches makes two different coins.  cs_main is held   *)
(* throughout a flush and throughout the start, so between two steps of    *)
(* either only a crash can come.                                           *)
(***************************************************************************)
EXTENDS BlockTree, CoinEntry, Sequences

CONSTANTS
    Outpoints,   \* COutPoint
    Null,        \* the null hash
    Vtx,         \* the transactions of every block, the coinbase first
    Keep,        \* MIN_BLOCKS_TO_KEEP
    PruneHeights,\* heights up to which a flush may be asked to prune
    MaxWaiting,  \* bound on the blocks that are stored and have never been connected
    MaxFlushes,  \* bound on the number of calls of FlushStateToDisk that write
    MaxCrashes   \* bound on the number of crashes

VARIABLES
    db,          \* the coins database as the process reads it
    disk,        \* the coins database a power loss would leave
    frozen,      \* whether later batches are still missing from disk
    cache,       \* cacheCoins of CoinsTip(), or of the cache of ReplayBlocks
    cacheBest,   \* its best block
    chain,       \* m_chain.Tip()
    index,       \* what m_block_index says of each block
    diskIndex,   \* the same in the block index database
    files,       \* what has been written to the block and undo files
    diskFiles,   \* the part of it that is safe from a power loss
    rev,         \* the contents of the undo files
    pc,          \* where the node is
    full,        \* fDoFullFlush
    pruned,      \* setFilesToPrune, as the blocks in those files
    batch,       \* the DIRTY outpoints that BatchWrite has not written yet
    flushes,     \* flushes so far
    crashes      \* crashes so far

coinsVars == <<db, disk, frozen>>
cacheVars == <<cache, cacheBest>>
storeVars == <<index, diskIndex, files, diskFiles, rev>>
flushVars == <<full, pruned, batch>>
bounds == <<flushes, crashes>>
vars == <<coinsVars, cacheVars, chain, storeVars, pc, flushVars, bounds>>

\* An index entry, BLOCK_HAVE_DATA and BLOCK_HAVE_UNDO.
Facts == Blocks \X {"TREE", "DATA", "UNDO"}

\* The outpoints that the transactions of a block spend, and those they create.
Spends(b) == UNION {Vtx[b][i].vin : i \in DOMAIN Vtx[b]}
Creates(b) == UNION {Vtx[b][i].vout : i \in DOMAIN Vtx[b]}

\* The coins after b, by the transactions of its chain alone: the last block that
\* has to do with an outpoint says what is there.
Utxo == [b \in Blocks \cup {Null} |-> [o \in Outpoints |->
    LET touching == IF b = Null THEN {}
                    ELSE {a \in Anc[b] \ {Genesis} : o \in Spends(a) \cup Creates(a)}
        last == CHOOSE a \in touching : \A c \in touching : Height[c] <= Height[a]
    IN  IF touching = {} \/ o \in Spends(last) THEN Spent ELSE Height[last]]]

\* The blocks are valid: no output is spent twice or before it is created, inputs
\* exist, and no output exists already (BIP30).
ASSUME RecoveryAssumption ==
    /\ Null \notin Blocks /\ Keep \in Nat /\ PruneHeights \subseteq Int
    /\ Coins = {Height[b] : b \in Blocks \ {Genesis}} /\ Spent = 0
    /\ \A b \in Blocks \ {Genesis} :
          /\ Vtx[b] \in Seq([vin : SUBSET Outpoints, vout : SUBSET Outpoints])
          /\ \A i, j \in DOMAIN Vtx[b] :
                /\ Vtx[b][i].vin \cap Vtx[b][j].vin # {} => i = j
                /\ Vtx[b][i].vout \cap Vtx[b][j].vout # {} => i = j
                /\ Vtx[b][i].vout \cap Vtx[b][j].vin # {} => i < j
          /\ \A o \in Creates(b) : Utxo[Prev[b]][o] = Spent
          /\ \A o \in Spends(b) \ Creates(b) : Utxo[Prev[b]][o] # Spent

EmptyCache == [o \in Outpoints |-> NoEntry]
EmptyDB == [coins |-> [o \in Outpoints |-> Spent], best |-> Null, heads |-> <<>>]

Init == /\ db = EmptyDB /\ disk = EmptyDB /\ frozen = FALSE
        /\ cache = EmptyCache /\ cacheBest = Null /\ chain = Null
        /\ index = {} /\ diskIndex = {} /\ files = {} /\ diskFiles = {}
        /\ rev = [b \in Blocks |-> <<>>]
        /\ pc = "down" /\ full = FALSE /\ pruned = {} /\ batch = {}
        /\ flushes = 0 /\ crashes = 0

\* ReadBlockFromDisk and UndoReadFromDisk succeed.
CanRead(b, what, idx, fs) == <<b, what>> \in idx /\ <<b, what>> \in fs

-----------------------------------------------------------------------------
\* The coin that a cache over the coins of base shows at o.
Seen(view, base, o) == GetCoin(view[o], base[o])

\* UpdateCoins: AddCoins takes only a coinbase for a possible overwrite.
UpdateCoins(view, base, b, i) ==
    [o \in Outpoints |->
        IF o \in Vtx[b][i].vin THEN SpendCoin(view[o], base[o])
        ELSE IF o \in Vtx[b][i].vout THEN AddCoin(view[o], Height[b], i = 1)
        ELSE view[o]]

\* The view before each transaction of ConnectBlock and after the last.
ConnectViews(base, b) ==
    LET view[i \in 0..Len(Vtx[b])] ==
            IF i = 0 THEN EmptyCache ELSE UpdateCoins(view[i - 1], base, b, i)
    IN  view

ConnectCoins(base, b) == ConnectViews(base, b)[Len(Vtx[b])]

\* Variant: the undo data takes every coin for one of the parent's.
UndoParentHeight(base, b) ==
    [o \in Spends(b) |-> Height[Prev[b]]]

\* The coins that ConnectBlock moves into the CBlockUndo: for each spent
\* outpoint, what the view showed before its transaction.
Undo(base, b) ==
    [o \in Spends(b) |->
        LET i == CHOOSE j \in DOMAIN Vtx[b] : o \in Vtx[b][j].vin
        IN  Seen(ConnectViews(base, b)[i - 1], base, o)]

\* One transaction of DisconnectBlock, with ApplyTxInUndo for its inputs.
DisconnectTx(res, base, b, i) ==
    LET seen(o) == Seen(res.view, base, o)
        tx == Vtx[b][i]
    IN  [view  |-> [o \in Outpoints |->
                      IF o \in tx.vout THEN SpendCoin(res.view[o], base[o])
                      ELSE IF o \in tx.vin
                      THEN AddCoin(res.view[o], rev[b][o], seen(o) # Spent)
                      ELSE res.view[o]],
         clean |-> /\ res.clean
                   /\ \A o \in tx.vout : seen(o) = Height[b]
                   /\ \A o \in tx.vin : seen(o) = Spent]

\* The view after DisconnectBlock, and whether it returns DISCONNECT_OK rather
\* than DISCONNECT_UNCLEAN.
DisconnectBlock(view, base, b) ==
    LET n == Len(Vtx[b])
        res[i \in 0..n] == IF i = 0 THEN [view |-> view, clean |-> TRUE]
                           ELSE DisconnectTx(res[i - 1], base, b, n + 1 - i)
    IN  res[n]

\* RollforwardBlock: every addition may be an overwrite.
RollforwardTx(view, base, b, i) ==
    [o \in Outpoints |->
        IF o \in Vtx[b][i].vin THEN SpendCoin(view[o], base[o])
        ELSE IF o \in Vtx[b][i].vout
        THEN AddCoin(view[o], Height[b], Seen(view, base, o) # Spent)
        ELSE view[o]]

RollforwardBlock(view, base, b) ==
    LET v[i \in 0..Len(Vtx[b])] ==
            IF i = 0 THEN view ELSE RollforwardTx(v[i - 1], base, b, i)
    IN  v[Len(Vtx[b])]

-----------------------------------------------------------------------------
\* The ancestors of b above height h, from the lowest to b.
Branch(b, h) == [i \in 1..(Height[b] - h) |-> GetAncestor(b, h + i)]

\* pindexFork->nHeight; the old tip is null during the first flush.
ForkHeight(new, old) == IF old = Null THEN 0 ELSE Height[FindFork(old, new)]

\* The branch that is rolled back, from the old tip down.
OldBranch(new, old) ==
    IF old = Null THEN <<>>
    ELSE [i \in 1..(Height[old] - ForkHeight(new, old)) |-> GetAncestor(old, Height[old] + 1 - i)]
NewBranch(new, old) == Branch(new, ForkHeight(new, old))

RolledBack(coins, new, old) ==
    LET blocks == OldBranch(new, old)
        view[i \in 0..Len(blocks)] ==
            IF i = 0 THEN EmptyCache ELSE DisconnectBlock(view[i - 1], coins, blocks[i]).view
    IN  view[Len(blocks)]

RolledForward(start, coins, new, old) ==
    LET blocks == NewBranch(new, old)
        view[i \in 0..Len(blocks)] ==
            IF i = 0 THEN start ELSE RollforwardBlock(view[i - 1], coins, blocks[i])
    IN  view[Len(blocks)]

\* Variant: no rollback along the old branch.
ReplayedForwardOnly(coins, new, old) == RolledForward(EmptyCache, coins, new, old)

\* The cache that ReplayBlocks builds over the coins of the database.
Replayed(coins, new, old) == RolledForward(RolledBack(coins, new, old), coins, new, old)

\* None of the error returns of ReplayBlocks is taken.
CanReplay(new, old, idx, fs) ==
    /\ <<new, "TREE">> \in idx
    /\ old # Null => <<old, "TREE">> \in idx
    /\ \A i \in DOMAIN OldBranch(new, old) :
          /\ CanRead(OldBranch(new, old)[i], "DATA", idx, fs)
          /\ CanRead(OldBranch(new, old)[i], "UNDO", idx, fs)
    /\ \A i \in DOMAIN NewBranch(new, old) : CanRead(NewBranch(new, old)[i], "DATA", idx, fs)

DirtyOutpoints(view) == {o \in Outpoints : IsDirty(view[o])}

-----------------------------------------------------------------------------
\* LoadChainstate: load the index, add the genesis block if it is not there,
\* replay an interrupted flush, and take the database's best block as the tip.
Start ==
    /\ pc = "down"
    /\ LET isNew == <<Genesis, "TREE">> \notin diskIndex
           idx   == diskIndex \cup (IF isNew THEN {Genesis} \X {"TREE", "DATA"} ELSE {})
           fs    == files \cup (IF isNew THEN {<<Genesis, "DATA">>} ELSE {})
           replay == db.heads # <<>>
           ok == IF replay THEN CanReplay(db.heads[1], db.heads[2], idx, fs)
                 ELSE db.best = Null \/ <<db.best, "TREE">> \in idx
       IN  /\ index' = idx /\ files' = fs
           /\ pc' = IF ~ok THEN "failed" ELSE IF replay THEN "replay" ELSE "run"
           /\ cache' = IF ok /\ replay
                       THEN Replayed(db.coins, db.heads[1], db.heads[2]) ELSE EmptyCache
           /\ cacheBest' = IF ~ok THEN Null ELSE IF replay THEN db.heads[1] ELSE db.best
           /\ chain' = IF ok /\ ~replay THEN db.best ELSE Null
           /\ batch' = DirtyOutpoints(cache')
    /\ UNCHANGED <<coinsVars, diskIndex, diskFiles, rev, full, pruned, bounds>>

\* Restart with -reindex, the only kind that prune mode accepts: it wipes both
\* databases, and CleanupBlockRevFiles removes the undo files and, the first
\* file being pruned, every block file.
Reindex == /\ pc = "failed"
           /\ db' = EmptyDB /\ disk' = EmptyDB /\ frozen' = FALSE
           /\ index' = {} /\ diskIndex' = {} /\ files' = {} /\ diskFiles' = {}
           /\ rev' = [b \in Blocks |-> <<>>]
           /\ pc' = "down"
           /\ UNCHANGED <<cacheVars, chain, flushVars, bounds>>

Ready == pc = "run" /\ chain = cacheBest

\* AcceptBlock: the block is saved and its index entry added or completed.
AcceptBlock(b) ==
    /\ Ready
    /\ b # Genesis /\ <<Prev[b], "TREE">> \in index
    /\ <<b, "DATA">> \notin index
    /\ Cardinality({w \in Blocks \ {Genesis} : <<w, "DATA">> \in index /\ <<w, "UNDO">> \notin index})
           < MaxWaiting
    /\ index' = index \cup {<<b, "TREE">>, <<b, "DATA">>}
    /\ files' = files \cup {<<b, "DATA">>}
    /\ UNCHANGED <<coinsVars, cacheVars, chain, diskIndex, diskFiles, rev, pc, flushVars, bounds>>

\* ConnectTip up to the call of FlushStateToDisk: ConnectBlock on a view over
\* CoinsTip(), the undo data if there is none yet, and the flush of the view.
ConnectTip(b) ==
    /\ Ready
    /\ IF b = Genesis THEN chain = Null ELSE chain = Prev[b]
    /\ CanRead(b, "DATA", index, files)
    /\ LET base == [o \in Outpoints |-> Seen(cache, db.coins, o)]
           view == IF b = Genesis THEN EmptyCache ELSE ConnectCoins(base, b)
           fetched == [o \in Outpoints |-> IF view[o] = NoEntry THEN cache[o]
                                           ELSE FetchCoin(cache[o], db.coins[o])]
           new == b # Genesis /\ <<b, "UNDO">> \notin index
       IN  /\ cache' = [o \in Outpoints |-> BatchWriteEntry(view[o], fetched[o])]
           /\ rev' = IF new THEN [rev EXCEPT ![b] = Undo(base, b)] ELSE rev
           /\ index' = index \cup (IF new THEN {<<b, "UNDO">>} ELSE {})
           /\ files' = files \cup (IF new THEN {<<b, "UNDO">>} ELSE {})
    /\ cacheBest' = b
    /\ UNCHANGED <<coinsVars, chain, diskIndex, diskFiles, pc, flushVars, bounds>>

\* DisconnectTip up to the call of FlushStateToDisk.
DisconnectTip ==
    /\ Ready /\ chain \notin {Null, Genesis}
    /\ CanRead(chain, "DATA", index, files) /\ CanRead(chain, "UNDO", index, files)
    /\ LET base == [o \in Outpoints |-> Seen(cache, db.coins, o)]
           res  == DisconnectBlock(EmptyCache, base, chain)
       IN  /\ res.clean
           /\ cache' = [o \in Outpoints |->
                  BatchWriteEntry(res.view[o], IF res.view[o] = NoEntry THEN cache[o]
                                               ELSE FetchCoin(cache[o], db.coins[o]))]
    /\ cacheBest' = Prev[chain]
    /\ UNCHANGED <<coinsVars, chain, storeVars, pc, flushVars, bounds>>

\* The rest of ConnectTip and DisconnectTip, after FlushStateToDisk.
SetTip == /\ pc = "run" /\ chain # cacheBest
          /\ chain' = cacheBest
          /\ UNCHANGED <<coinsVars, cacheVars, storeVars, pc, flushVars, bounds>>

-----------------------------------------------------------------------------
Stored == {b \in Blocks : <<b, "DATA">> \in index}

\* Variant: one block too many, counted from the tip.
FilesToPruneOneMore(last) ==
    {b \in Stored : /\ chain # Null /\ Height[b] <= last
                    /\ Height[b] = 0 \/ Height[b] <= Height[chain] - Keep + 1
                    /\ \E c \in Stored : Height[c] > Height[b]}

\* FindFilesToPrune and FindFilesToPruneManual with GetPruneRange.  Every block
\* has a file of its own; the last file is never pruned.
FilesToPrune(last) ==
    {b \in Stored : /\ chain # Null /\ Height[b] <= last
                    /\ Height[b] = 0 \/ Height[b] <= Height[chain] - Keep
                    /\ \E c \in Stored : Height[c] > Height[b]}

\* FlushStateToDisk decides what to do: prune files, write the index only, or
\* flush everything.  Pruning forces a full flush.
FlushStateToDisk(last, isFull) ==
    /\ pc = "run" /\ flushes < MaxFlushes
    /\ flushes' = flushes + 1
    /\ pruned' = FilesToPrune(last)
    /\ full' = isFull /\ (pruned' # {} => isFull)
    /\ index' = index \ (pruned' \X {"DATA", "UNDO"})
    /\ pc' = "files"
    /\ UNCHANGED <<coinsVars, cacheVars, chain, diskIndex, files, diskFiles, rev, batch, crashes>>

FlushBlockFile == /\ pc = "files"
                  /\ diskFiles' = files
                  /\ pc' = "index"
                  /\ UNCHANGED <<coinsVars, cacheVars, chain, index, diskIndex, files, rev, flushVars, bounds>>

WriteBlockIndexDB == /\ pc = "index"
                     /\ diskIndex' = index
                     /\ pc' = "unlink"
                     /\ UNCHANGED <<coinsVars, cacheVars, chain, index, files, diskFiles, rev, flushVars, bounds>>

\* UnlinkPrunedFiles; then the coins, if this is a full flush and there are any.
UnlinkPrunedFiles ==
    /\ pc = "unlink"
    /\ files' = files \ (pruned \X {"DATA", "UNDO"})
    /\ diskFiles' = diskFiles \ (pruned \X {"DATA", "UNDO"})
    /\ pruned' = {} /\ full' = FALSE
    /\ LET coins == full /\ cacheBest # Null
       IN  /\ pc' = IF coins THEN "coins" ELSE "run"
           /\ batch' = IF coins THEN DirtyOutpoints(cache) ELSE {}
    /\ UNCHANGED <<coinsVars, cacheVars, chain, index, diskIndex, rev, bounds>>

\* Variant: the null best block of an interrupted database is taken as the old tip.
OldTipOfBest == db.best

\* old_tip in CCoinsViewDB::BatchWrite.
OldTip == IF db.best = Null /\ db.heads # <<>> THEN db.heads[2] ELSE db.best

WriteCoins(done) ==
    [o \in Outpoints |-> IF o \in done THEN WriteRecord(cache[o], db.coins[o]) ELSE db.coins[o]]

\* One m_db->WriteBatch, not synchronous: a power loss may lose it and all later ones.
WriteBatch(state) == /\ db' = state
                     /\ disk' = IF frozen THEN disk ELSE state
                     /\ UNCHANGED frozen

PartialState(done) == [coins |-> WriteCoins(done), best |-> Null,
                       heads |-> <<cacheBest, OldTip>>]

\* BatchWrite fills a batch with some of the remaining entries and writes it.
WritePartialBatch(done) ==
    /\ pc \in {"coins", "replay"}
    /\ done # {} /\ done \subseteq batch
    /\ WriteBatch(PartialState(done))
    /\ batch' = batch \ done
    /\ UNCHANGED <<cacheVars, chain, storeVars, pc, full, pruned, bounds>>

\* The last batch.  After a replay the cache of CoinsTip() is created and
\* LoadChainTip looks up the best block.
WriteFinalBatch ==
    /\ pc \in {"coins", "replay"}
    /\ WriteBatch([coins |-> WriteCoins(batch), best |-> cacheBest, heads |-> <<>>])
    /\ batch' = {} /\ cache' = EmptyCache
    /\ chain' = IF pc = "replay" THEN cacheBest ELSE chain
    /\ pc' = "run"
    /\ UNCHANGED <<cacheBest, storeVars, full, pruned, bounds>>

\* From here on the batches stay in the operating system's buffers.
Freeze == /\ pc \in {"coins", "replay"} /\ ~frozen
          /\ frozen' = TRUE
          /\ UNCHANGED <<db, disk, cacheVars, chain, storeVars, pc, flushVars, bounds>>

\* The process dies, or the machine loses power and what was not synced with
\* it.  File contents that the index database does not refer to are written
\* over after the next start.
Crash(power) ==
    /\ pc \notin {"down", "failed"} /\ crashes < MaxCrashes
    /\ crashes' = crashes + 1
    /\ db' = IF power THEN disk ELSE db
    /\ frozen' = (frozen /\ ~power)
    /\ files' = (IF power THEN diskFiles ELSE files) \cap diskIndex
    /\ diskFiles' = diskFiles \cap diskIndex
    /\ rev' = [b \in Blocks |-> IF <<b, "UNDO">> \in files' THEN rev[b] ELSE <<>>]
    /\ index' = {} /\ cache' = EmptyCache /\ cacheBest' = Null /\ chain' = Null
    /\ pc' = "down" /\ full' = FALSE /\ pruned' = {} /\ batch' = {}
    /\ UNCHANGED <<disk, diskIndex, flushes>>

Next == \/ Start \/ Reindex
        \/ \E b \in Blocks : AcceptBlock(b) \/ ConnectTip(b)
        \/ DisconnectTip \/ SetTip
        \/ \E last \in PruneHeights, isFull \in BOOLEAN : FlushStateToDisk(last, isFull)
        \/ FlushBlockFile \/ WriteBlockIndexDB \/ UnlinkPrunedFiles
        \/ \E done \in SUBSET batch : WritePartialBatch(done)
        \/ WriteFinalBatch \/ Freeze
        \/ \E power \in BOOLEAN : Crash(power)

Spec == Init /\ [][Next]_vars

-----------------------------------------------------------------------------
\* Every variable holds a value of its type, and the caches only entries that
\* CCoinsViewCache::SanityCheck accepts.
TypeOK ==
    /\ {db, disk} \subseteq [coins : [Outpoints -> AnyCoin], best : Blocks \cup {Null},
                             heads : {<<>>} \cup (Blocks \X (Blocks \cup {Null}))]
    /\ cache \in [Outpoints -> ValidEntry \cup {NoEntry}]
    /\ {cacheBest, chain} \subseteq Blocks \cup {Null}
    /\ index \cup diskIndex \cup files \cup diskFiles \subseteq Facts
    /\ pc \in {"down", "failed", "run", "files", "index", "unlink", "coins", "replay"}
    /\ {frozen, full} \subseteq BOOLEAN
    /\ pruned \subseteq Blocks /\ batch \subseteq DirtyOutpoints(cache)

\* Without HEAD_BLOCKS a coins database holds exactly the coins of its best block,
\* and with them every coin is that of the old or that of the new tip.
NamesItsState(d) ==
    IF d.heads = <<>> THEN d.coins = Utxo[d.best]
    ELSE /\ d.best = Null
         /\ \A o \in Outpoints : d.coins[o] \in {Utxo[d.heads[1]][o], Utxo[d.heads[2]][o]}

\* What is on disk is consistent at every instant a crash may come: the coins
\* database says truly which state it is in, and the block index database claims
\* no block or undo data that the files have lost, since files are flushed before
\* the index is written and unlinked after.
DiskConsistent ==
    /\ NamesItsState(db) /\ NamesItsState(disk)
    /\ diskIndex \ (Blocks \X {"TREE"}) \subseteq diskFiles

\* Whatever crashes came before, replays that were themselves interrupted
\* included, the coins the running node reads are those of its best block.
CoinsExact == pc = "run" => \A o \in Outpoints : Seen(cache, db.coins, o) = Utxo[cacheBest][o]

\* A start fails only for want of blocks that pruning may have removed: it
\* knows both tips of the interrupted flush, and can read every block between
\* them that is less than Keep below the highest block it knows.
FailsOnlyIfPruned ==
    pc = "failed" =>
        /\ db.heads # <<>>
        /\ LET new == db.heads[1]
               old == db.heads[2]
               recent(b) == \A t \in Blocks : <<t, "TREE">> \in index => Height[b] > Height[t] - Keep
               gone(bs, what) == {b \in Blocks : /\ \E i \in DOMAIN bs : b = bs[i]
                                                 /\ ~CanRead(b, what, index, files)}
           IN  /\ \A b \in {new, old} \ {Null} : <<b, "TREE">> \in index
               /\ \A b \in gone(OldBranch(new, old), "DATA") \cup gone(OldBranch(new, old), "UNDO")
                           \cup gone(NewBranch(new, old), "DATA") : ~recent(b)

\* Disconnecting the tip of a running node finds every output of the block in
\* place and none of its inputs: the error return of DisconnectTip is not taken.
DisconnectsCleanly ==
    Ready /\ chain \notin {Null, Genesis} /\ CanRead(chain, "UNDO", index, files)
        => DisconnectBlock(EmptyCache, [o \in Outpoints |-> Seen(cache, db.coins, o)], chain).clean
=============================================================================
