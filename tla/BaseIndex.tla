------------------------------- MODULE BaseIndex -------------------------------
(***************************************************************************)
(* BaseIndex: the thread that brings an optional index up to the active    *)
(* chain, the hand-over to the callbacks of the validation interface that  *)
(* keep it there, what it commits, and its next start.  The data of the    *)
(* index is that of BlockFilterIndex and CoinStatsIndex: an entry for      *)
(* every height, entries by hash for blocks that a reorganization took     *)
(* away, and running totals that stand for one block.                      *)
(*                                                                         *)
(* The queue of callbacks is SerialQueue, which CallbackQueue implements.  *)
(* A step goes from one write of the index to the next, or is what         *)
(* validation does under cs_main; where cs_main is held over two steps     *)
(* nothing that takes it runs between them.                                *)
(***************************************************************************)
EXTENDS BlockTree, Sequences

CONSTANTS
    None,        \* nullptr
    Bad,         \* totals that stand for no block
    MaxMoves,    \* bound on the changes of the tip
    MaxFlushes,  \* bound on the flushes of the chainstate
    MaxStarts    \* bound on the starts after the first

VARIABLES
    tip,         \* m_chainstate->m_chain.Tip()
    diskTip,     \* the tip in the chainstate on disk
    known,       \* the block index
    diskKnown,   \* the block index on disk
    pending, current,  \* the callback queue
    cbpc,        \* how far the current callback is
    m_best_block_index, m_synced,
    thread,      \* where ThreadSync is
    pindex,      \* pindex of ThreadSync
    byHeight,    \* DBHeightKey entries: the block each is about
    byHash,      \* DBHashKey entries
    totals,      \* the block the running totals stand for
    committed,   \* DB_BEST_BLOCK and the totals written with it
    node,        \* whether the node is up, or why not
    asked,       \* the tip a caller of BlockUntilSyncedToCurrentChain was after
    answer,      \* how far that call is
    moving,      \* the block the tip is being moved to, cs_main held, or None
    moves, flushes, starts

chainVars == <<tip, diskTip, known, diskKnown, moving>>
queueVars == <<pending, current, cbpc>>
memVars == <<m_best_block_index, totals>>
dbVars == <<byHeight, byHash, committed>>
syncVars == <<m_synced, thread, pindex>>
askVars == <<asked, answer>>
bounds == <<moves, flushes, starts>>
vars == <<chainVars, queueVars, memVars, dbVars, syncVars, node, askVars, bounds>>

Event == [kind : {"BlockConnected", "ChainStateFlushed"}, block : Blocks] \cup [kind : {"promise"}, block : {None}]
ASSUME IndexAssumption == None \notin Blocks \cup Event
First == [kind |-> "BlockConnected", block |-> Genesis]
Queue == INSTANCE SerialQueue WITH Callback <- Event, NoCallback <- None

\* CBlockIndex::GetAncestor and pprev, with nullptr.
Ancestor(b, h) == IF h < 0 \/ h > Height[b] THEN None ELSE GetAncestor(b, h)
pprev(b) == IF b = Genesis THEN None ELSE Prev[b]

Heights == {Height[b] : b \in Blocks}
Nothing == [best |-> None, totals |-> None]

\* A node whose chain has grown to any block, or that has no chain yet, starts an
\* index that has no data.
Init ==
    /\ tip \in Blocks \cup {None} /\ diskTip = tip
    /\ known = (IF tip = None THEN {} ELSE Anc[tip]) /\ diskKnown = known
    /\ moving = None
    /\ Queue!QueueInit /\ cbpc = "none"
    /\ m_best_block_index = None /\ totals = None
    /\ m_synced = (tip = None)
    /\ thread = (IF m_synced THEN "exit" ELSE "loop") /\ pindex = None
    /\ byHeight = [h \in Heights |-> None] /\ byHash = {} /\ committed = Nothing
    /\ node = "up"
    /\ asked = None /\ answer = "none"
    /\ moves = 0 /\ flushes = 0 /\ starts = 0

Up == node \in {"up", "stopping"}

\* cs_main is free: neither a change of the tip nor a rewind of ThreadSync is under
\* way.
Free == moving = None /\ thread # "rewind"

(***************************************************************************)
(* The data of the index.                                                  *)
(***************************************************************************)

\* CustomAppend needs the entry of the parent under the height below.
CanAppend(b) == b = Genesis \/ byHeight[Height[b] - 1] = Prev[b]

CustomAppend(b) ==
    /\ byHeight' = [byHeight EXCEPT ![Height[b]] = b]
    /\ totals' = IF totals = pprev(b) THEN b ELSE Bad

\* CustomRewind copies the entries it is about to uncover to the hash index and
\* takes the blocks out of the totals one by one.
CanRewind(to, from) == \A h \in Height[to]..Height[from] : byHeight[h] # None

\* Variant: the entries are not copied.
RewindDropsEntries(from, to) ==
    /\ UNCHANGED byHash
    /\ totals' = IF totals = from THEN to ELSE Bad

CustomRewind(from, to) ==
    /\ byHash' = byHash \cup {byHeight[h] : h \in Height[to]..Height[from]}
    /\ totals' = IF totals = from THEN to ELSE Bad

\* Commit writes the best block and, in the same batch, the totals.
Commit(best, t) ==
    committed' = IF best = None THEN committed ELSE [best |-> best, totals |-> t]

\* Rewind writes twice: CustomRewind's batch, then the new best block.  Its first
\* assertion compares the tip with m_best_block_index.
RewindData(from, to) == CustomRewind(from, to) /\ UNCHANGED <<m_best_block_index, byHeight, committed>>

RewindBest(to) ==
    /\ m_best_block_index' = to
    /\ Commit(to, totals)
    /\ UNCHANGED <<totals, byHeight, byHash>>

Found(b) == byHeight[Height[b]] = b \/ b \in byHash

(***************************************************************************)
(* ThreadSync.                                                             *)
(***************************************************************************)

\* CChain::Next.
Next1(b) == IF tip # b /\ b \in Anc[tip] THEN GetAncestor(tip, Height[b] + 1) ELSE None

\* Variant: the fork is not looked for.
NextOnChain(b) == IF b = None THEN Genesis ELSE Next1(b)

NextSyncBlock(b) ==
    IF b = None THEN Genesis
    ELSE IF Next1(b) # None THEN Next1(b) ELSE Next1(FindFork(b, tip))

\* The chain has no next block: the index is in sync.  Variant: m_synced is set
\* after cs_main was released.
SyncDoneUnlocked ==
    \/ /\ thread = "loop" /\ moving = None /\ node = "up" /\ NextSyncBlock(pindex) = None
       /\ m_best_block_index' = pindex
       /\ Commit(pindex, totals)
       /\ thread' = "unlocked"
       /\ UNCHANGED <<chainVars, queueVars, totals, byHeight, byHash, m_synced, pindex, node, askVars, bounds>>
    \/ /\ thread = "unlocked" /\ Up
       /\ m_synced' = TRUE /\ thread' = "exit"
       /\ UNCHANGED <<chainVars, queueVars, memVars, dbVars, pindex, node, askVars, bounds>>

SyncDone ==
    /\ thread = "loop" /\ moving = None /\ node = "up" /\ NextSyncBlock(pindex) = None
    /\ m_best_block_index' = pindex
    /\ Commit(pindex, totals)
    /\ m_synced' = TRUE /\ thread' = "exit"
    /\ UNCHANGED <<chainVars, queueVars, totals, byHeight, byHash, pindex, node, askVars, bounds>>

\* The next block extends the index.
SyncNext ==
    /\ thread = "loop" /\ moving = None /\ node = "up" /\ NextSyncBlock(pindex) # None
    /\ pprev(NextSyncBlock(pindex)) = pindex
    /\ pindex' = NextSyncBlock(pindex) /\ thread' = "append"
    /\ UNCHANGED <<chainVars, queueVars, memVars, dbVars, m_synced, node, askVars, bounds>>

\* The chain was reorganized since the last block; cs_main is kept until SyncRewound.
SyncRewind ==
    /\ thread = "loop" /\ moving = None /\ node = "up" /\ NextSyncBlock(pindex) # None
    /\ LET next == NextSyncBlock(pindex) IN
       /\ pprev(next) # pindex
       /\ \/ /\ pindex # m_best_block_index
             /\ node' = "assertion"
             /\ UNCHANGED <<memVars, dbVars, thread>>
          \/ /\ pindex = m_best_block_index /\ ~CanRewind(pprev(next), pindex)
             /\ node' = "fatal"
             /\ UNCHANGED <<memVars, dbVars, thread>>
          \/ /\ pindex = m_best_block_index /\ CanRewind(pprev(next), pindex)
             /\ RewindData(pindex, pprev(next)) /\ thread' = "rewind"
             /\ UNCHANGED node
    /\ UNCHANGED <<chainVars, queueVars, m_synced, pindex, askVars, bounds>>

SyncRewound ==
    /\ thread = "rewind" /\ Up
    /\ RewindBest(pprev(NextSyncBlock(pindex)))
    /\ pindex' = NextSyncBlock(pindex) /\ thread' = "append"
    /\ UNCHANGED <<chainVars, queueVars, m_synced, node, askVars, bounds>>

\* Every SYNC_LOCATOR_WRITE_INTERVAL: the block before the one about to be added.
\* Variant: the block itself.
SyncCommitEarly ==
    /\ thread = "append" /\ Up /\ moving = None
    /\ m_best_block_index' = pindex
    /\ Commit(pindex, totals)
    /\ UNCHANGED <<chainVars, queueVars, totals, byHeight, byHash, syncVars, node, askVars, bounds>>

SyncCommit ==
    /\ thread = "append" /\ Up /\ moving = None
    /\ m_best_block_index' = pprev(pindex)
    /\ Commit(pprev(pindex), totals)
    /\ UNCHANGED <<chainVars, queueVars, totals, byHeight, byHash, syncVars, node, askVars, bounds>>

SyncAppend ==
    /\ thread = "append" /\ Up
    /\ IF CanAppend(pindex)
       THEN CustomAppend(pindex) /\ thread' = "loop" /\ UNCHANGED node
       ELSE node' = "fatal" /\ UNCHANGED <<byHeight, totals, thread>>
    /\ UNCHANGED <<chainVars, queueVars, m_best_block_index, byHash, committed, m_synced, pindex, askVars, bounds>>

\* m_interrupt is set.
SyncInterrupted ==
    /\ thread = "loop" /\ moving = None /\ node = "stopping"
    /\ m_best_block_index' = pindex
    /\ Commit(pindex, totals)
    /\ thread' = "exit"
    /\ UNCHANGED <<chainVars, queueVars, totals, byHeight, byHash, m_synced, pindex, node, askVars, bounds>>

ThreadSync == SyncDone \/ SyncNext \/ SyncRewind \/ SyncRewound \/ SyncAppend \/ SyncInterrupted

(***************************************************************************)
(* The callbacks.  m_synced is read when one starts; before the sync       *)
(* thread is done a callback does nothing.                                 *)
(***************************************************************************)

\* The callback has nothing to do, or declines: not in sync yet, or a stale block
\* that does not connect to the index's chain.  Variant: stale blocks are taken.
DeclinesUnsynced(e) == e.kind # "promise" /\ ~m_synced

Declines(e) ==
    \/ e.kind # "promise" /\ ~m_synced
    \/ /\ m_best_block_index # None
       /\ e.kind = "BlockConnected"
       /\ Ancestor(m_best_block_index, Height[e.block] - 1) # pprev(e.block)
    \/ /\ m_best_block_index # None
       /\ e.kind = "ChainStateFlushed"
       /\ Ancestor(m_best_block_index, Height[e.block]) # e.block

CallbackDeclines ==
    /\ Up /\ current = None /\ pending # <<>> /\ Declines(Head(pending))
    /\ Head(pending).kind = "ChainStateFlushed" /\ m_synced => Free
    /\ pending' = Tail(pending)
    /\ UNCHANGED <<chainVars, current, cbpc, memVars, dbVars, syncVars, node, askVars, bounds>>

\* SyncWithValidationInterfaceQueue's promise is kept.
PromiseKept ==
    /\ Up /\ current = None /\ pending # <<>> /\ Head(pending).kind = "promise"
    /\ pending' = Tail(pending)
    /\ answer' = "ready"
    /\ UNCHANGED <<chainVars, current, cbpc, memVars, dbVars, syncVars, node, asked, bounds>>

\* BlockConnected up to its first write: rewind if the block is not the next one.
BlockConnected ==
    /\ Up /\ Queue!Start /\ ~Declines(Head(pending))
    /\ Head(pending).kind = "BlockConnected"
    /\ LET b == Head(pending).block IN
       \/ /\ m_best_block_index = None /\ b # Genesis
          /\ node' = "fatal"
          /\ UNCHANGED <<memVars, dbVars, cbpc>>
       \/ /\ m_best_block_index = pprev(b)
          /\ cbpc' = "append"
          /\ UNCHANGED <<memVars, dbVars, node>>
       \/ /\ m_best_block_index # None /\ m_best_block_index # pprev(b)
          /\ IF b # Genesis /\ CanRewind(Prev[b], m_best_block_index)
             THEN RewindData(m_best_block_index, Prev[b]) /\ cbpc' = "rewind" /\ UNCHANGED node
             ELSE node' = "fatal" /\ UNCHANGED <<memVars, dbVars, cbpc>>
    /\ UNCHANGED <<chainVars, syncVars, askVars, bounds>>

BlockRewound ==
    /\ Up /\ cbpc = "rewind" /\ Free
    /\ RewindBest(Prev[current.block]) /\ cbpc' = "append"
    /\ UNCHANGED <<chainVars, pending, current, syncVars, node, askVars, bounds>>

BlockAppended ==
    /\ Up /\ cbpc = "append"
    /\ IF CanAppend(current.block)
       THEN CustomAppend(current.block) /\ cbpc' = "set" /\ UNCHANGED node
       ELSE node' = "fatal" /\ UNCHANGED <<byHeight, totals, cbpc>>
    /\ UNCHANGED <<chainVars, pending, current, m_best_block_index, byHash, committed, syncVars, askVars, bounds>>

\* "Setting the best block index is intentionally the last step".
BestBlockSet ==
    /\ Up /\ cbpc = "set"
    /\ m_best_block_index' = current.block
    /\ cbpc' = "none"
    /\ Queue!Finish
    /\ UNCHANGED <<chainVars, totals, dbVars, syncVars, node, askVars, bounds>>

ChainStateFlushed ==
    /\ Up /\ Free /\ current = None /\ pending # <<>>
    /\ ~Declines(Head(pending))
    /\ Head(pending).kind = "ChainStateFlushed"
    /\ pending' = Tail(pending)
    /\ IF m_best_block_index = None
       THEN node' = "null" /\ UNCHANGED committed
       ELSE Commit(m_best_block_index, totals) /\ UNCHANGED node
    /\ UNCHANGED <<chainVars, current, cbpc, memVars, byHeight, byHash, syncVars, askVars, bounds>>

Callback ==
    \/ CallbackDeclines \/ PromiseKept \/ ChainStateFlushed
    \/ BlockConnected \/ BlockRewound \/ BlockAppended \/ BestBlockSet

(***************************************************************************)
(* Validation, under cs_main.                                              *)
(***************************************************************************)

\* The blocks ActivateBestChain connects to reach b, in order.
Connected(b) ==
    LET above == IF tip = None THEN -1 ELSE Height[FindFork(tip, b)]
    IN  [i \in 1..(Height[b] - above) |->
            [kind |-> "BlockConnected", block |-> GetAncestor(b, above + i)]]

ActivateBestChain(b) ==
    /\ Up /\ thread # "rewind" /\ moving \in {None, b} /\ moves < MaxMoves
    /\ tip # None => Height[b] > Height[tip]
    /\ tip' = b /\ known' = known \cup Anc[b] /\ moving' = None
    /\ pending' = pending \o Connected(b)
    /\ moves' = moves + 1
    /\ UNCHANGED <<diskTip, diskKnown, current, cbpc, memVars, dbVars, syncVars, node, askVars, flushes, starts>>

\* InvalidateBlock disconnects the tip; BlockDisconnected means nothing to an index.
DisconnectTip ==
    /\ Up /\ thread # "rewind" /\ moves < MaxMoves /\ tip \notin {None, Genesis}
    /\ moving \in {None, Prev[tip]}
    /\ tip' = Prev[tip] /\ moving' = None
    /\ moves' = moves + 1
    /\ UNCHANGED <<diskTip, known, diskKnown, queueVars, memVars, dbVars, syncVars, node, askVars, flushes, starts>>

FlushStateToDisk ==
    /\ Up /\ Free /\ flushes < MaxFlushes /\ tip # None
    /\ diskTip' = tip /\ diskKnown' = known
    /\ Queue!Enqueue([kind |-> "ChainStateFlushed", block |-> tip])
    /\ flushes' = flushes + 1
    /\ UNCHANGED <<tip, known, moving, cbpc, memVars, dbVars, syncVars, node, askVars, moves, starts>>

\* The steps of one block from one chain to the other: what m_chain still has and
\* what the coins are already at.
TipMoves(from, to) ==
    {<<x, Prev[x]>> : x \in Anc[from] \ Anc[to]} \cup {<<Prev[x], x>> : x \in Anc[to] \ Anc[from]}

\* ConnectTip and DisconnectTip flush, IF_NEEDED, before the tip is set, and the
\* callback is queued before those of the blocks that are being connected.
FlushIfNeeded(b) ==
    /\ Up /\ Free /\ flushes < MaxFlushes /\ moves < MaxMoves /\ tip # None
    /\ Height[b] = Height[tip] + 1 \/ b = pprev(tip)
    /\ moving' = b
    /\ \E m \in TipMoves(tip, b) :
          /\ diskTip' = m[2]
          /\ Queue!Enqueue([kind |-> "ChainStateFlushed", block |-> m[1]])
    /\ known' = known \cup Anc[b] /\ diskKnown' = known'
    /\ flushes' = flushes + 1
    /\ UNCHANGED <<tip, cbpc, memVars, dbVars, syncVars, node, askVars, moves, starts>>

(***************************************************************************)
(* BlockUntilSyncedToCurrentChain, called once a chain exists.             *)
(***************************************************************************)

Ask ==
    /\ Up /\ Free /\ m_synced /\ tip # None /\ answer = "none"
    /\ asked' = tip
    /\ IF m_best_block_index = None
       THEN node' = "null" /\ UNCHANGED answer
       ELSE /\ answer' = IF Ancestor(m_best_block_index, Height[tip]) = tip THEN "ready" ELSE "sync"
            /\ UNCHANGED node
    /\ UNCHANGED <<chainVars, queueVars, memVars, dbVars, syncVars, bounds>>

SyncWithValidationInterfaceQueue ==
    /\ Up /\ answer = "sync"
    /\ Queue!Enqueue([kind |-> "promise", block |-> None])
    /\ answer' = "wait"
    /\ UNCHANGED <<chainVars, cbpc, memVars, dbVars, syncVars, node, asked, bounds>>

(***************************************************************************)
(* Stop and start.                                                         *)
(***************************************************************************)

Interrupt ==
    /\ node = "up" /\ node' = "stopping"
    /\ UNCHANGED <<chainVars, queueVars, memVars, dbVars, syncVars, askVars, bounds>>

\* The process ends, in whatever way, and Init reads what is on disk.
Restart ==
    /\ starts < MaxStarts /\ node \notin {"refused", "corrupt"}
    /\ starts' = starts + 1
    /\ tip' = diskTip /\ known' = diskKnown /\ moving' = None
    /\ pending' = <<>> /\ current' = None /\ cbpc' = "none"
    /\ asked' = None /\ answer' = "none"
    /\ m_best_block_index' = committed.best
    /\ totals' = committed.totals
    /\ node' = CASE committed.best \notin diskKnown \cup {None} -> "refused"
                 [] committed.best # None /\ (~Found(committed.best) \/ committed.totals # committed.best) -> "corrupt"
                 [] OTHER -> "up"
    /\ m_synced' = (committed.best = diskTip)
    /\ thread' = (IF m_synced' THEN "exit" ELSE "loop") /\ pindex' = committed.best
    /\ UNCHANGED <<diskTip, diskKnown, dbVars, moves, flushes>>

Next ==
    \/ ThreadSync \/ SyncCommit
    \/ Callback
    \/ \E b \in Blocks : ActivateBestChain(b) \/ FlushIfNeeded(b)
    \/ DisconnectTip \/ FlushStateToDisk
    \/ Ask \/ SyncWithValidationInterfaceQueue
    \/ Interrupt \/ Restart

\* A change of the tip that is under way.
FinishMove == moving # None /\ (DisconnectTip \/ \E b \in Blocks : ActivateBestChain(b))

\* The sync thread and the scheduler thread run, and who holds cs_main goes on;
\* nothing else has to happen.
Spec ==
    /\ Init /\ [][Next]_vars /\ WF_vars(FinishMove)
    /\ WF_vars(ThreadSync) /\ WF_vars(Callback) /\ WF_vars(SyncWithValidationInterfaceQueue)

(***************************************************************************)
(* Properties.                                                             *)
(***************************************************************************)

\* The types of the variables; the totals always stand for a block.
TypeOK ==
    /\ {tip, diskTip, m_best_block_index, pindex, asked, committed.best} \subseteq Blocks \cup {None}
    /\ {totals, committed.totals} \subseteq Blocks \cup {None}
    /\ diskKnown \subseteq known /\ known \subseteq Blocks
    /\ pending \in Seq(Event) /\ current \in Event \cup {None}
    /\ byHeight \in [Heights -> Blocks \cup {None}] /\ byHash \subseteq Blocks
    /\ m_synced \in BOOLEAN

AtTip == tip # None => m_best_block_index # None /\ tip \in Anc[m_best_block_index]

\* Between two callbacks the entries by height are the chain below the best block
\* and the totals stand for that block, after any number of rewinds.  Whatever
\* callbacks were queued while the sync thread ran, once they are through the
\* index stands at the tip, or above it if the tip was disconnected.
IndexExact ==
    Up /\ m_synced /\ current = None =>
        /\ m_best_block_index # None =>
              /\ totals = m_best_block_index
              /\ \A b \in Anc[m_best_block_index] : byHeight[Height[b]] = b
        /\ pending = <<>> => AtTip

\* What is committed is sound at any moment, in the middle of a rewind too: the best
\* block on disk and everything below it have an entry, the totals next to it are
\* its own, and the block index has it.  Only a start after a crash that lost the
\* end of the block index does not find it there, and Init refuses that start.
CommittedUsable ==
    committed.best # None =>
        /\ committed.totals = committed.best
        /\ \A b \in Anc[committed.best] : Found(b)
        /\ node # "refused" => committed.best \in known

\* When BlockUntilSyncedToCurrentChain has returned, the tip the caller saw has an
\* entry and keeps it, even if stale callbacks take the index back for a while.
AnswerHolds == answer = "ready" => Found(asked)

\* No callback and no sync step finds an index it cannot rewind or extend, and no
\* start finds its data damaged.  m_best_block_index is read as nullptr in one
\* window only: the callback for the first block of all is queued or running.
NeverFatal ==
    /\ node \notin {"fatal", "corrupt"}
    /\ node = "null" => current = First \/ \E i \in 1..Len(pending) : pending[i] = First

\* The assertion in Rewind holds: the tip it is given is m_best_block_index.
RewindFromBest == node # "assertion"

\* While the node is up, the index gets in sync and reaches the tip.
GetsInSync == (node = "up") ~> (node # "up" \/ (m_synced /\ AtTip))
=============================================================================
