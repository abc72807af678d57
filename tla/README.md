# TLA+ models of HobbyHash Core

HobbyHash Core 27.1.1 is a full node derived from Bitcoin Core 27.1. It differs
from it in its difficulty schedule (three activations that shorten the retarget
interval to one block) and in its issuance (a premine in block 1, 45 coins a
block, halvings every 840,000 blocks). The C++ source is in
`src/hobbyhash-clean/src/src/`; paths below are relative to it. `PROJECT.json`
maps every definition to the lines it models.

## The system

| part | state | operations | talks to |
|---|---|---|---|
| coins views (`coins.cpp`, `txdb.cpp`) | cached coins with DIRTY/FRESH flags, best block per level | fetch, add, spend, flush, sync, uncache | chain selection, mempool, wallet RPCs |
| block index and chain selection (`validation.cpp`, `node/blockstorage.cpp`, `chain.cpp`) | `m_block_index`, `nStatus`, `setBlockIndexCandidates`, `m_blocks_unlinked`, `m_failed_blocks`, tip | accept header/block, `ActivateBestChain`, `preciousblock`, `invalidateblock`, `reconsiderblock`, pruning, snapshots | coins views, mempool, peers, indexes |
| difficulty (`pow.cpp`) | none: a function of the header chain | required work, permitted transition | chain selection, headers presync, RPC |
| issuance (`validation.cpp`) | the value of all coins | subsidy, coinbase rule | connect and disconnect |
| script checks (`checkqueue.h`) | work queue, counters | add, loop, wait | `ConnectBlock` |
| callbacks (`scheduler.cpp`, `validationinterface.cpp`) | serial queue | enqueue, drain | wallet, indexes, peers |
| indexes (`index/base.cpp`) | entries, best block, totals | sync thread, callbacks | chain selection, callbacks, RPC |
| mempool (`txmempool.cpp`, `validation.cpp`) | transactions, links, ancestor/descendant totals | accept, replace, trim, reorganise | chain selection, peers, miner |
| peers (`net_processing.cpp`, `txrequest.cpp`, `txorphanage.cpp`, `headerssync.cpp`) | requests, orphans, blocks in flight, presync | messages, timeouts | everything above |
| addresses, bans, eviction, transports (`addrman.cpp`, `banman.cpp`, `net.cpp`) | tables of peers | add, good, attempt, ban | peers |
| wallet, miner, RPC, GUI | derived data | callbacks, calls | chain selection, mempool |

What makes the code hard: `ActivateBestChain` and `InvalidateBlock` run as many
short sections under `cs_main` and let blocks and operator calls in between;
blocks arrive in any order; several containers duplicate facts about the same
block; caches promise to be invisible; threads hand work to each other through
queues with counters and condition variables; integer rounding is consensus; a
crash may fall between two database batches. `PROJECT.json` lists each such
hazard at its line with the properties that cover it.

## Modules

| module | models | kind |
|---|---|---|
| `CoinEntry` | one entry of a `CCoinsViewCache` and what each method does to it | operators |
| `CoinsCache` | database, `CoinsTip()`, scratch view of `ConnectTip`/`DisconnectTip` | state machine |
| `UtxoLayers` | what the three levels promise: plain labelled maps | abstract specification |
| `BlockTree` | headers: ancestry, work, `CBlockIndexWorkComparator` | operators |
| `Chainstate` | block index, pruning and chain selection with their lock sections | state machine |
| `Recovery` | block files, block index and coins databases, flush, crash, replay; uses `CoinEntry` and `BlockTree` | state machine |
| `Pow` | compact encoding, retarget schedule, header chain | operators and state machine |
| `Supply` | subsidy and coinbase rule along a chain | state machine |
| `CheckQueue` | script checks over a pool of workers | state machine |
| `CallbackQueue` | scheduler, validation interface queue, those who fill and await it, shutdown | state machine |
| `SerialQueue` | what the callback queue promises | abstract specification |
| `BaseIndex` | an index: sync thread, callbacks, commits, restarts; uses `BlockTree`, and `SerialQueue` for its callbacks | state machine |
| `TxRequest` | `TxRequestTracker` | operators |
| `TxRelay` | transaction messages, orphanage, blocks connected and disconnected, over `TxRequest` | state machine |
| `Mempool` | entries, links and totals, acceptance, replacement, reorganisation | state machine |
| `ValidationProofs` | theorems about `Pow`, `Supply`, `CoinsCache` and `CheckQueue` | proofs |
| `BlockTreeProofs`, `ChainstateProofs`, `CandidateProofs` | theorems about `BlockTree` and `Chainstate` | proofs |
| `RecoveryProofs`, `CallbackQueueProofs`, `BaseIndexProofs`, `TxRelayProofs` | theorems about the modules they are named after | proofs |
| `MCCoinsCache`, `MCChainstate`, `MCRecovery`, `MCConsensus`, `MCBaseIndex`, `MCTxRelay`, `MCMempool` | instances for TLC | |

Definitions called a *variant* in a comment are deliberately wrong forms of the
definition after them. No specification uses them; substituted for the right
form they break the property paired with them in `PROJECT.json`, which shows
that the property depends on that piece of code.

### CoinsCache

`db`/`dbBest` are the records of `CCoinsViewDB`; `tip`/`tipBest` and
`view`/`viewBest` are `cacheCoins` and `hashBlock` of the two caches. Every
method is an action. A coin is an opaque value; `Spent` is both a cleared `Coin`
and an absent record. A closed view is an empty one. `ViewAddCoin` without
`possible_overwrite` is guarded by what its callers check first (BIP30,
`HaveCoin`). `CCoinsViewDB::BatchWrite` is one step here; `Recovery` has its
partial batches. `AddCoin` of an unspendable output changes nothing and is not an
action. `EmplaceCoinInternalDANGER` belongs to snapshots and is left out.

### Chainstate

The shape of the tree, the work and the validity of every block are constants:
`WellFormed` blocks pass `ContextualCheckBlock`, `Connectable` ones pass
`ConnectBlock`. The variables are the fields of the block index and of
`ChainstateManager`, and the locals of the running calls (`abc`, `inv`,
`linkQueue`).

* A step is a section under `cs_main`, or one turn of a loop inside it; `Free`
  says that no section is open, and only then another thread can act.
* `m_chainstate_mutex` is `MutexFree`; it excludes `ActivateBestChain` and
  `InvalidateBlock` from each other and not `ResetBlockFailureFlags`,
  `PreciousBlock`'s first part, pruning or arriving blocks.
* `wanted` is a caller that is about to run `ActivateBestChain`: after
  `ProcessNewBlock`, `preciousblock`, `invalidateblock`, `reconsiderblock`.
  Several waiting callers are one, since each does the same.
* `BatchEnd` is `vpindexToConnect.front()`, 32 blocks ahead in the code,
  `ConnectBatch` in the model.
* `unlinked` is the multimap `m_blocks_unlinked`, a sequence of children for each
  parent. `PruneOneBlockFile` removes one block's data, its undo data and
  every entry for it, as the loop in the code does; a pruned block can be
  downloaded again. `ActivateBestChain` and `InvalidateBlock` meet pruned blocks:
  the first puts descendants of missing data back into `unlinked`, or aborts when
  it must disconnect one (`fatal`), the second gives up.
* `partial` records the three situations in which the failure marks and candidates
  are knowingly not exact (below).

### Recovery

Every store exists twice: as the process sees it (`db`, `index`, `files`) and as
a power loss would leave it (`disk`, `diskIndex`, `diskFiles`). `FlushStateToDisk`
is one step per write: block files, index, unlinking of pruned files, then the
batches of `CCoinsViewDB::BatchWrite`, each with any of the remaining dirty
entries. The block index is written synchronously. The batches of the coins
database are not, and LevelDB's log loses only a tail of them: `Freeze` chooses
the point after which they are lost, so `disk` is always a prefix. `Crash` ends
the process at any step, with or without power loss, and may come again during
the replay.

A coin is the height of its block, which tells the same transaction on two
branches apart. Blocks are applied through the entry operators of `CoinEntry`, so
the flags of the caches matter here too; `Utxo` says which coins are expected, from
the transactions alone: the last block of the chain that has to do with an outpoint
decides. `chain` differs from `cacheBest` inside `ConnectTip` and
`DisconnectTip`, where the code may flush before it moves the tip. Any sequence
of connections and disconnections is allowed, which covers every chain selection.

Every block has a file of its own. With one block to a file the code has synced
earlier files before it starts a new one; files shared by blocks that arrived out
of height order are not modelled. Failed writes abort the node and are left out,
except that a failed sync of block files is only logged: the model assumes it
succeeds.

### Pow and Supply

`Pow` keeps `GetNextWorkRequired` and `PermittedDifficultyTransition` as the two
separate computations they are, with every rounding. Base and widths are
constants because TLC has 32-bit integers: the code's base 256 becomes 4, so the
three-digit mantissa and its sign bit are exercised on targets up to 1023.
Overflow of 256 bits cannot happen: `powLimit` times the largest timespan, eight
weeks in seconds, is below 2^256 on every network that retargets (by a narrow
margin on signet). Header times are limited only by the median time past, as in
the code; the two-hour limit on the future depends on the clock and is left out,
which allows more chains. The proof-of-work hash itself is an input.

`Supply` lets a block collect any fees from existing coins and claim all or none
of its reward, and disconnects blocks by undo data.

### CheckQueue

One step is one critical section of `m_mutex`; `pc` tells where each thread is
between two sections and `vChecks`, `fOk` are its locals. The queue is a set and a
batch any part of it of the size the code computes from `nTodo`, `nTotal` and
`nIdle`, since "the order of booleans doesn't matter". A control belongs to one
master at a time (`ControlMutex`); a master adds checks in any number of portions,
then runs the loop itself. Waiting threads may wake spuriously. `Destroy` is the
destructor: request to stop, notification, join.

### CallbackQueue

Callbacks are numbered as they are enqueued; `done` counts those that ran. The
threads are the scheduler's (`serviceQueue`), those that enqueue under `cs_main`
(`ActivateBestChain`, which first waits in `LimitValidationInterfaceQueue`, and
`BroadcastTransaction`, which may wait for a promise after it has released
`cs_main`), and `Main`, which runs `Shutdown`: it stops the scheduler, joins its
threads and then `m_thread_load` (`Loader`, one of those that activate), flushes
the chain state, empties the queue and flushes again. Other callers are gone when
`Shutdown` begins; `Loader` may still call. The second flush enqueues a
`ChainStateFlushed` that nobody runs. A callback may take `cs_main`, so it runs only
while that is free. Tasks scheduled for later times are left out: the queue of the
validation interface never makes one.

### BaseIndex

`pindex` and `thread` are the locals of `ThreadSync`; `m_best_block_index`,
`m_synced`, the entries by height and by hash and the running totals are the
index; `committed` is what `Commit` last wrote. Callbacks are events of a
`SerialQueue`, which `CallbackQueue` implements; a callback takes several steps,
one for each write. `Rewind` is two: `RewindData` is the batch of `CustomRewind`,
`RewindBest` the commit of the new best block; the sync thread holds `cs_main` over
both. Validation moves its tip and flushes at any moment, a stop and a new start
may come in between, and a client calls `BlockUntilSyncedToCurrentChain`.
Statistics and filters are abstracted to *which block* an entry or the totals stand
for.

`ConnectTip` and `DisconnectTip` may flush before they set the tip. `FlushIfNeeded`
is that flush, `moving` the block the tip is on its way to while `cs_main` is held:
the coins on disk are one step ahead of `m_chain`, and `ChainStateFlushed` is queued
before the `BlockConnected` of the blocks being connected. It is modelled for moves
to a block one higher, on any branch, or one lower; it is left out while the very
first block is connected, when the coins cache cannot be over its limit.

`node` tells why a node is not up: an assertion failed, a fatal error, damaged data,
a null pointer, or a start that `Init` refuses because the block index does not have
the committed best block (`index/base.cpp:107`). The last happens only after a crash
that lost the end of the block index. Failing writes are left out, with them the
branch of `Rewind` that sets the best block back (`index/base.cpp:252`).

### TxRequest and TxRelay

Announcements of different hashes never interact, so the tracker is a function
from peers to announcements for every hash, and each method an operator on it;
`PassTime` and `TurnBack` are the bodies of `SetTimePoint`'s two loops, `PassedTime`
and `TurnedBack` the loops: a turn for each announcement that is due, or early, when
the loop begins. Times are relative to the present. Several announcements by one
message (`AddTxAnnouncements`) are added in an order that is arbitrary, until the
peer's limit is reached.

`TxRelay` is what `PeerManager` does with it: `inv`, `tx` (also with a stripped
witness), `notfound`, the request loop of `SendMessages`, the orphanage with its work
sets, its limit and its refusal of heavy transactions, `FinalizeNode`, local
submission, and the rejection and confirmation filters behind `AlreadyHaveTx`.
Blocks are connected (`ConnectTip`) and disconnected (`DisconnectTip`, with what
`MaybeUpdateMempoolForReorg` puts back) while the callbacks for earlier ones wait in
`callbacks`; `block` is the one `BlockConnected` is working on, in its three
sections, and `BlockDisconnected` empties the confirmation filter. Validation is
abstracted to its outcomes. The filters are exact sets: false positives of the
rolling bloom filters, and their turnover, are left out, except that the rejects are
cleared by a new tip.

Two histories are for the properties. `quiet` has the transactions that entered the
mempool or the chain without a `tx` message; nobody told the tracker of those in
the mempool, and no orphan is queued for them. `touched` has those that a block
confirmed or conflicted with; an orphan among them is about to be erased, or its
inputs were spent and came back with a reorganisation, which queues nothing.

### Mempool

`pool` holds, for every entry, links to parents and children and the cached
ancestor and descendant totals, with `mapNextTx` and `mapDeltas`. An action is a
section under `cs_main` and the pool's lock: `AcceptToMemoryPool` (with conflicts,
replacement, limits and trimming), `PrioritiseTransaction`, `ActivateBestChainStep`
(blocks disconnected and connected, with or without an invalid block at the end)
and `InvalidateBlock`. Inside an action the operators follow the code through the
states in which links are incomplete: `removeForBlock`, `UpdateForDescendants`,
`removeForReorg`, `TrimToSize`, `Expire`. `policy` has the transactions that the
checks of standardness and the script checks refuse (`IsStandardTx`,
`AreInputsStandard`, `PolicyScriptChecks` and the like); blocks may contain them, and
a reorganisation then cannot put them back. All transactions have the same size, so
sizes are counts. Packages, v3 rules, relative lock times, the rolling minimum
fee and the unbroadcast set are left out.

## Runs

| run | states | shows |
|---|---|---|
| `coins_cache` | 133,092 | flags truthful at both levels; no logic error; refinement of `UtxoLayers` |
| `arrivals` | 741,050 | out-of-order arrivals on a three-way fork, with blocks pruned and downloaded again: linking, candidates, no regress |
| `operator` | 569,924 | two operator calls of any kind, or a pruned block, anywhere: active chain valid, marks have causes, candidates exact, settled means best, and the best chain is reached and kept |
| `recovery` | 737,043 | two crashes anywhere, the replay included: the coins database names its state, coins exact after every start, disconnecting is clean, failure only for pruned blocks |
| `consensus` | 462,461 | required and permitted difficulty agree at heights before, at and after all three activations and follow block times; minimum-difficulty blocks stay exceptions; circulation stays within the schedule through all 64 halvings |
| `check_queue` | 289,199 | exact verdicts; a waiting master has a worker that owes a report; every control and the destructor end |
| `callback_queue` | 375,142 | refinement of `SerialQueue`; no callback stranded, only the last one dropped; all others run; shutdown ends, but for one way to hang (below) |
| `index_sync` | 1,200,689 | the hand-over leaves no gap; what is committed agrees with the entries and the block index; an answer stays true; no fatal error; the index gets in sync |
| `tx_relay` | 325,082 | the tracker's loops compute what they are for; rejected, orphaned and confirmed transactions are not tracked, also over reorganisations; no orphan is forgotten; an honest announcement is not lost behind silent peers |
| `mempool` | 1,148 | links and totals exact after every reorganisation; the whole pool can be mined; limits kept |

The `mempool` run has few states because each of its steps is a whole
reorganisation with all blocks it may disconnect and connect; its next-state
relation is where the work is.

### Bounds

* `coins_cache`: two outpoints, coins and blocks, because every operation works at
  one outpoint; the proofs remove the bound.
* `arrivals`, `operator`: trees of two or three branches, deep enough that a
  reorganisation disconnects two blocks, connects past its batch (`ConnectBatch`
  2), and meets an invalid block after having disconnected; a short branch can
  have the most work. Two calls interact in every order. `MaxAhead` is
  `MIN_BLOCKS_TO_KEEP`: how far ahead of the tip blocks are stored, and how far
  below it they are pruned.
* `recovery`: two flushes and two crashes, so that a flush from either branch to
  the other, or the first flush of all, is interrupted, and its replay interrupted
  again; the tree rolls back one or two blocks and forward one to three. At most
  one stored block waits to be connected.
* `consensus`: nine headers cross four-, two- and one-block intervals and the
  tighter V3 step; issuance runs over 132 heights with a halving every two.
* `check_queue`: two workers, two masters, four checks, batches of at most two:
  both workers can hold a batch while others are queued, and the second control
  meets what the first left.
* `callback_queue`: two scheduler threads, so that two tasks race for one client;
  three calls with up to two callbacks exceed `Limit` 1. One of the threads that
  activate is the loading thread.
* `index_sync`: three moves of the tip make a reorganisation and its reversal
  during the sync; one flush, also in the middle of a move, and one restart fall
  anywhere between.
* `tx_relay`: a chain of three transactions, one with witness, and up to three
  peers, of which one is preferred and silent and the honest one is last in line.
  `Worlds` lists small situations (who, which transactions, what else may happen)
  in place of one large one; the invariants are also proved without them. `MaxBack`
  lets the clock go back one unit, `MaxCallbacks` lets two callbacks wait, so that a
  block is disconnected while the callback for it has not begun.
* `mempool`: seven transactions with a diamond, conflicts, a lock time and a
  coinbase spend; limits of three ancestors and descendants are exceeded when a
  parent is added back below. `Policies` has two cases: everything is standard, or
  the root of the diamond comes by a block only.

### Fairness

* `Chainstate`: a thread that holds a lock goes on, and a caller waiting for
  `m_chainstate_mutex` gets it. The code's loops have no other waiting inside them
  except for the validation queue, which `CallbackQueue` shows to drain.
* `CheckQueue`: each thread that can run does; a master comes to `Wait()`, as
  `ConnectBlock` always does; the destructor goes on once begun. No spurious
  wake-up is assumed.
* `CallbackQueue`: each thread that can go on does, and gets `cs_main` in the end.
* `BaseIndex`: the sync thread, the callbacks and a waiting client go on, and so
  does who holds `cs_main` in the middle of a move (`FinishMove`).
* `TxRelay`: time passes, the message handler serves every peer, and honest peers
  answer requests. It is stated only for the situations marked `"fair"`, in which
  liveness is checked.

Nothing has to arrive, no operator has to call and no node has to be stopped in
any of them.

Deadlock is checked in every run but those of `Recovery` and `BaseIndex`. A node
whose first block file was pruned before any coins were written has nothing left
to connect and can only be reindexed; an index whose bounds are used up, or which
has stopped, has no step.

### Disagreements found

These runs are expected to be violated. Each compares the code with an assertion
or a test of the repository.

| run | what happens |
|---|---|
| `money_range` | issuance (84 million) exceeds `MAX_MONEY` (21 million), which `subsidy_limit_test` says it does not |
| `index_rewind` | after a reorganisation during the initial sync, `ThreadSync` calls `Rewind` with its own `pindex` while `m_best_block_index` lags behind, against the assertion at `index/base.cpp:239` |

Other observations made while modelling:

* A block received while its unlinked parent is invalidated enters no container
  (`validation.cpp:3657`), so it is not linked when the missing ancestor arrives,
  which `CheckBlockIndex` asserts. Checking `LinkedExact` under `Operator.cfg`
  shows it. It holds without `invalidateblock` (`arrivals`).
* `reconsiderblock` of a descendant clears the marks of its ancestors
  (`validation.cpp:3583`) without making them, or their other descendants,
  candidates: the node stays off its best chain until another block comes.
  `invalidateblock` that gives up at a pruned block does not add back the
  candidates that arrived meanwhile. Checking `CandidatesComplete` under
  `Operator.cfg` shows it.
* `preciousblock` counts `nBlockReverseSequenceId` down from -1 and starts again
  when the chain has grown (`validation.cpp:3389`). Called again on a tip that has
  a lower number, it gives it a higher one: blocks of equal work then sort better
  and are not candidates. It takes three calls, one more than `operator` makes;
  the proof of `ChainCandidatesExact` needs the exception. The properties of
  `operator` except these three situations (`partial`) and nothing else.
* A linked block above a pruned one may be in `m_blocks_unlinked` twice:
  `FindMostWorkChain` inserts it with every candidate built on it
  (`validation.cpp:3070`). It is then linked twice when the data comes back, which
  only gives it another `nSequenceId`. `LinkedExact` says "once" of blocks that are
  not linked.
* `Shutdown` stops the scheduler and joins its threads (`init.cpp:301`) before it
  joins `m_thread_load`, which may be waiting in `LimitValidationInterfaceQueue` for a
  callback that nobody runs any more; the comment at `init.cpp:299` says that both
  are stopped there. `Hung` is that state, which the run reaches. `ShutdownEnds` and
  `EveryCallbackRuns` say that it is the only way in which `Shutdown` does not end:
  without `\/ Hung` both are violated.
* An index started before there is any block is in sync with a null
  `m_best_block_index`. `BlockUntilSyncedToCurrentChain` dereferences it
  (`index/base.cpp:377`) if it is called after the first block was connected and
  before its callback has run. The model reaches this (`node = "null"`);
  `NeverFatal` says that there is no other window, in particular none for
  `ChainStateFlushed` once that callback is through.
* `getnetworkhashps -1` (`rpc/mining.cpp:77`) uses the interval from before the
  activations.
* A replay fails only in prune mode (`FailsOnlyIfPruned`), where the advice of
  `node/chainstate.cpp:129`, `-reindex-chainstate`, is refused by `init.cpp:951`.
* The correction of failure marks at `validation.cpp:3493` never applies: the
  block it asks about is on the active chain, which has no failed block. The proof
  of `ChainFailedMarks` uses exactly that.
* `CheckBlockIndex` runs by default on regtest only. `block_subsidy_test`
  (`test/validation_tests.cpp:24`) still expects 50 coins at height 0.

## Proofs

The proofs are for every value of the constants, within the assumptions named below,
which TLC evaluates for the instances. A leaf is tried with Zenon unless it names
another prover (`USE Zenon` at the head of each module).

### Coins

`ValidationProofs`, for any sets of outpoints, coins and blocks: `CacheTypeOK`,
`TipSound`, `ViewSound` and `NeverThrows` are invariants of `CoinsCache`, and
`Refines` holds. The inductive invariant is `CacheTypeOK /\ TipSound /\ ViewSound`:
soundness of the view alone is not inductive, because what the view reads through
changes when the tip is written or evicted. The lemmas state, for one entry, what
each method preserves; `OutpointByOutpoint` lifts them to caches; then one lemma per
group of actions shows that it is an abstract step or a stutter. Assumptions:
`CoinAssumption` (a spent coin is no coin, no entry is no entry) and
`BlockAssumption` (the null hash is no block).

### Recovery

`RecoveryProofs`, for every tree of valid blocks and any number of flushes, prunings,
crashes and interrupted replays: `DiskConsistent`, `CoinsExact`, `FailsOnlyIfPruned`
and `DisconnectsCleanly`. The inductive invariant `IInv` says, at every step of a
flush or a replay,

* `NamesItsState`, of the database as the process reads it and as a power loss would
  leave it: it holds the coins of its best block, or at every outpoint the coin of
  one of its two heads;
* `Undos`: undo data that can be read gives back the coins of the parent
  (`RightUndo`), also when it was written before a crash that lost the index entry;
* `Cached`: the cache shows the coins of its best block, with truthful flags; while
  it is being written, what has been written is right and what has not is in the
  batch;
* `Stores`: each index claims only what its files hold, and how far the flush is;
* `Chains`: both indexes keep the chain of every tip that a start may have to go to or
  come from, but for what may be pruned. `FailsOnlyIfPruned` rests on it.

The heart of it is `ReplayShows`. An interrupted flush leaves any mixture of the coins
of two tips, and a second interruption, during the replay, another one. Going back
over a block of the old branch makes the coins at the outpoints it touches those of
its parent, whatever was there, and leaves the others; going forward likewise. So the
coins stay a mixture of where the replay is and the new tip (`Mixed`): an outpoint
where the old branch differs from the fork is touched by some block of it, and is
right for the fork once that block is passed. At the end both are the new tip. This
needs that `AddCoin` is told truthfully whether it overwrites, which is why the flags
are part of `Mixed`, and it does not need the rollback to be clean. Assumptions:
`TreeAssumption`, `CoinAssumption` and `RecoveryAssumption`: blocks are valid, that is,
each spends what its chain has and creates what it has not, and a coin is known by the
height of its block.

### Chain selection

`ChainstateProofs`, for every finite tree, every choice of the invalid blocks, any
batch size and any number of calls: `ActiveChainValid` and `FailedMarksExact`. The
inductive invariant `IInv` adds to them

* `Chained`: the blocks linked or being linked are closed under parents, and the
  tip, the candidates and the goals of the running calls are among them;
* `Clear`: the chain `ActivateBestChain` is heading for has no failed block, also
  after it has released `cs_main`. This is what makes connecting its blocks safe,
  and it needs the mutex (`Locked`), since only `InvalidateBlock` and a failed
  connection mark blocks that had been accepted;
* `Stored`: the index is a tree, marks are on blocks in it, data is of blocks that
  were received, which are well formed;
* `Marked`: `FailedMarksExact` at every step, not only when `cs_main` is free.

There is one lemma per action. Assumptions: `TreeAssumption`, whose last conjunct
(every set that has the root and the children of its members is all of `Blocks`)
says that the blocks are a tree, and `ChainstateAssumption`. `BlockTreeProofs`
derives from it that the recursive functions `Height`, `Work` and `Anc` exist and
what they compute: `AncDef`, `AncClosed`, `AncLine` (two ancestors of a block are
ancestors of one another), `NextOnBranch`, `BestExists`. The induction is over
sets of blocks given by that conjunct, which is why no induction theorem of the
library is needed.

`CandidateProofs` continues with the choice of the chain, for every finite tree
and any number of calls of any kind: `CandidatesExact`, `NoRegress` and
`BestWhenSettled`. They are proved from `PruneBelowForks`: a block deep enough to be
pruned is below every fork of the tree, so that no reorganisation is deeper than
`MIN_BLOCKS_TO_KEEP`. It is true of every tree if nothing is pruned, and of the
instance `operator`; `arrivals` checks forks beyond it. The invariant `JInv` adds
to `IInv`

* `Complete`: the candidates are complete at every step. While a section of
  `ActivateBestChain` has gone back to a fork, only relative to the tip it started
  from: blocks between the two were discarded before it and are not candidates;
* `Goal`: that tip can be returned to, since its chain is linked, unmarked and
  valid, and is not worse than the present tip until the section moves up;
  `NoRegress` follows from these two, because when a chain proves invalid the
  starting tip is a candidate again;
* `Settled`: nothing sorts better than the tip, or than the block the running call
  heads for, or a caller is waiting; `Held` says that whoever links blocks is such
  a caller. `BestWhenSettled` follows from `Complete` and `Settled`;
* `Kept`, `Fresh`, `NotWorse`, `Ahead`: only blocks below all forks lack data, a
  block waits at most once and not when linked, no candidate is worse than the tip,
  and a call that goes up does not leave its target.

`PruneBelowForks` is a real restriction: where it holds no candidate ever lacks data,
so these theorems say nothing about the branch of `FindMostWorkChain` that puts
descendants of pruned blocks back (`validation.cpp:3066`), which only the runs reach.

With `preciousblock` and pruning below all forks as the only calls (`NoReset`,
`PruneBelowForks`), `LinkedExact` is an invariant; with no calls and nothing pruned,
`CandidatesComplete` is, without exception. The former needs `KInv`: a received
block that is not linked waits for its parent or is above an invalid block that was
never received (`Blocked`); the lowest missing ancestor of a block then decides.
Without these hypotheses the two statements are false (see above).

### Difficulty and issuance

`ValidationProofs`, for any schedule and any chain of headers: `PermittedChain`,
`FollowsTime` and `MinDifficultyIsTemporary`. The inductive invariant `RInv` says
that the bits of every header are what `GetNextWorkRequired` asks for after its own
ancestors, which a fork keeps. The first theorem is monotonicity: clamping puts the
timespan between the bounds, scaling, the limit and the encoding keep the order, so
the required target lies between the two that `PermittedDifficultyTransition`
computes. The second adds that a step of an eighth survives the three roundings; it
needs `StepsMatter`, that the V3 limit leaves room for an eighth (on the main
network it is `150 * 5 / 4`, rounded down). The third follows the walk back to the
start of the interval; it needs `OneSchedule`, as on the test networks, where no
activation changes the interval. Assumptions: `PowAssumption` (sane parameters) and
`RoundAssumption` (encoding a target rounds down, keeps the order, is idempotent,
and tells apart targets an eighth apart), which TLC evaluates for the instance.

The same module proves `SupplyOnSchedule` for every interval, premine, set of fees
and depth of reorganisation (`AmountsAssumption`: none is negative). The invariant `SInv`
bounds, besides the supply, the amounts that undo data would restore. `Issued` sums
by interval and `GetBlockSubsidy` pays by block; `IssuedStep` shows that they agree
at every height, over the ends of intervals and after the last halving, and
`IssuedBound` that the sum converges. Inductions over numbers are by the least
counterexample (`Climb`), which also yields that the recursive functions exist
(`StepsExist`).

### Queues and indexes

`ValidationProofs`, for any numbers of workers, masters, checks and controls and
any batch size of `CheckQueue`: `TypeOK` (`nTodo` is unsigned), `TodoExact`, `VerdictExact`,
`CleanBetweenControls` and `MasterNotForgotten`. The invariant says where each
check is (`Placed`), that `nTodo` counts those not reported (`Counted`), that a
failure is always in `fAllOk`, in somebody's `fOk` or not yet found (`Judged`),
that one master is inside (`Exclusive`) and what a master that waits or returns
may rely on (`Attended`). A section of the loop reports one batch and takes
another; `SectionTodo` gives the arithmetic once for all of them. Assumption:
`CheckQueueAssumption` (finite sets, distinct threads, a batch of at least one).

`CallbackQueueProofs`, for any numbers of threads and any limit: `TypeOK`,
`InOrder`, `NotStranded`, `OnlyLastDropped`, and that `CallbackQueue` implements
`SerialQueue`. The invariant adds that `m_are_callbacks_running` is one thread's
(`Alone`), that the queue holds the last numbers in order and everything before them
is done but for the callback that runs (`Numbered`), who is gone at each stage of
`Shutdown` (`Quiet`), and that its second flush finds an empty queue (`Flushed`).
Refinement follows from `Alone` and `Numbered`: taking a callback is `Start`,
completing it `Finish`, adding one an `Enqueue`, and every other step leaves what
the serial queue sees. Assumption: `CallbackAssumption`.

`BaseIndexProofs`, for every finite tree and any number of moves, flushes and
starts: `IndexExact`, `CommittedUsable`, `AnswerHolds` and `NeverFatal`. The
invariant says which thread writes (`Threads`), which block the data is about at
every step of it (`Stand`, `Data`), what is there between the two writes of a rewind
(`Rewinding`), that the block index has every block the index may commit
(`Indexed`), and what the queued callbacks amount to. That last part is where the
argument lies, because a callback for a block whose parent is not below the index is
declined: every block connected is on the chain of the one connected before it
(`Linked`), and from the first callback that is taken on all are taken, so that the
index comes to the tip (`Arrives`) and to any block a caller waits for (`Promised`),
while the callback for the root comes at most once and finds an empty index
(`Opening`). Assumptions: `TreeAssumption` and `IndexAssumption` (a null pointer is
no block and no callback).

### Transactions

`TxRelayProofs`, for any numbers of peers, transactions and hashes, any priorities,
delays and limits and any situations (`Worlds`): `TypeOK`, `TrackerSane`,
`KnownNotTracked` and `OrphanQueued`. The inductive invariant is
`RelayInv /\ Chained`, with `RelayInv == Types /\ Tracked /\ Untracked /\ OrphanQueued`.

* `Tracked`: the announcements of every hash are sane (`Sane`, which is `SanityCheck`
  and that times never read again are zero), and there is none of a peer that has
  left. A lemma for each method of the tracker says what it does to a sane row, and
  that it adds no announcement (`Absent`).
* `SetTimePointFacts`: the two loops end in `AtTimePoint`, which says in one
  expression what they are for. A turn of the first loop takes one announcement out
  of `Due` for good and one of the second out of `Early` (`LoopEnds`), and after each
  turn the row is the starting one with some of its announcements dealt with
  (`Passing`, `Turning`). A request that expires can empty the row at any turn. The
  order in which announcements are dealt with does not matter.
* `Untracked` says what `KnownNotTracked` says, ordered by why a hash is known.
  *Both* hashes of an orphan are not tracked, although `AlreadyHaveTx` looks up only
  one: when an orphan is accepted or refused from a work set, `ProcessOrphanTx`
  forgets nothing, and what makes that right is that the orphan's arrival forgot
  both. A confirmed hash may be tracked only while `BlockConnected` stands between
  its last two sections with that block, whatever blocks came or went since.
* `Chained`: blocks and callbacks have their form, and what the chain has or has
  spent a block has touched. `OrphanQueued` needs it when a parent leaves the chain.

Assumptions: `RequestAssumption` (finitely many peers, priorities differ) and
`RelayAssumption` (transactions share no hash; delays are not negative).

### Only model-checked

* Liveness everywhere, which is outside the prover: `EventuallyBest`, `ControlEnds`,
  `DestructorEnds`, `EveryCallbackRuns`, `ShutdownEnds`, `GetsInSync` and
  `EventuallyKnown`.
* The properties of `Chainstate` on trees with forks deeper than pruning allows for.
* `EntriesExact`, `PoolMineable` and `LimitsKept` of `Mempool`, which computes closures
  and removals with recursive operators; the prover cannot reason about those.
* `TestMinDifficultyIsTemporary` is `MinDifficultyIsTemporary` of the second instance
  of `Pow` in `MCConsensus`, with the parameters of a test network. The theorem
  `PowMinDifficulty` is about every such network.

## Not modelled

* Script and signature checking, serialisation and block contents are pure data
  and enter as constants.
* Disk and database errors abort the node. Interrupts and `BLOCK_MUTATED` results
  are left out of `Chainstate`, as are fork warnings and restarts; restarts are in
  `Recovery` and `BaseIndex`. The mempool's part of a reorganisation is in
  `Mempool`.
* Snapshots and the second chainstate they bring; block files shared by several
  blocks and their cursors.
* Block download (a block requested again after a stall may arrive twice; `Chainstate`
  accepts that), compact blocks, headers presync and the announcement of own
  transactions; connections, transports, addresses and bans.
* The wallet, the miner, fee estimation, RPC decoding, the GUI and the vendored
  libraries. The 123 `.ts` files under `qt/locale` are Qt Linguist translation
  catalogues: message texts in XML, with no behaviour to model.

One hazard has no property: `node/blockstorage.cpp:786` (several blocks in one
file), for the same reason.
`PROJECT.json` gives the reason for every part.
