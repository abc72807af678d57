------------------------------ MODULE CoinsCache ------------------------------
(***************************************************************************)
(* The three levels of coins views of a chainstate: the coins database     *)
(* (CCoinsViewDB), the cache over it (Chainstate::CoinsTip()) and the      *)
(* temporary CCoinsViewCache over the tip in which ConnectTip and          *)
(* DisconnectTip apply a block before flushing or dropping it.             *)
(*                                                                         *)
(* A closed view is an empty one: nothing distinguishes the two.           *)
(***************************************************************************)
EXTENDS CoinEntry

CONSTANTS
    Outpoints, \* COutPoint
    Blocks,    \* block hashes
    Null       \* the null hash

ASSUME BlockAssumption == Null \notin Blocks

VARIABLES
    db,        \* the records of the database
    dbBest,    \* DB_BEST_BLOCK, Null when absent
    tip,       \* cacheCoins of CoinsTip()
    tipBest,   \* its hashBlock member, Null until it is first asked for
    view,      \* cacheCoins of the temporary view
    viewBest   \* its hashBlock member

cacheVars == <<db, dbBest, tip, tipBest, view, viewBest>>
dbVars == <<db, dbBest>>
tipVars == <<tip, tipBest>>
viewVars == <<view, viewBest>>

EmptyCache == [o \in Outpoints |-> NoEntry]

CacheInit == /\ db \in [Outpoints -> AnyCoin] /\ dbBest \in Blocks \cup {Null}
             /\ tip = EmptyCache  /\ tipBest = Null
             /\ view = EmptyCache /\ viewBest = Null

\* The coin a reader of the tip, and of the view, sees at o.
TipCoin(o) == GetCoin(tip[o], db[o])
ViewCoin(o) == GetCoin(view[o], TipCoin(o))

-----------------------------------------------------------------------------
\* GetBestBlock caches the answer of the base in each level it passes.
LazyBest(best, base) == IF best = Null THEN base ELSE best

TipGetBestBlock == /\ tipBest' = LazyBest(tipBest, dbBest)
                   /\ UNCHANGED <<dbVars, tip, viewVars>>

ViewGetBestBlock ==
    /\ tipBest' = IF viewBest = Null THEN LazyBest(tipBest, dbBest) ELSE tipBest
    /\ viewBest' = LazyBest(viewBest, LazyBest(tipBest, dbBest))
    /\ UNCHANGED <<dbVars, tip, view>>

\* A lookup through the tip (GetCoin, AccessCoin or HaveCoin).
TipAccess(o) == /\ tip' = [tip EXCEPT ![o] = FetchCoin(@, db[o])]
                /\ UNCHANGED <<dbVars, tipBest, viewVars>>

\* A lookup through the view asks the tip only when the view has no entry.
FetchThroughTip(o) ==
    tip' = IF view[o] # NoEntry THEN tip
           ELSE [tip EXCEPT ![o] = FetchCoin(@, db[o])]

ViewAccess(o) == /\ FetchThroughTip(o)
                 /\ view' = [view EXCEPT ![o] = FetchCoin(@, TipCoin(o))]
                 /\ UNCHANGED <<dbVars, tipBest, viewBest>>

\* A caller that does not pass possible_overwrite vouches that the coin does
\* not exist (the BIP30 check of ConnectBlock, or the HaveCoin of AddCoins and
\* ApplyTxInUndo).
ViewAddCoin(o, coin, possible_overwrite) ==
    /\ possible_overwrite \/ ViewCoin(o) = Spent
    /\ view' = [view EXCEPT ![o] = AddCoin(@, coin, possible_overwrite)]
    /\ UNCHANGED <<dbVars, tipVars, viewBest>>

ViewSpendCoin(o) == /\ FetchThroughTip(o)
                    /\ view' = [view EXCEPT ![o] = SpendCoin(@, TipCoin(o))]
                    /\ UNCHANGED <<dbVars, tipBest, viewBest>>

ViewSetBestBlock(b) == /\ viewBest' = b
                       /\ UNCHANGED <<dbVars, tipVars, view>>

\* view.Flush(): BatchWrite to the tip.  Every caller has set the best block.
ViewFlush == /\ viewBest # Null
             /\ tip' = [o \in Outpoints |-> BatchWriteEntry(view[o], tip[o])]
             /\ tipBest' = viewBest
             /\ view' = EmptyCache
             /\ UNCHANGED <<dbVars, viewBest>>

\* The view goes out of scope.
ViewDrop == /\ view' = EmptyCache /\ viewBest' = Null
            /\ UNCHANGED <<dbVars, tipVars>>

TipUncache(o) == /\ tip' = [tip EXCEPT ![o] = UncacheEntry(@)]
                 /\ UNCHANGED <<dbVars, tipBest, viewVars>>

-----------------------------------------------------------------------------
\* CCoinsViewDB::BatchWrite of the whole tip cache.  FlushStateToDisk asks
\* GetBestBlock first and writes nothing while it is null.
WriteTip == /\ LazyBest(tipBest, dbBest) # Null
            /\ db' = [o \in Outpoints |-> WriteRecord(tip[o], db[o])]
            /\ tipBest' = LazyBest(tipBest, dbBest)
            /\ dbBest' = tipBest'
            /\ UNCHANGED viewVars

TipFlush == /\ WriteTip
            /\ tip' = EmptyCache

TipSync == /\ WriteTip
           /\ tip' = [o \in Outpoints |-> SyncEntry(tip[o])]

CacheNext == \/ TipGetBestBlock \/ ViewGetBestBlock
             \/ \E o \in Outpoints :
                   \/ TipAccess(o) \/ ViewAccess(o) \/ TipUncache(o)
                   \/ ViewSpendCoin(o)
                   \/ \E coin \in Coins, possible_overwrite \in BOOLEAN :
                         ViewAddCoin(o, coin, possible_overwrite)
             \/ \E b \in Blocks : ViewSetBestBlock(b)
             \/ ViewFlush \/ ViewDrop \/ TipFlush \/ TipSync

CacheSpec == CacheInit /\ [][CacheNext]_cacheVars

-----------------------------------------------------------------------------
Cache == [Outpoints -> ValidEntry \cup {NoEntry}]

\* Every level holds values of its type, and no cache holds an entry whose flags
\* CCoinsViewCache::SanityCheck asserts to be impossible.
CacheTypeOK == /\ db \in [Outpoints -> AnyCoin]
               /\ tip \in Cache /\ view \in Cache
               /\ {dbBest, tipBest, viewBest} \subseteq Blocks \cup {Null}

\* The flags of the tip tell the truth about the database, whatever was
\* fetched, flushed, synced or uncached before.
TipSound == \A o \in Outpoints : SoundEntry(tip[o], db[o])

\* The flags of the view tell the truth about the tip below it, also after the
\* tip is flushed, synced or uncached while the view is open.
ViewSound == \A o \in Outpoints : SoundEntry(view[o], TipCoin(o))

\* Flushing the view never throws "FRESH flag misapplied to coin that exists in
\* parent cache", and an AddCoin its caller has vouched for never throws
\* "Attempted to overwrite an unspent coin".
NeverThrows ==
    \A o \in Outpoints :
        /\ ~BatchWriteThrows(view[o], tip[o])
        /\ \A possible_overwrite \in BOOLEAN :
              possible_overwrite \/ ViewCoin(o) = Spent
                  => ~AddCoinThrows(view[o], possible_overwrite)

\* The hierarchy behaves as three labelled maps: the coins and the best block
\* read through a level are those of the abstract map of that level, and they
\* change only by the abstract steps.  In particular evicting, fetching, the
\* FRESH short cuts and the lazy best block are invisible.
Layers == INSTANCE UtxoLayers WITH
    AllCoins <- AnyCoin,
    disk     <- db,
    diskBest <- dbBest,
    tip      <- [o \in Outpoints |-> TipCoin(o)],
    tipBest  <- LazyBest(tipBest, dbBest),
    work     <- [o \in Outpoints |-> ViewCoin(o)],
    workBest <- LazyBest(viewBest, LazyBest(tipBest, dbBest))

Refines == Layers!Spec
=============================================================================
