------------------------------ MODULE CoinEntry ------------------------------
(***************************************************************************)
(* One entry of a CCoinsViewCache (coins.h, coins.cpp): the coin cached    *)
(* for an outpoint together with its DIRTY and FRESH flags, and what each  *)
(* method of the cache does to that entry.  A cache is a function from     *)
(* outpoints to entries, so every method of the class is one of these      *)
(* operators applied at an outpoint, and the same operators describe every *)
(* level of the cache hierarchy.                                           *)
(*                                                                         *)
(* A coin is abstracted to a value of Coins; Spent stands for the cleared  *)
(* Coin object and for "no such coin" in the database, which never stores  *)
(* a spent coin.                                                           *)
(***************************************************************************)
EXTENDS Naturals

CONSTANTS
    Coins,     \* unspent coins
    Spent,     \* a Coin for which IsSpent() holds
    NoEntry    \* cacheCoins.find(outpoint) == cacheCoins.end()

Flags == {"DIRTY", "FRESH"}

AnyCoin == Coins \cup {Spent}

Entry == [coin : AnyCoin, flags : SUBSET Flags]

\* The combinations CCoinsViewCache::SanityCheck accepts: not FRESH alone on an
\* unspent coin (attr 2), not spent without a flag (4), not spent with both (7).
ValidEntry == {e \in Entry : IF e.coin = Spent THEN e.flags \in {{"DIRTY"}, {"FRESH"}}
                                              ELSE e.flags # {"FRESH"}}

\* Spent is not an unspent coin, and the absence of an entry is not an entry.
ASSUME CoinAssumption == /\ Spent \notin Coins
                         /\ NoEntry \notin Entry

-----------------------------------------------------------------------------
\* What a reader of the cache gets for an outpoint: GetCoin, AccessCoin and
\* HaveCoin all answer from the entry if there is one, else from the base.
GetCoin(e, base) == IF e = NoEntry THEN base ELSE e.coin

\* An entry that a lookup pulls in from the base.  base->GetCoin succeeds only
\* on an unspent coin, so nothing is inserted for a spent one and the FRESH
\* branch of the C++ code is never taken.
FetchCoin(e, base) ==
    IF e # NoEntry THEN e
    ELSE IF base = Spent THEN NoEntry
    ELSE [coin |-> base, flags |-> {}]

\* Variant of AddCoin: FRESH although an unflushed spend may be below.
AddCoinFreshOverDirty(e, coin, possible_overwrite) ==
    LET old == IF e = NoEntry THEN {} ELSE e.flags
    IN  [coin  |-> coin,
         flags |-> old \cup {"DIRTY"}
                       \cup (IF possible_overwrite THEN {} ELSE {"FRESH"})]

\* Variant of AddCoin: FRESH although the coin may be an overwrite.
AddCoinFreshOverwrite(e, coin, possible_overwrite) ==
    LET old == IF e = NoEntry THEN {} ELSE e.flags
    IN  [coin  |-> coin,
         flags |-> old \cup {"DIRTY"}
                       \cup (IF "DIRTY" \in old THEN {} ELSE {"FRESH"})]

\* AddCoin does not consult the base.  A coin with an unspendable script is
\* ignored: such a call changes nothing.
AddCoin(e, coin, possible_overwrite) ==
    LET old   == IF e = NoEntry THEN {} ELSE e.flags
        fresh == ~possible_overwrite /\ "DIRTY" \notin old
    IN  [coin  |-> coin,
         flags |-> old \cup {"DIRTY"} \cup (IF fresh THEN {"FRESH"} ELSE {})]

\* The std::logic_error of AddCoin.
AddCoinThrows(e, possible_overwrite) ==
    ~possible_overwrite /\ e # NoEntry /\ e.coin # Spent

SpendCoin(e, base) ==
    LET it == FetchCoin(e, base)
    IN  IF it = NoEntry \/ "FRESH" \in it.flags THEN NoEntry
        ELSE [coin |-> Spent, flags |-> it.flags \cup {"DIRTY"}]

-----------------------------------------------------------------------------
IsDirty(e) == e # NoEntry /\ "DIRTY" \in e.flags

\* CCoinsViewCache::BatchWrite: the entry e of the parent after the child's
\* entry has been written to it.
BatchWriteEntry(child, e) ==
    IF ~IsDirty(child) THEN e
    ELSE IF e = NoEntry
    THEN IF "FRESH" \in child.flags /\ child.coin = Spent THEN NoEntry
         ELSE [coin |-> child.coin, flags |-> child.flags]
    ELSE IF "FRESH" \in e.flags /\ child.coin = Spent THEN NoEntry
    ELSE [coin |-> child.coin, flags |-> e.flags \cup {"DIRTY"}]

\* The std::logic_error of CCoinsViewCache::BatchWrite.
BatchWriteThrows(child, e) ==
    IsDirty(child) /\ e # NoEntry /\ "FRESH" \in child.flags /\ e.coin # Spent

\* CCoinsViewDB::BatchWrite: the database record after the write.
WriteRecord(child, coin) == IF IsDirty(child) THEN child.coin ELSE coin

\* What Sync leaves of an entry once it has been written to the base.
SyncEntry(e) ==
    IF e = NoEntry \/ e.coin = Spent THEN NoEntry
    ELSE [e EXCEPT !.flags = {}]

\* Variant: modified entries are evicted too.
UncacheEntryDirty(e) == NoEntry

UncacheEntry(e) == IF e # NoEntry /\ e.flags = {} THEN NoEntry ELSE e

-----------------------------------------------------------------------------
\* An entry e over a base coin is sound: only a DIRTY entry may differ from the
\* base ("Failure to mark a coin as DIRTY when it is potentially different from
\* the parent cache will cause a consensus failure"), and FRESH says the base
\* has no such coin and the entry is an unwritten, unspent creation.
SoundEntry(e, base) ==
    e # NoEntry => /\ "DIRTY" \notin e.flags => e.coin = base /\ base # Spent
                   /\ "FRESH" \in e.flags => /\ base = Spent
                                             /\ "DIRTY" \in e.flags
                                             /\ e.coin # Spent
=============================================================================
