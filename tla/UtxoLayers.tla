------------------------------ MODULE UtxoLayers ------------------------------
(***************************************************************************)
(* What the coins cache hierarchy promises its users: three plain maps     *)
(* from outpoints to coins, each labelled with the block it is the UTXO    *)
(* set of.  The durable map only ever changes to the whole of the tip map, *)
(* and the tip map only to the whole of the scratch view a block is        *)
(* connected or disconnected in.  Nothing here knows of entries, flags,    *)
(* partial caches or evictions.                                            *)
(***************************************************************************)
CONSTANTS Outpoints, AllCoins, Blocks, Null

VARIABLES
    disk, diskBest,    \* the database and its best block
    tip,  tipBest,     \* the state after the blocks of the active chain
    work, workBest     \* the scratch view

vars == <<disk, diskBest, tip, tipBest, work, workBest>>

UtxoMap == [Outpoints -> AllCoins]

Init == /\ disk \in UtxoMap /\ diskBest \in Blocks \cup {Null}
        /\ tip = disk       /\ tipBest = diskBest
        /\ work = disk      /\ workBest = diskBest

\* Create or spend one coin of the scratch view.
Write == /\ \E o \in Outpoints, c \in AllCoins : work' = [work EXCEPT ![o] = c]
         /\ UNCHANGED <<disk, diskBest, tip, tipBest, workBest>>

Label == /\ workBest' \in Blocks
         /\ UNCHANGED <<disk, diskBest, tip, tipBest, work>>

Commit == /\ workBest # Null
          /\ tip' = work /\ tipBest' = workBest
          /\ UNCHANGED <<disk, diskBest, work, workBest>>

Discard == /\ work' = tip /\ workBest' = tipBest
           /\ UNCHANGED <<disk, diskBest, tip, tipBest>>

Persist == /\ tipBest # Null
           /\ disk' = tip /\ diskBest' = tipBest
           /\ UNCHANGED <<tip, tipBest, work, workBest>>

Next == Write \/ Label \/ Commit \/ Discard \/ Persist

Spec == Init /\ [][Next]_vars
=============================================================================
