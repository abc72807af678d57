------------------------------ MODULE Chainstate ------------------------------
(***************************************************************************)
(* The block index and the choice of the active chain (validation.cpp):    *)
(* headers and blocks arrive in any order, ActivateBestChain moves the tip *)
(* to the best candidate one locked section at a time, and an operator     *)
(* marks blocks invalid, valid again or precious while it runs.  The data  *)
(* of old blocks may be pruned and downloaded again.                       *)
(*                                                                         *)
(* Locks.  cs_main is held through a step, or through the run of steps in  *)
(* which Free is false: the linking of a received block and the inner loop *)
(* of ActivateBestChain.  m_chainstate_mutex is held while abc.pc is not   *)
(* "idle" or inv is not None, also when cs_main is released in between.    *)
(*                                                                         *)
(* A file holds one block, there is one chainstate, and the only errors    *)
(* that abort the node are reads of pruned data.                           *)
(***************************************************************************)
EXTENDS BlockTree, Functions, Sequences

CONSTANTS
    WellFormed,    \* blocks ContextualCheckBlock accepts
    Connectable,   \* blocks ConnectBlock accepts
    None,          \* a null CBlockIndex pointer
    ConnectBatch,  \* 32: blocks ActivateBestChainStep collects at a time
    MaxAhead,      \* MIN_BLOCKS_TO_KEEP
    MinWork,       \* MinimumChainWork()
    Calls,         \* what the operator may ask, or be pruned: <<call, block>>
    MaxCalls       \* bound on the number of operator calls and pruned files

ASSUME ChainstateAssumption ==
    /\ Genesis \in WellFormed \cap Connectable
    /\ None \notin Blocks
    /\ None \notin [pindex : Blocks, toMarkFailed : Blocks, byWork : SUBSET Blocks]
    /\ {ConnectBatch, MaxAhead} \subseteq Nat \ {0} /\ {MinWork, MaxCalls} \subseteq Nat
    /\ Calls \subseteq {"precious", "invalidate", "reconsider", "prune"} \X Blocks

VARIABLES
    index,        \* keys of m_block_index
    valid,        \* nStatus & BLOCK_VALID_MASK
    status,       \* the other bits of nStatus
    received,     \* blocks with nTx > 0
    linked,       \* blocks with nChainTx > 0: HaveNumChainTxs()
    seqId,        \* nSequenceId
    unlinked,     \* m_blocks_unlinked: the entries of a parent in insertion order
    failedBlocks, \* m_failed_blocks
    bestHeader,   \* m_best_header
    bestInvalid,  \* m_best_invalid
    candidates,   \* setBlockIndexCandidates
    tip,          \* m_chain.Tip(); m_chain is Anc[tip]
    counters,     \* nBlockSequenceId, nBlockReverseSequenceId, nLastPreciousChainwork
    linkQueue,    \* the queue of ReceivedBlockTransactions
    abc,          \* locals of the running ActivateBestChain
    inv,          \* locals of the running InvalidateBlock
    wanted,       \* a caller is waiting to run ActivateBestChain
    calls,        \* operator calls made so far
    partial       \* a block with a failed ancestor was reconsidered, InvalidateBlock
                  \* met a pruned block and gave up, or PreciousBlock gave the tip
                  \* a later nSequenceId than it had

indexVars == <<index, valid, status, received, linked, seqId, unlinked>>
markVars == <<failedBlocks, bestHeader, bestInvalid>>
chainVars == <<candidates, tip>>
threadVars == <<abc, inv, wanted>>
callVars == <<calls, partial>>
vars == <<indexVars, markVars, chainVars, counters, linkQueue, threadVars, callVars>>

TREE == 2
TRANSACTIONS == 3
SCRIPTS == 5

Failed(b) == status[b] \cap {"FAILED_VALID", "FAILED_CHILD"} # {}
IsValid(b, upTo) == ~Failed(b) /\ valid[b] >= upTo
HaveData(b) == "HAVE_DATA" \in status[b]

\* cs_main is not held between two steps.
Free == linkQueue = <<>> /\ abc.pc \notin {"find", "step", "fatal"}

\* m_chainstate_mutex is not held.
MutexFree == abc.pc = "idle" /\ inv = None

Idle == [pc |-> "idle", mostWork |-> None, starting |-> None, old |-> None,
         connected |-> FALSE]

Init ==
    /\ index = {Genesis} /\ received = {Genesis} /\ linked = {Genesis}
    /\ valid = [b \in Blocks |-> IF b = Genesis THEN SCRIPTS ELSE 0]
    /\ status = [b \in Blocks |-> IF b = Genesis THEN {"HAVE_DATA"} ELSE {}]
    /\ seqId = [b \in Blocks |-> IF b = Genesis THEN 1 ELSE 0]
    /\ unlinked = [b \in Blocks |-> <<>>] /\ failedBlocks = {}
    /\ bestHeader = Genesis /\ bestInvalid = None
    /\ candidates = {Genesis} /\ tip = Genesis
    /\ counters = [sequence |-> 2, reverse |-> -1, lastPrecious |-> 0]
    /\ linkQueue = <<>> /\ abc = Idle /\ inv = None
    /\ wanted = FALSE /\ calls = 0 /\ partial = FALSE

Mark(blocks, bits) ==
    [b \in Blocks |-> IF b \in blocks THEN status[b] \cup bits ELSE status[b]]

-----------------------------------------------------------------------------
(***************************************************************************)
(* Headers and blocks arriving.                                            *)
(***************************************************************************)

\* Variant: the ancestry test is missing.
FailedAnywhere(b) == IF IsValid(Prev[b], SCRIPTS) THEN {} ELSE failedBlocks

\* The m_failed_blocks the parent of b descends from.  The loop over them is
\* skipped when the parent is known to be SCRIPTS valid.
FailedAbove(b) == IF IsValid(Prev[b], SCRIPTS) THEN {}
                  ELSE failedBlocks \cap Anc[Prev[b]]

\* AcceptBlockHeader returns true.
HeaderAccepted(b) ==
    IF b \in index THEN ~Failed(b)
    ELSE Prev[b] \in index /\ ~Failed(Prev[b]) /\ FailedAbove(b) = {}

\* AddToBlockIndex, for a header that may be known already.
AddToBlockIndex(b) ==
    /\ index' = index \cup {b}
    /\ bestHeader' = IF b \notin index /\ Work[bestHeader] < Work[b] THEN b
                     ELSE bestHeader
    /\ UNCHANGED <<failedBlocks, bestInvalid>>

AcceptBlockHeader(b) ==
    /\ Free /\ b \notin index /\ HeaderAccepted(b)
    /\ AddToBlockIndex(b)
    /\ valid' = [valid EXCEPT ![b] = TREE]
    /\ UNCHANGED <<status, received, linked, seqId, unlinked, chainVars, counters,
                   linkQueue, threadVars, callVars>>

\* A header on top of a failed block that its parent was not yet marked for:
\* the blocks in between are marked now.
RejectBlockHeader(b) ==
    /\ Free /\ b \notin index
    /\ Prev[b] \in index /\ ~Failed(Prev[b])
    /\ \E f \in FailedAbove(b) :
          status' = Mark(Anc[Prev[b]] \ Anc[f], {"FAILED_CHILD"})
    /\ UNCHANGED <<index, valid, received, linked, seqId, unlinked, markVars,
                   chainVars, counters, linkQueue, threadVars, callVars>>

\* AcceptBlock returns before looking at the block's contents.
Ignored(b, fRequested) ==
    \/ HaveData(b)
    \/ ~fRequested /\ \/ b \in received
                      \/ Work[b] < Work[tip]
                      \/ Height[b] > Height[tip] + MaxAhead
                      \/ Work[b] < MinWork

\* ProcessNewBlock: AcceptBlock, after which the caller goes on to
\* ActivateBestChain unless the block was rejected.
IgnoreBlock(b, fRequested) ==
    /\ Free /\ HeaderAccepted(b) /\ Ignored(b, fRequested)
    /\ AddToBlockIndex(b)
    /\ valid' = [valid EXCEPT ![b] = IF b \in index THEN @ ELSE TREE]
    /\ wanted' = TRUE
    /\ UNCHANGED <<status, received, linked, seqId, unlinked, chainVars, counters,
                   linkQueue, abc, inv, callVars>>

RejectBlock(b, fRequested) ==
    /\ Free /\ HeaderAccepted(b) /\ ~Ignored(b, fRequested) /\ b \notin WellFormed
    /\ AddToBlockIndex(b)
    /\ valid' = [valid EXCEPT ![b] = IF b \in index THEN @ ELSE TREE]
    /\ status' = Mark({b}, {"FAILED_VALID"})
    /\ UNCHANGED <<received, linked, seqId, unlinked, chainVars, counters,
                   linkQueue, threadVars, callVars>>

\* The block is stored, perhaps again: ReceivedBlockTransactions up to its loop.
StoreBlock(b, fRequested) ==
    /\ Free /\ HeaderAccepted(b) /\ ~Ignored(b, fRequested) /\ b \in WellFormed
    /\ AddToBlockIndex(b)
    /\ received' = received \cup {b}
    /\ status' = Mark({b}, {"HAVE_DATA"})
    /\ valid' = [valid EXCEPT ![b] = IF @ < TRANSACTIONS THEN TRANSACTIONS ELSE @]
    /\ linked' = linked \ {b}
    /\ IF Prev[b] \in linked
       THEN linkQueue' = <<b>> /\ UNCHANGED unlinked
       ELSE /\ unlinked' = IF IsValid(Prev[b], TREE)
                           THEN [unlinked EXCEPT ![Prev[b]] = Append(@, b)] ELSE unlinked
            /\ UNCHANGED linkQueue
    /\ wanted' = TRUE
    /\ UNCHANGED <<seqId, chainVars, counters, abc, inv, callVars>>

\* TryAddBlockIndexCandidate.
TryAddBlockIndexCandidate(b) ==
    candidates' = IF Worse(b, tip, seqId') THEN candidates ELSE candidates \cup {b}

\* Variant: the children are not looked up.
NothingWaits(b) == <<>>

\* The children of b in m_blocks_unlinked (equal_range).
Waiting(b) == unlinked[b]

\* One turn of the loop of ReceivedBlockTransactions.
LinkBlock ==
    /\ linkQueue # <<>>
    /\ LET b == Head(linkQueue)
       IN  /\ linked' = linked \cup {b}
           /\ seqId' = [seqId EXCEPT ![b] = counters.sequence]
           /\ counters' = [counters EXCEPT !.sequence = @ + 1]
           /\ TryAddBlockIndexCandidate(b)
           /\ linkQueue' = Tail(linkQueue) \o Waiting(b)
           /\ unlinked' = [unlinked EXCEPT ![b] = <<>>]
    /\ UNCHANGED <<index, valid, status, received, markVars, tip, threadVars, callVars>>

-----------------------------------------------------------------------------
(***************************************************************************)
(* ActivateBestChain.                                                      *)
(***************************************************************************)

\* InvalidChainFound, for each of a sequence of blocks in turn.
InvalidChainFound(b1, b2, chainTip) ==
    LET Better(b, c) == c = None \/ Work[b] > Work[c]
        one == IF Better(b1, bestInvalid) THEN b1 ELSE bestInvalid
    IN  /\ bestInvalid' = IF Better(b2, one) THEN b2 ELSE one
        /\ bestHeader' = IF {b1, b2} \cap Anc[bestHeader] # {} THEN chainTip
                         ELSE bestHeader

AbcStart ==
    /\ Free /\ MutexFree
    /\ abc' = [Idle EXCEPT !.pc = "find", !.starting = tip]
    /\ wanted' = FALSE
    /\ UNCHANGED <<indexVars, markVars, chainVars, counters, linkQueue, inv, callVars>>

\* Variant: one turn of the outer loop only.
AbcLoopOnce ==
    /\ Free /\ abc.pc = "released"
    /\ abc' = Idle
    /\ UNCHANGED <<indexVars, markVars, chainVars, counters, linkQueue, inv, wanted, callVars>>

\* cs_main was released between two turns of the outer loop.
AbcLoop ==
    /\ Free /\ abc.pc = "released"
    /\ abc' = IF tip = abc.mostWork THEN Idle
              ELSE [abc EXCEPT !.pc = "find", !.starting = tip, !.connected = FALSE]
    /\ UNCHANGED <<indexVars, markVars, chainVars, counters, linkQueue, inv, wanted, callVars>>

BestCandidate == CHOOSE b \in candidates : \A c \in candidates : ~Worse(b, c, seqId)

\* Variant: only the candidate itself is looked at.
FailedItself(b) == {a \in {b} \ Anc[tip] : Failed(a) \/ ~HaveData(a)}

\* The blocks between the active chain and b that make b unusable, failed or
\* without data, and the one the walk from b meets first.
FailedPath(b) == {a \in Anc[b] \ Anc[tip] : Failed(a) \/ ~HaveData(a)}
FirstFailed(b) == CHOOSE a \in FailedPath(b) :
                      \A c \in FailedPath(b) : Height[c] <= Height[a]

\* The entries FindMostWorkChain erases from the set.  Variant: the walk starts
\* below the candidate.
UnusableBelow(new, failed) == ((Anc[new] \ Anc[failed]) \cup {failed}) \ {new}
Unusable(new, failed) == (Anc[new] \ Anc[failed]) \cup {failed}

\* m_blocks_unlinked with the blocks above the one without data added back.
\* Variant: they are not.
Forgotten(new, failed) == unlinked
AddedBack(new, failed) ==
    [p \in Blocks |-> IF p \in Unusable(new, failed) \ {new}
                      THEN Append(unlinked[p], GetAncestor(new, Height[p] + 1))
                      ELSE unlinked[p]]

\* One turn of the loop of FindMostWorkChain that discards the best candidate.
\* If the reason is missing data, the blocks above go back to m_blocks_unlinked.
FindMostWorkChainDiscard ==
    /\ abc.pc = "find" /\ abc.mostWork = None /\ candidates # {}
    /\ FailedPath(BestCandidate) # {}
    /\ LET new    == BestCandidate
           failed == FirstFailed(new)
       IN  /\ IF Failed(failed)
              THEN /\ bestInvalid' = IF bestInvalid = None \/ Work[new] > Work[bestInvalid]
                                     THEN new ELSE bestInvalid
                   /\ status' = Mark(Anc[new] \ Anc[failed], {"FAILED_CHILD"})
                   /\ UNCHANGED unlinked
              ELSE /\ unlinked' = AddedBack(new, failed)
                   /\ UNCHANGED <<bestInvalid, status>>
           /\ candidates' = candidates \ Unusable(new, failed)
    /\ UNCHANGED <<index, valid, received, linked, seqId, failedBlocks, bestHeader,
                   tip, counters, linkQueue, threadVars, callVars>>

\* The candidate to move to, once the unusable ones are gone.
MostWork == IF abc.mostWork # None THEN abc.mostWork
            ELSE IF candidates = {} THEN None ELSE BestCandidate

\* There is nothing (more) to do: leave the locked section.
AbcBreak ==
    /\ abc.pc = "find" /\ MostWork \in {None, tip}
    /\ MostWork # None => FailedPath(MostWork) = {}
    /\ abc' = IF abc.connected THEN [abc EXCEPT !.pc = "released", !.mostWork = MostWork]
              ELSE Idle
    /\ UNCHANGED <<indexVars, markVars, chainVars, counters, linkQueue, inv, wanted, callVars>>

\* ActivateBestChainStep starts towards the candidate.
AbcStep ==
    /\ abc.pc = "find" /\ MostWork \notin {None, tip}
    /\ abc.mostWork = None => FailedPath(MostWork) = {}
    /\ abc' = [abc EXCEPT !.pc = "step", !.mostWork = MostWork, !.old = tip]
    /\ UNCHANGED <<indexVars, markVars, chainVars, counters, linkQueue, inv, wanted, callVars>>

\* Variant: the lock is released after every step.
AfterAnyStep(newTip) == "released"

\* The loop condition after a step that ended with the given tip.
AfterStep(newTip) == IF Worse(newTip, abc.starting, seqId) THEN "find" ELSE "released"

\* DisconnectTip can read the block and its undo data.
CanDisconnect(b) == {"HAVE_DATA", "HAVE_UNDO"} \subseteq status[b]

\* DisconnectTip, of a block that is not on the candidate's chain.
AbcDisconnect ==
    /\ abc.pc = "step" /\ tip \notin Anc[abc.mostWork] /\ CanDisconnect(tip)
    /\ tip' = Prev[tip]
    /\ abc' = IF tip' = abc.mostWork
              THEN [abc EXCEPT !.pc = AfterStep(tip'), !.connected = TRUE]
              ELSE abc
    /\ UNCHANGED <<indexVars, markVars, candidates, counters, linkQueue, inv, wanted, callVars>>

\* The next block to connect, and the last one of its batch
\* (vpindexToConnect.front()).
NextBlock == GetAncestor(abc.mostWork, Height[tip] + 1)
BatchEnd ==
    LET fork == Height[FindFork(abc.old, abc.mostWork)]
        end  == fork + ConnectBatch * (1 + (Height[tip] - fork) \div ConnectBatch)
    IN  GetAncestor(abc.mostWork,
                    IF end <= Height[abc.mostWork] THEN end ELSE Height[abc.mostWork])

\* PruneBlockIndexCandidates.
PruneBlockIndexCandidates(set, newTip) == {c \in set : ~Worse(c, newTip, seqId')}

\* ConnectTip succeeds.
AbcConnect ==
    /\ abc.pc = "step" /\ tip \in Anc[abc.mostWork]
    /\ HaveData(NextBlock) /\ NextBlock \in Connectable
    /\ tip' = NextBlock
    /\ status' = Mark({NextBlock}, {"HAVE_UNDO"})
    /\ valid' = [valid EXCEPT ![NextBlock] = IF Failed(NextBlock) THEN @ ELSE SCRIPTS]
    /\ seqId' = seqId
    /\ candidates' = PruneBlockIndexCandidates(candidates, tip')
    /\ abc' = IF Work[tip'] > Work[abc.old] \/ tip' = abc.mostWork
              THEN [abc EXCEPT !.pc = AfterStep(tip'), !.connected = TRUE]
              ELSE abc
    /\ UNCHANGED <<index, received, linked, unlinked, markVars, counters, linkQueue,
                   inv, wanted, callVars>>

\* ConnectTip meets an invalid block: InvalidBlockFound and the rest of the
\* failure path.
AbcConnectInvalid ==
    /\ abc.pc = "step" /\ tip \in Anc[abc.mostWork]
    /\ HaveData(NextBlock) /\ NextBlock \notin Connectable
    /\ status' = Mark({NextBlock}, {"FAILED_VALID"})
    /\ failedBlocks' = failedBlocks \cup {NextBlock}
    /\ candidates' = candidates \ {NextBlock}
    /\ InvalidChainFound(NextBlock, BatchEnd, tip)
    /\ abc' = [abc EXCEPT !.pc = AfterStep(tip), !.mostWork = None, !.connected = TRUE]
    /\ UNCHANGED <<index, valid, received, linked, seqId, unlinked, tip, counters,
                   linkQueue, inv, wanted, callVars>>

\* A block to disconnect or to connect was pruned: FatalError.
AbcFatal ==
    /\ abc.pc = "step"
    /\ IF tip \in Anc[abc.mostWork] THEN ~HaveData(NextBlock) ELSE ~CanDisconnect(tip)
    /\ abc' = [abc EXCEPT !.pc = "fatal"]
    /\ UNCHANGED <<indexVars, markVars, chainVars, counters, linkQueue, inv, wanted, callVars>>

\* The node is shutting down; what it still does is not modelled.
Aborted == abc.pc = "fatal" /\ UNCHANGED vars

-----------------------------------------------------------------------------
(***************************************************************************)
(* The operator's calls.                                                   *)
(***************************************************************************)

CanCall(call, b) == calls < MaxCalls /\ <<call, b>> \in Calls /\ b \in index

\* PreciousBlock up to its call of ActivateBestChain.
PreciousBlock(b) ==
    /\ Free /\ CanCall("precious", b)
    /\ calls' = calls + 1
    /\ IF Work[b] < Work[tip] THEN UNCHANGED <<candidates, seqId, counters, wanted, partial>>
       ELSE LET reverse == IF Work[tip] > counters.lastPrecious THEN -1
                           ELSE counters.reverse
            IN  /\ seqId' = [seqId EXCEPT ![b] = reverse]
                /\ counters' = [counters EXCEPT !.reverse = reverse - 1,
                                                !.lastPrecious = Work[tip]]
                /\ candidates' = IF IsValid(b, TRANSACTIONS) /\ b \in linked
                                 THEN PruneBlockIndexCandidates(candidates \cup {b}, tip)
                                 ELSE candidates \ {b}
                /\ wanted' = TRUE
                /\ partial' = (partial \/ (b = tip /\ reverse > seqId[b]))
    /\ UNCHANGED <<index, valid, status, received, linked, unlinked, markVars, tip,
                   linkQueue, abc, inv>>

\* The blocks fit to be the tip of the active chain.
Eligible == {b \in index : IsValid(b, TRANSACTIONS) /\ b \in linked}

\* InvalidateBlock takes the mutex and precomputes candidate_blocks_by_work.
InvalidateBlock(b) ==
    /\ Free /\ MutexFree /\ CanCall("invalidate", b) /\ b # Genesis
    /\ calls' = calls + 1 /\ UNCHANGED partial
    /\ inv' = [pindex |-> b, toMarkFailed |-> b,
               byWork |-> {c \in Eligible \ Anc[tip] : ~Worse(c, Prev[b], seqId)}]
    /\ UNCHANGED <<indexVars, markVars, chainVars, counters, linkQueue, abc, wanted>>

\* One turn of its loop, under cs_main: disconnect the tip and mark it.
InvalidateDisconnect ==
    /\ Free /\ inv # None /\ inv.pindex \in Anc[tip] /\ CanDisconnect(tip)
    /\ LET walk == tip
           parent == Prev[tip]
           child == inv.toMarkFailed
           added == {c \in inv.byWork : ~Worse(c, parent, seqId)}
       IN  /\ tip' = parent
           /\ status' =
                 IF child = parent /\ "FAILED_VALID" \in status[child]
                 THEN [Mark({walk}, {"FAILED_VALID"}) EXCEPT
                          ![child] = (@ \ {"FAILED_VALID"}) \cup {"FAILED_CHILD"}]
                 ELSE Mark({walk}, {"FAILED_VALID"})
           /\ candidates' = (candidates \ {walk}) \cup {parent} \cup added
           /\ inv' = [inv EXCEPT !.byWork = @ \ added, !.toMarkFailed = walk]
    /\ UNCHANGED <<index, valid, received, linked, seqId, unlinked, markVars,
                   counters, linkQueue, abc, wanted, callVars>>

\* DisconnectTip fails and InvalidateBlock returns; the RPC goes on all the same.
InvalidateFail ==
    /\ Free /\ inv # None /\ inv.pindex \in Anc[tip] /\ ~CanDisconnect(tip)
    /\ inv' = None /\ wanted' = TRUE
    /\ partial' = TRUE
    /\ UNCHANGED <<indexVars, markVars, chainVars, counters, linkQueue, abc, calls>>

\* The last section of InvalidateBlock; the RPC then calls ActivateBestChain.
InvalidateFinish ==
    /\ Free /\ inv # None /\ inv.pindex \notin Anc[tip]
    /\ LET b == inv.toMarkFailed
       IN  /\ status' = Mark({b}, {"FAILED_VALID"})
           /\ failedBlocks' = failedBlocks \cup {b}
           /\ candidates' = (candidates \ {b})
                  \cup {c \in Eligible \ {b} : ~Worse(c, tip, seqId)}
           /\ InvalidChainFound(b, b, tip)
    /\ inv' = None /\ wanted' = TRUE
    /\ UNCHANGED <<index, valid, received, linked, seqId, unlinked, tip, counters,
                   linkQueue, abc, callVars>>

ResetFailed(reset) ==
    /\ status' = [c \in Blocks |-> IF c \in reset
                                   THEN status[c] \ {"FAILED_VALID", "FAILED_CHILD"}
                                   ELSE status[c]]
    /\ failedBlocks' = failedBlocks \ reset

\* The blocks of a set that become candidates again.  Variant: only those that
\* were connected before.
RevivedConnected(set) ==
    {d \in set : valid[d] >= SCRIPTS /\ d \in linked /\ Worse(tip, d, seqId)}
Revived(set) ==
    {d \in set : valid[d] >= TRANSACTIONS /\ d \in linked /\ Worse(tip, d, seqId)}

\* ResetBlockFailureFlags; the RPC then calls ActivateBestChain.
ResetBlockFailureFlags(b) ==
    /\ Free /\ CanCall("reconsider", b)
    /\ calls' = calls + 1
    /\ partial' = (partial \/ \E a \in Anc[b] \ {b} : Failed(a))
    /\ LET below == {d \in index : b \in Anc[d] /\ ~IsValid(d, TRANSACTIONS)}
       IN  /\ ResetFailed(below \cup {a \in Anc[b] : Failed(a)})
           /\ candidates' = candidates \cup Revived(below)
           /\ bestInvalid' = IF bestInvalid \in below THEN None ELSE bestInvalid
    /\ wanted' = TRUE
    /\ UNCHANGED <<index, valid, received, linked, seqId, unlinked, bestHeader, tip,
                   counters, linkQueue, abc, inv>>

\* A list of m_blocks_unlinked after every entry for b is erased.
Erase(list, b) ==
    LET kept[i \in 0..Len(list)] == IF i = 0 THEN <<>>
                                    ELSE IF list[i] = b THEN kept[i - 1]
                                    ELSE Append(kept[i - 1], list[i])
    IN  kept[Len(list)]

\* FlushStateToDisk, in prune mode, deletes the file of an old block.  Which
\* files are due depends on their sizes: any of them may be.  It is called with
\* cs_main held by whoever stores, connects or disconnects a block, and by the
\* operator.  A block has at most one entry in m_blocks_unlinked (LinkedExact).
PruneOneBlockFile(b) ==
    /\ linkQueue = <<>> /\ abc.pc # "fatal" /\ CanCall("prune", b)
    /\ HaveData(b) /\ Height[b] <= Height[tip] - MaxAhead
    /\ calls' = calls + 1 /\ UNCHANGED partial
    /\ status' = [status EXCEPT ![b] = @ \ {"HAVE_DATA", "HAVE_UNDO"}]
    /\ unlinked' = IF b = Genesis THEN unlinked
                   ELSE [unlinked EXCEPT ![Prev[b]] = Erase(@, b)]
    /\ UNCHANGED <<index, valid, received, linked, seqId, markVars, chainVars, counters,
                   linkQueue, threadVars>>

-----------------------------------------------------------------------------
Arrival == \/ LinkBlock
           \/ \E b \in Blocks \ {Genesis} :
                 \/ AcceptBlockHeader(b) \/ RejectBlockHeader(b)
                 \/ \E fRequested \in BOOLEAN :
                       \/ IgnoreBlock(b, fRequested) \/ RejectBlock(b, fRequested)
                       \/ StoreBlock(b, fRequested)

ActivateBestChain == \/ AbcStart \/ AbcLoop
                     \/ FindMostWorkChainDiscard \/ AbcBreak \/ AbcStep
                     \/ AbcDisconnect \/ AbcConnect \/ AbcConnectInvalid \/ AbcFatal

OperatorCall == \/ InvalidateDisconnect \/ InvalidateFail \/ InvalidateFinish
                \/ \E b \in Blocks : \/ PreciousBlock(b) \/ InvalidateBlock(b)
                                     \/ ResetBlockFailureFlags(b)
                                     \/ PruneOneBlockFile(b)

Next == Arrival \/ ActivateBestChain \/ OperatorCall \/ Aborted

\* A thread that holds cs_main, or the mutex, goes on; a waiting caller of
\* ActivateBestChain gets the mutex.  Nothing has to arrive.
Fairness == /\ WF_vars(LinkBlock)
            /\ WF_vars(ActivateBestChain /\ (abc.pc # "idle" \/ wanted))
            /\ WF_vars(InvalidateDisconnect \/ InvalidateFail \/ InvalidateFinish)

Spec == Init /\ [][Next]_vars /\ Fairness

-----------------------------------------------------------------------------
(***************************************************************************)
(* Properties.                                                             *)
(***************************************************************************)

\* Types of the block index and of the locals; blocks outside m_block_index
\* have no status.
TypeOK ==
    /\ index \subseteq Blocks /\ received \subseteq index /\ linked \subseteq received
    /\ valid \in [Blocks -> {0, TREE, TRANSACTIONS, SCRIPTS}]
    /\ status \in [Blocks -> SUBSET {"HAVE_DATA", "HAVE_UNDO", "FAILED_VALID", "FAILED_CHILD"}]
    /\ seqId \in [Blocks -> Int]
    /\ \A b \in Blocks \ index : valid[b] = 0 /\ status[b] = {}
    /\ unlinked \in [Blocks -> Seq(received)] /\ linkQueue \in Seq(received)
    /\ {bestHeader, tip} \subseteq index /\ bestInvalid \in index \cup {None}
    /\ failedBlocks \cup candidates \subseteq index
    /\ counters \in [sequence : Nat, reverse : Int, lastPrecious : Nat]
    /\ abc \in [pc : {"idle", "find", "step", "released", "fatal"},
                mostWork : index \cup {None}, starting : index \cup {None},
                old : index \cup {None}, connected : BOOLEAN]
    /\ inv = None \/ inv \in [pindex : index, toMarkFailed : index, byWork : SUBSET index]
    /\ wanted \in BOOLEAN /\ calls \in 0..MaxCalls /\ partial \in BOOLEAN

\* CheckBlockIndex runs here: cs_main is free and no InvalidateBlock is halfway.
Checkable == Free /\ inv = None

NoInvalidAncestor(b) == \A a \in Anc[b] : "FAILED_VALID" \notin status[a]

\* Nothing that b is built on has been pruned.
WholeChain(b) == \A a \in Anc[b] : HaveData(a)

\* CheckBlockIndex: a linked block with no invalid ancestor that sorts at least
\* as good as the tip is in setBlockIndexCandidates, however blocks, operator
\* calls and the sections of ActivateBestChain interleave.  If an ancestor was
\* pruned it may be in m_blocks_unlinked instead, to become a candidate again
\* when that one is downloaded; the tip itself is always a candidate.
CandidatesComplete ==
    Checkable => \A b \in linked :
        NoInvalidAncestor(b) /\ ~Worse(b, tip, seqId) /\ (HaveData(b) \/ b = tip)
            => \/ b \in candidates
               \/ ~WholeChain(b) /\ b # tip /\ b \in Range(unlinked[Prev[b]])

\* The same unless reconsiderblock was called on a block with a failed ancestor
\* (then ResetBlockFailureFlags resets the ancestors but not their other
\* descendants), InvalidateBlock gave up at a pruned block (then the blocks that
\* arrived meanwhile are not added back), or PreciousBlock on the tip gave it a
\* later nSequenceId than it had (then blocks of equal work sort better without
\* being candidates); the next properties make the same exceptions.  And nothing
\* else is a candidate: no block that sorts worse than the tip and none with a
\* parent that was never received.
CandidatesExact ==
    /\ ~partial => CandidatesComplete
    /\ Checkable => \A b \in candidates : b \in linked /\ ~Worse(b, tip, seqId)

\* CheckBlockIndex: nChainTx is set exactly when all ancestors were received, and
\* only then is nSequenceId positive.  A received block waits in
\* m_blocks_unlinked, once, if one of its ancestors has not been received (and
\* none is invalid), so that it is linked when that one arrives; and no block
\* waits whose own data was pruned or that has the data of all its ancestors.
\* (A linked block above a pruned one may wait more than once: FindMostWorkChain
\* adds it back with every candidate built on it.)
LinkedExact ==
    Free =>
        /\ \A b \in index : /\ b \in linked <=> Anc[b] \subseteq received
                            /\ seqId[b] > 0 => b \in linked
        /\ \A b \in received \ {Genesis} :
              LET waits   == unlinked[Prev[b]]
                  entries == Cardinality({i \in DOMAIN waits : waits[i] = b})
              IN  /\ b \notin linked => entries <= 1
                  /\ ~HaveData(b) \/ WholeChain(b) => entries = 0
                  /\ HaveData(b) /\ b \notin linked /\ NoInvalidAncestor(b) => entries = 1

\* CheckBlockIndex: "The failed mask cannot be set for blocks without invalid
\* parents": every failed block has a FAILED_VALID ancestor or is one itself.
\* And AcceptBlockHeader's walk over m_failed_blocks asserts that each of them is
\* FAILED_VALID whenever a header arrives.
FailedMarksExact ==
    /\ Free /\ ~partial => \A b \in index : Failed(b) => ~NoInvalidAncestor(b)
    /\ \A f \in failedBlocks : "FAILED_VALID" \in status[f]

\* Every block of the active chain was received, connected after all of its
\* ancestors and never marked failed, at every step of a reorganisation.
ActiveChainValid ==
    \A a \in Anc[tip] : /\ linkQueue = <<>> => a \in linked
                        /\ a \in Connectable /\ valid[a] = SCRIPTS /\ ~Failed(a)

\* "We absolutely may not unlock cs_main until we've made forward progress":
\* no section of ActivateBestChain ends on a tip worse than the one it started
\* from, also when it disconnected blocks for a chain that proves invalid, unless
\* the node aborts (or one of the three exceptions above happened).
NoRegress ==
    [][abc.pc \in {"find", "step"} /\ abc'.pc \notin {"find", "step"}
         => partial \/ abc'.pc = "fatal" \/ ~Worse(tip', abc.starting, seqId')]_vars

\* The best chain this node could be on.
Usable == {b \in linked : \A a \in Anc[b] : /\ a \in Connectable /\ ~Failed(a)
                                            /\ a \in Anc[tip] \/ HaveData(a)}
BestUsable == CHOOSE b \in Usable : \A c \in Usable : ~Worse(b, c, seqId)

\* When no call is running or waiting, the tip is the best block with a fully
\* received and valid chain: no interleaving loses the wakeup for a better one.
BestWhenSettled == Checkable /\ MutexFree /\ ~wanted /\ ~partial => tip = BestUsable

\* Blocks stop arriving and the operator stops calling: then the node reaches
\* the best chain and stays there.
EventuallyBest == <>[](partial \/ abc.pc = "fatal" \/ tip = BestUsable)
=============================================================================
