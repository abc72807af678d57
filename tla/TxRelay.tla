-------------------------------- MODULE TxRelay --------------------------------
(***************************************************************************)
(* How PeerManager fetches transactions: the messages inv, tx and          *)
(* notfound, the request loop of SendMessages, the orphanage, the filters  *)
(* behind AlreadyHaveTx and the callbacks of a connected block, over the   *)
(* request tracker of TxRequest.                                           *)
(*                                                                         *)
(* A step is a section under cs_main.  The message handler is one thread   *)
(* (g_msgproc_mutex); the callbacks of a block run on the scheduler's and  *)
(* a local submission on an RPC thread.  Validation is abstracted to its   *)
(* outcomes, the mempool and the chain to the transactions they contain.   *)
(***************************************************************************)
EXTENDS TxRequest, Sequences

CONSTANTS
    Txs, Txid, Wtxid,   \* Wtxid[t] = Txid[t]: a transaction without witness
    Parents,            \* the transactions a transaction spends
    Preferred,          \* peers with fPreferredDownload
    WtxidPeers,         \* peers with m_wtxid_relay
    Unlimited,          \* peers with the relay permission
    Honest,             \* peers that serve, complete, what they announced
    NONPREF_PEER_TX_DELAY, TXID_RELAY_DELAY, OVERLOADED_PEER_TX_DELAY,
    GETDATA_TX_INTERVAL,
    MAX_PEER_TX_ANNOUNCEMENTS, MAX_PEER_TX_REQUEST_IN_FLIGHT,
    Worlds,             \* what each instance is about: peers, transactions,
                        \* max_orphan_txs, and what may happen
    MaxBack,            \* bound: how far the clock goes back
    MaxCallbacks        \* bound: callbacks waiting

NoOrphan == [from |-> "nobody", witness |-> FALSE]
NoBlock == [pc |-> "none", txs |-> {}]

VARIABLES
    req,        \* m_txrequest
    orphans,    \* m_orphans with its indexes
    work,       \* m_peer_work_set
    rejects,    \* m_recent_rejects
    tipMoved,   \* the tip is not hashRecentRejectsChainTip
    confirmed,  \* m_recent_confirmed_transactions
    mempool, chain,
    spent,      \* transactions whose inputs the chain has spent otherwise
    blocks,     \* the blocks of the chain
    callbacks,  \* callbacks that wait for the scheduler thread
    block,      \* the block whose BlockConnected callback is running
    connected,  \* peers with a CNodeState
    asked,      \* getdata that honest peers have not answered
    quiet,      \* history: entered mempool or chain without a tx message
    touched,    \* history: confirmed or conflicted with by a block
    back,       \* clock steps still to go back
    world

chainVars == <<chain, spent, blocks, touched>>
poolVars == <<mempool, quiet, chainVars>>
cbVars == <<callbacks, block>>
filterVars == <<rejects, tipMoved, confirmed>>
envVars == <<connected, back, world>>
vars == <<req, orphans, work, filterVars, poolVars, cbVars, asked, envVars>>

TxHashes(t) == {Txid[t], Wtxid[t]}

\* Transactions have hashes of their own.
ASSUME RelayAssumption ==
    /\ Txid \in [Txs -> Hashes] /\ Wtxid \in [Txs -> Hashes]
    /\ \A s, t \in Txs : TxHashes(s) \cap TxHashes(t) # {} => s = t
    /\ Parents \in [Txs -> SUBSET Txs]
    /\ {NONPREF_PEER_TX_DELAY, TXID_RELAY_DELAY, OVERLOADED_PEER_TX_DELAY,
        GETDATA_TX_INTERVAL} \subseteq Nat
    /\ \A w \in Worlds : w.peers \subseteq Peers /\ w.txs \subseteq Txs
    /\ "nobody" \notin Peers /\ MaxBack \in Nat

Orphans == {t \in Txs : orphans[t] # NoOrphan}

\* The hash a transaction has when it is sent with or without its witness.
WtxidOf(t, witness) == IF witness THEN Wtxid[t] ELSE Txid[t]
IsWtxid(h) == \A t \in Txs : Txid[t] # h

\* AlreadyHaveTx empties a filter that was filled under another tip.
Rejects == IF tipMoved THEN {} ELSE rejects
AlreadyHaveTx(h, isWtxid) ==
    \/ h \in confirmed \cup Rejects
    \/ \E t \in Orphans : h = IF isWtxid THEN WtxidOf(t, orphans[t].witness) ELSE Txid[t]
    \/ \E t \in mempool : h = IF isWtxid THEN Wtxid[t] ELSE Txid[t]

Init ==
    /\ world \in Worlds
    /\ connected = world.peers
    /\ req = [h \in Hashes |-> NoRow]
    /\ orphans = [t \in Txs |-> NoOrphan] /\ work = [p \in Peers |-> {}]
    /\ rejects = {} /\ tipMoved = FALSE /\ confirmed = {}
    /\ mempool = {} /\ chain = {} /\ spent = {} /\ blocks = <<>>
    /\ callbacks = <<>> /\ block = NoBlock
    /\ asked = {} /\ quiet = {} /\ touched = {}
    /\ back = IF "back" \in world.may THEN MaxBack ELSE 0

-----------------------------------------------------------------------------
(***************************************************************************)
(* The tracker as a whole.                                                 *)
(***************************************************************************)
Count(q, p) == Cardinality({h \in Hashes : q[h][p].state # "NONE"})
CountInFlight(q, p) == Cardinality({h \in Hashes : q[h][p].state = "REQUESTED"})

\* Variant: the hash stays tracked.
ForgetNothing(q, hashes) == q

ForgetTxHash(q, hashes) == [h \in Hashes |-> IF h \in hashes THEN NoRow ELSE q[h]]

Responded(q, p, hashes) ==
    [h \in Hashes |-> IF h \in hashes THEN ReceivedResponse(h, q[h], p) ELSE q[h]]

AnnouncementDelay(q, p, isWtxid) ==
    LET overloaded == p \notin Unlimited /\ CountInFlight(q, p) >= MAX_PEER_TX_REQUEST_IN_FLIGHT
    IN  (IF p \in Preferred THEN 0 ELSE NONPREF_PEER_TX_DELAY)
        + (IF ~isWtxid /\ WtxidPeers \cap connected # {} THEN TXID_RELAY_DELAY ELSE 0)
        + (IF overloaded THEN OVERLOADED_PEER_TX_DELAY ELSE 0)

\* AddTxAnnouncement for each of the hashes: what the tracker may be after it.  Those
\* that p has not announced are added, in an order that is arbitrary, as long as
\* there is room for one more.
AddTxAnnouncements(q, p, hashes, isWtxid) ==
    LET new == {h \in hashes : q[h][p].state = "NONE"}
        room == MAX_PEER_TX_ANNOUNCEMENTS - Count(q, p)
        fits == IF p \in Unlimited \/ Cardinality(new) <= room THEN {new}
                ELSE {s \in SUBSET new : Cardinality(s) = IF room > 0 THEN room ELSE 0}
        delay == AnnouncementDelay(q, p, isWtxid)
    IN  {[h \in Hashes |-> IF h \in s THEN ReceivedInv(q[h], p, p \in Preferred, delay)
                           ELSE q[h]] : s \in fits}

(***************************************************************************)
(* The orphanage.                                                          *)
(***************************************************************************)
\* AddTx, then LimitOrphans: what is kept.  Any orphan but the new one may have
\* expired; beyond world.max_orphan_txs random ones are evicted.  A heavy
\* transaction is not added.
Keeps(t) ==
    {kept \in SUBSET (Orphans \cup {t}) :
        /\ Cardinality(kept) <= world.max_orphan_txs
        /\ t \notin Orphans \cup kept => \/ Cardinality(kept) = world.max_orphan_txs
                                         \/ "heavy" \in world.may}

\* m_orphans when only these are kept.
KeepOrphans(kept) == [t \in Txs |-> IF t \in kept THEN orphans[t] ELSE NoOrphan]

\* Variant: the children of one peer only.
ChildrenOfSender(w, t, p) ==
    [w EXCEPT ![p] = @ \cup {c \in Orphans : t \in Parents[c] /\ orphans[c].from = p}]
AddChildrenToWorkSet(w, t, p) ==
    [q \in Peers |-> w[q] \cup {c \in Orphans : t \in Parents[c] /\ orphans[c].from = q}]

(***************************************************************************)
(* ProcessTransaction: what validation can say.                            *)
(***************************************************************************)
Results(t, witness) ==
    IF t \in mempool THEN {"reject"}
    ELSE IF t \in chain THEN {"reject", "missing"}
    ELSE IF t \in spent \/ ~(Parents[t] \subseteq mempool \cup chain) THEN {"missing"}
    ELSE {"reject", "nonstandard"} \cup {IF WtxidOf(t, witness) = Wtxid[t] THEN "valid" ELSE "stripped"}

\* The hashes a refused transaction adds to m_recent_rejects.
Refused(t, witness, result) ==
    CASE result = "reject" -> {WtxidOf(t, witness)}
      [] result = "nonstandard" -> {WtxidOf(t, witness), Txid[t]}
      [] result = "stripped" -> {}

-----------------------------------------------------------------------------
(***************************************************************************)
(* Messages.  A message of p is processed once ProcessOrphanTx(p) has      *)
(* nothing left to do.                                                     *)
(***************************************************************************)
Ready(p) == p \in connected /\ work[p] = {}

Inv(p, t) ==
    LET isWtxid == p \in WtxidPeers
        h == WtxidOf(t, isWtxid)
    IN  /\ Ready(p)
        /\ rejects' = Rejects /\ tipMoved' = FALSE
        /\ req' \in IF AlreadyHaveTx(h, isWtxid) THEN {req}
                    ELSE AddTxAnnouncements(req, p, {h}, isWtxid)
        /\ UNCHANGED <<orphans, work, confirmed, poolVars, cbVars, asked, envVars>>

NotFound(p, h) ==
    /\ Ready(p) /\ p \notin Honest
    /\ req' = Responded(req, p, {h})
    /\ UNCHANGED <<orphans, work, filterVars, poolVars, cbVars, asked, envVars>>

\* A tx message whose transaction is known.
TxKnown(p, t, witness) ==
    /\ AlreadyHaveTx(WtxidOf(t, witness), TRUE)
    /\ req' = Responded(req, p, {Txid[t], WtxidOf(t, witness)})
    /\ rejects' = Rejects
    /\ UNCHANGED <<orphans, work, poolVars>>

TxValid(p, t, witness) ==
    /\ ~AlreadyHaveTx(WtxidOf(t, witness), TRUE) /\ "valid" \in Results(t, witness)
    /\ req' = ForgetTxHash(Responded(req, p, TxHashes(t)), TxHashes(t))
    /\ mempool' = mempool \cup {t} /\ quiet' = quiet \ {t}
    /\ work' = AddChildrenToWorkSet(work, t, p)
    /\ rejects' = Rejects
    /\ UNCHANGED <<orphans, chainVars>>

\* Missing inputs: ask the sender for the parents and keep the transaction, unless
\* a parent was rejected.
TxOrphan(p, t, witness) ==
    LET wtxid == WtxidOf(t, witness)
        q == Responded(req, p, {Txid[t], wtxid})
        parents == {Txid[s] : s \in Parents[t]}
        wanted == {h \in parents : ~AlreadyHaveTx(h, FALSE)}
    IN  /\ ~AlreadyHaveTx(wtxid, TRUE) /\ "missing" \in Results(t, witness)
        /\ IF parents \cap Rejects # {}
           THEN /\ rejects' = Rejects \cup {Txid[t], wtxid}
                /\ req' = ForgetTxHash(q, {Txid[t], wtxid})
                /\ UNCHANGED orphans
           ELSE /\ rejects' = Rejects
                /\ \E added \in AddTxAnnouncements(q, p, wanted, FALSE) :
                      req' = ForgetTxHash(added, {Txid[t], wtxid})
                /\ \E kept \in Keeps(t) :
                      orphans' = IF t \in kept \ Orphans
                                 THEN [KeepOrphans(kept) EXCEPT
                                         ![t] = [from |-> p, witness |-> witness]]
                                 ELSE KeepOrphans(kept)
        /\ UNCHANGED <<work, poolVars>>

TxRefused(p, t, witness) ==
    LET wtxid == WtxidOf(t, witness)
        q == Responded(req, p, {Txid[t], wtxid})
    IN  /\ ~AlreadyHaveTx(wtxid, TRUE)
        /\ \E result \in Results(t, witness) \ {"valid", "missing"} :
              /\ rejects' = Rejects \cup Refused(t, witness, result)
              /\ req' = ForgetTxHash(q, Refused(t, witness, result))
        /\ UNCHANGED <<orphans, work, poolVars>>

Tx(p, t, witness) ==
    /\ Ready(p) /\ (witness \/ (p \notin Honest /\ "stripped" \in world.may))
    /\ \/ TxKnown(p, t, witness) \/ TxValid(p, t, witness)
       \/ TxOrphan(p, t, witness) \/ TxRefused(p, t, witness)
    /\ tipMoved' = FALSE
    /\ asked' = asked \ {<<h, p>> : h \in TxHashes(t)}
    /\ UNCHANGED <<confirmed, cbVars, envVars>>

\* ProcessOrphanTx: some of the work set is gone or still misses inputs, and then
\* one orphan is accepted or refused, or the work set is exhausted.  Txids are
\* hashes: their order is arbitrary.
OrphanAccepted(p, t) ==
    /\ "valid" \in Results(t, orphans[t].witness)
    /\ mempool' = mempool \cup {t} /\ quiet' = quiet \ {t}
    /\ orphans' = [orphans EXCEPT ![t] = NoOrphan]
    /\ UNCHANGED <<rejects, chainVars>>

OrphanRefused(p, t) ==
    /\ \E result \in Results(t, orphans[t].witness) \ {"valid", "missing"} :
          rejects' = rejects \cup Refused(t, orphans[t].witness, result)
    /\ orphans' = [orphans EXCEPT ![t] = NoOrphan]
    /\ UNCHANGED poolVars

ProcessOrphanTx(p) ==
    /\ work[p] # {}
    /\ \E skipped \in SUBSET work[p] :
          /\ \A s \in skipped \cap Orphans : "missing" \in Results(s, orphans[s].witness)
          /\ \/ /\ skipped = work[p] /\ work' = [work EXCEPT ![p] = {}]
                /\ UNCHANGED <<orphans, rejects, poolVars>>
             \/ \E t \in (work[p] \ skipped) \cap Orphans :
                   LET left == [work EXCEPT ![p] = @ \ (skipped \cup {t})]
                   IN  \/ OrphanAccepted(p, t) /\ work' = AddChildrenToWorkSet(left, t, p)
                       \/ OrphanRefused(p, t) /\ work' = left
    /\ UNCHANGED <<req, tipMoved, confirmed, cbVars, asked, envVars>>

\* The getdata part of SendMessages.
SendMessages(p) ==
    /\ p \in connected
    /\ \E moved \in {[h \in Hashes |-> SetTimePoint(h, req[h])]} :
       LET requestable == {h \in Hashes : moved[h][p].state = "BEST"}
           known == {h \in requestable : AlreadyHaveTx(h, IsWtxid(h))}
       IN  /\ req' = [h \in Hashes |->
                        IF h \in known THEN NoRow
                        ELSE IF h \in requestable
                        THEN RequestedTx(moved[h], p, GETDATA_TX_INTERVAL)
                        ELSE moved[h]]
           /\ IF requestable = {} THEN UNCHANGED <<rejects, tipMoved>>
              ELSE rejects' = Rejects /\ tipMoved' = FALSE
           /\ asked' = IF p \in Honest THEN asked \cup ((requestable \ known) \X {p})
                       ELSE asked
    /\ UNCHANGED <<orphans, work, confirmed, poolVars, cbVars, envVars>>

FinalizeNode(p) ==
    /\ p \in connected
    /\ orphans' = KeepOrphans({t \in Orphans : orphans[t].from # p})
    /\ work' = [work EXCEPT ![p] = {}]
    /\ req' = [h \in Hashes |-> DisconnectedPeer(h, req[h], p)]
    /\ connected' = connected \ {p} /\ asked' = {a \in asked : a[2] # p}
    /\ UNCHANGED <<filterVars, poolVars, cbVars, back, world>>

-----------------------------------------------------------------------------
(***************************************************************************)
(* Other threads and the clock.                                            *)
(***************************************************************************)
Descendants(set) == {t \in Txs : \E s \in set : t = s \/ s \in Parents[t]
                                    \/ \E m \in Txs : m \in Parents[t] /\ s \in Parents[m]}

\* A block confirms some transactions and spends the inputs of others.
ConnectTip(txs, sp) ==
    /\ "block" \in world.may /\ Len(callbacks) < MaxCallbacks
    /\ txs # {} /\ txs \cap (chain \cup spent) = {} /\ sp \cap (chain \cup spent \cup txs) = {}
    /\ \A t \in txs \cup sp : Parents[t] \subseteq chain \cup txs
    /\ blocks' = Append(blocks, [txs |-> txs, spent |-> sp])
    /\ callbacks' = Append(callbacks, [kind |-> "BlockConnected", txs |-> txs, spent |-> sp])
    /\ chain' = chain \cup txs /\ spent' = spent \cup sp /\ touched' = touched \cup txs \cup sp
    /\ quiet' = quiet \cup (txs \ mempool)
    /\ mempool' = mempool \ (txs \cup Descendants(sp))
    /\ tipMoved' = TRUE
    /\ UNCHANGED <<req, orphans, work, rejects, confirmed, block, asked, envVars>>

\* The last block is disconnected.  MaybeUpdateMempoolForReorg puts those of its
\* transactions back that are accepted, and removes what spends the others.
DisconnectTip ==
    /\ "reorg" \in world.may /\ Len(callbacks) < MaxCallbacks /\ blocks # <<>>
    /\ blocks' = SubSeq(blocks, 1, Len(blocks) - 1)
    /\ callbacks' = Append(callbacks, [kind |-> "BlockDisconnected", txs |-> {}, spent |-> {}])
    /\ LET last == blocks[Len(blocks)] IN
       /\ chain' = chain \ last.txs /\ spent' = spent \ last.spent
       /\ \E added \in SUBSET last.txs :
             /\ \A t \in added : Parents[t] \subseteq mempool \cup (chain \ last.txs) \cup added
             /\ mempool' = (mempool \cup added) \ Descendants(last.txs \ added)
             /\ quiet' = quiet \cup added
    /\ tipMoved' = TRUE
    /\ UNCHANGED <<req, orphans, work, rejects, confirmed, touched, block, asked, envVars>>

\* BlockConnected, which takes each lock in turn.
EraseForBlock ==
    /\ block = NoBlock /\ callbacks # <<>> /\ Head(callbacks).kind = "BlockConnected"
    /\ callbacks' = Tail(callbacks)
    /\ LET b == Head(callbacks) IN
       /\ block' = [pc |-> "erased", txs |-> b.txs]
       /\ orphans' = KeepOrphans(Orphans \ (b.txs \cup b.spent))
    /\ UNCHANGED <<req, work, filterVars, poolVars, asked, envVars>>
NoteConfirmed ==
    /\ block.pc = "erased" /\ block' = [block EXCEPT !.pc = "noted"]
    /\ confirmed' = confirmed \cup UNION {TxHashes(t) : t \in block.txs}
    /\ UNCHANGED <<req, orphans, work, rejects, tipMoved, poolVars, callbacks, asked, envVars>>
ForgetConfirmed ==
    /\ block.pc = "noted" /\ block' = NoBlock
    /\ req' = ForgetTxHash(req, UNION {TxHashes(t) : t \in block.txs})
    /\ UNCHANGED <<orphans, work, filterVars, poolVars, callbacks, asked, envVars>>
BlockConnected == EraseForBlock \/ NoteConfirmed \/ ForgetConfirmed

BlockDisconnected ==
    /\ block = NoBlock /\ callbacks # <<>> /\ Head(callbacks).kind = "BlockDisconnected"
    /\ callbacks' = Tail(callbacks)
    /\ confirmed' = {}
    /\ UNCHANGED <<req, orphans, work, rejects, tipMoved, poolVars, block, asked, envVars>>

BroadcastTransaction(t) ==
    /\ "submit" \in world.may /\ "valid" \in Results(t, TRUE)
    /\ mempool' = mempool \cup {t} /\ quiet' = quiet \cup {t}
    /\ UNCHANGED <<req, orphans, work, filterVars, chainVars, cbVars, asked, envVars>>

\* Expiry, size limit or replacement.
LeaveMempool(t) ==
    /\ "evict" \in world.may /\ t \in mempool
    /\ mempool' = mempool \ Descendants({t})
    /\ UNCHANGED <<req, orphans, work, filterVars, chainVars, quiet, cbVars, asked, envVars>>

\* An announcement's time, seen from a clock that moved.  What is long past is
\* past even if the clock goes back.
Shift(a, by, floor) == IF a.state \in {"NONE", "COMPLETED"} THEN a
                       ELSE [a EXCEPT !.time = IF @ - by < -floor THEN -floor ELSE @ - by]
Clock(by, floor) ==
    /\ req' = [h \in Hashes |-> [p \in Peers |-> Shift(req[h][p], by, floor)]]
    /\ UNCHANGED <<orphans, work, filterVars, poolVars, cbVars, asked, connected, world>>
Tick == Clock(1, back) /\ UNCHANGED back
ClockBack == "back" \in world.may /\ back > 0 /\ back' = back - 1 /\ Clock(-1, back')

-----------------------------------------------------------------------------
Message(p) == \E t \in world.txs : \/ Inv(p, t)
                                   \/ \E witness \in BOOLEAN : Tx(p, t, witness)
                                   \/ \E h \in TxHashes(t) : NotFound(p, h)

Next == \/ \E p \in world.peers : Message(p) \/ ProcessOrphanTx(p) \/ SendMessages(p)
                                    \/ FinalizeNode(p)
        \/ \E txs, sp \in SUBSET world.txs : ConnectTip(txs, sp)
        \/ DisconnectTip \/ BlockConnected \/ BlockDisconnected
        \/ \E t \in world.txs : BroadcastTransaction(t) \/ LeaveMempool(t)
        \/ Tick \/ ClockBack

\* Time passes, the message handler serves every peer, honest peers answer.
\* Assumed only in the worlds where liveness is checked, to spare TLC the others.
Fair == "fair" \in world.may
Answers(p, t) == (\E h \in TxHashes(t) : <<h, p>> \in asked) /\ Tx(p, t, TRUE)
Fairness == /\ WF_vars(Fair /\ Tick)
            /\ \A p \in Peers : /\ WF_vars(Fair /\ SendMessages(p))
                               /\ WF_vars(Fair /\ ProcessOrphanTx(p))
            /\ \A p \in Honest, t \in Txs : WF_vars(Fair /\ Answers(p, t))

Spec == Init /\ [][Next]_vars /\ Fairness

-----------------------------------------------------------------------------
\* Announcements, orphans, work sets and filters have their types.
TypeOK ==
    /\ \A h \in Hashes : /\ req[h] \in Rows
                         /\ \A p \in Peers : req[h][p].state = "NONE" => req[h][p] = NoAnn
    /\ \A t \in Orphans : orphans[t].from \in Peers
    /\ work \in [Peers -> SUBSET Txs]
    /\ rejects \cup confirmed \subseteq Hashes
    /\ mempool \cup chain \cup spent \cup quiet \cup touched \subseteq Txs

\* SanityCheck: at most one announcement of a hash is selected or requested, the
\* best one is, and a hash with only completed announcements is forgotten.  In
\* every state the loops of SetTimePoint compute what they are for, in whatever
\* order requests expire, candidates become due and the clock is set.  Nothing is
\* tracked for a peer that has left.
TrackerSane ==
    \A h \in Hashes :
        /\ SanityCheck(h, req[h])
        /\ SetTimePoint(h, req[h]) = AtTimePoint(h, req[h])
        /\ \A p \in Peers \ connected : req[h][p] = NoAnn

\* The hashes under which an orphan is known.
OrphanHashes(t) == {Txid[t], WtxidOf(t, orphans[t].witness)}

\* SendMessages: ForgetTxHash "should already be called whenever a transaction
\* becomes AlreadyHaveTx()".  No hash is tracked that was rejected, is that of an
\* orphan, or was confirmed (but for the time between the last two sections of
\* BlockConnected), and none of a transaction in the mempool, unless it came there
\* without a tx message: submitted locally, or put back by a reorganization.
KnownNotTracked ==
    \A t \in Txs : \A h \in TxHashes(t) :
        req[h] # NoRow =>
            /\ h \notin Rejects
            /\ t \in Orphans => h \notin OrphanHashes(t)
            /\ h \in confirmed => block.pc = "noted" /\ t \in block.txs
            /\ t \in mempool => t \in quiet

\* An orphan that no block has met, whose parents all became available by a tx
\* message, is in the work set of the peer that sent it, whoever sent the parents;
\* a peer that has left has neither orphans nor work.
OrphanQueued ==
    /\ \A t \in Orphans \ touched :
          Parents[t] \subseteq (mempool \cup chain) \ quiet => t \in work[orphans[t].from]
    /\ \A t \in Orphans : orphans[t].from \in connected
    /\ \A p \in Peers \ connected : work[p] = {}

Known(t) == \E h \in TxHashes(t) : AlreadyHaveTx(h, IsWtxid(h))

\* An honest peer's announcement that is tracked is not lost behind peers that
\* never answer: the transaction becomes known.
EventuallyKnown ==
    \A p \in Honest, t \in Txs :
        Fair /\ (\E h \in TxHashes(t) : req[h][p].state \in {"DELAYED", "READY", "BEST"})
            ~> (Known(t) \/ p \notin connected)
=============================================================================
