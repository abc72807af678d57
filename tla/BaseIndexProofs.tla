---------------------------- MODULE BaseIndexProofs ----------------------------
(***************************************************************************)
(* Proofs about BaseIndex, for every tree of blocks and any number of      *)
(* moves, flushes and starts.                                              *)
(***************************************************************************)
EXTENDS BaseIndex, BlockTreeProofs, SequenceTheorems

\* A leaf that names no prover is tried with Zenon.
USE Zenon

Block0 == Blocks \cup {None}

\* The types the proof needs.
Typed ==
    /\ tip \in Block0 /\ diskTip \in Block0 /\ m_best_block_index \in Block0
    /\ pindex \in Block0 /\ asked \in Block0
    /\ committed \in [best : Block0, totals : Block0]
    /\ byHeight \in [Heights -> Block0]
    /\ pending \in Seq(Event) /\ current \in Event \cup {None}
    /\ m_synced \in BOOLEAN
    /\ thread \in {"loop", "rewind", "append", "exit"}
    /\ cbpc \in {"none", "rewind", "append", "set"}

\* Who writes: the sync thread until m_synced, a callback after that.
Threads ==
    /\ m_synced => thread = "exit"
    /\ thread = "append" => pindex # None
    /\ cbpc = "none" => current = None
    /\ cbpc # "none" => m_synced /\ current \in Event /\ current.kind = "BlockConnected"
    /\ cbpc \in {"append", "set"} => m_best_block_index = pprev(current.block)
    /\ tip = None => pending = <<>> /\ cbpc = "none"
    /\ tip = None /\ Up => m_synced /\ m_best_block_index = None
    /\ diskTip = None => diskKnown = {}

\* Between the two writes of a rewind the totals are those of the block the index is
\* taken back to, and the entries it will lose are there by hash.
Middle == thread = "rewind" \/ cbpc = "rewind"
Rewinding ==
    /\ thread = "rewind" => /\ pindex \in Blocks /\ NextSyncBlock(pindex) # None
                            /\ totals = pprev(NextSyncBlock(pindex))
    /\ cbpc = "rewind" =>
          /\ m_best_block_index \in Blocks /\ current.block # Genesis
          /\ Prev[current.block] \in Anc[m_best_block_index]
          /\ totals = Prev[current.block]
          /\ \A x \in Anc[m_best_block_index] : x \in byHash \/ x \in Anc[Prev[current.block]]

\* The block the data of the index is about.
Stand == CASE thread \in {"loop", "rewind"} -> pindex
           [] thread = "append" -> pprev(pindex)
           [] thread = "exit" /\ cbpc = "set" -> current.block
           [] OTHER -> m_best_block_index

\* The entries below it are its chain, the totals are its own, and what was
\* committed last is on that chain.
Data ==
    /\ ~Middle => totals = Stand
    /\ Stand # None => \A a \in Anc[Stand] : byHeight[Height[a]] = a
    /\ committed.totals = committed.best
    /\ committed.best # None => Stand # None /\ committed.best \in Anc[Stand]

\* The block the index will be at when the current callback is through.
Heading == IF cbpc = "none" THEN m_best_block_index ELSE current.block

Connects(i) == pending[i].kind = "BlockConnected"
Promise(i) == pending[i].kind = "promise"

\* A callback for a block on p finds the index at s or above it.
Under(p, s) == IF s = None THEN p = None ELSE p # None /\ p \in Anc[s]

OnChain(x) == Heading # None /\ x \in Anc[Heading]

\* Among the first n callbacks one will be taken, and from there on all are, up to
\* one that brings the index to x or above it.
Coming(x, n) ==
    \E i, k \in 1..n :
        /\ i <= k /\ Connects(i) /\ Connects(k)
        /\ Under(pprev(pending[i].block), Heading)
        /\ x \in Anc[pending[k].block]

\* Every block connected is on the chain of the one connected before it, and the
\* tip on that of the last.
Linked ==
    /\ \A i, j \in 1..Len(pending) :
          i < j /\ Connects(i) /\ Connects(j) /\ (\A m \in (i + 1)..(j - 1) : ~Connects(m))
          => pending[j].block # Genesis /\ Prev[pending[j].block] \in Anc[pending[i].block]
    /\ \A i \in 1..Len(pending) :
          Connects(i) /\ (\A m \in (i + 1)..Len(pending) : ~Connects(m))
          => tip \in Anc[pending[i].block]

\* Whatever callbacks are declined, the index comes to the tip.
Arrives == m_synced => tip = None \/ OnChain(tip) \/ Coming(tip, Len(pending))

\* An index without a block waits for the first one, which comes only once.
Opening ==
    /\ \A i \in 2..Len(pending) : pending[i] # First
    /\ pending # <<>> /\ pending[1] = First
          => m_synced /\ m_best_block_index = None /\ cbpc = "none"
    /\ m_synced /\ m_best_block_index = None /\ cbpc = "none"
          => \/ tip = None
             \/ pending # <<>> /\ pending[1] = First

\* A caller waits for a callback behind those that bring the index to its block, or
\* for an entry that is already there.
Promised ==
    /\ answer = "none" => \A p \in 1..Len(pending) : ~Promise(p)
    /\ answer = "sync" => asked \in byHash \/ OnChain(asked) \/ Coming(asked, Len(pending))
    /\ \A p \in 1..Len(pending) :
          Promise(p) => asked \in byHash \/ OnChain(asked) \/ Coming(asked, p - 1)

\* What a caller has been told stays true.
Told ==
    /\ answer # "none" => m_synced /\ m_best_block_index # None /\ asked \in Blocks
    /\ answer = "ready" => asked \in byHash \/ (Stand # None /\ asked \in Anc[Stand])

\* The block index has every block the index is or will be at, and those before it.
Known0 == known \cup {None}
Indexed ==
    /\ known \subseteq Blocks /\ \A x \in known : Anc[x] \subseteq known
    /\ diskKnown \subseteq Blocks /\ \A x \in diskKnown : Anc[x] \subseteq diskKnown
    /\ tip \in Known0 /\ diskTip \in diskKnown \cup {None}
    /\ node # "refused" => m_best_block_index \in Known0 /\ pindex \in Known0 /\ committed.best \in Known0
    /\ current # None => current.block \in known
    /\ \A i \in 1..Len(pending) : Connects(i) => pending[i].block \in known

IInv == Typed /\ Threads /\ Rewinding /\ Data /\ Linked /\ Arrives /\ Opening /\ Promised /\ Told
        /\ NeverFatal /\ Indexed

-----------------------------------------------------------------------------
(* The tree.                                                                 *)

\* A block and the one before it.
LEMMA PrevFacts ==
    ASSUME NEW b \in Blocks \ {Genesis}
    PROVE  /\ Prev[b] \in Blocks /\ Prev[b] # None /\ pprev(b) = Prev[b]
           /\ Prev[b] \in Anc[b] /\ Anc[b] = {b} \cup Anc[Prev[b]]
           /\ Height[b] = Height[Prev[b]] + 1
<1>1. Prev[b] \in Blocks /\ Prev[b] # None /\ pprev(b) = Prev[b]
  BY PrevType, IndexAssumption DEF pprev
<1>2. Anc[b] = {b} \cup Anc[Prev[b]] /\ Prev[b] \in Anc[Prev[b]]
  BY <1>1, AncDef, AncClosed
<1>3. Height[b] = Height[Prev[b]] + 1
  BY <1>1, HeightDef, SMT
<1>. QED BY <1>1, <1>2, <1>3

\* Ancestors are told apart by their heights.
LEMMA OneAtHeight ==
    ASSUME NEW b \in Blocks, NEW a \in Anc[b]
    PROVE  /\ a \in Blocks /\ Height[a] \in 0..Height[b]
           /\ \A c \in Anc[b] : Height[c] = Height[a] => c = a
           /\ GetAncestor(b, Height[a]) = a
<1>1. a \in Blocks /\ Height[a] \in 0..Height[b]
  BY AncHeight, HeightDef, SMT
<1>2. ASSUME NEW c \in Anc[b], Height[c] = Height[a]
      PROVE  c = a
  BY <1>1, <1>2, AncHeight, AncLine, HeightDef, SMT
<1>3. GetAncestor(b, Height[a]) = a
  BY <1>1, <1>2, AncAtHeight
<1>. QED BY <1>1, <1>2, <1>3

\* NextSyncBlock: the index is at the tip or above it, or the next block extends a
\* block of the index's chain.
LEMMA NextSyncFacts ==
    ASSUME tip \in Blocks, NEW b \in Block0
    PROVE  LET n == NextSyncBlock(b)
           IN  /\ n = None => b # None /\ tip \in Anc[b]
               /\ n # None => /\ n \in Blocks /\ n \in Anc[tip]
                              /\ b = None => pprev(n) = None
                              /\ b # None => pprev(n) # None /\ pprev(n) \in Anc[b]
<1>. DEFINE n == NextSyncBlock(b)
<1>0. Genesis \in Blocks /\ Genesis # None
  BY TreeAssumption, IndexAssumption
<1>1. CASE b = None
  BY <1>0, <1>1, AncClosed DEF NextSyncBlock, pprev
<1>2. ASSUME b \in Blocks
      PROVE  LET n1 == NextSyncBlock(b)
             IN  /\ n1 = None => tip \in Anc[b]
                 /\ n1 # None => /\ n1 \in Blocks /\ n1 \in Anc[tip]
                                 /\ pprev(n1) # None /\ pprev(n1) \in Anc[b]
  <2>. USE <1>2
  <2>1. ASSUME NEW c \in Anc[b]
        PROVE  /\ Next1(c) = None => c = tip \/ c \notin Anc[tip]
               /\ Next1(c) # None => /\ Next1(c) \in Blocks /\ Next1(c) \in Anc[tip]
                                     /\ pprev(Next1(c)) # None /\ pprev(Next1(c)) \in Anc[b]
    <3>1. c \in Blocks
      BY OneAtHeight
    <3>2. ASSUME tip # c, c \in Anc[tip]
          PROVE  LET m == GetAncestor(tip, Height[c] + 1)
                 IN  m \in Blocks /\ m \in Anc[tip] /\ m # None /\ pprev(m) = c
      BY <3>2, NextOnBranch, IndexAssumption, SMT DEF pprev
    <3>. QED BY <3>1, <3>2, IndexAssumption DEF Next1
  <2>2. FindFork(b, tip) \in Anc[b] /\ FindFork(b, tip) \in Anc[tip]
    <3>1. Anc[b] \cap Anc[tip] # {}
      BY AncClosed
    <3>2. PICK f \in Anc[b] \cap Anc[tip] : \A c \in Anc[b] \cap Anc[tip] : Height[c] <= Height[f]
      BY <3>1, HighestExists
    <3>. QED BY <3>2 DEF FindFork
  <2>3. b \in Anc[b] /\ b # None
    BY AncClosed, IndexAssumption
  <2>4. CASE Next1(b) # None
    BY <2>1, <2>3, <2>4 DEF NextSyncBlock
  <2>5. CASE Next1(b) = None
    <3>1. NextSyncBlock(b) = Next1(FindFork(b, tip))
      BY <2>3, <2>5 DEF NextSyncBlock
    <3>. QED BY <3>1, <2>1, <2>2
  <2>. QED BY <2>4, <2>5
<1>3. CASE b # None
  <2>1. b \in Blocks
    BY <1>3 DEF Block0
  <2>. QED BY <2>1, <1>2, <1>3
<1>. QED BY <1>1, <1>3

\* An event that is not a promise is about a block.
LEMMA EventFacts ==
    ASSUME NEW e \in Event
    PROVE  /\ e # None
           /\ e.kind \in {"BlockConnected", "ChainStateFlushed", "promise"}
           /\ e.kind # "promise" => e.block \in Blocks
           /\ e.kind = "BlockConnected" /\ e.block = Genesis => e = First
BY IndexAssumption DEF Event, First

\* A block that is taken by the callback of an index at a block is on its chain.
LEMMA DeclinesFacts ==
    ASSUME NEW e \in Event, e.kind = "BlockConnected", m_synced,
           m_best_block_index \in Blocks, e # First
    PROVE  Declines(e) <=> ~Under(pprev(e.block), m_best_block_index)
<1>. DEFINE b == e.block
            s == m_best_block_index
<1>1. b \in Blocks \ {Genesis} /\ s # None
  BY EventFacts, IndexAssumption
<1>2. Declines(e) <=> Ancestor(s, Height[b] - 1) # Prev[b]
  BY <1>1, PrevFacts DEF Declines
<1>3. Height[b] - 1 = Height[Prev[b]] /\ Prev[b] \in Blocks /\ Height[Prev[b]] \in Nat /\ Height[s] \in Nat
  BY <1>1, PrevFacts, HeightDef, SMT
<1>4. ASSUME Prev[b] \in Anc[s]
      PROVE  Ancestor(s, Height[b] - 1) = Prev[b]
  <2>1. Height[Prev[b]] \in 0..Height[s] /\ GetAncestor(s, Height[Prev[b]]) = Prev[b]
    BY <1>4, OneAtHeight
  <2>. QED BY <2>1, <1>3, SMT DEF Ancestor
<1>5. ASSUME Ancestor(s, Height[b] - 1) = Prev[b]
      PROVE  Prev[b] \in Anc[s]
  <2>1. Height[b] - 1 \in 0..Height[s] /\ GetAncestor(s, Height[b] - 1) = Prev[b]
    BY <1>3, <1>5, IndexAssumption, SMT DEF Ancestor
  <2>. QED BY <2>1, AncAtHeight
<1>. QED BY <1>1, <1>2, <1>4, <1>5, PrevFacts DEF Under

-----------------------------------------------------------------------------
(* The data.                                                                 *)

LEMMA StandType ==
    ASSUME Typed, Threads
    PROVE  Stand \in Block0
<1>1. thread = "append" => pprev(pindex) \in Block0
  BY PrevType DEF Typed, Threads, Block0, pprev
<1>2. cbpc = "set" => current.block \in Block0
  BY EventFacts DEF Threads, Block0
<1>. QED BY <1>1, <1>2 DEF Typed, Stand

\* The block on top of the data can be appended, which moves the data up to it.
LEMMA AppendFacts ==
    ASSUME Typed, Data, ~Middle, NEW b \in Blocks, Stand = pprev(b)
    PROVE  /\ CanAppend(b)
           /\ CustomAppend(b) /\ committed' = committed /\ Stand' = b
              => Data' /\ byHeight' \in [Heights -> Block0]
<1>0. b # None /\ Height[b] \in Heights /\ b \in Block0
  BY IndexAssumption DEF Heights, Block0
<1>1. CanAppend(b)
  <2>1. CASE b = Genesis
    BY <2>1 DEF CanAppend
  <2>2. CASE b # Genesis
    <3>1. /\ Prev[b] # None /\ Stand = Prev[b] /\ Prev[b] \in Anc[Prev[b]]
          /\ Height[b] - 1 = Height[Prev[b]]
      BY <2>2, PrevFacts, AncClosed, HeightDef, SMT
    <3>. QED BY <3>1 DEF CanAppend, Data
  <2>. QED BY <2>1, <2>2
<1>2. ASSUME CustomAppend(b), committed' = committed, Stand' = b
      PROVE  Data' /\ byHeight' \in [Heights -> Block0]
  <2>1. byHeight' = [byHeight EXCEPT ![Height[b]] = b] /\ totals' = b
    BY <1>2 DEF CustomAppend, Data
  <2>2. byHeight' \in [Heights -> Block0]
    BY <1>0, <2>1 DEF Typed
  <2>3. ASSUME NEW a \in Anc[b]
        PROVE  byHeight'[Height[a]] = a
    <3>1. CASE a = b
      BY <1>0, <2>1, <3>1 DEF Typed
    <3>2. CASE a # b
      <4>1. b # Genesis
        BY <3>2, AncDef
      <4>2. a \in Anc[Prev[b]] /\ Stand = Prev[b] /\ Stand # None
        BY <3>2, <4>1, PrevFacts
      <4>3. Height[a] # Height[b] /\ Height[a] \in Heights
        BY <3>2, AncHeight, HeightDef, SMT DEF Heights
      <4>. QED BY <2>1, <4>2, <4>3 DEF Data, Typed
    <3>. QED BY <3>1, <3>2
  <2>4. committed.best # None => committed.best \in Anc[b]
    <3>1. ASSUME committed.best # None
          PROVE  committed.best \in Anc[b]
      <4>1. Stand # None /\ committed.best \in Anc[Stand]
        BY <3>1 DEF Data
      <4>2. b # Genesis
        BY <4>1 DEF pprev
      <4>. QED BY <4>1, <4>2, PrevFacts
    <3>. QED BY <3>1
  <2>. QED BY <1>0, <1>2, <2>1, <2>2, <2>3, <2>4 DEF Data
<1>. QED BY <1>1, <1>2

\* The index can be taken back to any block of its chain, which keeps the entries of
\* the others by hash.
LEMMA RewindFacts ==
    ASSUME Typed, Data, ~Middle, NEW from \in Blocks, Stand = from, NEW to \in Anc[from]
    PROVE  /\ CanRewind(to, from)
           /\ RewindData(from, to) /\ Stand' = from /\ Middle'
              => /\ Data' /\ totals' = to /\ committed' = committed /\ byHeight' = byHeight
                 /\ \A x \in Anc[from] : x \in byHash' \/ x \in Anc[to]
                 /\ byHash \subseteq byHash'
<1>0. to \in Blocks /\ to # None /\ from # None /\ Height[to] \in Nat /\ Height[from] \in Nat
  BY AncHeight, HeightDef, IndexAssumption
<1>1. CanRewind(to, from)
  <2>1. ASSUME NEW h \in Height[to]..Height[from]
        PROVE  byHeight[h] # None
    <3>1. h \in 0..Height[from]
      BY <1>0, SMT
    <3>2. GetAncestor(from, h) \in Anc[from] /\ Height[GetAncestor(from, h)] = h
      BY <3>1, AncAtHeight
    <3>3. byHeight[h] \in Blocks
      BY <1>0, <3>2, AncHeight DEF Data
    <3>. QED BY <3>3, IndexAssumption
  <2>. QED BY <2>1 DEF CanRewind
<1>2. ASSUME RewindData(from, to), Stand' = from, Middle'
      PROVE  /\ Data' /\ totals' = to /\ committed' = committed /\ byHeight' = byHeight
             /\ \A x \in Anc[from] : x \in byHash' \/ x \in Anc[to]
             /\ byHash \subseteq byHash'
  <2>1. totals' = to /\ byHeight' = byHeight /\ committed' = committed
    BY <1>2 DEF RewindData, CustomRewind, Data
  <2>2. byHash' = byHash \cup {byHeight[h] : h \in Height[to]..Height[from]}
    BY <1>2 DEF RewindData, CustomRewind
  <2>3. Data'
    BY <1>2, <2>1 DEF Data
  <2>4. ASSUME NEW x \in Anc[from], x \notin Anc[to]
        PROVE  x \in byHash'
    <3>1. to \in Anc[x] /\ x \in Blocks
      BY <2>4, AncLine, AncHeight
    <3>2. Height[x] \in Height[to]..Height[from]
      BY <3>1, <1>0, AncHeight, HeightDef, SMT
    <3>3. byHeight[Height[x]] = x
      BY <1>0 DEF Data
    <3>. QED BY <2>2, <3>2, <3>3
  <2>. QED BY <2>1, <2>2, <2>3, <2>4
<1>. QED BY <1>1, <1>2

\* The new best block is committed with its own totals.
LEMMA RewoundFacts ==
    ASSUME Typed, Data, NEW from \in Blocks, Stand = from, NEW to \in Anc[from],
           totals = to, RewindBest(to), Stand' = to
    PROVE  Data' /\ committed' \in [best : Block0, totals : Block0] /\ committed'.best = to
<1>1. to \in Blocks /\ to # None /\ to \in Anc[to] /\ Anc[to] \subseteq Anc[from] /\ from # None
  BY AncHeight, AncClosed, IndexAssumption
<1>2. totals' = to /\ byHeight' = byHeight /\ committed' = [best |-> to, totals |-> to]
  BY <1>1 DEF RewindBest, Commit
<1>3. Data'
  BY <1>1, <1>2 DEF Data
<1>. QED BY <1>1, <1>2, <1>3 DEF Block0

\* The data stays, and is committed or not.
LEMMA CommitFacts ==
    ASSUME Typed, Threads, Data, Middle => Middle',
           committed' = committed \/ (~Middle /\ Commit(Stand, totals)),
           UNCHANGED <<byHeight, totals>>, Stand' = Stand
    PROVE  Data' /\ committed' \in [best : Block0, totals : Block0]
<1>1. CASE committed' = committed
  BY <1>1 DEF Data, Typed
<1>2. CASE Stand # None /\ ~Middle /\ committed' = [best |-> Stand, totals |-> Stand]
  <2>1. Stand \in Blocks /\ Stand \in Anc[Stand]
    BY <1>2, StandType, AncClosed DEF Block0
  <2>. QED BY <1>2, <2>1 DEF Data, Block0
<1>. QED BY <1>1, <1>2 DEF Commit, Data

-----------------------------------------------------------------------------
(* The queue.                                                                *)

LEMMA TailFacts ==
    ASSUME Typed, pending # <<>>, pending' = Tail(pending)
    PROVE  /\ Len(pending) \in Nat /\ Len(pending) >= 1 /\ Head(pending) = pending[1]
           /\ pending' \in Seq(Event) /\ Len(pending') = Len(pending) - 1
           /\ \A i \in 1..Len(pending) : pending[i] \in Event
           /\ \A i \in 1..(Len(pending) - 1) : pending'[i] = pending[i + 1]
<1>1. pending \in Seq(Event)
  BY DEF Typed
<1>. QED BY <1>1, HeadTailProperties, LenProperties, ElementOfSeq, SMT

\* No step of a rewind is taken.
LEMMA RewindingStill ==
    ASSUME Rewinding, tip' = tip \/ thread # "rewind",
           UNCHANGED <<thread, pindex, totals, cbpc, m_best_block_index, current, byHash>>
    PROVE  Rewinding' /\ (Middle' <=> Middle)
<1>1. ASSUME thread = "rewind"
      PROVE  NextSyncBlock(pindex)' = NextSyncBlock(pindex)
  <2>1. tip' = tip
    BY <1>1
  <2>2. pindex' = pindex
    OBVIOUS
  <2>. QED BY <2>1, <2>2 DEF NextSyncBlock, Next1
<1>2. thread' = "rewind" => /\ pindex' \in Blocks /\ NextSyncBlock(pindex)' # None
                            /\ totals' = pprev(NextSyncBlock(pindex)')
  BY <1>1 DEF Rewinding
<1>3. cbpc' = "rewind" =>
          /\ m_best_block_index' \in Blocks /\ current'.block # Genesis
          /\ Prev[current'.block] \in Anc[m_best_block_index']
          /\ totals' = Prev[current'.block]
          /\ \A x \in Anc[m_best_block_index'] : x \in byHash' \/ x \in Anc[Prev[current'.block]]
  BY DEF Rewinding
<1>. QED BY <1>2, <1>3 DEF Rewinding, Middle

\* What a running index is at, and what comes before and after it, is in the block
\* index.
LEMMA KnownFacts ==
    ASSUME IInv, Up
    PROVE  /\ m_best_block_index \in Known0 /\ pindex \in Known0 /\ committed.best \in Known0
           /\ \A x \in known : x \in Blocks /\ x # None /\ pprev(x) \in Known0
           /\ tip # None => \A x \in Block0 : NextSyncBlock(x) \in Known0
           /\ \A x \in Known0 : \A t : Commit(x, t) => committed'.best \in Known0
<1>1. m_best_block_index \in Known0 /\ pindex \in Known0 /\ committed.best \in Known0
  BY DEF IInv, Indexed, Up
<1>2. ASSUME NEW x \in known
      PROVE  x \in Blocks /\ x # None /\ pprev(x) \in Known0
  <2>1. x \in Blocks /\ x # None /\ Anc[x] \subseteq known
    BY IndexAssumption DEF IInv, Indexed
  <2>2. x # Genesis => pprev(x) \in Anc[x]
    BY <2>1, PrevFacts
  <2>. QED BY <2>1, <2>2 DEF Known0, pprev
<1>3. ASSUME tip # None, NEW x \in Block0
      PROVE  NextSyncBlock(x) \in Known0
  <2>1. tip \in Blocks /\ Anc[tip] \subseteq known
    BY <1>3 DEF IInv, Typed, Block0, Indexed, Known0
  <2>2. NextSyncBlock(x) # None => NextSyncBlock(x) \in Anc[tip]
    BY <2>1, NextSyncFacts
  <2>. QED BY <2>1, <2>2 DEF Known0
<1>4. ASSUME NEW x \in Known0, NEW t, Commit(x, t)
      PROVE  committed'.best \in Known0
  BY <1>1, <1>4 DEF Commit
<1>. QED BY <1>1, <1>2, <1>3, <1>4

\* The block index stays, and so do the callbacks but for the first or the last.
LEMMA IndexedKept ==
    ASSUME IInv, UNCHANGED <<tip, diskTip, known, diskKnown>>,
           m_best_block_index' \in Known0, pindex' \in Known0, committed'.best \in Known0,
           \/ current' \in {current, None}
           \/ pending # <<>> /\ current' = pending[1] /\ Connects(1),
           \/ pending' = pending
           \/ pending # <<>> /\ pending' = Tail(pending)
           \/ \E e \in Event : e.kind # "BlockConnected" /\ pending' = Append(pending, e)
    PROVE  Indexed'
<1>1. pending \in Seq(Event) /\ Len(pending) \in Nat
  BY LenProperties DEF IInv, Typed
<1>2. current' # None => current'.block \in known
  <2>1. pending # <<>> => 1 \in 1..Len(pending)
    BY <1>1, EmptySeq, SMT
  <2>. QED BY <2>1 DEF IInv, Indexed
<1>3. ASSUME NEW i \in 1..Len(pending'), pending'[i].kind = "BlockConnected"
      PROVE  pending'[i].block \in known
  <2>1. CASE pending' = pending
    BY <1>3, <2>1 DEF IInv, Indexed, Connects
  <2>2. CASE pending # <<>> /\ pending' = Tail(pending)
    <3>1. /\ Len(pending') = Len(pending) - 1
          /\ \A k \in 1..(Len(pending) - 1) : pending'[k] = pending[k + 1]
      BY <2>2, TailFacts DEF IInv
    <3>2. i + 1 \in 1..Len(pending) /\ i \in 1..(Len(pending) - 1)
      BY <1>1, <3>1, SMT
    <3>. QED BY <3>2, <1>3, <3>1 DEF IInv, Indexed, Connects
  <2>3. CASE \E e \in Event : e.kind # "BlockConnected" /\ pending' = Append(pending, e)
    <3>1. PICK e \in Event : e.kind # "BlockConnected" /\ pending' = Append(pending, e)
      BY <2>3
    <3>2. Len(pending') = Len(pending) + 1 /\ pending'[Len(pending) + 1] = e
          /\ \A k \in 1..Len(pending) : pending'[k] = pending[k]
      BY <1>1, <3>1, AppendProperties, SMT
    <3>3. i \in 1..Len(pending) \/ i = Len(pending) + 1
      BY <1>1, <3>2, SMT
    <3>. QED BY <1>3, <3>1, <3>2, <3>3 DEF IInv, Indexed, Connects
  <2>. QED BY <2>1, <2>2, <2>3
<1>. QED BY <1>2, <1>3 DEF IInv, Indexed, Known0, Connects

\* The links between callbacks stay when the first one is taken away.
LEMMA LinkedTail ==
    ASSUME Typed, Linked, pending # <<>>, pending' = Tail(pending), tip' = tip
    PROVE  Linked'
<1>. DEFINE n == Len(pending)
<1>1. n \in Nat /\ n >= 1 /\ Len(pending') = n - 1
  BY TailFacts
<1>2. \A i \in 1..(n - 1) : /\ i + 1 \in 1..n /\ pending'[i] = pending[i + 1]
                             /\ Connects(i)' <=> Connects(i + 1)
  BY <1>1, TailFacts, SMT DEF Connects
<1>3. ASSUME NEW i \in 1..(n - 1), NEW j \in 1..(n - 1), i < j, Connects(i)', Connects(j)',
             \A m \in (i + 1)..(j - 1) : ~Connects(m)'
      PROVE  pending'[j].block # Genesis /\ Prev[pending'[j].block] \in Anc[pending'[i].block]
  <2>1. ASSUME NEW m \in (i + 2)..j
        PROVE  ~Connects(m)
    <3>1. m - 1 \in (i + 1)..(j - 1) /\ m - 1 \in 1..(n - 1) /\ (m - 1) + 1 = m
      BY <1>1, SMT
    <3>2. ~Connects(m - 1)'
      BY <1>3, <3>1
    <3>. QED BY <1>2, <3>1, <3>2
  <2>2. (i + 1) + 1 = i + 2 /\ (j + 1) - 1 = j /\ i + 1 < j + 1
    BY <1>1, <1>3, SMT
  <2>3. /\ i + 1 \in 1..n /\ Connects(i + 1) /\ pending'[i] = pending[i + 1]
        /\ j + 1 \in 1..n /\ Connects(j + 1) /\ pending'[j] = pending[j + 1]
    BY <1>2, <1>3, SMT
  <2>4. \A m \in ((i + 1) + 1)..((j + 1) - 1) : ~Connects(m)
    BY <2>1, <2>2
  <2>. QED BY <2>2, <2>3, <2>4 DEF Linked
<1>4. ASSUME NEW i \in 1..(n - 1), Connects(i)', \A m \in (i + 1)..(n - 1) : ~Connects(m)'
      PROVE  tip' \in Anc[pending'[i].block]
  <2>1. ASSUME NEW m \in (i + 2)..n
        PROVE  ~Connects(m)
    <3>1. m - 1 \in (i + 1)..(n - 1) /\ m - 1 \in 1..(n - 1) /\ (m - 1) + 1 = m
      BY <1>1, SMT
    <3>2. ~Connects(m - 1)'
      BY <1>4, <3>1
    <3>. QED BY <1>2, <3>1, <3>2
  <2>2. (i + 1) + 1 = i + 2
    BY <1>1, SMT
  <2>. QED BY <1>2, <1>4, <2>1, <2>2, SMT DEF Linked
<1>. QED BY <1>1, <1>3, <1>4 DEF Linked

\* A callback that is not taken takes nothing away.
LEMMA ComingTail ==
    ASSUME Typed, pending # <<>>, pending' = Tail(pending), Heading' = Heading,
           NEW x, NEW n \in 1..Len(pending), Coming(x, n),
           ~(Connects(1) /\ Under(pprev(pending[1].block), Heading))
    PROVE  Coming(x, n - 1)'
<1>1. PICK i \in 1..n, k \in 1..n :
          /\ i <= k /\ Connects(i) /\ Connects(k)
          /\ Under(pprev(pending[i].block), Heading)
          /\ x \in Anc[pending[k].block]
  BY DEF Coming
<1>2. i # 1
  BY <1>1
<1>3. /\ i - 1 \in 1..(n - 1) /\ k - 1 \in 1..(n - 1) /\ i - 1 <= k - 1
      /\ (i - 1) + 1 = i /\ (k - 1) + 1 = k
  <2>1. i \in 1..n /\ k \in 1..n /\ i <= k
    BY <1>1
  <2>. QED BY <1>2, <2>1, SMT
<1>4. pending'[i - 1] = pending[i] /\ pending'[k - 1] = pending[k]
  BY <1>3, TailFacts, SMT
<1>. QED BY <1>1, <1>3, <1>4 DEF Coming, Connects, Under

\* A callback that is taken brings the index to its block, and the next one
\* follows.
LEMMA ComingTake ==
    ASSUME Typed, Linked, pending # <<>>, pending' = Tail(pending), Connects(1),
           Heading' = pending[1].block, NEW x, NEW n \in 1..Len(pending), NEW k \in 1..n,
           Connects(k), x \in Anc[pending[k].block]
    PROVE  OnChain(x)' \/ Coming(x, n - 1)'
<1>0. pending[1].block \in Blocks /\ pending[1].block # None
  BY TailFacts, EventFacts, IndexAssumption, SMT DEF Connects
<1>1. CASE k = 1
  BY <1>0, <1>1 DEF OnChain
<1>2. CASE k # 1
  <2>. DEFINE N == {m \in 2..k : Connects(m)}
  <2>1. PICK j \in N : \A m \in N : ~ (m < j)
    <3>1. N \subseteq Nat /\ k \in N
      BY <1>2, SMT
    <3>. HIDE DEF N
    <3>. QED BY <3>1, LeastNumber
  <2>2. /\ j \in 1..Len(pending) /\ 1 \in 1..Len(pending) /\ 1 < j
        /\ \A m \in (1 + 1)..(j - 1) : ~Connects(m)
    BY <2>1, TailFacts, SMT
  <2>3. pending[j].block # Genesis /\ Prev[pending[j].block] \in Anc[pending[1].block]
    BY <2>1, <2>2 DEF Linked
  <2>4. pending[j].block \in Blocks
    BY <2>1, <2>2, TailFacts, EventFacts DEF Connects
  <2>5. Under(pprev(pending[j].block), pending[1].block)
    BY <1>0, <2>3, <2>4, PrevFacts DEF Under
  <2>6. /\ j - 1 \in 1..(n - 1) /\ k - 1 \in 1..(n - 1) /\ j - 1 <= k - 1
        /\ (j - 1) + 1 = j /\ (k - 1) + 1 = k
    BY <1>2, <2>1, SMT
  <2>7. pending'[j - 1] = pending[j] /\ pending'[k - 1] = pending[k]
    BY <2>6, TailFacts, SMT
  <2>. QED BY <2>1, <2>5, <2>6, <2>7 DEF Coming, Connects, Under
<1>. QED BY <1>1, <1>2

\* Callbacks behind the others do not change what is coming.
LEMMA ComingMore ==
    ASSUME \A i \in 1..Len(pending) : pending'[i] = pending[i], Heading' = Heading,
           Len(pending) \in Nat, NEW x, NEW n \in 0..Len(pending), Coming(x, n)
    PROVE  Coming(x, n)'
<1>1. \A i \in 1..n : pending'[i] = pending[i]
  BY SMT
<1>. QED BY <1>1 DEF Coming, Connects, Under

\* What ActivateBestChain enqueues: the blocks of the new chain above the fork, each
\* on the one before it.
LEMMA ConnectedFacts ==
    ASSUME Typed, NEW b \in Blocks, tip # None => Height[b] > Height[tip]
    PROVE  LET q == Connected(b)
           IN  /\ q \in Seq(Event) /\ Len(q) \in Nat /\ Len(q) >= 1
               /\ \A i \in 1..Len(q) : /\ q[i].kind = "BlockConnected"
                                       /\ q[i].block \in Blocks /\ q[i].block \in Anc[b]
               /\ q[Len(q)].block = b
               /\ \A i \in 2..Len(q) : /\ q[i].block # Genesis
                                       /\ Prev[q[i].block] = q[i - 1].block
               /\ tip = None => q[1] = First
               /\ tip # None => q[1].block # Genesis /\ Prev[q[1].block] \in Anc[tip]
<1>. DEFINE f == FindFork(tip, b)
            above == IF tip = None THEN -1 ELSE Height[f]
            q == Connected(b)
<1>1. tip # None => /\ tip \in Blocks /\ f \in Anc[tip] /\ f \in Anc[b] /\ f \in Blocks
                    /\ Height[f] \in Nat /\ Height[f] < Height[b]
  <2>1. SUFFICES ASSUME tip # None
                 PROVE  /\ tip \in Blocks /\ f \in Anc[tip] /\ f \in Anc[b] /\ f \in Blocks
                        /\ Height[f] \in Nat /\ Height[f] < Height[b]
    OBVIOUS
  <2>2. tip \in Blocks
    BY <2>1 DEF Typed, Block0
  <2>3. Anc[tip] \cap Anc[b] # {}
    BY <2>2, AncClosed
  <2>4. PICK g \in Anc[tip] \cap Anc[b] : \A c \in Anc[tip] \cap Anc[b] : Height[c] <= Height[g]
    BY <2>2, <2>3, HighestExists
  <2>5. f \in Anc[tip] \cap Anc[b]
    BY <2>4 DEF FindFork
  <2>. QED BY <2>1, <2>2, <2>5, AncHeight, HeightDef, SMT
<1>2. /\ above \in Int /\ above >= -1 /\ Height[b] \in Nat /\ Height[b] - above \in Nat
      /\ Height[b] - above >= 1
  BY <1>1, HeightDef, SMT
<1>3. q = [i \in 1..(Height[b] - above) |->
              [kind |-> "BlockConnected", block |-> GetAncestor(b, above + i)]]
  BY DEF Connected
<1>. HIDE DEF above, q
<1>4. ASSUME NEW i \in 1..(Height[b] - above)
      PROVE  LET a == GetAncestor(b, above + i)
             IN  /\ a \in Anc[b] /\ a \in Blocks /\ Height[a] = above + i
                 /\ a # Genesis => Prev[a] \in Anc[b] /\ Height[Prev[a]] = above + i - 1
  <2>. DEFINE a == GetAncestor(b, above + i)
  <2>1. above + i \in 0..Height[b]
    BY <1>2, SMT
  <2>2. a \in Anc[b] /\ Height[a] = above + i
    BY <2>1, AncAtHeight
  <2>3. a \in Blocks /\ Anc[a] \subseteq Anc[b]
    BY <2>2, AncHeight, AncClosed
  <2>. HIDE DEF a
  <2>4. a # Genesis => /\ Prev[a] \in Anc[b] /\ Height[a] = Height[Prev[a]] + 1
                       /\ Height[Prev[a]] \in Nat
    BY <2>3, PrevFacts, HeightDef
  <2>5. a # Genesis => Prev[a] \in Anc[b] /\ Height[Prev[a]] = above + i - 1
    BY <1>2, <2>2, <2>4, SMT
  <2>6. a \in Anc[b] /\ a \in Blocks /\ Height[a] = above + i
    BY <2>2, <2>3
  <2>. QED BY <2>5, <2>6 DEF a
<1>5. /\ q \in Seq(Event) /\ Len(q) = Height[b] - above
      /\ \A i \in 1..Len(q) : /\ q[i].kind = "BlockConnected" /\ q[i].block \in Blocks
                              /\ q[i].block \in Anc[b] /\ q[i].block = GetAncestor(b, above + i)
  <2>1. \A i \in 1..(Height[b] - above) :
            [kind |-> "BlockConnected", block |-> GetAncestor(b, above + i)] \in Event
    BY <1>4 DEF Event
  <2>2. DOMAIN q = 1..(Height[b] - above)
    BY <1>3
  <2>3. q \in [1..(Height[b] - above) -> Event]
    BY <1>3, <2>1
  <2>4. q \in Seq(Event) /\ Len(q) = Height[b] - above
    BY <1>2, <2>2, <2>3, SMT
  <2>5. \A i \in 1..(Height[b] - above) :
            /\ q[i].kind = "BlockConnected" /\ q[i].block \in Blocks
            /\ q[i].block \in Anc[b] /\ q[i].block = GetAncestor(b, above + i)
    BY <1>3, <1>4
  <2>. QED BY <2>4, <2>5
<1>6. q[Len(q)].block = b
  <2>0. Len(q) = Height[b] - above
    BY <1>5
  <2>1. Len(q) \in 1..Len(q) /\ above + Len(q) = Height[b]
    BY <1>2, <2>0, SMT
  <2>2. b \in Anc[b]
    BY AncClosed
  <2>. QED BY <1>5, <2>1, <2>2, OneAtHeight
<1>7. ASSUME NEW c \in Blocks
      PROVE  Height[c] \in Nat /\ (c = Genesis <=> Height[c] = 0)
  <2>1. Height[c] \in Nat /\ (c # Genesis => Height[c] = Height[Prev[c]] + 1 /\ Height[Prev[c]] \in Nat)
    BY HeightDef, PrevFacts
  <2>2. c = Genesis => Height[c] = 0
    BY HeightDef
  <2>. QED BY <2>1, <2>2, SMT
<1>8. ASSUME NEW i \in 2..Len(q)
      PROVE  q[i].block # Genesis /\ Prev[q[i].block] = q[i - 1].block
  <2>1. /\ i \in 1..Len(q) /\ i - 1 \in 1..Len(q) /\ above + i >= 1
        /\ above + i - 1 = above + (i - 1)
    BY <1>2, <1>5, SMT
  <2>2. /\ q[i].block \in Blocks /\ Height[q[i].block] = above + i
        /\ q[i - 1].block \in Anc[b] /\ Height[q[i - 1].block] = above + (i - 1)
    BY <1>4, <1>5, <2>1
  <2>3. q[i].block # Genesis
    BY <1>2, <1>7, <2>1, <2>2, SMT
  <2>4. Prev[q[i].block] \in Anc[b] /\ Height[Prev[q[i].block]] = above + (i - 1)
    BY <1>4, <1>5, <2>1, <2>3
  <2>. QED BY <2>2, <2>3, <2>4, OneAtHeight, SMT
<1>9. /\ 1 \in 1..Len(q) /\ q[1].block \in Blocks /\ Height[q[1].block] = above + 1
      /\ q[1].kind = "BlockConnected" /\ q[1] \in Event
  BY <1>2, <1>4, <1>5, SMT
<1>10. tip = None => q[1] = First
  <2>1. tip = None => above = -1
    BY DEF above
  <2>. QED BY <1>7, <1>9, <2>1, EventFacts, SMT
<1>11. tip # None => q[1].block # Genesis /\ Prev[q[1].block] \in Anc[tip]
  <2>1. SUFFICES ASSUME tip # None
                 PROVE  q[1].block # Genesis /\ Prev[q[1].block] \in Anc[tip]
    OBVIOUS
  <2>2. above = Height[f] /\ Height[f] \in Nat
    BY <1>1, <2>1 DEF above
  <2>3. q[1].block # Genesis
    BY <1>7, <1>9, <2>2, SMT
  <2>4. Prev[q[1].block] \in Anc[b] /\ Height[Prev[q[1].block]] = Height[f]
    BY <1>2, <1>4, <1>5, <1>9, <2>2, <2>3, SMT
  <2>5. Prev[q[1].block] = f
    BY <1>1, <2>1, <2>4, OneAtHeight
  <2>. QED BY <1>1, <2>1, <2>3, <2>5
<1>. QED BY <1>2, <1>5, <1>6, <1>8, <1>10, <1>11 DEF q

-----------------------------------------------------------------------------
(* The sync thread.                                                          *)

LEMMA InitIInv == Init => IInv
<1>. SUFFICES ASSUME Init PROVE IInv
  OBVIOUS
<1>. USE DEF Init, Nothing, Queue!QueueInit
<1>0. <<>> \in Seq(Event) /\ Len(<<>>) = 0
  BY EmptySeq
<1>7. /\ m_synced \in BOOLEAN /\ thread \in {"loop", "exit"}
      /\ m_synced <=> tip = None
      /\ m_synced => thread = "exit"
  <2>1. CASE tip = None
    BY <2>1
  <2>2. CASE tip # None
    BY <2>2
  <2>. QED BY <2>1, <2>2
<1>1. Typed
  <2>1. byHeight \in [Heights -> Block0] /\ committed \in [best : Block0, totals : Block0]
    BY DEF Block0
  <2>2. /\ pending \in Seq(Event) /\ current = None /\ cbpc = "none" /\ pindex = None
        /\ tip \in Block0 /\ diskTip = tip /\ m_best_block_index = None /\ asked = None
        /\ None \in Block0
    BY <1>0 DEF Block0
  <2>. QED BY <1>7, <2>1, <2>2 DEF Typed
<1>2. Threads
  <2>1. tip = None => diskKnown = {}
    OBVIOUS
  <2>2. pending = <<>> /\ current = None /\ cbpc = "none" /\ diskTip = tip /\ m_best_block_index = None
    OBVIOUS
  <2>. QED BY <1>7, <2>1, <2>2 DEF Threads
<1>3. Data
  BY <1>7 DEF Data, Stand, Middle
<1>8. /\ \A i \in 1..Len(pending) : FALSE
      /\ \A i \in 2..Len(pending) : FALSE
  BY <1>0, SMT
<1>4. Linked /\ Arrives
  BY <1>7, <1>8 DEF Linked, Arrives
<1>5. Opening /\ Promised /\ Told
  <2>1. answer = "none" /\ pending = <<>>
    OBVIOUS
  <2>. QED BY <1>7, <1>8, <2>1 DEF Opening, Promised, Told
<1>6. NeverFatal
  BY DEF NeverFatal
<1>9. Rewinding
  BY <1>7 DEF Rewinding
<1>10. Indexed
  <2>1. ASSUME NEW x \in known
        PROVE  x \in Blocks /\ Anc[x] \subseteq known
    BY AncHeight, AncClosed DEF Block0
  <2>2. tip # None => tip \in known
    BY AncClosed
  <2>. QED BY <1>8, <2>1, <2>2 DEF Indexed, Known0
<1>. QED BY <1>1, <1>2, <1>3, <1>4, <1>5, <1>6, <1>9, <1>10 DEF IInv

\* Until the index is in sync nobody relies on the callbacks.
LEMMA SyncQuiet ==
    ASSUME IInv, ~m_synced, ~m_synced', UNCHANGED <<pending, tip, answer, asked>>
    PROVE  Linked' /\ Arrives' /\ Opening' /\ Promised' /\ Told'
<1>1. Linked'
  BY ZenonT(30) DEF IInv, Linked, Connects
<1>2. Arrives'
  BY DEF Arrives
<1>3. Opening'
  BY DEF IInv, Opening
<1>4. answer = "none" /\ \A p \in 1..Len(pending) : ~Promise(p)
  BY DEF IInv, Promised, Told
<1>5. Promised' /\ Told'
  BY <1>4 DEF Promised, Told, Promise
<1>. QED BY <1>1, <1>2, <1>3, <1>5

LEMMA SyncDoneStep == IInv /\ SyncDone => IInv'
<1>. SUFFICES ASSUME IInv, SyncDone PROVE IInv'
  OBVIOUS
<1>. USE DEF SyncDone, chainVars, queueVars, askVars, bounds
<1>0. /\ tip \in Blocks /\ pindex \in Blocks /\ tip \in Anc[pindex] /\ pindex # None
      /\ ~m_synced /\ cbpc = "none" /\ current = None
  <2>1. ~m_synced /\ cbpc = "none" /\ current = None /\ tip \in Blocks /\ pindex \in Block0
    BY DEF IInv, Threads, Typed, Block0, Up
  <2>2. pindex # None /\ tip \in Anc[pindex]
    BY <2>1, NextSyncFacts
  <2>. QED BY <2>1, <2>2 DEF Block0
<1>1. Stand = pindex /\ Stand' = pindex /\ Heading' = pindex
  BY <1>0 DEF Stand, Heading
<1>2. Data' /\ committed' \in [best : Block0, totals : Block0]
  BY <1>0, <1>1, CommitFacts DEF IInv, Middle
<1>3. Typed'
  BY <1>2 DEF IInv, Typed
<1>4. Threads'
  BY <1>0 DEF IInv, Threads, Up
<1>5. Linked'
  BY DEF IInv, Linked, Connects
<1>6. Arrives'
  BY <1>0, <1>1 DEF Arrives, OnChain
<1>7. Opening'
  BY <1>0 DEF IInv, Opening
<1>8. answer = "none" /\ \A p \in 1..Len(pending) : ~Promise(p)
  BY <1>0 DEF IInv, Promised, Told
<1>9. Promised' /\ Told'
  BY <1>8 DEF Promised, Told, Promise
<1>10. Rewinding' /\ NeverFatal'
  BY <1>0 DEF IInv, Rewinding, NeverFatal
<1>11. Indexed'
  BY KnownFacts, IndexedKept DEF Up
<1>. QED BY <1>2, <1>3, <1>4, <1>5, <1>6, <1>7, <1>9, <1>10, <1>11 DEF IInv

LEMMA SyncNextStep == IInv /\ SyncNext => IInv'
<1>. SUFFICES ASSUME IInv, SyncNext PROVE IInv'
  OBVIOUS
<1>. USE DEF SyncNext, chainVars, queueVars, memVars, dbVars, askVars, bounds
<1>0. tip \in Blocks /\ pindex' \in Blocks /\ pindex' # None /\ ~m_synced /\ cbpc = "none"
  <2>1. ~m_synced /\ cbpc = "none" /\ tip \in Blocks /\ pindex \in Block0
    BY DEF IInv, Threads, Typed, Block0, Up
  <2>2. pindex' \in Blocks
    BY <2>1, NextSyncFacts
  <2>. QED BY <2>1, <2>2, IndexAssumption
<1>1. Stand = pindex /\ Stand' = pindex
  BY DEF Stand
<1>2. Data'
  BY <1>0, <1>1, CommitFacts DEF IInv, Middle
<1>3. Typed'
  BY <1>0 DEF IInv, Typed, Block0
<1>4. Threads'
  BY <1>0 DEF IInv, Threads, Up
<1>5. Rewinding' /\ NeverFatal'
  BY <1>0 DEF IInv, Rewinding, NeverFatal
<1>6. Indexed'
  <2>1. pindex' \in Known0
    BY <1>0, KnownFacts, IndexAssumption DEF IInv, Typed, Up
  <2>. QED BY <2>1, KnownFacts, IndexedKept DEF Up
<1>. QED BY <1>0, <1>2, <1>3, <1>4, <1>5, <1>6, SyncQuiet DEF IInv

LEMMA SyncRewindStep == IInv /\ SyncRewind => IInv'
<1>. SUFFICES ASSUME IInv, SyncRewind PROVE IInv'
  OBVIOUS
<1>. USE DEF SyncRewind, chainVars, queueVars, memVars, dbVars, askVars, bounds
<1>. DEFINE next == NextSyncBlock(pindex)
<1>0. /\ tip \in Blocks /\ pindex \in Blocks /\ ~m_synced /\ cbpc = "none"
      /\ next \in Blocks /\ pprev(next) \in Anc[pindex] /\ pprev(next) \in Blocks
      /\ next # None
  <2>1. ~m_synced /\ cbpc = "none" /\ tip \in Blocks /\ pindex \in Block0
    BY DEF IInv, Threads, Typed, Block0, Up
  <2>2. next # None /\ pprev(next) # pindex
    OBVIOUS
  <2>3. next \in Blocks /\ pindex # None /\ pprev(next) \in Anc[pindex]
    BY <2>1, <2>2, NextSyncFacts
  <2>4. pindex \in Blocks
    BY <2>1, <2>3 DEF Block0
  <2>. QED BY <2>1, <2>2, <2>3, <2>4, AncHeight
<1>1. Stand = pindex
  BY DEF Stand
<1>2. CanRewind(pprev(next), pindex)
  BY <1>0, <1>1, RewindFacts DEF IInv, Middle
<1>3. CASE node' = "assertion" /\ UNCHANGED <<memVars, dbVars, thread>>
  <2>1. Stand' = Stand
    BY <1>0, <1>3 DEF Stand
  <2>2. Data'
    BY <1>0, <1>3, <2>1, CommitFacts DEF IInv, Middle
  <2>3. Typed' /\ Threads'
    BY <1>0, <1>3 DEF IInv, Typed, Threads, Up
  <2>4. Rewinding' /\ NeverFatal'
    BY <1>0, <1>3 DEF Rewinding, NeverFatal
  <2>5. Indexed'
    BY <1>3, KnownFacts, IndexedKept DEF Up
  <2>. QED BY <1>0, <1>3, <2>2, <2>3, <2>4, <2>5, SyncQuiet DEF IInv
<1>4. CASE RewindData(pindex, pprev(next)) /\ thread' = "rewind" /\ node' = node
  <2>1. Stand' = pindex /\ Middle' /\ ~Middle
    BY <1>0, <1>4 DEF Stand, Middle
  <2>2. Data' /\ totals' = pprev(next) /\ committed' = committed /\ byHeight' = byHeight
    BY <1>0, <1>1, <1>4, <2>1, RewindFacts DEF IInv
  <2>3. m_best_block_index' = m_best_block_index
    BY <1>4 DEF RewindData
  <2>4. Typed' /\ Threads' /\ NeverFatal'
    BY <1>0, <1>4, <2>2, <2>3 DEF IInv, Typed, Threads, NeverFatal, Up
  <2>5. Rewinding'
    <3>1. NextSyncBlock(pindex)' = next
      BY DEF NextSyncBlock, Next1
    <3>. QED BY <1>0, <2>2, <3>1 DEF Rewinding
  <2>6. Indexed'
    BY <2>2, <2>3, KnownFacts, IndexedKept DEF Up
  <2>. QED BY <1>0, <2>2, <2>4, <2>5, <2>6, SyncQuiet DEF IInv
<1>. QED BY <1>2, <1>3, <1>4

LEMMA SyncRewoundStep == IInv /\ SyncRewound => IInv'
<1>. SUFFICES ASSUME IInv, SyncRewound PROVE IInv'
  OBVIOUS
<1>. USE DEF SyncRewound, chainVars, queueVars, askVars, bounds
<1>. DEFINE next == NextSyncBlock(pindex)
<1>0. /\ tip \in Blocks /\ pindex \in Blocks /\ ~m_synced /\ cbpc = "none" /\ pindex # None
      /\ next \in Blocks /\ pprev(next) \in Anc[pindex] /\ pprev(next) \in Blocks
      /\ next # None /\ totals = pprev(next)
  <2>1. /\ ~m_synced /\ cbpc = "none" /\ tip \in Blocks /\ pindex \in Blocks
        /\ next # None /\ totals = pprev(next) /\ pindex # None
    BY IndexAssumption DEF IInv, Threads, Typed, Block0, Rewinding
  <2>2. next \in Blocks /\ pprev(next) \in Anc[pindex]
    BY <2>1, NextSyncFacts DEF Block0
  <2>. QED BY <2>1, <2>2, AncHeight
<1>1. Stand = pindex /\ Stand' = pprev(next)
  BY DEF Stand
<1>2. Data' /\ committed' \in [best : Block0, totals : Block0] /\ committed'.best = pprev(next)
  BY <1>0, <1>1, RewoundFacts DEF IInv
<1>3. m_best_block_index' = pprev(next) /\ byHeight' = byHeight
  BY DEF RewindBest
<1>4. Typed' /\ Threads'
  BY <1>0, <1>2, <1>3 DEF IInv, Typed, Threads, Up, Block0
<1>5. Rewinding' /\ NeverFatal'
  BY <1>0 DEF IInv, Rewinding, NeverFatal, Up
<1>6. Indexed'
  <2>1. tip # None /\ pindex \in Block0
    BY <1>0, IndexAssumption DEF Block0
  <2>2. next \in known
    BY <1>0, <2>1, KnownFacts DEF Known0
  <2>3. pprev(next) \in Known0
    BY <2>2, KnownFacts
  <2>. QED BY <1>2, <1>3, <2>2, <2>3, IndexedKept DEF Known0
<1>. QED BY <1>0, <1>2, <1>4, <1>5, <1>6, SyncQuiet DEF IInv

LEMMA SyncCommitStep == IInv /\ SyncCommit => IInv'
<1>. SUFFICES ASSUME IInv, SyncCommit PROVE IInv'
  OBVIOUS
<1>. USE DEF SyncCommit, chainVars, queueVars, syncVars, askVars, bounds
<1>0. pindex \in Blocks /\ ~m_synced /\ cbpc = "none" /\ tip # None
  BY DEF IInv, Threads, Typed, Block0
<1>1. Stand = pprev(pindex) /\ Stand' = Stand /\ pprev(pindex) \in Block0
  BY <1>0, PrevType DEF Stand, pprev, Block0
<1>2. Data' /\ committed' \in [best : Block0, totals : Block0]
  BY <1>0, <1>1, CommitFacts DEF IInv, Middle
<1>3. Typed'
  BY <1>1, <1>2 DEF IInv, Typed
<1>4. Threads'
  BY <1>0 DEF IInv, Threads, Up
<1>5. Rewinding' /\ NeverFatal'
  BY <1>0 DEF IInv, Rewinding, NeverFatal, Up
<1>6. Indexed'
  <2>1. pindex \in known /\ pprev(pindex) \in Known0
    BY <1>0, KnownFacts, IndexAssumption DEF Known0
  <2>. QED BY <2>1, KnownFacts, IndexedKept
<1>. QED BY <1>0, <1>2, <1>3, <1>4, <1>5, <1>6, SyncQuiet DEF IInv

LEMMA SyncAppendStep == IInv /\ SyncAppend => IInv'
<1>. SUFFICES ASSUME IInv, SyncAppend PROVE IInv'
  OBVIOUS
<1>. USE DEF SyncAppend, chainVars, queueVars, askVars, bounds
<1>0. pindex \in Blocks /\ ~m_synced /\ cbpc = "none" /\ tip # None
  BY DEF IInv, Threads, Typed, Block0
<1>1. Stand = pprev(pindex)
  BY DEF Stand
<1>2. CanAppend(pindex)
  BY <1>0, <1>1, AppendFacts DEF IInv, Middle
<1>3. CustomAppend(pindex) /\ thread' = "loop" /\ node' = node
  BY <1>2
<1>4. Stand' = pindex
  BY <1>3 DEF Stand
<1>5. Data' /\ byHeight' \in [Heights -> Block0]
  BY <1>0, <1>1, <1>3, <1>4, AppendFacts DEF IInv, Middle
<1>6. Typed'
  BY <1>3, <1>5 DEF IInv, Typed
<1>7. Threads'
  BY <1>0, <1>3 DEF IInv, Threads, Up
<1>8. Rewinding' /\ NeverFatal'
  BY <1>0, <1>3 DEF IInv, Rewinding, NeverFatal, Up
<1>9. Indexed'
  BY KnownFacts, IndexedKept
<1>. QED BY <1>0, <1>3, <1>5, <1>6, <1>7, <1>8, <1>9, SyncQuiet DEF IInv

LEMMA SyncInterruptedStep == IInv /\ SyncInterrupted => IInv'
<1>. SUFFICES ASSUME IInv, SyncInterrupted PROVE IInv'
  OBVIOUS
<1>. USE DEF SyncInterrupted, chainVars, queueVars, askVars, bounds
<1>0. ~m_synced /\ cbpc = "none" /\ tip # None
  BY DEF IInv, Threads, Up
<1>1. Stand = pindex /\ Stand' = pindex
  BY <1>0 DEF Stand
<1>2. Data' /\ committed' \in [best : Block0, totals : Block0]
  BY <1>0, <1>1, CommitFacts DEF IInv, Middle
<1>3. Typed'
  BY <1>2 DEF IInv, Typed
<1>4. Threads'
  BY <1>0 DEF IInv, Threads, Up
<1>5. Rewinding' /\ NeverFatal'
  BY <1>0 DEF IInv, Rewinding, NeverFatal, Up
<1>6. Indexed'
  BY KnownFacts, IndexedKept DEF Up
<1>. QED BY <1>0, <1>2, <1>3, <1>4, <1>5, <1>6, SyncQuiet DEF IInv

-----------------------------------------------------------------------------
(* The callbacks.                                                            *)

\* The queue and the tip stay.
LEMMA QueueStill ==
    ASSUME IInv, UNCHANGED <<pending, tip, m_synced, answer, asked, byHash>>, Heading' = Heading
    PROVE  Linked' /\ Arrives' /\ Promised'
<1>1. \A x, n : Coming(x, n)' <=> Coming(x, n)
  BY DEF Coming, Connects, Under
<1>2. \A x : OnChain(x)' <=> OnChain(x)
  BY DEF OnChain
<1>3. Linked'
  BY DEF IInv, Linked, Connects
<1>4. Arrives'
  BY <1>1, <1>2 DEF IInv, Arrives
<1>5. Promised'
  BY <1>1, <1>2 DEF IInv, Promised, Promise
<1>. QED BY <1>3, <1>4, <1>5

\* The first callback goes without being taken, and is not the first block.
LEMMA QueuePop ==
    ASSUME IInv, pending # <<>>, pending' = Tail(pending),
           UNCHANGED <<tip, m_synced, asked, byHash, m_best_block_index, cbpc, current>>,
           m_synced => ~(Connects(1) /\ Under(pprev(pending[1].block), Heading)),
           pending[1] # First, answer' = answer \/ answer' = "ready"
    PROVE  Linked' /\ Arrives' /\ Opening' /\ Promised'
<1>0. Typed
  BY DEF IInv
<1>1. /\ Len(pending) \in Nat /\ Len(pending) >= 1 /\ Len(pending') = Len(pending) - 1
      /\ \A i \in 1..(Len(pending) - 1) : pending'[i] = pending[i + 1]
  BY <1>0, TailFacts
<1>2. Heading' = Heading /\ \A x : OnChain(x)' <=> OnChain(x)
  BY DEF Heading, OnChain
<1>3. ASSUME m_synced, NEW x, NEW n \in 1..Len(pending), Coming(x, n)
      PROVE  Coming(x, n - 1)'
  BY <1>0, <1>2, <1>3, ComingTail
<1>4. Linked'
  BY <1>0, LinkedTail DEF IInv
<1>5. Arrives'
  <2>1. SUFFICES ASSUME m_synced, tip # None
                 PROVE  (OnChain(tip) \/ Coming(tip, Len(pending)))'
    BY DEF Arrives
  <2>2. PICK t, n : t = tip /\ n = Len(pending)
    OBVIOUS
  <2>3. OnChain(t) \/ Coming(t, n)
    BY <2>1, <2>2 DEF IInv, Arrives
  <2>4. OnChain(t)' \/ Coming(t, n - 1)'
    BY <1>1, <1>2, <1>3, <2>1, <2>2, <2>3, SMT
  <2>5. t = tip' /\ n - 1 = Len(pending')
    BY <1>1, <2>2
  <2>. QED BY <2>4, <2>5 DEF OnChain, Coming
<1>6. Opening'
  <2>1. \A i \in 1..(Len(pending) - 1) : pending'[i] # First
    BY <1>1, SMT DEF IInv, Opening
  <2>2. (\A i \in 2..Len(pending') : pending'[i] # First) /\ (pending' # <<>> => pending'[1] # First)
    <3>1. pending' # <<>> => 1 \in 1..(Len(pending) - 1)
      BY <1>0, <1>1, TailFacts, EmptySeq, SMT
    <3>2. \A i \in 2..Len(pending') : i \in 1..(Len(pending) - 1)
      BY <1>1, SMT
    <3>. QED BY <2>1, <3>1, <3>2
  <2>3. m_synced /\ m_best_block_index = None /\ cbpc = "none" => tip = None
    BY DEF IInv, Opening
  <2>. QED BY <2>2, <2>3 DEF Opening
<1>7. Promised'
  <2>0. PICK a, n : a = asked /\ n = Len(pending)
    OBVIOUS
  <2>1. ASSUME NEW p \in 1..Len(pending'), Promise(p)'
        PROVE  answer # "none" /\ (asked \in byHash \/ OnChain(asked) \/ Coming(asked, p - 1))'
    <3>1. p + 1 \in 1..Len(pending) /\ Promise(p + 1) /\ (p + 1) - 1 = p /\ p \in 1..Len(pending)
      BY <1>1, <2>1, SMT DEF Promise
    <3>2. answer # "none" /\ (a \in byHash \/ OnChain(a) \/ Coming(a, p))
      BY <2>0, <3>1 DEF IInv, Promised
    <3>3. m_synced
      BY <3>2 DEF IInv, Told
    <3>4. a \in byHash' \/ OnChain(a)' \/ Coming(a, p - 1)'
      BY <1>2, <1>3, <3>1, <3>2, <3>3
    <3>5. a = asked'
      BY <2>0
    <3>. QED BY <3>2, <3>4, <3>5 DEF OnChain, Coming
  <2>2. ASSUME answer' = "sync"
        PROVE  (asked \in byHash \/ OnChain(asked) \/ Coming(asked, Len(pending)))'
    <3>1. answer = "sync" /\ m_synced /\ n \in 1..Len(pending)
      BY <1>1, <2>0, <2>2, SMT DEF IInv, Told
    <3>2. a \in byHash \/ OnChain(a) \/ Coming(a, n)
      BY <2>0, <3>1 DEF IInv, Promised
    <3>3. a \in byHash' \/ OnChain(a)' \/ Coming(a, n - 1)'
      BY <1>2, <1>3, <3>1, <3>2
    <3>4. a = asked' /\ n - 1 = Len(pending')
      BY <1>1, <2>0
    <3>. QED BY <3>3, <3>4 DEF OnChain, Coming
  <2>. QED BY <2>1, <2>2 DEF Promised
<1>. QED BY <1>4, <1>5, <1>6, <1>7

\* Between two callbacks.
LEMMA IdleFacts ==
    ASSUME IInv, current = None, pending # <<>>, pending' = Tail(pending)
    PROVE  /\ cbpc = "none" /\ Heading = m_best_block_index /\ tip # None
           /\ m_synced => Stand = m_best_block_index
           /\ pending[1] \in Event /\ Head(pending) = pending[1] /\ pending' \in Seq(Event)
           /\ pending[1] = First => m_synced /\ m_best_block_index = None
           /\ m_synced /\ m_best_block_index = None => pending[1] = First
<1>1. cbpc = "none" /\ tip # None
  BY IndexAssumption DEF IInv, Threads
<1>2. Heading = m_best_block_index /\ (m_synced => Stand = m_best_block_index)
  BY <1>1 DEF Heading, Stand, IInv, Threads
<1>3. pending[1] \in Event /\ Head(pending) = pending[1] /\ pending' \in Seq(Event)
  BY TailFacts, SMT DEF IInv
<1>4. pending[1] = First => m_synced /\ m_best_block_index = None
  BY DEF IInv, Opening
<1>5. m_synced /\ m_best_block_index = None => pending[1] = First
  BY <1>1 DEF IInv, Opening
<1>. QED BY <1>1, <1>2, <1>3, <1>4, <1>5

LEMMA CallbackDeclinesStep == IInv /\ CallbackDeclines => IInv'
<1>. SUFFICES ASSUME IInv, CallbackDeclines PROVE IInv'
  OBVIOUS
<1>. USE DEF CallbackDeclines, chainVars, memVars, dbVars, syncVars, askVars, bounds
<1>0. /\ cbpc = "none" /\ Heading = m_best_block_index /\ tip # None
      /\ pending[1] \in Event /\ Declines(pending[1]) /\ pending' \in Seq(Event)
      /\ pending[1] = First => m_synced /\ m_best_block_index = None
      /\ m_synced /\ m_best_block_index = None => pending[1] = First
  BY IdleFacts
<1>1. pending[1] # First
  BY <1>0 DEF Declines
<1>2. ASSUME m_synced, Connects(1)
      PROVE  ~Under(pprev(pending[1].block), Heading)
  <2>1. m_best_block_index \in Blocks
    BY <1>0, <1>1, <1>2 DEF IInv, Typed, Block0
  <2>. QED BY <1>0, <1>1, <1>2, <2>1, DeclinesFacts DEF Connects
<1>3. Linked' /\ Arrives' /\ Opening' /\ Promised'
  BY <1>1, <1>2, QueuePop
<1>4. Stand' = Stand
  BY DEF Stand
<1>8. Rewinding' /\ (Middle' <=> Middle)
  BY RewindingStill DEF IInv
<1>5. Data'
  BY <1>4, <1>8, CommitFacts DEF IInv
<1>6. Typed' /\ Threads' /\ NeverFatal'
  BY <1>0 DEF IInv, Typed, Threads, NeverFatal, Up
<1>7. Told'
  BY <1>4 DEF IInv, Told
<1>9. Indexed'
  BY KnownFacts, IndexedKept
<1>. QED BY <1>3, <1>5, <1>6, <1>7, <1>8, <1>9 DEF IInv

LEMMA PromiseKeptStep == IInv /\ PromiseKept => IInv'
<1>. SUFFICES ASSUME IInv, PromiseKept PROVE IInv'
  OBVIOUS
<1>. USE DEF PromiseKept, chainVars, memVars, dbVars, syncVars, askVars, bounds
<1>0. /\ cbpc = "none" /\ Heading = m_best_block_index /\ tip # None
      /\ (m_synced => Stand = m_best_block_index) /\ pending' \in Seq(Event)
      /\ pending[1].kind = "promise"
  BY IdleFacts
<1>1. pending[1] # First /\ ~Connects(1) /\ Promise(1)
  BY <1>0, SMT DEF First, Connects, Promise
<1>2. Linked' /\ Arrives' /\ Opening' /\ Promised'
  BY <1>1, QueuePop
<1>3. Stand' = Stand
  BY DEF Stand
<1>7. Rewinding' /\ (Middle' <=> Middle)
  BY RewindingStill DEF IInv
<1>4. Data'
  BY <1>3, <1>7, CommitFacts DEF IInv
<1>5. Typed' /\ Threads' /\ NeverFatal'
  BY <1>0 DEF IInv, Typed, Threads, NeverFatal, Up
<1>6. Told'
  <2>1. 1 \in 1..Len(pending)
    BY TailFacts, SMT DEF IInv
  <2>2. answer # "none" /\ (asked \in byHash \/ OnChain(asked) \/ Coming(asked, 1 - 1))
    BY <1>1, <2>1 DEF IInv, Promised
  <2>3. ~Coming(asked, 1 - 1)
    BY SMT DEF Coming
  <2>4. m_synced /\ m_best_block_index # None /\ asked \in Blocks
    BY <2>2 DEF IInv, Told
  <2>. QED BY <1>0, <1>3, <2>2, <2>3, <2>4 DEF Told, OnChain
<1>8. Indexed'
  BY KnownFacts, IndexedKept
<1>. QED BY <1>2, <1>4, <1>5, <1>6, <1>7, <1>8 DEF IInv

LEMMA ChainStateFlushedStep == IInv /\ ChainStateFlushed => IInv'
<1>. SUFFICES ASSUME IInv, ChainStateFlushed PROVE IInv'
  OBVIOUS
<1>. USE DEF ChainStateFlushed, chainVars, memVars, syncVars, askVars, bounds
<1>0. /\ cbpc = "none" /\ Heading = m_best_block_index /\ tip # None
      /\ (m_synced => Stand = m_best_block_index) /\ pending' \in Seq(Event)
      /\ pending[1].kind = "ChainStateFlushed" /\ ~Declines(pending[1])
      /\ (m_synced /\ m_best_block_index = None => pending[1] = First)
  BY IdleFacts
<1>1. pending[1] # First /\ ~Connects(1)
  BY <1>0, SMT DEF First, Connects
<1>2. Linked' /\ Arrives' /\ Opening' /\ Promised'
  BY <1>1, QueuePop
<1>3. Stand' = Stand /\ Stand = m_best_block_index
  BY <1>0 DEF Stand, Declines
<1>4. Commit(Stand, totals) /\ node' = node
  <2>1. m_synced
    BY <1>0 DEF Declines
  <2>. QED BY <1>0, <1>1, <1>3, <2>1
<1>7. Rewinding' /\ (Middle' <=> Middle) /\ ~Middle
  <2>1. ~Middle
    BY <1>0 DEF Middle, Free
  <2>. QED BY <2>1, RewindingStill DEF IInv, dbVars
<1>5. Data' /\ committed' \in [best : Block0, totals : Block0]
  BY <1>3, <1>4, <1>7, CommitFacts DEF IInv
<1>6. Typed'
  BY <1>0, <1>5 DEF IInv, Typed
<1>8. Threads' /\ NeverFatal'
  BY <1>0, <1>4 DEF IInv, Threads, NeverFatal, Up
<1>9. Told'
  BY <1>3 DEF IInv, Told
<1>10. Indexed'
  BY <1>3, <1>4, KnownFacts, IndexedKept
<1>. QED BY <1>2, <1>5, <1>6, <1>7, <1>8, <1>9, <1>10 DEF IInv

\* The last block that is being connected.
LEMMA LastConnects ==
    ASSUME Typed, pending # <<>>, pending' = Tail(pending), Connects(1)
    PROVE  \E k \in 1..Len(pending) :
              Connects(k) /\ \A m \in (k + 1)..Len(pending) : ~Connects(m)
<1>. DEFINE n == Len(pending)
            N == {n - m : m \in {l \in 1..n : Connects(l)}}
<1>1. n \in Nat /\ n >= 1
  BY TailFacts
<1>2. PICK d \in N : \A e \in N : ~ (e < d)
  <2>1. N \subseteq Nat /\ n - 1 \in N
    BY <1>1, SMT
  <2>. HIDE DEF N
  <2>. QED BY <2>1, LeastNumber
<1>3. PICK k \in 1..n : Connects(k) /\ d = n - k
  BY <1>2
<1>4. ASSUME NEW m \in (k + 1)..n, Connects(m)
      PROVE  FALSE
  <2>1. m \in 1..n /\ n - m < n - k
    BY <1>1, <1>3, SMT
  <2>2. n - m \in N
    BY <1>4, <2>1
  <2>. QED BY <1>2, <1>3, <2>1, <2>2
<1>. QED BY <1>3, <1>4

\* A callback that is taken can be: its block is on the index's chain, to which the
\* index is taken back first if need be.
LEMMA TakeFacts ==
    ASSUME IInv, BlockConnected
    PROVE  LET b == pending[1].block
           IN  /\ b \in Blocks /\ Connects(1) /\ m_synced /\ cbpc = "none" /\ tip # None
               /\ pending # <<>> /\ pending' = Tail(pending) /\ current' = pending[1]
               /\ node' = node /\ m_best_block_index' = m_best_block_index
               /\ m_best_block_index # None => b # Genesis
               /\ \/ /\ cbpc' = "append" /\ m_best_block_index = pprev(b)
                     /\ UNCHANGED <<memVars, dbVars>>
                  \/ /\ cbpc' = "rewind" /\ m_best_block_index \in Blocks /\ Prev[b] \in Anc[m_best_block_index]
                     /\ b # Genesis /\ RewindData(m_best_block_index, Prev[b])
<1>. DEFINE b == pending[1].block
            s == m_best_block_index
<1>1. current = None /\ pending # <<>> /\ pending' = Tail(pending) /\ current' = Head(pending)
  BY DEF BlockConnected, Queue!Start
<1>2. /\ cbpc = "none" /\ tip # None /\ pending[1] \in Event /\ Head(pending) = pending[1]
      /\ (m_synced => Stand = s)
      /\ pending[1] = First => m_synced /\ s = None
      /\ m_synced /\ s = None => pending[1] = First
  BY <1>1, IdleFacts
<1>3. pending[1].kind = "BlockConnected" /\ ~Declines(pending[1]) /\ m_synced /\ b \in Blocks
  BY <1>2, EventFacts DEF BlockConnected, Declines
<1>4. CASE s = None
  <2>1. b = Genesis /\ pprev(b) = None
    BY <1>2, <1>3, <1>4, SMT DEF First, pprev
  <2>2. cbpc' = "append" /\ UNCHANGED <<memVars, dbVars, node>>
    BY <1>2, <1>4, <2>1 DEF BlockConnected
  <2>. QED BY <1>1, <1>2, <1>3, <1>4, <2>1, <2>2 DEF Connects, memVars
<1>5. CASE s # None
  <2>1. s \in Blocks /\ pending[1] # First
    BY <1>2, <1>5 DEF IInv, Typed, Block0
  <2>2. b # Genesis
    BY <1>2, <1>3, <2>1, EventFacts
  <2>3. Prev[b] \in Anc[s] /\ pprev(b) = Prev[b]
    <3>1. Under(pprev(b), s)
      BY <1>2, <1>3, <2>1, DeclinesFacts
    <3>. QED BY <1>3, <1>5, <2>2, <3>1, PrevFacts DEF Under
  <2>4. CanRewind(Prev[b], s)
    BY <1>2, <1>3, <2>1, <2>3, RewindFacts DEF IInv, Middle, Threads
  <2>5. /\ node' = node
        /\ \/ cbpc' = "append" /\ s = pprev(b) /\ UNCHANGED <<memVars, dbVars>>
           \/ cbpc' = "rewind" /\ RewindData(s, Prev[b])
    BY <1>2, <1>5, <2>2, <2>4 DEF BlockConnected
  <2>6. m_best_block_index' = m_best_block_index
    BY <2>5 DEF memVars, RewindData
  <2>. QED BY <1>1, <1>2, <1>3, <2>1, <2>2, <2>3, <2>5, <2>6 DEF Connects
<1>. QED BY <1>4, <1>5

LEMMA BlockConnectedStep == IInv /\ BlockConnected => IInv'
<1>. SUFFICES ASSUME IInv, BlockConnected PROVE IInv'
  OBVIOUS
<1>. DEFINE b == pending[1].block
            s == m_best_block_index
<1>1. /\ b \in Blocks /\ Connects(1) /\ m_synced /\ cbpc = "none" /\ tip # None
      /\ pending # <<>> /\ pending' = Tail(pending) /\ current' = pending[1]
      /\ cbpc' \in {"append", "rewind"} /\ node' = node /\ m_best_block_index' = s
      /\ s # None => b # Genesis
      /\ \/ cbpc' = "append" /\ s = pprev(b) /\ UNCHANGED <<memVars, dbVars>>
         \/ /\ cbpc' = "rewind" /\ s \in Blocks /\ Prev[b] \in Anc[s] /\ b # Genesis
            /\ RewindData(s, Prev[b])
  BY TakeFacts
<1>2. UNCHANGED <<tip, diskTip, known, diskKnown, m_synced, thread, pindex, asked, answer>>
  BY DEF BlockConnected, chainVars, syncVars, askVars
<1>3. /\ Len(pending) \in Nat /\ Len(pending) >= 1 /\ Len(pending') = Len(pending) - 1
      /\ pending' \in Seq(Event) /\ pending[1] \in Event
      /\ \A i \in 1..(Len(pending) - 1) : pending'[i] = pending[i + 1]
  BY <1>1, TailFacts, SMT DEF IInv
<1>4. Stand = s /\ Stand' = s /\ ~Middle /\ Heading = s /\ Heading' = b
  BY <1>1, <1>2 DEF IInv, Threads, Stand, Heading, Middle
<1>5. /\ Data' /\ Rewinding' /\ committed' = committed
      /\ byHeight' = byHeight /\ byHash \subseteq byHash'
      /\ s # None => \A x \in Anc[s] : x \in byHash' \/ x \in Anc[pprev(b)]
  <2>1. CASE cbpc' = "append" /\ s = pprev(b) /\ UNCHANGED <<memVars, dbVars>>
    <3>1. UNCHANGED <<totals, byHeight, byHash, committed>> /\ Stand' = Stand
      BY <1>4, <2>1 DEF memVars, dbVars
    <3>2. Data'
      BY <1>4, <3>1, CommitFacts DEF IInv
    <3>3. Rewinding'
      BY <1>1, <1>2, <2>1 DEF IInv, Threads, Rewinding
    <3>. QED BY <2>1, <3>1, <3>2, <3>3
  <2>2. CASE /\ cbpc' = "rewind" /\ s \in Blocks /\ Prev[b] \in Anc[s] /\ b # Genesis
             /\ RewindData(s, Prev[b])
    <3>1. pprev(b) = Prev[b] /\ Middle'
      BY <2>2 DEF pprev, Middle
    <3>2. /\ Data' /\ totals' = Prev[b] /\ committed' = committed /\ byHeight' = byHeight
          /\ \A x \in Anc[s] : x \in byHash' \/ x \in Anc[Prev[b]]
          /\ byHash \subseteq byHash'
      BY <1>4, <2>2, <3>1, RewindFacts DEF IInv
    <3>3. Rewinding'
      BY <1>1, <1>2, <2>2, <3>2 DEF IInv, Threads, Rewinding
    <3>. QED BY <3>1, <3>2, <3>3
  <2>. QED BY <1>1, <2>1, <2>2
<1>6. Indexed'
  <2>1. Up
    BY DEF BlockConnected
  <2>. QED BY <1>1, <1>2, <1>5, <2>1, KnownFacts, IndexedKept
<1>7. Typed'
  BY <1>1, <1>2, <1>3, <1>5 DEF IInv, Typed
<1>8. Threads'
  BY <1>1, <1>2, <1>3 DEF IInv, Threads, Connects, Up
<1>9. Linked'
  BY <1>1, <1>2, LinkedTail DEF IInv
<1>10. Opening'
  <2>1. \A i \in 1..(Len(pending) - 1) : pending'[i] # First
    BY <1>3, SMT DEF IInv, Opening
  <2>2. \A i \in 2..Len(pending') : i \in 1..(Len(pending) - 1)
    BY <1>3, SMT
  <2>3. pending' # <<>> => 1 \in 1..(Len(pending) - 1)
    BY <1>3, EmptySeq, SMT
  <2>. QED BY <1>1, <2>1, <2>2, <2>3 DEF Opening
<1>11. Arrives'
  <2>1. PICK k \in 1..Len(pending) :
            Connects(k) /\ \A m \in (k + 1)..Len(pending) : ~Connects(m)
    BY <1>1, LastConnects DEF IInv
  <2>2. PICK t, n : t = tip /\ n = Len(pending)
    OBVIOUS
  <2>3. t \in Anc[pending[k].block]
    BY <2>1, <2>2 DEF IInv, Linked
  <2>4. n \in 1..Len(pending) /\ k \in 1..n
    BY <1>3, <2>1, <2>2, SMT
  <2>5. OnChain(t)' \/ Coming(t, n - 1)'
    BY <1>1, <1>4, <2>1, <2>3, <2>4, ComingTake DEF IInv
  <2>6. t = tip' /\ n - 1 = Len(pending')
    BY <1>2, <1>3, <2>2
  <2>. QED BY <2>5, <2>6 DEF Arrives, OnChain, Coming
<1>12. ASSUME NEW a, NEW n \in 1..Len(pending),
              a \in byHash \/ OnChain(a) \/ Coming(a, n)
       PROVE  a \in byHash' \/ OnChain(a)' \/ Coming(a, n - 1)'
  <2>1. CASE a \in byHash
    BY <1>5, <2>1
  <2>2. CASE OnChain(a)
    <3>1. s # None /\ a \in Anc[s]
      BY <1>4, <2>2 DEF OnChain
    <3>2. b # Genesis /\ b # None
      BY <1>1, <3>1, IndexAssumption
    <3>3. a \in byHash' \/ a \in Anc[b]
      BY <1>1, <1>5, <3>1, <3>2, PrevFacts
    <3>. QED BY <1>4, <3>2, <3>3 DEF OnChain
  <2>3. CASE Coming(a, n)
    <3>1. PICK k \in 1..n : Connects(k) /\ a \in Anc[pending[k].block]
      BY <2>3 DEF Coming
    <3>. QED BY <1>1, <1>4, <3>1, ComingTake DEF IInv
  <2>. QED BY <1>12, <2>1, <2>2, <2>3
<1>13. Promised'
  <2>0. PICK a, n : a = asked /\ n = Len(pending)
    OBVIOUS
  <2>1. ASSUME NEW p \in 1..Len(pending'), Promise(p)'
        PROVE  answer # "none" /\ (asked \in byHash \/ OnChain(asked) \/ Coming(asked, p - 1))'
    <3>1. p + 1 \in 1..Len(pending) /\ Promise(p + 1) /\ (p + 1) - 1 = p /\ p \in 1..Len(pending)
      BY <1>3, <2>1, SMT DEF Promise
    <3>2. answer # "none" /\ (a \in byHash \/ OnChain(a) \/ Coming(a, p))
      BY <2>0, <3>1 DEF IInv, Promised
    <3>3. a \in byHash' \/ OnChain(a)' \/ Coming(a, p - 1)'
      BY <1>12, <3>1, <3>2
    <3>4. a = asked'
      BY <1>2, <2>0
    <3>. QED BY <3>2, <3>3, <3>4 DEF OnChain, Coming
  <2>2. ASSUME answer' = "sync"
        PROVE  (asked \in byHash \/ OnChain(asked) \/ Coming(asked, Len(pending)))'
    <3>1. answer = "sync" /\ n \in 1..Len(pending)
      BY <1>2, <1>3, <2>0, <2>2, SMT
    <3>2. a \in byHash \/ OnChain(a) \/ Coming(a, n)
      BY <2>0, <3>1 DEF IInv, Promised
    <3>3. a \in byHash' \/ OnChain(a)' \/ Coming(a, n - 1)'
      BY <1>12, <3>1, <3>2
    <3>4. a = asked' /\ n - 1 = Len(pending')
      BY <1>2, <1>3, <2>0
    <3>. QED BY <3>3, <3>4 DEF OnChain, Coming
  <2>3. answer' = answer
    BY <1>2
  <2>. QED BY <2>1, <2>2, <2>3 DEF Promised
<1>14. Told'
  BY <1>1, <1>2, <1>4, <1>5 DEF IInv, Told
<1>15. NeverFatal'
  BY <1>1 DEF NeverFatal, IInv, BlockConnected, Up
<1>. QED BY <1>5, <1>6, <1>7, <1>8, <1>9, <1>10, <1>11, <1>13, <1>14, <1>15, ZenonT(30) DEF IInv

LEMMA BlockRewoundStep == IInv /\ BlockRewound => IInv'
<1>. SUFFICES ASSUME IInv, BlockRewound PROVE IInv'
  OBVIOUS
<1>. USE DEF BlockRewound, chainVars, syncVars, askVars, bounds
<1>. DEFINE b == current.block
            s == m_best_block_index
<1>0. /\ m_synced /\ thread = "exit" /\ tip # None /\ b \in Blocks \ {Genesis}
      /\ s \in Blocks /\ Prev[b] \in Anc[s] /\ totals = Prev[b] /\ pprev(b) = Prev[b]
      /\ Prev[b] \in Blocks /\ Prev[b] # None
      /\ \A x \in Anc[s] : x \in byHash \/ x \in Anc[Prev[b]]
  <2>1. /\ m_synced /\ thread = "exit" /\ tip # None /\ b \in Blocks \ {Genesis}
        /\ s \in Blocks /\ Prev[b] \in Anc[s] /\ totals = Prev[b]
        /\ \A x \in Anc[s] : x \in byHash \/ x \in Anc[Prev[b]]
    BY EventFacts DEF IInv, Threads, Rewinding
  <2>. QED BY <2>1, PrevFacts
<1>1. m_best_block_index' = Prev[b] /\ byHeight' = byHeight /\ byHash' = byHash
  BY DEF RewindBest
<1>2. Stand = s /\ Stand' = Prev[b] /\ Heading' = Heading
  BY <1>0, <1>1 DEF Stand, Heading
<1>3. Data' /\ committed' \in [best : Block0, totals : Block0] /\ committed'.best = Prev[b]
  BY <1>0, <1>2, RewoundFacts DEF IInv
<1>4. Typed' /\ Threads'
  BY <1>0, <1>1, <1>3 DEF IInv, Typed, Threads, Up, Block0
<1>5. Rewinding' /\ NeverFatal'
  BY <1>0 DEF IInv, Rewinding, NeverFatal, Up
<1>6. Linked' /\ Arrives' /\ Promised'
  BY <1>1, <1>2, QueueStill
<1>7. Opening'
  BY <1>0 DEF IInv, Opening
<1>8. Told'
  BY <1>0, <1>1, <1>2 DEF IInv, Told
<1>9. Indexed'
  <2>1. b \in known
    BY IndexAssumption DEF IInv, Indexed, Threads
  <2>2. Prev[b] \in Known0
    BY <1>0, <2>1, KnownFacts
  <2>. QED BY <1>1, <1>3, <2>2, KnownFacts, IndexedKept
<1>. QED BY <1>3, <1>4, <1>5, <1>6, <1>7, <1>8, <1>9 DEF IInv

LEMMA BlockAppendedStep == IInv /\ BlockAppended => IInv'
<1>. SUFFICES ASSUME IInv, BlockAppended PROVE IInv'
  OBVIOUS
<1>. USE DEF BlockAppended, chainVars, syncVars, askVars, bounds
<1>. DEFINE b == current.block
<1>0. /\ m_synced /\ thread = "exit" /\ tip # None /\ b \in Blocks
      /\ m_best_block_index = pprev(b)
  BY EventFacts DEF IInv, Threads
<1>1. Stand = pprev(b)
  BY <1>0 DEF Stand
<1>2. CanAppend(b)
  BY <1>0, <1>1, AppendFacts DEF IInv, Middle
<1>3. CustomAppend(b) /\ cbpc' = "set" /\ node' = node
  BY <1>2
<1>4. Stand' = b /\ Heading' = Heading
  BY <1>0, <1>3 DEF Stand, Heading
<1>5. Data' /\ byHeight' \in [Heights -> Block0]
  BY <1>0, <1>1, <1>3, <1>4, AppendFacts DEF IInv, Middle
<1>6. Typed'
  BY <1>3, <1>5 DEF IInv, Typed
<1>7. Threads'
  BY <1>0, <1>3 DEF IInv, Threads, Up
<1>8. Linked' /\ Arrives' /\ Promised'
  BY <1>4, QueueStill
<1>9. Opening'
  BY <1>3 DEF IInv, Opening
<1>10. Told'
  <2>1. pprev(b) # None => Anc[pprev(b)] \subseteq Anc[b] /\ b # None
    BY <1>0, PrevFacts, IndexAssumption DEF pprev
  <2>. QED BY <1>1, <1>4, <2>1 DEF IInv, Told
<1>11. Rewinding' /\ NeverFatal'
  BY <1>0, <1>3 DEF IInv, Rewinding, NeverFatal, Up
<1>12. Indexed'
  BY KnownFacts, IndexedKept
<1>. QED BY <1>5, <1>6, <1>7, <1>8, <1>9, <1>10, <1>11, <1>12 DEF IInv

LEMMA BestBlockSetStep == IInv /\ BestBlockSet => IInv'
<1>. SUFFICES ASSUME IInv, BestBlockSet PROVE IInv'
  OBVIOUS
<1>. USE DEF BestBlockSet, Queue!Finish, chainVars, dbVars, syncVars, askVars, bounds
<1>. DEFINE b == current.block
<1>0. m_synced /\ thread = "exit" /\ tip # None /\ b \in Blocks /\ b # None
  BY EventFacts, IndexAssumption DEF IInv, Threads
<1>1. Stand = b /\ Stand' = b /\ Heading' = Heading
  BY <1>0 DEF Stand, Heading
<1>2. Data'
  BY <1>0, <1>1, CommitFacts DEF IInv, Middle
<1>3. Typed'
  BY <1>0 DEF IInv, Typed, Block0
<1>4. Threads'
  BY <1>0 DEF IInv, Threads, Up
<1>5. Linked' /\ Arrives' /\ Promised'
  BY <1>1, QueueStill
<1>6. Opening'
  BY <1>0 DEF IInv, Opening
<1>7. Told'
  BY <1>0, <1>1 DEF IInv, Told
<1>8. Rewinding' /\ NeverFatal'
  BY <1>0 DEF IInv, Rewinding, NeverFatal, Up
<1>9. Indexed'
  <2>1. b \in known
    BY IndexAssumption DEF IInv, Indexed, Threads
  <2>. QED BY <2>1, KnownFacts, IndexedKept DEF Known0
<1>. QED BY <1>2, <1>3, <1>4, <1>5, <1>6, <1>7, <1>8, <1>9 DEF IInv

-----------------------------------------------------------------------------
(* Validation.                                                               *)

LEMMA HeadingType ==
    ASSUME Typed, Threads, Heading # None
    PROVE  Heading \in Blocks
BY EventFacts DEF Typed, Threads, Heading, Block0

\* What is coming is coming when more callbacks are queued.
LEMMA QueueGrows ==
    ASSUME Len(pending) \in Nat, Len(pending') \in Nat, Len(pending') >= Len(pending),
           \A i \in 1..Len(pending) : pending'[i] = pending[i], Heading' = Heading,
           NEW x, NEW n \in 0..Len(pending), NEW m \in n..Len(pending'), Coming(x, n)
    PROVE  Coming(x, m)'
<1>1. Coming(x, n)'
  BY ComingMore
<1>2. \A i \in 1..n : i \in 1..m
  BY SMTT(30)
<1>. QED BY <1>1, <1>2 DEF Coming

\* A callback that connects no block is queued.
LEMMA QueueQuiet ==
    ASSUME IInv, tip # None, NEW e \in Event, e.kind # "BlockConnected",
           pending' = Append(pending, e),
           UNCHANGED <<tip, m_synced, asked, byHash, m_best_block_index, cbpc, current>>,
           IF e.kind = "promise" THEN answer = "sync" /\ answer' = "wait" ELSE answer' = answer
    PROVE  Linked' /\ Arrives' /\ Opening' /\ Promised' /\ pending' \in Seq(Event)
<1>. DEFINE n == Len(pending)
<1>1. /\ n \in Nat /\ Len(pending') = n + 1 /\ pending' \in Seq(Event) /\ pending' # <<>>
      /\ \A i \in 1..n : pending'[i] = pending[i]
      /\ pending'[n + 1] = e
  <2>1. pending \in Seq(Event) /\ n \in Nat
    BY LenProperties DEF IInv, Typed
  <2>2. pending' \in Seq(Event) /\ pending' # <<>> /\ Len(pending') = n + 1
    BY <2>1, AppendProperties, ZenonT(30)
  <2>3. pending'[n + 1] = e /\ \A i \in 1..n : pending'[i] = pending[i]
    BY <2>1, AppendProperties, SMT
  <2>. QED BY <2>1, <2>2, <2>3
<1>2. Heading' = Heading
  BY DEF Heading
<1>3. \A i \in 1..Len(pending') : i \in 1..n \/ i = n + 1
  BY <1>1, SMT
<1>4. /\ \A i \in 1..n : Connects(i)' <=> Connects(i)
      /\ pending'[n + 1].kind # "BlockConnected"
  BY <1>1 DEF Connects
<1>5. Linked'
  <2>1. ASSUME NEW i \in 1..Len(pending'), NEW j \in 1..Len(pending'), i < j,
               Connects(i)', Connects(j)', \A m \in (i + 1)..(j - 1) : ~Connects(m)'
        PROVE  pending'[j].block # Genesis /\ Prev[pending'[j].block] \in Anc[pending'[i].block]
    <3>1. i \in 1..n /\ j \in 1..n /\ Connects(i) /\ Connects(j)
      BY <1>1, <1>3, <1>4, <2>1 DEF Connects
    <3>2. \A m \in (i + 1)..(j - 1) : m \in 1..n
      BY <1>1, <3>1, SMT
    <3>3. \A m \in (i + 1)..(j - 1) : ~Connects(m)
      BY <1>4, <2>1, <3>2
    <3>. QED BY <1>1, <2>1, <3>1, <3>3 DEF IInv, Linked
  <2>2. ASSUME NEW i \in 1..Len(pending'), Connects(i)',
               \A m \in (i + 1)..Len(pending') : ~Connects(m)'
        PROVE  tip' \in Anc[pending'[i].block]
    <3>1. i \in 1..n /\ Connects(i)
      BY <1>1, <1>3, <1>4, <2>2 DEF Connects
    <3>2. \A m \in (i + 1)..n : m \in 1..n /\ m \in (i + 1)..Len(pending')
      BY <1>1, <3>1, SMT
    <3>3. \A m \in (i + 1)..n : ~Connects(m)
      BY <1>4, <2>2, <3>2
    <3>. QED BY <1>1, <3>1, <3>3 DEF IInv, Linked
  <2>. QED BY <2>1, <2>2 DEF Linked, Connects
<1>6. ASSUME NEW x, NEW k \in {n, n + 1}, OnChain(x) \/ Coming(x, n)
      PROVE  OnChain(x)' \/ Coming(x, k)'
  <2>1. OnChain(x) => OnChain(x)'
    BY <1>2 DEF OnChain
  <2>2. n \in 0..Len(pending) /\ k \in n..Len(pending') /\ Len(pending') \in Nat
        /\ Len(pending') >= Len(pending)
    BY <1>1, SMT
  <2>3. Coming(x, n) => Coming(x, k)'
    BY <1>1, <1>2, <2>2, QueueGrows
  <2>. QED BY <1>6, <2>1, <2>3
<1>7. Arrives'
  <2>1. SUFFICES ASSUME m_synced PROVE OnChain(tip)' \/ Coming(tip, Len(pending))'
    BY DEF Arrives
  <2>2. PICK t, l : t = tip /\ l = n + 1
    OBVIOUS
  <2>3. OnChain(t) \/ Coming(t, n)
    BY <2>1, <2>2 DEF IInv, Arrives
  <2>4. OnChain(t)' \/ Coming(t, l)'
    BY <1>6, <2>2, <2>3
  <2>5. t = tip' /\ l = Len(pending')
    BY <1>1, <2>2
  <2>. QED BY <2>4, <2>5 DEF OnChain, Coming
<1>8. Opening'
  <2>1. e # First
    BY SMT DEF First
  <2>2. \A i \in 2..Len(pending') : (i \in 2..n /\ i \in 1..n) \/ i = n + 1
    BY <1>1, SMT
  <2>3. \A i \in 2..Len(pending') : pending'[i] # First
    BY <1>1, <2>1, <2>2 DEF IInv, Opening
  <2>4. pending # <<>> => pending'[1] = pending[1]
    <3>1. pending # <<>> => 1 \in 1..n
      BY <1>1, EmptySeq, SMT DEF IInv, Typed
    <3>. QED BY <1>1, <3>1
  <2>5. pending = <<>> => pending'[1] = e
    BY <1>1, EmptySeq, SMT
  <2>6. pending'[1] = First => pending # <<>> /\ pending[1] = First
    BY <2>1, <2>4, <2>5
  <2>. QED BY <1>1, <2>3, <2>4, <2>6 DEF IInv, Opening
<1>9. Promised'
  <2>0. PICK a : a = asked
    OBVIOUS
  <2>1. ASSUME NEW p \in 1..Len(pending'), Promise(p)'
        PROVE  answer' # "none" /\ (a \in byHash' \/ OnChain(a)' \/ Coming(a, p - 1)')
    <3>1. CASE p \in 1..n
      <4>1. Promise(p) /\ p - 1 \in 0..Len(pending) /\ p - 1 \in (p - 1)..Len(pending')
            /\ Len(pending') \in Nat /\ Len(pending') >= Len(pending)
        BY <1>1, <2>1, <3>1, SMT DEF Promise
      <4>2. answer # "none" /\ (a \in byHash \/ OnChain(a) \/ Coming(a, p - 1))
        BY <2>0, <3>1, <4>1 DEF IInv, Promised
      <4>3. Coming(a, p - 1) => Coming(a, p - 1)'
        BY <1>1, <1>2, <4>1, QueueGrows
      <4>4. OnChain(a) => OnChain(a)'
        BY <1>2 DEF OnChain
      <4>. QED BY <4>2, <4>3, <4>4
    <3>2. CASE p = n + 1
      <4>1. e.kind = "promise" /\ p - 1 = n
        BY <1>1, <2>1, <3>2, SMT DEF Promise
      <4>2. answer = "sync" /\ answer' = "wait"
        BY <4>1
      <4>3. a \in byHash \/ OnChain(a) \/ Coming(a, n)
        BY <2>0, <4>2 DEF IInv, Promised
      <4>4. PICK l : l = n
        OBVIOUS
      <4>5. a \in byHash' \/ OnChain(a)' \/ Coming(a, l)'
        BY <1>6, <4>3, <4>4
      <4>6. l = p - 1
        BY <4>1, <4>4
      <4>. QED BY <4>2, <4>5, <4>6
    <3>. QED BY <1>3, <2>1, <3>1, <3>2
  <2>2. ASSUME answer' = "sync"
        PROVE  (asked \in byHash \/ OnChain(asked) \/ Coming(asked, Len(pending)))'
    <3>1. answer = "sync"
      BY <2>2
    <3>2. a \in byHash \/ OnChain(a) \/ Coming(a, n)
      BY <2>0, <3>1 DEF IInv, Promised
    <3>3. PICK l : l = n + 1
      OBVIOUS
    <3>4. a \in byHash' \/ OnChain(a)' \/ Coming(a, l)'
      BY <1>6, <3>2, <3>3
    <3>5. a = asked' /\ l = Len(pending')
      BY <1>1, <2>0, <3>3
    <3>. QED BY <3>4, <3>5 DEF OnChain, Coming
  <2>3. \A p \in 1..Len(pending') : Promise(p)' =>
            answer' # "none" /\ (asked \in byHash \/ OnChain(asked) \/ Coming(asked, p - 1))'
    <3>1. a = asked'
      BY <2>0
    <3>. QED BY <2>1, <3>1 DEF OnChain, Coming
  <2>. QED BY <2>2, <2>3 DEF Promised, Promise
<1>. QED BY <1>1, <1>5, <1>7, <1>8, <1>9, ZenonT(30)

\* The chainstate is flushed: what is on disk is in the block index.
LEMMA FlushFacts ==
    ASSUME IInv, Up, tip # None, NEW e \in Event, e.kind = "ChainStateFlushed",
           pending' = Append(pending, e), known \subseteq known', known' \subseteq Blocks,
           \A x \in known' : Anc[x] \subseteq known', diskKnown' = known', diskTip' \in known',
           UNCHANGED <<tip, current, cbpc, m_best_block_index, totals, byHeight, byHash, committed,
                       m_synced, thread, pindex, node, asked, answer>>
    PROVE  IInv'
<1>1. Linked' /\ Arrives' /\ Opening' /\ Promised' /\ pending' \in Seq(Event)
  BY QueueQuiet
<1>2. Stand' = Stand
  BY DEF Stand
<1>3. Rewinding' /\ (Middle' <=> Middle)
  BY RewindingStill DEF IInv
<1>4. Data'
  BY <1>2, <1>3, CommitFacts DEF IInv
<1>5. diskTip' \in Blocks /\ diskTip' # None
  BY IndexAssumption
<1>6. Typed' /\ Threads' /\ NeverFatal'
  BY <1>1, <1>5 DEF IInv, Typed, Threads, NeverFatal, Up, Block0
<1>7. Told'
  BY <1>2 DEF IInv, Told
<1>8. Indexed'
  <2>1. ASSUME NEW i \in 1..Len(pending'), pending'[i].kind = "BlockConnected"
        PROVE  pending'[i].block \in known'
    <3>1. pending \in Seq(Event) /\ Len(pending) \in Nat
      BY LenProperties DEF IInv, Typed
    <3>2. /\ Len(pending') = Len(pending) + 1 /\ pending'[Len(pending) + 1] = e
          /\ \A k \in 1..Len(pending) : pending'[k] = pending[k]
      BY <3>1, AppendProperties, SMT
    <3>3. i \in 1..Len(pending) \/ i = Len(pending) + 1
      BY <3>1, <3>2, SMT
    <3>. QED BY <2>1, <3>2, <3>3 DEF IInv, Indexed, Connects
  <2>. QED BY <2>1 DEF IInv, Indexed, Known0, Connects
<1>. QED BY <1>1, <1>3, <1>4, <1>6, <1>7, <1>8 DEF IInv

LEMMA FlushStateToDiskStep == IInv /\ FlushStateToDisk => IInv'
<1>. SUFFICES ASSUME IInv, FlushStateToDisk PROVE IInv'
  OBVIOUS
<1>. USE DEF FlushStateToDisk, Queue!Enqueue, memVars, dbVars, syncVars, askVars
<1>1. PICK e : e = [kind |-> "ChainStateFlushed", block |-> tip]
  OBVIOUS
<1>2. e \in Event /\ e.kind = "ChainStateFlushed" /\ pending' = Append(pending, e)
  BY <1>1 DEF IInv, Typed, Block0, Event
<1>3. tip \in known /\ known \subseteq Blocks /\ \A x \in known : Anc[x] \subseteq known
  BY DEF IInv, Indexed, Known0
<1>. QED BY <1>2, <1>3, FlushFacts

LEMMA FlushIfNeededStep ==
    ASSUME IInv, NEW b \in Blocks, FlushIfNeeded(b)
    PROVE  IInv'
<1>. USE DEF FlushIfNeeded, Queue!Enqueue, memVars, dbVars, syncVars, askVars
<1>1. PICK m \in TipMoves(tip, b) :
         /\ diskTip' = m[2]
         /\ pending' = Append(pending, [kind |-> "ChainStateFlushed", block |-> m[1]])
  OBVIOUS
<1>2. tip \in Blocks /\ Anc[tip] \subseteq known /\ known \subseteq Blocks
  BY DEF IInv, Typed, Block0, Indexed, Known0
<1>3. /\ known' = known \cup Anc[b] /\ known' \subseteq Blocks
      /\ \A x \in known' : Anc[x] \subseteq known'
  BY AncHeight, AncClosed DEF IInv, Indexed
<1>4. m[1] \in known' /\ m[2] \in known'
  <2>1. PICK x \in Anc[tip] \cup Anc[b] : x # Genesis /\ (m = <<x, Prev[x]>> \/ m = <<Prev[x], x>>)
    BY <1>1, <1>2, AncClosed DEF TipMoves
  <2>2. x \in known' /\ x \in Blocks
    BY <1>2, <1>3, <2>1
  <2>3. Prev[x] \in Anc[x]
    BY <2>1, <2>2, PrevFacts
  <2>4. Prev[x] \in known'
    BY <1>3, <2>2, <2>3
  <2>5. CASE m = <<x, Prev[x]>>
    BY <2>2, <2>4, <2>5, SMT
  <2>6. CASE m = <<Prev[x], x>>
    BY <2>2, <2>4, <2>6, SMT
  <2>. QED BY <2>1, <2>5, <2>6
<1>5. PICK e : e = [kind |-> "ChainStateFlushed", block |-> m[1]]
  OBVIOUS
<1>6. e \in Event /\ e.kind = "ChainStateFlushed" /\ pending' = Append(pending, e)
  BY <1>1, <1>3, <1>4, <1>5 DEF Event
<1>. QED BY <1>1, <1>3, <1>4, <1>6, FlushFacts

LEMMA DisconnectTipStep == IInv /\ DisconnectTip => IInv'
<1>. SUFFICES ASSUME IInv, DisconnectTip PROVE IInv'
  OBVIOUS
<1>. USE DEF DisconnectTip, queueVars, memVars, dbVars, syncVars, askVars
<1>1. tip \in Blocks \ {Genesis} /\ tip' = Prev[tip] /\ tip' \in Blocks /\ tip' # None
  BY PrevFacts DEF IInv, Typed, Block0
<1>2. \A x \in Blocks : tip \in Anc[x] => tip' \in Anc[x]
  BY <1>1, PrevFacts, AncClosed
<1>3. Stand' = Stand /\ Heading' = Heading
  BY DEF Stand, Heading
<1>4. \A i \in 1..Len(pending) : Connects(i) => pending[i].block \in Blocks
  <2>1. \A i \in 1..Len(pending) : pending[i] \in Event
    BY ElementOfSeq DEF IInv, Typed
  <2>. QED BY <2>1, EventFacts DEF Connects
<1>5. Linked'
  BY <1>2, <1>4, ZenonT(30) DEF IInv, Linked, Connects
<1>6. \A x, n : Coming(x, n)' <=> Coming(x, n)
  BY <1>3 DEF Coming, Connects, Under
<1>7. Arrives'
  <2>1. SUFFICES ASSUME m_synced PROVE OnChain(tip)' \/ Coming(tip, Len(pending))'
    BY DEF Arrives
  <2>2. OnChain(tip) \/ Coming(tip, Len(pending))
    BY <1>1, <2>1, IndexAssumption DEF IInv, Arrives
  <2>3. CASE OnChain(tip)
    BY <1>2, <1>3, <2>3, HeadingType DEF OnChain, IInv
  <2>4. CASE Coming(tip, Len(pending))
    <3>1. PICK i \in 1..Len(pending), k \in 1..Len(pending) :
             /\ i <= k /\ Connects(i) /\ Connects(k)
             /\ Under(pprev(pending[i].block), Heading)
             /\ tip \in Anc[pending[k].block]
      BY <2>4 DEF Coming
    <3>2. tip' \in Anc[pending[k].block]
      BY <1>2, <1>4, <3>1
    <3>. QED BY <1>3, <3>1, <3>2 DEF Coming, Connects, Under
  <2>. QED BY <2>2, <2>3, <2>4
<1>8. Promised'
  <2>1. \A x : OnChain(x)' <=> OnChain(x)
    BY <1>3 DEF OnChain
  <2>. QED BY <1>6, <2>1 DEF IInv, Promised, Promise
<1>9. Data' /\ Rewinding'
  BY <1>3, RewindingStill, CommitFacts DEF IInv
<1>10. Typed' /\ Threads' /\ Opening' /\ NeverFatal'
  <2>1. tip' \in Block0 /\ tip # None
    BY <1>1 DEF Block0
  <2>. QED BY <1>1, <2>1 DEF IInv, Typed, Threads, Opening, NeverFatal, Up
<1>11. Told'
  BY <1>3 DEF IInv, Told
<1>12. Indexed'
  <2>1. tip' \in Anc[tip]
    BY <1>1, PrevFacts
  <2>. QED BY <1>1, <2>1 DEF IInv, Indexed, Known0, Connects
<1>. QED BY <1>5, <1>7, <1>8, <1>9, <1>10, <1>11, <1>12 DEF IInv

\* The new chain: the queue gets one or more blocks, the first of them on a block of
\* the old chain.
LEMMA ActivateFacts ==
    ASSUME IInv, NEW b \in Blocks, ActivateBestChain(b)
    PROVE  LET n == Len(pending)
               l == Len(pending')
           IN  /\ n \in Nat /\ l \in Nat /\ l >= n + 1 /\ pending' \in Seq(Event)
               /\ \A i \in 1..n : pending'[i] = pending[i] /\ pending[i] \in Event
               /\ \A i \in (n + 1)..l : /\ pending'[i].kind = "BlockConnected"
                                        /\ pending'[i].block \in Blocks
                                        /\ pending'[i].block \in Anc[b]
               /\ pending'[l].block = b
               /\ \A i \in (n + 2)..l : /\ pending'[i].block # Genesis
                                        /\ Prev[pending'[i].block] = pending'[i - 1].block
               /\ tip = None => n = 0 /\ pending'[1] = First
               /\ tip # None => /\ pending'[n + 1].block # Genesis
                                /\ Prev[pending'[n + 1].block] \in Anc[tip]
<1>. DEFINE n == Len(pending)
            q == Connected(b)
<1>1. /\ q \in Seq(Event) /\ Len(q) \in Nat /\ Len(q) >= 1
      /\ \A i \in 1..Len(q) : /\ q[i].kind = "BlockConnected"
                              /\ q[i].block \in Blocks /\ q[i].block \in Anc[b]
      /\ q[Len(q)].block = b
      /\ \A i \in 2..Len(q) : q[i].block # Genesis /\ Prev[q[i].block] = q[i - 1].block
      /\ tip = None => q[1] = First
      /\ tip # None => q[1].block # Genesis /\ Prev[q[1].block] \in Anc[tip]
  BY ConnectedFacts DEF IInv, ActivateBestChain
<1>2. pending \in Seq(Event) /\ n \in Nat /\ pending' = pending \o q
  BY LenProperties DEF IInv, Typed, ActivateBestChain
<1>. HIDE DEF q
<1>3. /\ pending' \in Seq(Event) /\ Len(pending') = n + Len(q)
      /\ \A i \in 1..(n + Len(q)) : pending'[i] = IF i <= n THEN pending[i] ELSE q[i - n]
  BY <1>1, <1>2, ConcatProperties, ZenonT(30)
<1>4. \A i \in 1..n : pending'[i] = pending[i] /\ pending[i] \in Event
  <2>1. \A i \in 1..n : pending[i] \in Event
    BY <1>2, ElementOfSeq
  <2>. QED BY <1>1, <1>2, <1>3, <2>1, SMT
<1>5. \A i \in (n + 1)..(n + Len(q)) : pending'[i] = q[i - n] /\ i - n \in 1..Len(q)
  BY <1>1, <1>2, <1>3, SMT
<1>6. \A i \in (n + 1)..(n + Len(q)) : /\ pending'[i].kind = "BlockConnected"
                                       /\ pending'[i].block \in Blocks /\ pending'[i].block \in Anc[b]
  BY <1>1, <1>5
<1>7. pending'[n + Len(q)].block = b
  <2>1. n + Len(q) \in (n + 1)..(n + Len(q)) /\ (n + Len(q)) - n = Len(q)
    BY <1>1, <1>2, SMT
  <2>. QED BY <1>1, <1>5, <2>1
<1>8. ASSUME NEW i \in (n + 2)..(n + Len(q))
      PROVE  pending'[i].block # Genesis /\ Prev[pending'[i].block] = pending'[i - 1].block
  <2>1. /\ i \in (n + 1)..(n + Len(q)) /\ i - 1 \in (n + 1)..(n + Len(q))
        /\ i - n \in 2..Len(q) /\ (i - 1) - n = (i - n) - 1
    BY <1>1, <1>2, SMTT(30)
  <2>2. pending'[i] = q[i - n] /\ pending'[i - 1] = q[(i - n) - 1]
    BY <1>5, <2>1
  <2>. QED BY <1>1, <2>1, <2>2
<1>9. pending'[n + 1] = q[1]
  <2>1. n + 1 \in (n + 1)..(n + Len(q)) /\ (n + 1) - n = 1
    BY <1>1, <1>2, SMT
  <2>. QED BY <1>5, <2>1
<1>10. tip = None => n = 0
  BY EmptySeq DEF IInv, Threads
<1>11. tip = None => pending'[1] = First
  <2>1. tip = None => n + 1 = 1
    BY <1>10, SMT
  <2>. QED BY <1>1, <1>9, <2>1
<1>12. n + Len(q) \in Nat /\ n + Len(q) >= n + 1
  BY <1>1, <1>2, SMT
<1>. QED BY <1>1, <1>2, <1>3, <1>4, <1>6, <1>7, <1>8, <1>9, <1>10, <1>11, <1>12, ZenonT(30)

LEMMA ActivateBestChainStep ==
    ASSUME IInv, NEW b \in Blocks, ActivateBestChain(b)
    PROVE  IInv'
<1>. DEFINE n == Len(pending)
            l == Len(pending')
<1>0. /\ Up /\ tip' = b /\ b # None /\ thread # "rewind" /\ known' = known \cup Anc[b]
      /\ UNCHANGED <<diskTip, diskKnown, current, cbpc, m_best_block_index, totals, byHeight,
                     byHash, committed, m_synced, thread, pindex, node, asked, answer>>
  BY IndexAssumption DEF ActivateBestChain, memVars, dbVars, syncVars, askVars
<1>1. /\ n \in Nat /\ l \in Nat /\ l >= n + 1 /\ pending' \in Seq(Event)
      /\ \A i \in 1..n : pending'[i] = pending[i] /\ pending[i] \in Event
      /\ \A i \in (n + 1)..l : /\ pending'[i].kind = "BlockConnected"
                               /\ pending'[i].block \in Blocks
      /\ pending'[l].block = b
      /\ \A i \in (n + 2)..l : /\ pending'[i].block # Genesis
                               /\ Prev[pending'[i].block] = pending'[i - 1].block
      /\ tip = None => n = 0 /\ pending'[1] = First
      /\ tip # None => /\ pending'[n + 1].block # Genesis
                       /\ Prev[pending'[n + 1].block] \in Anc[tip]
  BY ActivateFacts
<1>2. Stand' = Stand /\ Heading' = Heading
  BY <1>0 DEF Stand, Heading
<1>3. /\ tip # None => tip \in Blocks
      /\ tip = None => cbpc = "none" /\ m_synced /\ Heading = None
  BY <1>0 DEF IInv, Typed, Block0, Threads, Heading
<1>4. \A i \in 1..n : Connects(i) => pending[i].block \in Blocks
  BY <1>1, EventFacts DEF Connects
<1>5. Linked'
  <2>1. ASSUME NEW i \in 1..l, NEW j \in 1..l, i < j,
               Connects(i)', Connects(j)', \A m \in (i + 1)..(j - 1) : ~Connects(m)'
        PROVE  pending'[j].block # Genesis /\ Prev[pending'[j].block] \in Anc[pending'[i].block]
    <3>1. CASE j \in 1..n
      <4>1. i \in 1..n /\ \A m \in (i + 1)..(j - 1) : m \in 1..n
        BY <1>1, <2>1, <3>1, SMTT(30)
      <4>2. /\ Connects(i) /\ Connects(j) /\ \A m \in (i + 1)..(j - 1) : ~Connects(m)
            /\ pending'[i] = pending[i] /\ pending'[j] = pending[j]
        BY <1>1, <2>1, <3>1, <4>1 DEF Connects
      <4>. QED BY <2>1, <3>1, <4>1, <4>2 DEF IInv, Linked
    <3>2. CASE j = n + 1
      <4>1. i \in 1..n /\ \A m \in (i + 1)..n : m \in 1..n /\ m \in (i + 1)..(j - 1)
        BY <1>1, <2>1, <3>2, SMTT(30)
      <4>2. Connects(i) /\ \A m \in (i + 1)..n : ~Connects(m)
        BY <1>1, <2>1, <4>1 DEF Connects
      <4>3. tip \in Anc[pending[i].block] /\ pending[i].block \in Blocks
        BY <1>4, <4>1, <4>2 DEF IInv, Linked
      <4>4. tip # None
        BY <1>1, <4>1, SMTT(30)
      <4>5. Anc[tip] \subseteq Anc[pending[i].block]
        BY <4>3, AncClosed
      <4>. QED BY <1>1, <3>2, <4>1, <4>4, <4>5
    <3>3. CASE j \in (n + 2)..l
      <4>1. i = j - 1
        <5>1. SUFFICES ASSUME i # j - 1 PROVE FALSE
          OBVIOUS
        <5>2. j - 1 \in (i + 1)..(j - 1) /\ j - 1 \in (n + 1)..l
          BY <1>1, <2>1, <3>3, <5>1, SMTT(30)
        <5>. QED BY <1>1, <2>1, <5>2 DEF Connects
      <4>2. i \in (n + 1)..l
        BY <1>1, <3>3, <4>1, SMT
      <4>3. pending'[i].block \in Anc[pending'[i].block]
        BY <1>1, <4>2, AncClosed
      <4>. QED BY <1>1, <3>3, <4>1, <4>3
    <3>4. j \in 1..n \/ j = n + 1 \/ j \in (n + 2)..l
      BY <1>1, <2>1, SMT
    <3>. QED BY <3>1, <3>2, <3>3, <3>4
  <2>2. ASSUME NEW i \in 1..l, Connects(i)', \A m \in (i + 1)..l : ~Connects(m)'
        PROVE  tip' \in Anc[pending'[i].block]
    <3>1. i = l
      <4>1. SUFFICES ASSUME i # l PROVE FALSE
        OBVIOUS
      <4>2. l \in (i + 1)..l /\ l \in (n + 1)..l
        BY <1>1, <2>2, <4>1, SMT
      <4>3. pending'[l].kind = "BlockConnected"
        BY <1>1, <4>2
      <4>4. PICK m : m = l
        OBVIOUS
      <4>5. ~Connects(m)'
        BY <2>2, <4>2, <4>4
      <4>. QED BY <4>3, <4>4, <4>5 DEF Connects
    <3>. QED BY <1>0, <1>1, <3>1, AncClosed
  <2>. QED BY <2>1, <2>2 DEF Linked, Connects
<1>6. ASSUME NEW x, NEW k \in 0..n, NEW m \in k..l, OnChain(x) \/ Coming(x, k)
      PROVE  OnChain(x)' \/ Coming(x, m)'
  <2>1. OnChain(x) => OnChain(x)'
    BY <1>2 DEF OnChain
  <2>2. Len(pending') >= Len(pending)
    BY <1>1, SMTT(30)
  <2>3. Coming(x, k) => Coming(x, m)'
    BY <1>1, <1>2, <2>2, QueueGrows
  <2>. QED BY <1>6, <2>1, <2>3
<1>7. Arrives'
  <2>1. SUFFICES ASSUME m_synced PROVE Coming(tip, Len(pending))'
    BY <1>0 DEF Arrives
  <2>2. l \in 1..l /\ n + 1 \in 1..l /\ n + 1 \in (n + 1)..l /\ l \in (n + 1)..l /\ n + 1 <= l
    BY <1>1, SMT
  <2>3. pending'[l].kind = "BlockConnected" /\ tip' \in Anc[pending'[l].block]
    BY <1>0, <1>1, <2>2, AncClosed
  <2>4. ASSUME NEW i \in 1..l, pending'[i].kind = "BlockConnected", i <= l,
               Under(pprev(pending'[i].block), Heading')
        PROVE  Coming(tip, Len(pending))'
    BY <2>2, <2>3, <2>4 DEF Coming, Connects, Under
  <2>5. CASE tip = None
    <3>1. n + 1 = 1 /\ pending'[n + 1] = First
      BY <1>1, <2>5, SMT
    <3>2. pprev(pending'[n + 1].block) = None /\ pending'[n + 1].kind = "BlockConnected"
      BY <3>1, SMT DEF First, pprev
    <3>3. Under(pprev(pending'[n + 1].block), Heading')
      BY <1>2, <1>3, <2>5, <3>2 DEF Under
    <3>. QED BY <2>2, <2>4, <3>2, <3>3
  <2>6. CASE OnChain(tip)
    <3>1. Heading # None /\ Heading \in Blocks /\ tip \in Anc[Heading]
      BY <2>6, HeadingType DEF OnChain, IInv
    <3>2. tip \in Blocks /\ tip # None /\ Anc[tip] \subseteq Anc[Heading]
      BY <3>1, AncClosed, AncHeight, IndexAssumption
    <3>3. /\ pending'[n + 1].block \in Blocks \ {Genesis}
          /\ Prev[pending'[n + 1].block] \in Anc[Heading]
          /\ pending'[n + 1].kind = "BlockConnected"
      BY <1>1, <2>2, <3>2
    <3>4. pprev(pending'[n + 1].block) = Prev[pending'[n + 1].block]
          /\ Prev[pending'[n + 1].block] # None
      BY <3>3, PrevFacts
    <3>5. Under(pprev(pending'[n + 1].block), Heading')
      BY <1>2, <3>1, <3>3, <3>4 DEF Under
    <3>. QED BY <2>2, <2>4, <3>3, <3>5
  <2>7. CASE Coming(tip, n)
    <3>1. PICK i \in 1..n : Connects(i) /\ Under(pprev(pending[i].block), Heading)
      BY <2>7 DEF Coming
    <3>2. i \in 1..l /\ i <= l /\ pending'[i] = pending[i]
      BY <1>1, <3>1, SMT
    <3>. QED BY <1>2, <2>4, <3>1, <3>2 DEF Connects
  <2>. QED BY <2>1, <2>5, <2>6, <2>7 DEF IInv, Arrives
<1>8. Opening'
  <2>1. ASSUME NEW i \in 2..l
        PROVE  pending'[i] # First
    <3>1. CASE i \in 1..n
      BY <1>1, <2>1, <3>1, SMTT(30) DEF IInv, Opening
    <3>2. CASE i = n + 1
      <4>1. tip # None
        BY <1>1, <2>1, <3>2, SMT
      <4>. QED BY <1>1, <3>2, <4>1, SMTT(30) DEF First
    <3>3. CASE i \in (n + 2)..l
      BY <1>1, <3>3, SMTT(30) DEF First
    <3>4. i \in 1..n \/ i = n + 1 \/ i \in (n + 2)..l
      BY <1>1, <2>1, SMTT(30)
    <3>. QED BY <3>1, <3>2, <3>3, <3>4
  <2>2. pending' # <<>>
    BY <1>1, EmptySeq, SMTT(30)
  <2>3. pending # <<>> => 1 \in 1..n /\ pending'[1] = pending[1] /\ tip # None
    <3>1. pending # <<>> => 1 \in 1..n
      BY <1>1, EmptySeq, SMTT(30) DEF IInv, Typed
    <3>. QED BY <1>1, <3>1, SMTT(30)
  <2>4. ASSUME pending'[1] = First
        PROVE  m_synced /\ m_best_block_index = None /\ cbpc = "none"
    <3>1. CASE pending = <<>>
      <4>1. n + 1 = 1
        BY <3>1, EmptySeq, SMT
      <4>2. tip = None
        BY <1>1, <2>4, <4>1, SMTT(30) DEF First
      <4>. QED BY <1>0, <4>2 DEF IInv, Threads
    <3>2. CASE pending # <<>>
      BY <2>3, <2>4, <3>2 DEF IInv, Opening
    <3>. QED BY <3>1, <3>2
  <2>5. ASSUME m_synced, m_best_block_index = None, cbpc = "none"
        PROVE  pending'[1] = First
    BY <1>1, <2>3, <2>5 DEF IInv, Opening
  <2>. QED BY <1>0, <2>1, <2>2, <2>4, <2>5 DEF Opening
<1>9. Promised'
  <2>0. PICK a : a = asked
    OBVIOUS
  <2>1. ASSUME NEW p \in 1..l, Promise(p)'
        PROVE  answer # "none" /\ (a \in byHash \/ OnChain(a)' \/ Coming(a, p - 1)')
    <3>1. p \in 1..n
      <4>1. p \in 1..n \/ p \in (n + 1)..l
        BY <1>1, <2>1, SMTT(30)
      <4>. QED BY <1>1, <2>1, <4>1 DEF Promise
    <3>2. Promise(p) /\ p - 1 \in 0..n /\ p - 1 \in (p - 1)..l
      BY <1>1, <2>1, <3>1, SMTT(30) DEF Promise
    <3>3. answer # "none" /\ (a \in byHash \/ OnChain(a) \/ Coming(a, p - 1))
      BY <2>0, <3>1, <3>2 DEF IInv, Promised
    <3>. QED BY <1>6, <3>2, <3>3
  <2>2. ASSUME answer = "sync"
        PROVE  (asked \in byHash \/ OnChain(asked) \/ Coming(asked, Len(pending)))'
    <3>1. a \in byHash \/ OnChain(a) \/ Coming(a, n)
      BY <2>0, <2>2 DEF IInv, Promised
    <3>2. PICK m, k : m = l /\ k = n
      OBVIOUS
    <3>3. k \in 0..n /\ m \in k..l /\ (a \in byHash \/ OnChain(a) \/ Coming(a, k))
      BY <1>1, <3>1, <3>2, SMTT(30)
    <3>4. a \in byHash \/ OnChain(a)' \/ Coming(a, m)'
      BY <1>6, <3>3
    <3>5. a = asked' /\ m = Len(pending') /\ byHash' = byHash
      BY <1>0, <2>0, <3>2
    <3>. QED BY <3>4, <3>5 DEF OnChain, Coming
  <2>3. \A p \in 1..l : Promise(p)' =>
            answer' # "none" /\ (asked \in byHash \/ OnChain(asked) \/ Coming(asked, p - 1))'
    <3>1. a = asked' /\ byHash' = byHash /\ answer' = answer
      BY <1>0, <2>0
    <3>. QED BY <2>1, <3>1 DEF OnChain, Coming
  <2>. QED BY <1>0, <2>2, <2>3 DEF Promised, Promise
<1>10. Data' /\ Rewinding'
  BY <1>0, <1>2, RewindingStill, CommitFacts DEF IInv
<1>11. Typed' /\ Threads' /\ NeverFatal'
  <2>1. tip' \in Block0 /\ tip' # None
    BY <1>0 DEF Block0
  <2>2. Typed'
    BY <1>0, <1>1, <2>1 DEF IInv, Typed
  <2>3. Threads' /\ NeverFatal'
    BY <1>0, <2>1 DEF IInv, Threads, NeverFatal, Up
  <2>. QED BY <2>2, <2>3
<1>12. Told'
  BY <1>0, <1>2 DEF IInv, Told
<1>13. Indexed'
  <2>1. ASSUME NEW i \in 1..l, pending'[i].kind = "BlockConnected"
        PROVE  pending'[i].block \in known'
    <3>1. CASE i \in 1..n
      BY <1>0, <1>1, <2>1, <3>1 DEF IInv, Indexed, Connects
    <3>2. CASE i \in (n + 1)..l
      BY <1>0, <3>2, ActivateFacts
    <3>3. i \in 1..n \/ i \in (n + 1)..l
      BY <1>1, SMTT(30)
    <3>. QED BY <3>1, <3>2, <3>3
  <2>2. known' \subseteq Blocks /\ tip' \in known' /\ \A x \in known' : Anc[x] \subseteq known'
    BY <1>0, AncHeight, AncClosed DEF IInv, Indexed
  <2>3. UNCHANGED <<diskTip, diskKnown, node, m_best_block_index, pindex, committed, current>>
    BY <1>0
  <2>. QED BY <1>0, <2>1, <2>2, <2>3, ZenonT(30) DEF IInv, Indexed, Known0, Connects
<1>. QED BY <1>5, <1>7, <1>8, <1>9, <1>10, <1>11, <1>12, <1>13 DEF IInv

-----------------------------------------------------------------------------
(* The caller of BlockUntilSyncedToCurrentChain, and the next start.         *)

LEMMA AskStep == IInv /\ Ask => IInv'
<1>. SUFFICES ASSUME IInv, Ask PROVE IInv'
  OBVIOUS
<1>. USE DEF Ask, chainVars, queueVars, memVars, dbVars, syncVars
<1>1. tip \in Blocks /\ Stand' = Stand /\ Heading' = Heading
  BY DEF IInv, Typed, Block0, Stand, Heading
<1>2. Linked' /\ Opening'
  BY ZenonT(30) DEF IInv, Linked, Connects, Opening
<1>3. \A x, n : Coming(x, n)' <=> Coming(x, n)
  BY <1>1 DEF Coming, Connects, Under
<1>4. \A x : OnChain(x)' <=> OnChain(x)
  BY <1>1 DEF OnChain
<1>5. Arrives'
  BY <1>3, <1>4 DEF IInv, Arrives
<1>6. Data' /\ Rewinding'
  BY <1>1, RewindingStill, CommitFacts DEF IInv
<1>7. Typed' /\ Threads' /\ NeverFatal'
  <2>1. asked' \in Block0
    BY <1>1 DEF Block0
  <2>2. node' = node \/ (node' = "null" /\ m_best_block_index = None)
    OBVIOUS
  <2>3. ASSUME m_best_block_index = None
        PROVE  current = First \/ \E i \in 1..Len(pending) : pending[i] = First
    <3>1. CASE cbpc = "none"
      <4>1. pending # <<>> /\ pending[1] = First
        BY <2>3, <3>1 DEF IInv, Opening
      <4>2. 1 \in 1..Len(pending)
        BY <4>1, LenProperties, EmptySeq, SMT DEF IInv, Typed
      <4>. QED BY <4>1, <4>2
    <3>2. CASE cbpc = "rewind"
      BY <2>3, <3>2, IndexAssumption DEF IInv, Rewinding
    <3>3. CASE cbpc \in {"append", "set"}
      <4>1. /\ current \in Event /\ current.kind = "BlockConnected"
            /\ pprev(current.block) = None
        BY <2>3, <3>3 DEF IInv, Threads
      <4>2. current.block = Genesis
        BY <4>1, EventFacts, PrevFacts
      <4>. QED BY <4>1, <4>2, EventFacts
    <3>. QED BY <3>1, <3>2, <3>3 DEF IInv, Typed
  <2>4. NeverFatal'
    BY <2>2, <2>3 DEF IInv, NeverFatal, Up
  <2>. QED BY <2>1, <2>2, <2>4 DEF IInv, Typed, Threads, Up
<1>8. Promised'
  <2>1. \A p \in 1..Len(pending) : ~Promise(p)
    BY DEF IInv, Promised
  <2>2. OnChain(tip) \/ Coming(tip, Len(pending))
    BY DEF IInv, Arrives
  <2>3. PICK t, n : t = tip /\ n = Len(pending)
    OBVIOUS
  <2>4. OnChain(t)' \/ Coming(t, n)'
    BY <1>3, <1>4, <2>2, <2>3
  <2>5. t = asked' /\ n = Len(pending')
    BY <2>3
  <2>6. (OnChain(asked) \/ Coming(asked, Len(pending)))'
    BY <2>4, <2>5 DEF OnChain, Coming
  <2>7. \A p \in 1..Len(pending') : ~Promise(p)'
    BY <2>1 DEF Promise
  <2>. QED BY <2>6, <2>7 DEF Promised
<1>9. Told'
  <2>1. CASE m_best_block_index = None
    <3>1. answer' = "none"
      BY <2>1
    <3>. QED BY <3>1 DEF Told
  <2>2. CASE m_best_block_index # None
    <3>1. m_best_block_index \in Blocks
      BY <2>2 DEF IInv, Typed, Block0
    <3>2. ASSUME answer' = "ready"
          PROVE  Stand # None /\ tip \in Anc[Stand]
      <4>1. Ancestor(m_best_block_index, Height[tip]) = tip
        BY <2>2, <3>2
      <4>2. Height[tip] \in 0..Height[m_best_block_index]
        BY <1>1, <3>1, <4>1, HeightDef, SMTT(30) DEF Ancestor
      <4>3. tip \in Anc[m_best_block_index]
        BY <3>1, <4>1, <4>2, AncAtHeight DEF Ancestor
      <4>4. CASE cbpc = "set"
        <5>1. /\ current.block \in Blocks /\ Stand = current.block
              /\ m_best_block_index = pprev(current.block)
          BY <4>4, EventFacts DEF IInv, Threads, Stand
        <5>2. current.block # Genesis
          BY <2>2, <5>1 DEF pprev
        <5>3. tip \in Anc[current.block]
          BY <4>3, <5>1, <5>2, PrevFacts
        <5>. QED BY <5>1, <5>3, IndexAssumption
      <4>5. CASE cbpc # "set"
        BY <2>2, <4>3, <4>5 DEF IInv, Threads, Stand
      <4>. QED BY <4>4, <4>5
    <3>. QED BY <1>1, <2>2, <3>2 DEF Told
  <2>. QED BY <2>1, <2>2
<1>10. Indexed'
  BY KnownFacts, IndexedKept
<1>. QED BY <1>2, <1>5, <1>6, <1>7, <1>8, <1>9, <1>10, ZenonT(30) DEF IInv

LEMMA SyncWithValidationInterfaceQueueStep ==
    IInv /\ SyncWithValidationInterfaceQueue => IInv'
<1>. SUFFICES ASSUME IInv, SyncWithValidationInterfaceQueue PROVE IInv'
  OBVIOUS
<1>. USE DEF SyncWithValidationInterfaceQueue, Queue!Enqueue, chainVars, memVars, dbVars, syncVars, bounds
<1>1. PICK e : e = [kind |-> "promise", block |-> None]
  OBVIOUS
<1>2. e \in Event /\ e.kind = "promise" /\ pending' = Append(pending, e)
  BY <1>1 DEF Event
<1>3. m_best_block_index # None /\ tip # None
  BY DEF IInv, Told, Threads
<1>4. Linked' /\ Arrives' /\ Opening' /\ Promised' /\ pending' \in Seq(Event)
  BY <1>2, <1>3, QueueQuiet
<1>5. Stand' = Stand
  BY DEF Stand
<1>6. Data' /\ Rewinding'
  BY <1>5, RewindingStill, CommitFacts DEF IInv
<1>7. Typed' /\ Threads' /\ NeverFatal'
  BY <1>3, <1>4 DEF IInv, Typed, Threads, NeverFatal, Up
<1>8. Told'
  BY <1>5 DEF IInv, Told
<1>9. Indexed'
  BY <1>2, KnownFacts, IndexedKept
<1>. QED BY <1>4, <1>6, <1>7, <1>8, <1>9 DEF IInv

LEMMA InterruptStep == IInv /\ Interrupt => IInv'
<1>. SUFFICES ASSUME IInv, Interrupt PROVE IInv'
  OBVIOUS
<1>. USE DEF Interrupt, chainVars, queueVars, memVars, dbVars, syncVars, askVars, bounds
<1>1. Stand' = Stand /\ Heading' = Heading
  BY DEF Stand, Heading
<1>2. Linked' /\ Arrives' /\ Promised'
  BY <1>1, QueueStill
<1>3. Data' /\ Rewinding'
  BY <1>1, RewindingStill, CommitFacts DEF IInv
<1>4. Typed' /\ Threads' /\ Opening' /\ NeverFatal'
  BY DEF IInv, Typed, Threads, Opening, NeverFatal, Up
<1>5. Told'
  BY <1>1 DEF IInv, Told
<1>6. Indexed'
  BY KnownFacts, IndexedKept DEF Up
<1>. QED BY <1>2, <1>3, <1>4, <1>5, <1>6 DEF IInv

\* The index starts from what was committed, which is on the chain of its data.
LEMMA RestartStep == IInv /\ Restart => IInv'
<1>. SUFFICES ASSUME IInv, Restart PROVE IInv'
  OBVIOUS
<1>. DEFINE c == committed.best
<1>0. /\ tip' = diskTip /\ pending' = <<>> /\ current' = None /\ cbpc' = "none"
      /\ asked' = None /\ answer' = "none" /\ m_best_block_index' = c
      /\ totals' = committed.totals /\ pindex' = c
      /\ UNCHANGED <<diskTip, diskKnown, byHeight, byHash, committed>>
  BY DEF Restart, dbVars
<1>1. c \in Block0 /\ committed.totals = c
  BY DEF IInv, Typed, Data
<1>2. /\ m_synced' \in BOOLEAN /\ (m_synced' <=> c = diskTip)
      /\ thread' = (IF m_synced' THEN "exit" ELSE "loop")
  <2>1. m_synced' = (c = diskTip) /\ thread' = (IF m_synced' THEN "exit" ELSE "loop")
    BY DEF Restart
  <2>. QED BY <2>1
<1>3. Stand' = c /\ Heading' = c
  BY <1>0, <1>2 DEF Stand, Heading
<1>4. c # None => /\ c \in Blocks /\ c \in Anc[c]
                  /\ \A a \in Anc[c] : byHeight[Height[a]] = a
  <2>1. SUFFICES ASSUME c # None
                 PROVE  c \in Blocks /\ c \in Anc[c] /\ \A a \in Anc[c] : byHeight[Height[a]] = a
    OBVIOUS
  <2>2. c \in Blocks /\ c \in Anc[c]
    BY <1>1, <2>1, AncClosed DEF Block0
  <2>3. Stand \in Blocks /\ c \in Anc[Stand]
    BY <2>1, StandType DEF IInv, Data, Block0
  <2>4. Anc[c] \subseteq Anc[Stand]
    BY <2>3, AncClosed
  <2>. QED BY <2>1, <2>2, <2>3, <2>4, IndexAssumption DEF IInv, Data
<1>5. node' \in {"refused", "up"} /\ (node' = "up" => c \in diskKnown \cup {None})
  <2>1. ~(c # None /\ (~Found(c) \/ committed.totals # c))
    BY <1>1, <1>4 DEF Found
  <2>2. node' = CASE c \notin diskKnown \cup {None} -> "refused"
                  [] c # None /\ (~Found(c) \/ committed.totals # c) -> "corrupt"
                  [] OTHER -> "up"
    BY DEF Restart
  <2>3. CASE c \notin diskKnown \cup {None}
    BY <2>1, <2>2, <2>3
  <2>4. CASE c \in diskKnown \cup {None}
    BY <2>1, <2>2, <2>4
  <2>. QED BY <2>3, <2>4
<1>6. Typed'
  <2>1. <<>> \in Seq(Event) /\ None \in Block0
    BY EmptySeq DEF Block0
  <2>2. thread' \in {"loop", "exit"}
    BY <1>2
  <2>. QED BY <1>0, <1>1, <1>2, <2>1, <2>2 DEF IInv, Typed
<1>7. Threads'
  <2>1. tip' = None /\ Up' => m_synced' /\ m_best_block_index' = None
    BY <1>0, <1>2, <1>5 DEF IInv, Threads, Up
  <2>. QED BY <1>0, <1>2, <2>1 DEF IInv, Threads
<1>8. Data'
  BY <1>0, <1>1, <1>3, <1>4 DEF Data
<1>9. /\ \A i \in 1..Len(pending') : FALSE
      /\ \A i \in 2..Len(pending') : FALSE
  BY <1>0, EmptySeq, SMT
<1>10. Linked'
  BY <1>9 DEF Linked
<1>11. Arrives'
  <2>1. m_synced' => tip' = None \/ OnChain(tip)'
    BY <1>0, <1>2, <1>3, <1>4 DEF OnChain
  <2>. QED BY <2>1 DEF Arrives
<1>12. Opening' /\ Promised' /\ Told'
  BY <1>0, <1>2, <1>9 DEF Opening, Promised, Told
<1>13. Rewinding' /\ NeverFatal'
  BY <1>0, <1>2, <1>5 DEF Rewinding, NeverFatal
<1>14. Indexed'
  <2>1. known' = diskKnown
    BY DEF Restart
  <2>. QED BY <1>0, <1>5, <1>9, <2>1 DEF IInv, Indexed, Known0
<1>. QED BY <1>6, <1>7, <1>8, <1>10, <1>11, <1>12, <1>13, <1>14, ZenonT(30) DEF IInv

-----------------------------------------------------------------------------
(* The theorems.                                                             *)

LEMMA NextIInv == IInv /\ [Next]_vars => IInv'
<1>1. ASSUME IInv, UNCHANGED vars
      PROVE  IInv'
  <2>. USE <1>1 DEF vars, chainVars, queueVars, memVars, dbVars, syncVars, askVars, bounds
  <2>1. Stand' = Stand /\ Heading' = Heading
    BY DEF Stand, Heading
  <2>2. Linked' /\ Arrives' /\ Promised'
    BY <2>1, QueueStill
  <2>3. Data' /\ Rewinding'
    BY <2>1, RewindingStill, CommitFacts DEF IInv
  <2>4. Typed' /\ Threads' /\ Opening' /\ NeverFatal'
    BY DEF IInv, Typed, Threads, Opening, NeverFatal, Up
  <2>5. Told'
    BY <2>1 DEF IInv, Told
  <2>6. Indexed'
    BY DEF IInv, Indexed, Known0, Connects
  <2>. QED BY <2>2, <2>3, <2>4, <2>5, <2>6 DEF IInv
<1>2. IInv /\ (ThreadSync \/ SyncCommit) => IInv'
  BY SyncDoneStep, SyncNextStep, SyncRewindStep, SyncRewoundStep, SyncAppendStep, SyncInterruptedStep,
     SyncCommitStep DEF ThreadSync
<1>3. IInv /\ Callback => IInv'
  BY CallbackDeclinesStep, PromiseKeptStep, BlockConnectedStep, BlockRewoundStep, BlockAppendedStep,
     BestBlockSetStep, ChainStateFlushedStep DEF Callback
<1>. QED BY <1>1, <1>2, <1>3, ActivateBestChainStep, DisconnectTipStep, FlushStateToDiskStep, FlushIfNeededStep,
            AskStep, SyncWithValidationInterfaceQueueStep, InterruptStep, RestartStep, ZenonT(30) DEF Next

LEMMA InvariantHolds == Spec => []IInv
BY InitIInv, NextIInv, PTL DEF Spec

\* BaseIndex::Sync, BlockConnected and Rewind: between two callbacks the entries and
\* the totals of an index in sync are those of its best block, and once the
\* callbacks queued while the thread ran are through it stands at the tip.
THEOREM IndexStaysExact == Spec => []IndexExact
<1>1. IInv => IndexExact
  <2>. SUFFICES ASSUME IInv, m_synced, current = None
                PROVE  /\ m_best_block_index # None =>
                             /\ totals = m_best_block_index
                             /\ \A b \in Anc[m_best_block_index] : byHeight[Height[b]] = b
                       /\ pending = <<>> => AtTip
    BY DEF IndexExact
  <2>1. cbpc = "none" /\ ~Middle /\ Stand = m_best_block_index /\ Heading = m_best_block_index
    BY IndexAssumption DEF IInv, Threads, Stand, Heading, Middle
  <2>2. pending = <<>> => ~Coming(tip, Len(pending))
    BY EmptySeq, SMT DEF Coming
  <2>3. pending = <<>> => AtTip
    BY <2>1, <2>2 DEF IInv, Arrives, OnChain, AtTip
  <2>. QED BY <2>1, <2>3 DEF IInv, Data
<1>. QED BY <1>1, InvariantHolds, PTL

\* BaseIndex::Commit: at any time, between the two writes of Rewind too, the data on
\* disk is that of the committed best block, and a running node has this block in
\* its block index; a start that does not find it there is refused by Init.
THEOREM IndexCommittedUsable == Spec => []CommittedUsable
<1>1. IInv => CommittedUsable
  <2>. SUFFICES ASSUME IInv, committed.best # None
                PROVE  /\ committed.totals = committed.best
                       /\ \A b \in Anc[committed.best] : Found(b)
                       /\ node # "refused" => committed.best \in known
    BY DEF CommittedUsable
  <2>1. Stand \in Blocks /\ committed.best \in Anc[Stand]
    BY StandType DEF IInv, Data, Block0
  <2>2. Anc[committed.best] \subseteq Anc[Stand]
    BY <2>1, AncClosed
  <2>3. node # "refused" => committed.best \in known
    BY DEF IInv, Indexed, Known0
  <2>. QED BY <2>1, <2>2, <2>3, IndexAssumption DEF IInv, Data, Found
<1>. QED BY <1>1, InvariantHolds, PTL

\* BlockUntilSyncedToCurrentChain: once it has returned, the tip its caller saw has
\* an entry and keeps it.
THEOREM IndexAnswerHolds == Spec => []AnswerHolds
<1>1. IInv => AnswerHolds
  BY DEF IInv, Told, Data, AnswerHolds, Found
<1>. QED BY <1>1, InvariantHolds, PTL

\* Neither BlockConnected nor the sync thread meets data it cannot rewind or extend,
\* no start finds what was committed damaged, and m_best_block_index is followed as
\* nullptr only while the callback for the first block is queued or running.
THEOREM IndexNeverFatal == Spec => []NeverFatal
<1>1. IInv => NeverFatal
  BY DEF IInv
<1>. QED BY <1>1, InvariantHolds, PTL
=============================================================================
