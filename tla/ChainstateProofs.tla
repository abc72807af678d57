--------------------------- MODULE ChainstateProofs ---------------------------
(***************************************************************************)
(* Proofs about Chainstate, for every tree of blocks, every choice of the  *)
(* invalid ones and any number of calls.                                   *)
(***************************************************************************)
EXTENDS Chainstate, BlockTreeProofs, FiniteSetTheorems

\* A leaf that names no prover is tried with Zenon.
USE Zenon

-----------------------------------------------------------------------------
(* The order of the candidates.                                              *)

LEMMA WorseOrder ==
    ASSUME NEW seq \in [Blocks -> Int]
    PROVE  /\ \A a \in Blocks : ~Worse(a, a, seq)
           /\ \A a, b, c \in Blocks : Worse(a, b, seq) /\ Worse(b, c, seq) => Worse(a, c, seq)
<1>1. \A a \in Blocks : Work[a] \in Nat /\ Addr[a] \in Nat /\ seq[a] \in Int
  BY WorkDef, TreeAssumption
<1>. QED BY <1>1, SMT DEF Worse

\* CBlockIndexWorkComparator is a total order.
LEMMA WorseTotal ==
    ASSUME NEW seq \in [Blocks -> Int]
    PROVE  /\ \A a, b \in Blocks : a # b /\ ~Worse(a, b, seq) => Worse(b, a, seq)
           /\ \A a, b \in Blocks : Worse(a, b, seq) => ~Worse(b, a, seq)
           /\ \A a, b, c \in Blocks :
                 ~Worse(a, b, seq) /\ ~Worse(b, c, seq) => ~Worse(a, c, seq)
           /\ \A b \in Blocks : \A a \in Anc[b] : ~Worse(b, a, seq) /\ (a # b => Worse(a, b, seq))
<1>1. \A a \in Blocks : Work[a] \in Nat /\ Addr[a] \in Nat /\ seq[a] \in Int
  BY WorkDef, TreeAssumption
<1>2. \A a, b \in Blocks : a # b => Addr[a] # Addr[b]
  BY TreeAssumption
<1>3. \A a, b \in Blocks : a # b /\ ~Worse(a, b, seq) => Worse(b, a, seq)
  BY <1>1, <1>2, SMT DEF Worse
<1>4. \A a, b \in Blocks : Worse(a, b, seq) => ~Worse(b, a, seq)
  BY <1>1, SMT DEF Worse
<1>5. \A a, b, c \in Blocks : ~Worse(a, b, seq) /\ ~Worse(b, c, seq) => ~Worse(a, c, seq)
  BY <1>1, SMT DEF Worse
<1>6. ASSUME NEW b \in Blocks, NEW a \in Anc[b]
      PROVE  ~Worse(b, a, seq) /\ (a # b => Worse(a, b, seq))
  BY AncWork, AncHeight, WorseOrder DEF Worse
<1>. QED BY <1>3, <1>4, <1>5, <1>6

\* A set of blocks that is not empty has a best one.
LEMMA BestExists ==
    ASSUME NEW T \in SUBSET Blocks, T # {}, NEW seq \in [Blocks -> Int]
    PROVE  \E b \in T : \A c \in T : ~Worse(b, c, seq)
<1>. DEFINE Better(b) == {c \in T : Worse(b, c, seq)}
            Count(b) == Cardinality(Better(b))
            N == {Count(b) : b \in T}
<1>1. \A b \in T : IsFiniteSet(Better(b)) /\ Count(b) \in Nat
  <2>1. IsFiniteSet(Blocks)
    BY TreeAssumption
  <2>2. \A b \in T : Better(b) \in SUBSET Blocks
    OBVIOUS
  <2>. HIDE DEF Better
  <2>. QED BY <2>1, <2>2, FS_Subset, FS_CardinalityType
<1>2. PICK n \in N : \A m \in N : ~ (m < n)
  <2>1. N \subseteq Nat /\ N # {}
    BY <1>1
  <2>. HIDE DEF N
  <2>. QED BY <2>1, LeastNumber
<1>3. PICK b \in T : Count(b) = n
  BY <1>2
<1>4. ASSUME NEW c \in T, Worse(b, c, seq)
      PROVE  FALSE
  <2>1. Better(c) \in SUBSET Better(b) /\ c \in Better(b) /\ c \notin Better(c)
    BY <1>4, WorseOrder
  <2>2. Count(c) \in N /\ Count(c) \in Nat /\ Count(b) \in Nat /\ IsFiniteSet(Better(b))
    BY <1>1
  <2>. HIDE DEF Better, N
  <2>3. Count(c) <= Count(b) /\ Count(c) # Count(b)
    BY <2>1, <2>2, FS_Subset
  <2>. QED BY <1>2, <1>3, <2>2, <2>3, SMT
<1>. QED BY <1>4

-----------------------------------------------------------------------------
Bits == {"HAVE_DATA", "HAVE_UNDO", "FAILED_VALID", "FAILED_CHILD"}

\* The types the proof needs.
TypedBlocks ==
    /\ index \subseteq Blocks /\ received \subseteq index /\ linked \subseteq received
    /\ valid \in [Blocks -> Nat]
    /\ status \in [Blocks -> SUBSET Bits]
    /\ seqId \in [Blocks -> Int]
    /\ unlinked \in [Blocks -> Seq(received)] /\ linkQueue \in Seq(received)
    /\ failedBlocks \subseteq Blocks /\ candidates \subseteq Blocks /\ tip \in Blocks

Locals == [pc : {"idle", "find", "step", "released", "fatal"},
           mostWork : Blocks \cup {None}, starting : Blocks \cup {None},
           old : Blocks \cup {None}, connected : BOOLEAN]

TypedLocals ==
    /\ counters \in [sequence : Int, reverse : Int, lastPrecious : Int]
    /\ abc \in Locals
    /\ inv = None \/ inv \in [pindex : Blocks \ {Genesis}, toMarkFailed : Blocks,
                              byWork : SUBSET Blocks]
    /\ partial \in BOOLEAN

Typed == TypedBlocks /\ TypedLocals

\* The block index is a tree, and only well-formed blocks are stored.
Stored ==
    /\ \A b \in index \ {Genesis} : Prev[b] \in index
    /\ \A b \in Blocks : Failed(b) => b \in index
    /\ \A b \in Blocks : HaveData(b) => b \in received
    /\ received \subseteq WellFormed

\* The blocks that are linked, or are being linked.
Reached == linked \cup Range(linkQueue)

\* They are a tree as well; everything that can become the tip is among them.
Chained ==
    /\ Genesis \in Reached
    /\ \A b \in Reached \ {Genesis} : Prev[b] \in Reached
    /\ \A p \in Blocks : \A i \in DOMAIN unlinked[p] :
          unlinked[p][i] # Genesis /\ Prev[unlinked[p][i]] = p
    /\ candidates \subseteq Reached /\ tip \in Reached
    /\ abc.mostWork # None => abc.mostWork \in Reached
    /\ inv # None => inv.byWork \subseteq Reached

\* The mutex, and what the locals are for.
Locked ==
    /\ inv # None => abc.pc = "idle"
    /\ abc.pc = "idle" => abc.mostWork = None
    /\ abc.pc = "step" => abc.mostWork # None /\ abc.mostWork # tip
    /\ inv # None => inv.pindex \in Anc[inv.toMarkFailed] /\ inv.toMarkFailed \in index

\* The chain ActivateBestChain is on the way to has no failed block, also after it
\* has released cs_main.
Clear == abc.mostWork # None => \A a \in Anc[abc.mostWork] : ~Failed(a)

Active == \A a \in Anc[tip] : a \in Connectable /\ valid[a] = SCRIPTS /\ ~Failed(a)

\* FailedMarksExact at every step, for every block.
Marked ==
    /\ ~partial => \A b \in Blocks : Failed(b) => ~NoInvalidAncestor(b)
    /\ \A f \in failedBlocks : "FAILED_VALID" \in status[f]

IInv == Typed /\ Stored /\ Chained /\ Locked /\ Clear /\ Active /\ Marked

-----------------------------------------------------------------------------
(* Facts about a state.                                                      *)

\* What is reached was received, and its ancestors are reached.
LEMMA ReachedFacts ==
    ASSUME Typed, Chained
    PROVE  /\ Reached \subseteq received /\ received \subseteq Blocks
           /\ \A b \in Reached : Anc[b] \subseteq Reached
<1>1. Reached \subseteq received /\ received \subseteq Blocks
  BY SMT DEF Typed, TypedBlocks, Reached, Range
<1>2. \A b \in Reached : Anc[b] \subseteq Reached
  BY <1>1, AncLeast DEF Chained
<1>. QED BY <1>1, <1>2

\* Nothing above a block that is not in a chain is in it.
LEMMA AboveIsOutside ==
    ASSUME NEW t \in Blocks, NEW n \in Blocks, NEW f \in Anc[n], f \notin Anc[t]
    PROVE  (Anc[n] \ Anc[f]) \cap Anc[t] = {}
BY AncLine, AncClosed, AncHeight

LEMMA InitIInv == Init => IInv
<1>. SUFFICES ASSUME Init PROVE IInv
  OBVIOUS
<1>0. Genesis \in Blocks /\ Anc[Genesis] = {Genesis} /\ Genesis \in WellFormed \cap Connectable
  BY TreeAssumption, ChainstateAssumption, AncDef
<1>. USE <1>0 DEF Init
<1>1. Typed
  <2>1. valid \in [Blocks -> Nat] /\ status \in [Blocks -> SUBSET Bits]
    BY DEF Bits, SCRIPTS
  <2>2. seqId \in [Blocks -> Int]
    BY SMT
  <2>5. <<>> \in Seq(received)
    BY SMT
  <2>6. unlinked \in [Blocks -> Seq(received)] /\ linkQueue \in Seq(received)
    BY <2>5
  <2>3. TypedBlocks
    BY <2>1, <2>2, <2>6 DEF TypedBlocks
  <2>7. abc \in Locals
    BY DEF Locals, Idle
  <2>8. counters \in [sequence : Int, reverse : Int, lastPrecious : Int]
    BY SMT
  <2>4. TypedLocals
    BY <2>7, <2>8 DEF TypedLocals
  <2>. QED BY <2>3, <2>4 DEF Typed
<1>2. Stored
  BY DEF Stored, Failed, HaveData
<1>3. Chained
  BY SMT DEF Chained, Reached, Idle, Range
<1>4. Locked
  BY DEF Locked, Idle
<1>5. Clear /\ Active
  BY DEF Clear, Active, Idle, Failed, SCRIPTS
<1>6. Marked
  BY DEF Marked, Failed
<1>. QED BY <1>1, <1>2, <1>3, <1>4, <1>5, <1>6 DEF IInv

-----------------------------------------------------------------------------
(* Headers and blocks arriving.                                              *)

\* AddToBlockIndex and the arrival of a block change nothing for the chains.
LEMMA HeaderStep ==
    ASSUME IInv, NEW b \in Blocks \ {Genesis}, AcceptBlockHeader(b)
    PROVE  IInv'
<1>. USE DEF AcceptBlockHeader, AddToBlockIndex, chainVars, threadVars, callVars
<1>0. Prev[b] \in index
  BY DEF HeaderAccepted
<1>1. Typed'
  BY DEF IInv, Typed, TypedBlocks, TypedLocals, TREE
<1>2. Stored'
  BY <1>0 DEF IInv, Stored, Failed, HaveData
<1>3. Chained'
  BY SMT DEF IInv, Chained, Reached
<1>4. Locked' /\ Clear'
  BY DEF IInv, Locked, Clear, Failed
<1>5. Active'
  <2>1. Anc[tip] \subseteq index
    BY ReachedFacts DEF IInv, Chained, Typed, TypedBlocks
  <2>. QED BY <2>1 DEF IInv, Active, Failed, Typed, TypedBlocks
<1>6. Marked'
  BY DEF IInv, Marked, Failed, NoInvalidAncestor
<1>. QED BY <1>1, <1>2, <1>3, <1>4, <1>5, <1>6 DEF IInv

LEMMA IgnoreStep ==
    ASSUME IInv, NEW b \in Blocks \ {Genesis}, NEW r \in BOOLEAN, IgnoreBlock(b, r)
    PROVE  IInv'
<1>. USE DEF IgnoreBlock, AddToBlockIndex, chainVars, callVars
<1>0. b \in index \/ Prev[b] \in index
  BY DEF HeaderAccepted
<1>1. Typed'
  BY DEF IInv, Typed, TypedBlocks, TypedLocals, TREE
<1>2. Stored'
  BY <1>0 DEF IInv, Stored, Failed, HaveData
<1>3. Chained'
  BY SMT DEF IInv, Chained, Reached
<1>4. Locked' /\ Clear'
  BY DEF IInv, Locked, Clear, Failed
<1>5. Active'
  <2>1. Anc[tip] \subseteq index
    BY ReachedFacts DEF IInv, Chained, Typed, TypedBlocks
  <2>. QED BY <2>1 DEF IInv, Active, Failed, Typed, TypedBlocks
<1>6. Marked'
  BY DEF IInv, Marked, Failed, NoInvalidAncestor
<1>. QED BY <1>1, <1>2, <1>3, <1>4, <1>5, <1>6 DEF IInv

\* Marking more blocks, none of which is on the active chain or on the way to the
\* next, keeps what is said of both.
LEMMA MarkOutside ==
    ASSUME IInv, NEW M \in SUBSET Blocks, NEW B \in SUBSET Bits,
           status' = Mark(M, B), tip' \in Anc[tip], abc'.mostWork \in {abc.mostWork, None},
           M \cap Anc[tip'] = {},
           abc'.mostWork # None => M \cap Anc[abc.mostWork] = {},
           \A a \in Anc[tip] : valid'[a] = valid[a]
    PROVE  /\ status' \in [Blocks -> SUBSET Bits]
           /\ Clear' /\ Active'
<1>1. status' \in [Blocks -> SUBSET Bits]
  BY DEF IInv, Typed, TypedBlocks, Mark
<1>2. \A a \in Blocks \ M : status'[a] = status[a]
  BY DEF Mark
<1>3. tip \in Blocks /\ Anc[tip'] \subseteq Anc[tip] /\ Anc[tip] \subseteq Blocks
  BY AncClosed, AncDef DEF IInv, Typed, TypedBlocks
<1>4. abc.mostWork # None => Anc[abc.mostWork] \subseteq Blocks
  BY AncDef DEF IInv, Typed, TypedLocals, Locals
<1>5. Clear'
  BY <1>2, <1>4 DEF IInv, Clear, Failed
<1>6. Active'
  BY <1>2, <1>3, ZenonT(30) DEF IInv, Active, Failed
<1>. QED BY <1>1, <1>5, <1>6

\* Marking blocks above an invalid one keeps Marked.
LEMMA MarkWithCause ==
    ASSUME IInv, NEW M \in SUBSET Blocks, NEW B, status' = Mark(M, B), partial' = partial,
           ~partial => \A c \in M : \E f \in Anc[c] : "FAILED_VALID" \in status'[f],
           \A f \in failedBlocks' : f \in failedBlocks \/ "FAILED_VALID" \in status'[f]
    PROVE  Marked'
<1>1. \A a \in Blocks : "FAILED_VALID" \in status[a] => "FAILED_VALID" \in status'[a]
  BY DEF Mark
<1>2. ASSUME NEW c \in Blocks, Failed(c)', ~partial
      PROVE  ~NoInvalidAncestor(c)'
  <2>1. CASE c \in M
    BY <2>1, <1>2 DEF NoInvalidAncestor
  <2>2. CASE c \notin M
    <3>1. Failed(c)
      BY <1>2, <2>2 DEF Failed, Mark
    <3>. QED BY <3>1, <1>1, <1>2, AncDef DEF IInv, Marked, NoInvalidAncestor
  <2>. QED BY <2>1, <2>2
<1>. QED BY <1>1, <1>2 DEF IInv, Marked, Typed, TypedBlocks

LEMMA RejectHeaderStep ==
    ASSUME IInv, NEW b \in Blocks \ {Genesis}, RejectBlockHeader(b)
    PROVE  IInv'
<1>. USE DEF RejectBlockHeader, markVars, chainVars, threadVars, callVars
<1>1. PICK f \in FailedAbove(b) : status' = Mark(Anc[Prev[b]] \ Anc[f], {"FAILED_CHILD"})
  OBVIOUS
<1>. DEFINE M == Anc[Prev[b]] \ Anc[f]
<1>2. /\ Prev[b] \in index /\ Prev[b] \in Blocks /\ f \in Anc[Prev[b]] /\ f \in Blocks
      /\ f \in failedBlocks /\ "FAILED_VALID" \in status[f] /\ Failed(f)
  BY <1>1, PrevType, AncHeight DEF FailedAbove, IInv, Marked, Failed
<1>3. Anc[Prev[b]] \subseteq index /\ M \in SUBSET Blocks
  BY <1>2, AncLeast DEF IInv, Stored, Typed, TypedBlocks
<1>4. M \cap Anc[tip] = {}
  BY <1>2, AboveIsOutside DEF IInv, Active, Typed, TypedBlocks
<1>5. abc.mostWork # None => M \cap Anc[abc.mostWork] = {}
  BY <1>2, AboveIsOutside DEF IInv, Clear, Typed, TypedLocals, Locals
<1>6. status' \in [Blocks -> SUBSET Bits] /\ Clear' /\ Active'
  <2>1. tip' \in Anc[tip] /\ {"FAILED_CHILD"} \in SUBSET Bits
    BY AncClosed DEF IInv, Typed, TypedBlocks, Bits
  <2>. HIDE DEF M
  <2>. QED BY <1>1, <1>3, <1>4, <1>5, <2>1, MarkOutside DEF M
<1>7. Typed'
  BY <1>6 DEF IInv, Typed, TypedBlocks, TypedLocals
<1>8. Stored'
  BY <1>1, <1>3 DEF IInv, Stored, Failed, HaveData, Mark
<1>9. Chained' /\ Locked'
  BY SMT DEF IInv, Chained, Reached, Locked
<1>10. Marked'
  <2>1. \A c \in M : f \in Anc[c]
    BY <1>2, AncLine
  <2>2. "FAILED_VALID" \in status'[f]
    BY <1>1, <1>2 DEF Mark
  <2>. HIDE DEF M
  <2>. QED BY <1>1, <1>3, <2>1, <2>2, MarkWithCause DEF M
<1>. QED BY <1>6, <1>7, <1>8, <1>9, <1>10 DEF IInv

LEMMA RejectStep ==
    ASSUME IInv, NEW b \in Blocks \ {Genesis}, NEW r \in BOOLEAN, RejectBlock(b, r)
    PROVE  IInv'
<1>. USE DEF RejectBlock, AddToBlockIndex, chainVars, threadVars, callVars
<1>0. b \in index \/ Prev[b] \in index
  BY DEF HeaderAccepted
<1>1. \A c \in Reached : b \notin Anc[c]
  BY ReachedFacts DEF IInv, Stored
<1>2. status' \in [Blocks -> SUBSET Bits] /\ Clear' /\ Active'
  <2>1. tip' \in Anc[tip] /\ {"FAILED_VALID"} \in SUBSET Bits
    BY AncClosed DEF IInv, Typed, TypedBlocks, Bits
  <2>2. {b} \cap Anc[tip] = {} /\ (abc.mostWork # None => {b} \cap Anc[abc.mostWork] = {})
    BY <1>1 DEF IInv, Chained
  <2>3. \A a \in Anc[tip] : valid'[a] = valid[a]
    BY <2>2, AncDef DEF IInv, Typed, TypedBlocks
  <2>. QED BY <2>1, <2>2, <2>3, MarkOutside
<1>3. Typed'
  BY <1>2 DEF IInv, Typed, TypedBlocks, TypedLocals, TREE
<1>4. Stored'
  BY <1>0 DEF IInv, Stored, Failed, HaveData, Mark
<1>5. Chained' /\ Locked'
  BY SMT DEF IInv, Chained, Reached, Locked
<1>6. Marked'
  <2>1. b \in Anc[b] /\ "FAILED_VALID" \in status'[b]
    BY AncClosed DEF Mark
  <2>. QED BY <2>1, MarkWithCause, SMTT(30)
<1>. QED BY <1>2, <1>3, <1>4, <1>5, <1>6 DEF IInv

LEMMA StoreStep ==
    ASSUME IInv, NEW b \in Blocks \ {Genesis}, NEW r \in BOOLEAN, StoreBlock(b, r)
    PROVE  IInv'
<1>. USE DEF StoreBlock, AddToBlockIndex, chainVars, callVars
<1>0. b \in index \/ Prev[b] \in index
  BY DEF HeaderAccepted
<1>1. linkQueue = <<>> /\ Reached = linked
  BY SMT DEF Free, Reached, Range
<1>10. /\ unlinked' = unlinked \/ unlinked' = [unlinked EXCEPT ![Prev[b]] = Append(unlinked[Prev[b]], b)]
      /\ linkQueue' \in {<<>>, <<b>>} /\ received' = received \cup {b}
      /\ Prev[b] \in Blocks /\ unlinked \in [Blocks -> Seq(received)]
  BY <1>1, PrevType DEF IInv, Typed, TypedBlocks
<1>2. Typed'
  <2>1. /\ valid' \in [Blocks -> Nat] /\ status' \in [Blocks -> SUBSET Bits]
        /\ index' \subseteq Blocks /\ received' \subseteq index' /\ linked' \subseteq received'
    BY DEF IInv, Typed, TypedBlocks, TRANSACTIONS, Mark, Bits
  <2>2. \A q \in Seq(received) : q \in Seq(received') /\ Append(q, b) \in Seq(received')
    BY SMT
  <2>3. <<b>> \in Seq(received') /\ b \in received'
    BY SMT
  <2>4. unlinked' \in [Blocks -> Seq(received')] /\ linkQueue' \in Seq(received')
    <3>. HIDE DEF StoreBlock
    <3>1. \A p \in Blocks : unlinked[p] \in Seq(received') /\ Append(unlinked[p], b) \in Seq(received')
      BY <2>2, <1>10
    <3>2. unlinked' \in [Blocks -> Seq(received')]
      <4>1. CASE unlinked' = unlinked
        BY <3>1, <1>10, <4>1
      <4>2. CASE unlinked' = [unlinked EXCEPT ![Prev[b]] = Append(unlinked[Prev[b]], b)]
        BY <3>1, <1>10, <4>2
      <4>. QED BY <1>10, <4>1, <4>2
    <3>3. linkQueue' \in Seq(received')
      <4>1. CASE linkQueue' = <<>>
        BY <4>1, SMT
      <4>2. CASE linkQueue' = <<b>>
        BY <2>3, <4>2
      <4>. QED BY <1>10, <4>1, <4>2
    <3>. QED BY <3>2, <3>3
  <2>. QED BY <2>1, <2>4 DEF IInv, Typed, TypedBlocks, TypedLocals
<1>3. Stored'
  BY <1>0 DEF IInv, Stored, Failed, HaveData, Mark
<1>4. Reached' = IF Prev[b] \in linked THEN linked \cup {b} ELSE linked
  <2>1. Prev[b] \notin linked => b \notin linked
    BY <1>1 DEF IInv, Chained
  <2>. QED BY <1>1, <2>1, SMT DEF Reached, Range
<1>5. Chained'
  <2>1. \A p \in Blocks : \A i \in DOMAIN unlinked'[p] :
           unlinked'[p][i] # Genesis /\ Prev[unlinked'[p][i]] = p
    <3>. SUFFICES ASSUME NEW p \in Blocks, NEW i \in DOMAIN unlinked'[p]
                  PROVE  unlinked'[p][i] # Genesis /\ Prev[unlinked'[p][i]] = p
      OBVIOUS
    <3>. HIDE DEF StoreBlock
    <3>1. CASE unlinked'[p] = unlinked[p]
      BY <3>1, SMT DEF IInv, Chained
    <3>2. CASE p = Prev[b] /\ unlinked'[p] = Append(unlinked[p], b)
      <4>1. unlinked[p] \in Seq(received)
        BY <1>10
      <4>2. (i \in DOMAIN unlinked[p] /\ unlinked'[p][i] = unlinked[p][i]) \/ unlinked'[p][i] = b
        BY <3>2, <4>1, SMT
      <4>. QED BY <3>2, <4>2, ZenonT(30) DEF IInv, Chained
    <3>. QED BY <1>10, <3>1, <3>2
  <2>. QED BY <1>1, <1>4, <2>1 DEF IInv, Chained
<1>6. \A c \in Blocks : Failed(c)' <=> Failed(c)
  BY DEF Failed, Mark
<1>7. Locked' /\ Clear'
  BY <1>6, AncDef DEF IInv, Locked, Clear, Typed, TypedLocals, Locals
<1>8. Active'
  <2>1. tip \in Blocks /\ Anc[tip] \subseteq Blocks
    BY AncDef DEF IInv, Typed, TypedBlocks
  <2>2. \A a \in Blocks : valid[a] = SCRIPTS => valid'[a] = SCRIPTS
    BY SMT DEF IInv, Typed, TypedBlocks, SCRIPTS, TRANSACTIONS
  <2>. QED BY <1>6, <2>1, <2>2 DEF IInv, Active
<1>9. Marked'
  <2>1. \A c \in Blocks : "FAILED_VALID" \in status'[c] <=> "FAILED_VALID" \in status[c]
    BY DEF Mark
  <2>. QED BY <1>6, <2>1, AncDef DEF IInv, Marked, NoInvalidAncestor, Typed, TypedBlocks
<1>. QED BY <1>2, <1>3, <1>5, <1>7, <1>8, <1>9 DEF IInv

\* The elements of a queue from which the head is taken and to which w is added.
LEMMA QueueElements ==
    ASSUME NEW S, NEW q \in Seq(S), q # <<>>, NEW w \in Seq(S)
    PROVE  /\ Tail(q) \o w \in Seq(S) /\ Head(q) \in S
           /\ Range(Tail(q) \o w) \cup {Head(q)} = Range(q) \cup Range(w)
<1>. DEFINE n == Len(q) - 1
            z == Tail(q) \o w
<1>1. /\ n \in Nat /\ Len(w) \in Nat /\ DOMAIN q = 1..(n + 1) /\ DOMAIN w = 1..Len(w)
      /\ z \in Seq(S) /\ DOMAIN z = 1..(n + Len(w)) /\ Head(q) = q[1] /\ Head(q) \in S
  BY SMT
<1>2. \A i \in 1..n : z[i] = q[i + 1]
  BY <1>1, SMT
<1>3. \A i \in 1..Len(w) : z[n + i] = w[i]
  BY <1>1, SMT
<1>. HIDE DEF z, n
<1>4. \A i \in DOMAIN z : i \in 1..n \/ \E j \in 1..Len(w) : i = n + j
  <2>1. \A i \in DOMAIN z : i \notin 1..n => i - n \in 1..Len(w) /\ i = n + (i - n)
    BY <1>1, SMT
  <2>. QED BY <2>1
<1>5. \A i \in DOMAIN q : i = 1 \/ (i - 1 \in 1..n /\ i = (i - 1) + 1)
  BY <1>1, SMT
<1>6. ASSUME NEW i \in DOMAIN z
      PROVE  z[i] \in {q[j] : j \in DOMAIN q} \cup {w[j] : j \in DOMAIN w}
  <2>1. CASE i \in 1..n
    <3>1. z[i] = q[i + 1] /\ i + 1 \in DOMAIN q
      BY <2>1, <1>1, <1>2, SMT
    <3>. QED BY <3>1
  <2>2. CASE \E j \in 1..Len(w) : i = n + j
    BY <2>2, <1>1, <1>3
  <2>. QED BY <1>4, <2>1, <2>2
<1>7. \A i \in DOMAIN q : q[i] \in {z[j] : j \in DOMAIN z} \cup {Head(q)}
  BY <1>1, <1>2, <1>5, SMT
<1>8. \A i \in DOMAIN w : w[i] \in {z[j] : j \in DOMAIN z}
  BY <1>1, <1>3, SMT
<1>9. Head(q) \in {q[j] : j \in DOMAIN q}
  BY <1>1, SMT
<1>. QED BY <1>1, <1>6, <1>7, <1>8, <1>9 DEF z, Range

LEMMA LinkStep ==
    ASSUME IInv, LinkBlock
    PROVE  IInv'
<1>. USE DEF LinkBlock, TryAddBlockIndexCandidate, Waiting, markVars, threadVars, callVars
<1>. DEFINE b == Head(linkQueue)
<1>0. b \in received /\ b \in Blocks /\ Tail(linkQueue) \in Seq(received)
  BY SMT DEF IInv, Typed, TypedBlocks
<1>1. unlinked[b] \in Seq(received)
  BY <1>0 DEF IInv, Typed, TypedBlocks
<1>3. linkQueue' \in Seq(received) /\ Reached' = Reached \cup Range(unlinked[b])
  <2>1. linkQueue \in Seq(received)
    BY DEF IInv, Typed, TypedBlocks
  <2>2. linkQueue # <<>> /\ linkQueue' = Tail(linkQueue) \o unlinked[b] /\ linked' = linked \cup {b}
    OBVIOUS
  <2>. HIDE DEF LinkBlock
  <2>3. /\ Tail(linkQueue) \o unlinked[b] \in Seq(received)
        /\ Range(Tail(linkQueue) \o unlinked[b]) \cup {b} = Range(linkQueue) \cup Range(unlinked[b])
    BY <1>1, <2>1, <2>2, QueueElements, ZenonT(30)
  <2>4. linkQueue' \in Seq(received) /\ Range(linkQueue') \cup {b} = Range(linkQueue) \cup Range(unlinked[b])
    BY <2>2, <2>3
  <2>. QED BY <2>2, <2>4 DEF Reached
<1>2. Typed'
  <2>1. linked' \subseteq received /\ candidates' \subseteq Blocks
    BY <1>0 DEF IInv, Typed, TypedBlocks
  <2>3. seqId' \in [Blocks -> Int]
    BY <1>0 DEF IInv, Typed, TypedBlocks, TypedLocals
  <2>4. counters' \in [sequence : Int, reverse : Int, lastPrecious : Int]
    BY SMT DEF IInv, Typed, TypedLocals
  <2>2. unlinked' \in [Blocks -> Seq(received)]
    BY <1>0, SMT DEF IInv, Typed, TypedBlocks
  <2>. QED BY <1>3, <2>1, <2>2, <2>3, <2>4 DEF IInv, Typed, TypedBlocks, TypedLocals
<1>4. Chained'
  <2>1. b \in Reached
    BY <1>0, SMT DEF IInv, Typed, TypedBlocks, Reached, Range
  <2>2. \A p \in Blocks : \A i \in DOMAIN unlinked'[p] :
           unlinked'[p][i] # Genesis /\ Prev[unlinked'[p][i]] = p
    BY <1>0, SMT DEF IInv, Chained, Typed, TypedBlocks
  <2>3. candidates' \subseteq candidates \cup {b}
    OBVIOUS
  <2>. QED BY <1>0, <1>3, <2>1, <2>2, <2>3, SMT DEF IInv, Chained, Range
<1>5. Stored'
  BY DEF IInv, Stored, Failed, HaveData
<1>6. Locked' /\ Clear' /\ Active' /\ Marked'
  BY DEF IInv, Locked, Clear, Active, Marked, Failed, NoInvalidAncestor
<1>. QED BY <1>2, <1>4, <1>5, <1>6 DEF IInv

-----------------------------------------------------------------------------
(* ActivateBestChain.                                                        *)

\* The best candidate is one.
LEMMA BestCandidateIn ==
    ASSUME IInv, candidates # {}
    PROVE  BestCandidate \in candidates /\ BestCandidate \in Reached /\ BestCandidate \in Blocks
<1>1. candidates \in SUBSET Blocks /\ seqId \in [Blocks -> Int] /\ candidates \subseteq Reached
  BY DEF IInv, Typed, TypedBlocks, Chained
<1>2. \E b \in candidates : \A c \in candidates : ~Worse(b, c, seqId)
  BY <1>1, BestExists
<1>3. BestCandidate \in candidates
  BY <1>2 DEF BestCandidate
<1>. QED BY <1>1, <1>3

LEMMA MostWorkIn ==
    ASSUME IInv, MostWork # None
    PROVE  MostWork \in Reached /\ MostWork \in Blocks
<1>1. CASE abc.mostWork # None
  BY <1>1 DEF MostWork, IInv, Chained, Typed, TypedLocals, Locals
<1>2. CASE abc.mostWork = None
  BY <1>2, BestCandidateIn DEF MostWork
<1>. QED BY <1>1, <1>2

\* A step that only moves ActivateBestChain along.
LEMMA LocalsStep ==
    ASSUME IInv, UNCHANGED <<indexVars, failedBlocks, chainVars, counters, linkQueue, inv, partial>>,
           abc' \in Locals, Locked',
           abc'.mostWork # None => /\ abc'.mostWork \in Reached
                                   /\ \A a \in Anc[abc'.mostWork] : ~Failed(a)
    PROVE  IInv'
<1>. USE DEF indexVars, chainVars
<1>1. Typed'
  BY DEF IInv, Typed, TypedBlocks, TypedLocals
<1>2. Stored' /\ Active' /\ Marked'
  BY DEF IInv, Stored, Active, Marked, Failed, HaveData, NoInvalidAncestor
<1>3. Chained'
  BY DEF IInv, Chained, Reached
<1>4. Clear'
  BY DEF Clear, Failed
<1>. QED BY <1>1, <1>2, <1>3, <1>4 DEF IInv

\* A candidate with no obstacle on its way has no failed ancestor.
LEMMA FreePath ==
    ASSUME IInv, NEW b \in Blocks, FailedPath(b) = {}
    PROVE  \A a \in Anc[b] : ~Failed(a)
BY DEF FailedPath, IInv, Active

LEMMA LoopStep ==
    ASSUME IInv, AbcStart \/ AbcLoop \/ AbcBreak \/ AbcStep \/ AbcFatal
    PROVE  IInv'
<1>0. tip \in Blocks /\ None \notin Blocks /\ abc \in Locals
  BY ChainstateAssumption DEF IInv, Typed, TypedBlocks, TypedLocals
<1>1. CASE AbcStart
  <2>1. /\ UNCHANGED <<indexVars, failedBlocks, chainVars, counters, linkQueue, inv, partial>>
        /\ abc' = [Idle EXCEPT !.pc = "find", !.starting = tip] /\ inv = None
    BY <1>1 DEF AbcStart, markVars, callVars, MutexFree
  <2>2. abc' \in Locals /\ abc'.pc = "find" /\ abc'.mostWork = None
    BY <2>1, <1>0 DEF Idle, Locals
  <2>3. Locked'
    BY <2>1, <2>2 DEF Locked, indexVars
  <2>. QED BY <2>1, <2>2, <2>3, LocalsStep
<1>2. CASE AbcLoop
  <2>1. /\ UNCHANGED <<indexVars, failedBlocks, chainVars, counters, linkQueue, inv, partial>>
        /\ abc.pc = "released"
        /\ abc' = IF tip = abc.mostWork THEN Idle
                  ELSE [abc EXCEPT !.pc = "find", !.starting = tip, !.connected = FALSE]
    BY <1>2 DEF AbcLoop, markVars, callVars
  <2>2. /\ abc' \in Locals /\ abc'.pc \in {"idle", "find"}
        /\ abc'.mostWork = None \/ abc'.mostWork = abc.mostWork
        /\ abc'.pc = "idle" => abc'.mostWork = None
    BY <2>1, <1>0 DEF Idle, Locals
  <2>3. Locked'
    BY <2>1, <2>2 DEF Locked, indexVars, IInv
  <2>. QED BY <2>1, <2>2, <2>3, LocalsStep DEF IInv, Chained, Clear
<1>3. CASE AbcBreak
  <2>1. /\ UNCHANGED <<indexVars, failedBlocks, chainVars, counters, linkQueue, inv, partial>>
        /\ abc.pc = "find" /\ (MostWork # None => FailedPath(MostWork) = {})
        /\ abc' = IF abc.connected THEN [abc EXCEPT !.pc = "released", !.mostWork = MostWork] ELSE Idle
    BY <1>3 DEF AbcBreak, markVars, callVars
  <2>2. /\ abc' \in Locals /\ abc'.pc \in {"idle", "released"}
        /\ abc'.mostWork = None \/ abc'.mostWork = MostWork
        /\ abc'.pc = "idle" => abc'.mostWork = None
    BY <2>1, <1>0, MostWorkIn DEF Idle, Locals
  <2>3. Locked'
    BY <2>1, <2>2 DEF Locked, indexVars, IInv
  <2>. QED BY <2>1, <2>2, <2>3, MostWorkIn, FreePath, LocalsStep
<1>4. CASE AbcStep
  <2>1. /\ UNCHANGED <<indexVars, failedBlocks, chainVars, counters, linkQueue, inv, partial>>
        /\ abc.pc = "find" /\ MostWork # None /\ MostWork # tip
        /\ abc.mostWork = None => FailedPath(MostWork) = {}
        /\ abc' = [abc EXCEPT !.pc = "step", !.mostWork = MostWork, !.old = tip]
    BY <1>4 DEF AbcStep, markVars, callVars
  <2>2. abc' \in Locals /\ abc'.pc = "step" /\ abc'.mostWork = MostWork
    BY <2>1, <1>0, MostWorkIn DEF Locals
  <2>3. Locked'
    BY <2>1, <2>2 DEF Locked, indexVars, IInv, chainVars
  <2>4. \A a \in Anc[MostWork] : ~Failed(a)
    <3>1. CASE abc.mostWork = None
      BY <3>1, <2>1, MostWorkIn, FreePath
    <3>2. CASE abc.mostWork # None
      BY <3>2 DEF MostWork, IInv, Clear
    <3>. QED BY <3>1, <3>2
  <2>. QED BY <2>1, <2>2, <2>3, <2>4, MostWorkIn, LocalsStep
<1>5. CASE AbcFatal
  <2>1. /\ UNCHANGED <<indexVars, failedBlocks, chainVars, counters, linkQueue, inv, partial>>
        /\ abc.pc = "step" /\ abc' = [abc EXCEPT !.pc = "fatal"]
    BY <1>5 DEF AbcFatal, markVars, callVars
  <2>2. abc' \in Locals /\ abc'.pc = "fatal" /\ abc'.mostWork = abc.mostWork
    BY <2>1, <1>0 DEF Locals
  <2>3. Locked'
    BY <2>1, <2>2 DEF Locked, indexVars, IInv
  <2>. QED BY <2>1, <2>2, <2>3, LocalsStep DEF IInv, Chained, Clear
<1>. QED BY <1>1, <1>2, <1>3, <1>4, <1>5

LEMMA FirstFailedIn ==
    ASSUME IInv, NEW b \in Blocks, FailedPath(b) # {}
    PROVE  /\ FirstFailed(b) \in Anc[b] /\ FirstFailed(b) \notin Anc[tip]
           /\ FirstFailed(b) \in Blocks
<1>1. FailedPath(b) \in SUBSET Anc[b]
  BY DEF FailedPath
<1>2. FirstFailed(b) \in FailedPath(b)
  BY <1>1, HighestExists DEF FirstFailed
<1>. QED BY <1>2, AncDef DEF FailedPath

\* The entries AddedBack makes.
LEMMA AddedBackTyped ==
    ASSUME IInv, NEW n \in Reached, NEW f \in Anc[n]
    PROVE  /\ AddedBack(n, f) \in [Blocks -> Seq(received)]
           /\ \A p \in Blocks : \A i \in DOMAIN AddedBack(n, f)[p] :
                 AddedBack(n, f)[p][i] # Genesis /\ Prev[AddedBack(n, f)[p][i]] = p
<1>1. n \in Blocks /\ Anc[n] \subseteq received
  BY ReachedFacts DEF IInv
<1>2. Unusable(n, f) \subseteq Anc[n]
  BY DEF Unusable
<1>3. ASSUME NEW p \in Blocks
      PROVE  /\ AddedBack(n, f)[p] \in Seq(received)
             /\ \A i \in DOMAIN AddedBack(n, f)[p] :
                   AddedBack(n, f)[p][i] # Genesis /\ Prev[AddedBack(n, f)[p][i]] = p
  <2>1. /\ unlinked[p] \in Seq(received)
        /\ \A i \in DOMAIN unlinked[p] : unlinked[p][i] # Genesis /\ Prev[unlinked[p][i]] = p
    BY DEF IInv, Typed, TypedBlocks, Chained
  <2>2. CASE p \notin Unusable(n, f) \ {n}
    <3>1. AddedBack(n, f)[p] = unlinked[p]
      BY <2>2 DEF AddedBack
    <3>. QED BY <2>1, <3>1
  <2>3. CASE p \in Unusable(n, f) \ {n}
    <3>. DEFINE c == GetAncestor(n, Height[p] + 1)
    <3>1. AddedBack(n, f)[p] = Append(unlinked[p], c)
      BY <2>3 DEF AddedBack
    <3>2. c \in received /\ c # Genesis /\ Prev[c] = p
      BY <1>1, <1>2, <2>3, NextOnBranch
    <3>. HIDE DEF c
    <3>3. Append(unlinked[p], c) \in Seq(received)
      BY <2>1, <3>2, SMT
    <3>4. \A i \in DOMAIN Append(unlinked[p], c) :
             \/ i \in DOMAIN unlinked[p] /\ Append(unlinked[p], c)[i] = unlinked[p][i]
             \/ Append(unlinked[p], c)[i] = c
      BY <2>1, SMT
    <3>5. \A i \in DOMAIN Append(unlinked[p], c) :
             Append(unlinked[p], c)[i] # Genesis /\ Prev[Append(unlinked[p], c)[i]] = p
      BY <2>1, <3>2, <3>4
    <3>. QED BY <3>1, <3>3, <3>5
  <2>. QED BY <2>2, <2>3
<1>4. AddedBack(n, f) = [p \in Blocks |-> AddedBack(n, f)[p]]
  BY DEF AddedBack
<1>. QED BY <1>3, <1>4

LEMMA DiscardStep ==
    ASSUME IInv, FindMostWorkChainDiscard
    PROVE  IInv'
<1>. DEFINE n == BestCandidate
            f == FirstFailed(n)
            M == Anc[n] \ Anc[f]
<1>1. /\ UNCHANGED <<index, valid, received, linked, seqId, failedBlocks, tip, counters,
                     linkQueue, abc, inv, partial>>
      /\ abc.mostWork = None /\ candidates' \subseteq candidates
      /\ \/ Failed(f) /\ status' = Mark(M, {"FAILED_CHILD"}) /\ unlinked' = unlinked
         \/ ~Failed(f) /\ unlinked' = AddedBack(n, f) /\ status' = status
  BY DEF FindMostWorkChainDiscard, threadVars, callVars
<1>2. n \in Reached /\ n \in Blocks /\ f \in Anc[n] /\ f \notin Anc[tip] /\ f \in Blocks
  BY BestCandidateIn, FirstFailedIn DEF FindMostWorkChainDiscard
<1>. HIDE DEF n, f
<1>3. CASE Failed(f) /\ status' = Mark(M, {"FAILED_CHILD"}) /\ unlinked' = unlinked
  <2>1. M \in SUBSET Blocks /\ M \subseteq index
    BY <1>2, ReachedFacts DEF IInv, Typed, TypedBlocks
  <2>2. M \cap Anc[tip] = {}
    BY <1>2, AboveIsOutside DEF IInv, Typed, TypedBlocks
  <2>3. \A c \in M : f \in Anc[c] /\ Anc[f] \subseteq Anc[c]
    BY <1>2, AncLine, AncClosed, AncHeight
  <2>4. tip' \in Anc[tip] /\ {"FAILED_CHILD"} \in SUBSET Bits
    BY <1>1, AncClosed DEF IInv, Typed, TypedBlocks, Bits
  <2>. HIDE DEF M
  <2>5. status' \in [Blocks -> SUBSET Bits] /\ Clear' /\ Active'
    BY <1>1, <1>3, <2>1, <2>2, <2>4, MarkOutside
  <2>6. ~partial => \A c \in M : \E g \in Anc[c] : "FAILED_VALID" \in status'[g]
    <3>1. ~partial => \E g \in Anc[f] : "FAILED_VALID" \in status[g]
      BY <1>2, <1>3 DEF IInv, Marked, NoInvalidAncestor
    <3>2. \A g \in Anc[f] : "FAILED_VALID" \in status[g] => "FAILED_VALID" \in status'[g]
      BY <1>2, <1>3, AncDef DEF Mark
    <3>. QED BY <2>3, <3>1, <3>2
  <2>7. Marked'
    BY <1>1, <1>3, <2>1, <2>6, MarkWithCause
  <2>8. Typed'
    BY <1>1, <1>3, <2>5 DEF IInv, Typed, TypedBlocks, TypedLocals
  <2>9. Stored'
    BY <1>1, <1>3, <2>1 DEF IInv, Stored, Failed, HaveData, Mark
  <2>10. Chained' /\ Locked'
    BY <1>1, <1>3 DEF IInv, Chained, Reached, Locked
  <2>. QED BY <2>5, <2>7, <2>8, <2>9, <2>10 DEF IInv
<1>4. CASE ~Failed(f) /\ unlinked' = AddedBack(n, f) /\ status' = status
  <2>1. /\ unlinked' \in [Blocks -> Seq(received)]
        /\ \A p \in Blocks : \A i \in DOMAIN unlinked'[p] :
              unlinked'[p][i] # Genesis /\ Prev[unlinked'[p][i]] = p
    BY <1>2, <1>4, AddedBackTyped, SMT
  <2>2. Typed'
    BY <1>1, <1>4, <2>1 DEF IInv, Typed, TypedBlocks, TypedLocals
  <2>3. Chained'
    BY <1>1, <1>4, <2>1 DEF IInv, Chained, Reached
  <2>4. Stored' /\ Locked' /\ Clear' /\ Active' /\ Marked'
    BY <1>1, <1>4 DEF IInv, Stored, Locked, Clear, Active, Marked, Failed, HaveData, NoInvalidAncestor
  <2>. QED BY <2>2, <2>3, <2>4 DEF IInv
<1>. QED BY <1>1, <1>3, <1>4

LEMMA AfterStepType == \A b : AfterStep(b) \in {"find", "released"}
BY DEF AfterStep

LEMMA DisconnectStep ==
    ASSUME IInv, AbcDisconnect
    PROVE  IInv'
<1>1. /\ UNCHANGED <<indexVars, failedBlocks, candidates, counters, linkQueue, inv, partial>>
      /\ abc.pc = "step" /\ tip \notin Anc[abc.mostWork] /\ tip' = Prev[tip]
      /\ abc' = IF tip' = abc.mostWork
                THEN [abc EXCEPT !.pc = AfterStep(tip'), !.connected = TRUE] ELSE abc
  BY DEF AbcDisconnect, markVars, callVars
<1>2. abc \in Locals /\ abc.mostWork \in Blocks /\ tip \in Blocks
  BY <1>1 DEF IInv, Typed, TypedBlocks, TypedLocals, Locals, Locked
<1>3. tip # Genesis /\ tip' \in Blocks /\ tip' \in Reached /\ Anc[tip'] \subseteq Anc[tip]
  BY <1>1, <1>2, AncClosed, AncDef, PrevType, SMT DEF IInv, Chained
<1>4. /\ abc' \in Locals /\ abc'.mostWork = abc.mostWork
      /\ abc'.pc \in {"find", "released"} \/ (abc' = abc /\ tip' # abc.mostWork)
  BY <1>1, <1>2, AfterStepType DEF Locals
<1>. USE <1>1 DEF indexVars
<1>5. Typed'
  BY <1>3, <1>4 DEF IInv, Typed, TypedBlocks, TypedLocals
<1>6. Stored' /\ Marked'
  BY DEF IInv, Stored, Marked, Failed, HaveData, NoInvalidAncestor
<1>7. Chained'
  BY <1>3, <1>4 DEF IInv, Chained, Reached
<1>8. Locked'
  BY <1>4 DEF IInv, Locked
<1>9. Clear' /\ Active'
  BY <1>3, <1>4 DEF IInv, Clear, Active, Failed
<1>. QED BY <1>5, <1>6, <1>7, <1>8, <1>9 DEF IInv

\* The block ActivateBestChainStep connects next.
LEMMA NextBlockFacts ==
    ASSUME IInv, abc.pc = "step", tip \in Anc[abc.mostWork]
    PROVE  /\ NextBlock \in Blocks /\ NextBlock \in Reached /\ NextBlock \notin Anc[tip]
           /\ Anc[NextBlock] = {NextBlock} \cup Anc[tip]
           /\ ~Failed(NextBlock) /\ abc.mostWork \in Blocks
<1>1. abc.mostWork # None /\ abc.mostWork # tip /\ abc.mostWork \in Blocks /\ abc.mostWork \in Reached
  BY DEF IInv, Locked, Chained, Typed, TypedLocals, Locals
<1>2. /\ NextBlock \in Anc[abc.mostWork] /\ NextBlock \in Blocks /\ NextBlock \notin Anc[tip]
      /\ Anc[NextBlock] = {NextBlock} \cup Anc[tip]
  BY <1>1, NextOnBranch DEF NextBlock
<1>3. NextBlock \in Reached
  BY <1>1, <1>2, ReachedFacts DEF IInv
<1>. QED BY <1>1, <1>2, <1>3 DEF IInv, Clear

LEMMA ConnectStep ==
    ASSUME IInv, AbcConnect
    PROVE  IInv'
<1>. DEFINE n == NextBlock
<1>1. /\ UNCHANGED <<index, received, linked, unlinked, seqId, failedBlocks, counters,
                     linkQueue, inv, partial>>
      /\ abc.pc = "step" /\ tip \in Anc[abc.mostWork] /\ n \in Connectable /\ tip' = n
      /\ status' = Mark({n}, {"HAVE_UNDO"})
      /\ valid' = [valid EXCEPT ![n] = IF Failed(n) THEN @ ELSE SCRIPTS]
      /\ candidates' \subseteq candidates
      /\ abc' = IF Work[tip'] > Work[abc.old] \/ tip' = abc.mostWork
                THEN [abc EXCEPT !.pc = AfterStep(tip'), !.connected = TRUE] ELSE abc
  BY DEF AbcConnect, markVars, callVars, PruneBlockIndexCandidates
<1>2. /\ n \in Blocks /\ n \in Reached /\ n \notin Anc[tip] /\ Anc[n] = {n} \cup Anc[tip]
      /\ ~Failed(n) /\ abc.mostWork \in Blocks
  BY <1>1, NextBlockFacts
<1>. HIDE DEF n
<1>3. abc \in Locals /\ tip \in Blocks /\ Anc[tip] \subseteq Blocks
  BY AncDef DEF IInv, Typed, TypedBlocks, TypedLocals
<1>4. /\ abc' \in Locals /\ abc'.mostWork = abc.mostWork
      /\ abc'.pc \in {"find", "released"} \/ (abc' = abc /\ tip' # abc.mostWork)
  BY <1>1, <1>3, AfterStepType DEF Locals
<1>5. \A b \in Blocks : /\ Failed(b)' <=> Failed(b)
                        /\ HaveData(b)' <=> HaveData(b)
                        /\ "FAILED_VALID" \in status'[b] <=> "FAILED_VALID" \in status[b]
  BY <1>1 DEF Failed, HaveData, Mark
<1>6. valid' \in [Blocks -> Nat] /\ valid'[n] = SCRIPTS /\ \A b \in Blocks \ {n} : valid'[b] = valid[b]
  BY <1>1, <1>2 DEF IInv, Typed, TypedBlocks, SCRIPTS
<1>7. Typed'
  <2>1. status' \in [Blocks -> SUBSET Bits]
    BY <1>1 DEF IInv, Typed, TypedBlocks, Mark, Bits
  <2>. QED BY <1>1, <1>2, <1>4, <1>6, <2>1 DEF IInv, Typed, TypedBlocks, TypedLocals
<1>8. Stored'
  BY <1>1, <1>5 DEF IInv, Stored
<1>9. Chained'
  BY <1>1, <1>2, <1>4, ZenonT(30) DEF IInv, Chained, Reached
<1>10. Locked'
  BY <1>1, <1>4 DEF IInv, Locked
<1>11. Clear'
  BY <1>2, <1>4, <1>5, AncDef DEF IInv, Clear
<1>12. Active'
  BY <1>1, <1>2, <1>3, <1>5, <1>6 DEF IInv, Active
<1>13. Marked'
  BY <1>1, <1>5, AncDef DEF IInv, Marked, NoInvalidAncestor, Typed, TypedBlocks
<1>. QED BY <1>7, <1>8, <1>9, <1>10, <1>11, <1>12, <1>13 DEF IInv

LEMMA ConnectInvalidStep ==
    ASSUME IInv, AbcConnectInvalid
    PROVE  IInv'
<1>. DEFINE n == NextBlock
<1>1. /\ UNCHANGED <<index, valid, received, linked, seqId, unlinked, tip, counters,
                     linkQueue, inv, partial>>
      /\ abc.pc = "step" /\ tip \in Anc[abc.mostWork]
      /\ status' = Mark({n}, {"FAILED_VALID"}) /\ failedBlocks' = failedBlocks \cup {n}
      /\ candidates' \subseteq candidates
      /\ abc' = [abc EXCEPT !.pc = AfterStep(tip), !.mostWork = None, !.connected = TRUE]
  BY DEF AbcConnectInvalid, callVars
<1>2. n \in Blocks /\ n \in Reached /\ n \notin Anc[tip] /\ n \in Anc[n]
  BY <1>1, NextBlockFacts
<1>. HIDE DEF n
<1>3. abc \in Locals /\ tip \in Anc[tip]
  BY AncClosed DEF IInv, Typed, TypedBlocks, TypedLocals
<1>4. abc' \in Locals /\ abc'.mostWork = None /\ abc'.pc \in {"find", "released"}
  BY <1>1, <1>3, AfterStepType DEF Locals
<1>5. status' \in [Blocks -> SUBSET Bits] /\ Clear' /\ Active'
  <2>1. {"FAILED_VALID"} \in SUBSET Bits /\ {n} \cap Anc[tip] = {} /\ {n} \in SUBSET Blocks
    BY <1>2 DEF Bits
  <2>. QED BY <1>1, <1>3, <1>4, <2>1, MarkOutside
<1>6. Marked'
  <2>1. "FAILED_VALID" \in status'[n]
    BY <1>1, <1>2 DEF Mark
  <2>. QED BY <1>1, <1>2, <2>1, MarkWithCause, SMT
<1>7. Typed'
  BY <1>1, <1>2, <1>4, <1>5 DEF IInv, Typed, TypedBlocks, TypedLocals
<1>8. Stored'
  <2>1. n \in index
    BY <1>2, ReachedFacts DEF IInv, Typed, TypedBlocks
  <2>. QED BY <1>1, <2>1 DEF IInv, Stored, Failed, HaveData, Mark
<1>9. Chained' /\ Locked'
  BY <1>1, <1>4 DEF IInv, Chained, Reached, Locked
<1>. QED BY <1>5, <1>6, <1>7, <1>8, <1>9 DEF IInv

-----------------------------------------------------------------------------
(* The operator's calls.                                                     *)

LEMMA PreciousStep ==
    ASSUME IInv, NEW b \in Blocks, PreciousBlock(b)
    PROVE  IInv'
<1>1. /\ UNCHANGED <<index, valid, status, received, linked, unlinked, failedBlocks, tip,
                     linkQueue, abc, inv>>
      /\ candidates' \subseteq candidates \cup (linked \cap {b})
      /\ partial => partial'
  BY DEF PreciousBlock, markVars, PruneBlockIndexCandidates
<1>6. partial' \in BOOLEAN
  BY DEF PreciousBlock, IInv, Typed, TypedLocals
<1>2. /\ seqId' \in [Blocks -> Int]
      /\ counters' \in [sequence : Int, reverse : Int, lastPrecious : Int]
  <2>1. /\ counters \in [sequence : Int, reverse : Int, lastPrecious : Int]
        /\ Work[tip] \in Nat /\ seqId \in [Blocks -> Int]
    BY WorkDef DEF IInv, Typed, TypedBlocks, TypedLocals
  <2>. DEFINE z == IF Work[tip] > counters.lastPrecious THEN -1 ELSE counters.reverse
  <2>2. z \in Int /\ z - 1 \in Int
    BY <2>1, SMT
  <2>3. \/ UNCHANGED <<seqId, counters>>
        \/ /\ seqId' = [seqId EXCEPT ![b] = z]
           /\ counters' = [counters EXCEPT !.reverse = z - 1, !.lastPrecious = Work[tip]]
    BY DEF PreciousBlock
  <2>. HIDE DEF z
  <2>4. seqId' \in [Blocks -> Int]
    <3>1. seqId' = seqId \/ seqId' = [seqId EXCEPT ![b] = z]
      BY <2>3
    <3>. QED BY <2>1, <2>2, <3>1
  <2>5. CASE counters' = counters
    BY <2>1, <2>4, <2>5
  <2>6. CASE counters' = [counters EXCEPT !.reverse = z - 1, !.lastPrecious = Work[tip]]
    <3>. DEFINE y == z - 1
                v == Work[tip]
    <3>1. y \in Int /\ v \in Int
      BY <2>1, <2>2, SMT
    <3>. HIDE DEF y, v
    <3>2. counters' = [counters EXCEPT !.reverse = y, !.lastPrecious = v]
      BY <2>6 DEF y, v
    <3>. QED BY <2>1, <2>4, <3>1, <3>2
  <2>. QED BY <2>3, <2>4, <2>5, <2>6
<1>. USE <1>1
<1>3. Typed'
  BY <1>2, <1>6 DEF IInv, Typed, TypedBlocks, TypedLocals
<1>4. Chained'
  BY SMTT(30), ZenonT(30) DEF IInv, Chained, Reached
<1>5. Stored' /\ Locked' /\ Clear' /\ Active' /\ Marked'
  BY DEF IInv, Stored, Locked, Clear, Active, Marked, Failed, HaveData, NoInvalidAncestor
<1>. QED BY <1>3, <1>4, <1>5 DEF IInv

LEMMA InvalidateStep ==
    ASSUME IInv, NEW b \in Blocks, InvalidateBlock(b)
    PROVE  IInv'
<1>. DEFINE W == {c \in Eligible \ Anc[tip] : ~Worse(c, Prev[b], seqId)}
<1>1. /\ UNCHANGED <<indexVars, failedBlocks, chainVars, counters, linkQueue, abc, partial>>
      /\ abc.pc = "idle" /\ b \in index /\ b # Genesis
      /\ inv' = [pindex |-> b, toMarkFailed |-> b, byWork |-> W]
  BY DEF InvalidateBlock, MutexFree, CanCall, markVars
<1>2. W \subseteq linked /\ W \subseteq Blocks /\ b \in Anc[b]
  BY AncClosed DEF Eligible, IInv, Typed, TypedBlocks
<1>. HIDE DEF W
<1>. USE <1>1 DEF indexVars, chainVars
<1>3. Typed'
  BY <1>2 DEF IInv, Typed, TypedBlocks, TypedLocals
<1>4. Chained'
  BY <1>2 DEF IInv, Chained, Reached
<1>5. Locked'
  BY <1>2 DEF IInv, Locked
<1>6. Stored' /\ Clear' /\ Active' /\ Marked'
  BY DEF IInv, Stored, Clear, Active, Marked, Failed, HaveData, NoInvalidAncestor
<1>. QED BY <1>3, <1>4, <1>5, <1>6 DEF IInv

LEMMA InvalidateDisconnectStep ==
    ASSUME IInv, InvalidateDisconnect
    PROVE  IInv'
<1>1. /\ tip \in Blocks /\ Anc[tip] \subseteq Blocks /\ abc.mostWork = None /\ abc.pc = "idle"
      /\ inv \in [pindex : Blocks \ {Genesis}, toMarkFailed : Blocks, byWork : SUBSET Blocks]
      /\ inv.pindex \in Anc[tip] /\ inv.byWork \subseteq Reached
  BY AncDef DEF InvalidateDisconnect, IInv, Typed, TypedBlocks, TypedLocals, Locked, Chained
<1>2. /\ tip # Genesis /\ Prev[tip] \in Blocks /\ Prev[tip] \in Reached /\ tip \in index
      /\ Prev[tip] \in Anc[tip] /\ tip \notin Anc[Prev[tip]] /\ tip \in Anc[tip]
  <2>1. tip # Genesis
    BY <1>1, AncDef
  <2>2. Prev[tip] \in Blocks /\ Height[tip] = 1 + Height[Prev[tip]] /\ Height[Prev[tip]] \in Nat
    BY <1>1, <2>1, PrevType, HeightDef
  <2>3. tip \notin Anc[Prev[tip]]
    BY <2>2, AncHeight, SMT
  <2>4. Prev[tip] \in Anc[tip] /\ tip \in Anc[tip]
    BY <1>1, <2>1, <2>2, AncDef, AncClosed, SMT
  <2>5. tip \in index /\ Prev[tip] \in Reached
    BY <2>1, ReachedFacts DEF IInv, Chained, Typed, TypedBlocks
  <2>. QED BY <2>1, <2>2, <2>3, <2>4, <2>5
<1>3. "FAILED_VALID" \notin status[Prev[tip]]
  BY <1>2 DEF IInv, Active, Failed
<1>4. PICK added \in SUBSET inv.byWork :
         /\ UNCHANGED <<index, valid, received, linked, seqId, unlinked, failedBlocks,
                        counters, linkQueue, abc, partial>>
         /\ tip' = Prev[tip] /\ status' = Mark({tip}, {"FAILED_VALID"})
         /\ candidates' = (candidates \ {tip}) \cup {Prev[tip]} \cup added
         /\ inv' = [inv EXCEPT !.byWork = @ \ added, !.toMarkFailed = tip]
  BY <1>3 DEF InvalidateDisconnect, markVars, callVars
<1>5. status' \in [Blocks -> SUBSET Bits] /\ Clear' /\ Active'
  <2>1. {"FAILED_VALID"} \in SUBSET Bits /\ {tip} \cap Anc[tip'] = {} /\ {tip} \in SUBSET Blocks
    BY <1>1, <1>2, <1>4 DEF Bits
  <2>. QED BY <1>1, <1>2, <1>4, <2>1, MarkOutside
<1>6. Marked'
  <2>1. "FAILED_VALID" \in status'[tip]
    BY <1>1, <1>4 DEF Mark
  <2>. QED BY <1>1, <1>2, <1>4, <2>1, MarkWithCause, SMT
<1>7. /\ inv' \in [pindex : Blocks \ {Genesis}, toMarkFailed : Blocks, byWork : SUBSET Blocks]
      /\ inv'.pindex = inv.pindex /\ inv'.toMarkFailed = tip /\ inv'.byWork \subseteq inv.byWork
  BY <1>1, <1>4
<1>8. Typed'
  BY <1>1, <1>2, <1>4, <1>5, <1>7 DEF IInv, Typed, TypedBlocks, TypedLocals
<1>9. Stored'
  BY <1>2, <1>4 DEF IInv, Stored, Failed, HaveData, Mark
<1>10. Chained'
  BY <1>1, <1>2, <1>4, <1>7, SMT DEF IInv, Chained, Reached
<1>11. Locked'
  BY <1>1, <1>2, <1>4, <1>7 DEF Locked
<1>. QED BY <1>5, <1>6, <1>8, <1>9, <1>10, <1>11 DEF IInv

LEMMA InvalidateFailStep ==
    ASSUME IInv, InvalidateFail
    PROVE  IInv'
<1>1. /\ UNCHANGED <<indexVars, failedBlocks, chainVars, counters, linkQueue, abc>>
      /\ inv' = None /\ partial' = TRUE
  BY DEF InvalidateFail, markVars
<1>. USE <1>1 DEF indexVars, chainVars
<1>2. Typed'
  BY DEF IInv, Typed, TypedBlocks, TypedLocals
<1>3. Chained' /\ Locked'
  BY DEF IInv, Chained, Locked, Reached
<1>4. Stored' /\ Clear' /\ Active' /\ Marked'
  BY DEF IInv, Stored, Clear, Active, Marked, Failed, HaveData
<1>. QED BY <1>2, <1>3, <1>4 DEF IInv

LEMMA InvalidateFinishStep ==
    ASSUME IInv, InvalidateFinish
    PROVE  IInv'
<1>. DEFINE b == inv.toMarkFailed
<1>1. /\ inv \in [pindex : Blocks \ {Genesis}, toMarkFailed : Blocks, byWork : SUBSET Blocks]
      /\ inv.pindex \notin Anc[tip] /\ inv.pindex \in Anc[b] /\ b \in index /\ b \in Blocks
      /\ abc.pc = "idle" /\ abc.mostWork = None
  BY DEF InvalidateFinish, IInv, Typed, TypedLocals, Locked
<1>2. /\ UNCHANGED <<index, valid, received, linked, seqId, unlinked, tip, counters, linkQueue,
                     abc, partial>>
      /\ status' = Mark({b}, {"FAILED_VALID"}) /\ failedBlocks' = failedBlocks \cup {b}
      /\ candidates' \subseteq candidates \cup linked /\ inv' = None
  BY DEF InvalidateFinish, callVars, Eligible
<1>3. tip \in Blocks /\ tip \in Anc[tip] /\ b \notin Anc[tip] /\ b \in Anc[b]
  BY <1>1, AncClosed DEF IInv, Typed, TypedBlocks
<1>. HIDE DEF b
<1>4. status' \in [Blocks -> SUBSET Bits] /\ Clear' /\ Active'
  <2>1. {"FAILED_VALID"} \in SUBSET Bits /\ {b} \cap Anc[tip] = {} /\ {b} \in SUBSET Blocks
    BY <1>1, <1>3 DEF Bits
  <2>. QED BY <1>1, <1>2, <1>3, <2>1, MarkOutside
<1>5. Marked'
  <2>1. "FAILED_VALID" \in status'[b]
    BY <1>1, <1>2 DEF Mark
  <2>. QED BY <1>1, <1>2, <1>3, <2>1, MarkWithCause, SMTT(30)
<1>6. Typed'
  BY <1>1, <1>2, <1>4 DEF IInv, Typed, TypedBlocks, TypedLocals
<1>7. Stored'
  BY <1>1, <1>2 DEF IInv, Stored, Failed, HaveData, Mark
<1>8. Chained' /\ Locked'
  BY <1>2 DEF IInv, Chained, Reached, Locked
<1>. QED BY <1>4, <1>5, <1>6, <1>7, <1>8 DEF IInv

LEMMA ReconsiderStep ==
    ASSUME IInv, NEW b \in Blocks, ResetBlockFailureFlags(b)
    PROVE  IInv'
<1>. DEFINE below == {d \in index : b \in Anc[d] /\ ~IsValid(d, TRANSACTIONS)}
            R == below \cup {a \in Anc[b] : Failed(a)}
<1>1. /\ UNCHANGED <<index, valid, received, linked, seqId, unlinked, tip, counters, linkQueue,
                     abc, inv>>
      /\ partial' = (partial \/ \E a \in Anc[b] \ {b} : Failed(a))
      /\ status' = [c \in Blocks |-> IF c \in R THEN status[c] \ {"FAILED_VALID", "FAILED_CHILD"}
                                     ELSE status[c]]
      /\ failedBlocks' = failedBlocks \ R
      /\ candidates' \subseteq candidates \cup linked
  BY DEF ResetBlockFailureFlags, ResetFailed, Revived
<1>2. \A d \in index : b \in Anc[d] /\ Failed(d) => d \in R
  BY DEF IsValid
<1>3. \A d \in R : b \in Anc[d] \/ (d \in Anc[b] /\ Failed(d))
  OBVIOUS
<1>. HIDE DEF R
<1>4. \A c \in Blocks : /\ Failed(c)' => Failed(c) /\ c \notin R
                        /\ HaveData(c)' <=> HaveData(c)
                        /\ c \notin R => status'[c] = status[c]
  BY <1>1 DEF Failed, HaveData
<1>5. Typed'
  <2>1. status' \in [Blocks -> SUBSET Bits]
    BY <1>1 DEF IInv, Typed, TypedBlocks
  <2>2. partial' \in BOOLEAN
    BY <1>1 DEF IInv, Typed, TypedLocals
  <2>. QED BY <1>1, <2>1, <2>2 DEF IInv, Typed, TypedBlocks, TypedLocals
<1>6. Stored'
  BY <1>1, <1>4 DEF IInv, Stored
<1>7. Chained' /\ Locked'
  BY <1>1 DEF IInv, Chained, Reached, Locked
<1>8. Clear' /\ Active'
  <2>1. /\ tip \in Blocks /\ Anc[tip] \subseteq Blocks
        /\ abc.mostWork # None => Anc[abc.mostWork] \subseteq Blocks
    BY AncDef DEF IInv, Typed, TypedBlocks, TypedLocals, Locals
  <2>. QED BY <1>1, <1>4, <2>1 DEF IInv, Clear, Active
<1>9. Marked'
  <2>1. ASSUME NEW c \in Blocks, Failed(c)', ~partial'
        PROVE  ~NoInvalidAncestor(c)'
    <3>1. Failed(c) /\ c \notin R /\ c \in index /\ ~partial /\ \A a \in Anc[b] \ {b} : ~Failed(a)
      BY <1>1, <1>4, <2>1 DEF IInv, Stored
    <3>2. PICK g \in Anc[c] : "FAILED_VALID" \in status[g]
      BY <3>1 DEF IInv, Marked, NoInvalidAncestor
    <3>3. g \in Blocks /\ Anc[g] \subseteq Anc[c]
      BY AncClosed, AncHeight
    <3>4. g \notin R
      <4>. SUFFICES ASSUME g \in R PROVE FALSE
        OBVIOUS
      <4>1. b \notin Anc[c]
        BY <1>2, <3>1
      <4>2. b \notin Anc[g]
        BY <3>3, <4>1
      <4>3. g \in Anc[b] /\ Failed(g)
        BY <1>3, <4>2
      <4>4. g # b
        BY <3>2, <4>1
      <4>. QED BY <3>1, <4>3, <4>4
    <3>. QED BY <1>4, <3>2, <3>3, <3>4 DEF NoInvalidAncestor
  <2>2. \A f \in failedBlocks' : "FAILED_VALID" \in status'[f]
    BY <1>1, <1>4 DEF IInv, Marked, Typed, TypedBlocks
  <2>. QED BY <2>1, <2>2 DEF Marked
<1>. QED BY <1>5, <1>6, <1>7, <1>8, <1>9 DEF IInv

\* What the loop of PruneOneBlockFile leaves of a list is a list of the same
\* blocks, and the same list if the block has no entry.
LEMMA EraseFacts ==
    ASSUME NEW T, NEW s \in Seq(T), NEW e
    PROVE  /\ Erase(s, e) \in Seq(T)
           /\ (\A i \in DOMAIN s : s[i] # e) => Erase(s, e) = s
<1>. DEFINE Part(g, i) == IF i = 0 THEN <<>>
                          ELSE IF s[i] = e THEN g[i - 1]
                          ELSE Append(g[i - 1], s[i])
            Good(g, n) == g = [i \in 0..n |-> Part(g, i)]
            kept == CHOOSE g : Good(g, Len(s))
<1>1. Len(s) \in Nat /\ \A i \in 1..Len(s) : s[i] \in T
  BY SMT
<1>2. Erase(s, e) = kept[Len(s)]
  BY DEF Erase
<1>3. \E g : Good(g, Len(s))
  <2>. DEFINE Bad == {n \in Nat : ~ \E g : Good(g, n)}
  <2>. SUFFICES ASSUME Bad # {} PROVE FALSE
    BY <1>1
  <2>1. Bad \subseteq Nat
    OBVIOUS
  <2>. HIDE DEF Bad
  <2>2. PICK n \in Bad : \A m \in Bad : ~ (m < n)
    BY <2>1, LeastNumber
  <2>3. n # 0
    <3>1. Good([i \in 0..0 |-> <<>>], 0)
      BY SMT
    <3>. QED BY <3>1, <2>2 DEF Bad
  <2>4. n - 1 \in Nat /\ n - 1 \notin Bad
    BY <2>1, <2>2, <2>3, SMT
  <2>5. PICK g : Good(g, n - 1)
    BY <2>4 DEF Bad
  <2>6. DEFINE h == [i \in 0..n |-> IF i = n THEN Part(g, n) ELSE g[i]]
  <2>7. \A i \in 0..n : h[i] = Part(h, i)
    <3>1. n \in Nat
      BY <2>1, <2>2
    <3>. SUFFICES ASSUME NEW i \in 0..n PROVE h[i] = Part(h, i)
      OBVIOUS
    <3>2. CASE i = 0
      BY <2>3, <2>4, <2>5, <3>1, <3>2, SMT
    <3>3. CASE i # 0
      <4>1. i - 1 \in 0..n /\ i - 1 # n /\ h[i - 1] = g[i - 1]
        BY <3>1, <3>3, SMT
      <4>2. CASE i = n
        BY <3>1, <3>3, <4>1, <4>2
      <4>3. CASE i # n
        <5>1. i \in 0..(n - 1) /\ h[i] = g[i]
          BY <3>1, <4>3, SMT
        <5>. QED BY <2>5, <3>3, <4>1, <5>1
      <4>. QED BY <4>2, <4>3
    <3>. QED BY <3>2, <3>3
  <2>8. Good(h, n)
    BY <2>7
  <2>. QED BY <2>2, <2>8 DEF Bad
<1>4. Good(kept, Len(s))
  BY <1>3
<1>. HIDE DEF kept
<1>5. /\ kept[0] = <<>>
      /\ \A i \in 1..Len(s) : kept[i] = IF s[i] = e THEN kept[i - 1] ELSE Append(kept[i - 1], s[i])
  <2>1. \A i \in 0..Len(s) : kept[i] = Part(kept, i)
    BY <1>4
  <2>. QED BY <1>1, <2>1, SMT
<1>. HIDE DEF Good
<1>. DEFINE Right(i) == /\ kept[i] \in Seq(T)
                        /\ (\A j \in DOMAIN s : s[j] # e) => kept[i] = SubSeq(s, 1, i)
            Bad == {i \in 0..Len(s) : ~Right(i)}
<1>6. Bad = {}
  <2>. SUFFICES ASSUME Bad # {} PROVE FALSE
    OBVIOUS
  <2>1. Bad \subseteq Nat
    BY <1>1, SMT
  <2>. HIDE DEF Bad, Right
  <2>2. PICK n \in Bad : \A m \in Bad : ~ (m < n)
    BY <2>1, LeastNumber
  <2>3. n \in 0..Len(s) /\ n \in Nat /\ ~Right(n)
    BY <1>1, <2>2, SMT DEF Bad
  <2>4. SubSeq(s, 1, 0) = <<>> /\ <<>> \in Seq(T)
    BY SMT
  <2>5. n # 0
    BY <1>5, <2>3, <2>4 DEF Right
  <2>6. n \in 1..Len(s) /\ n - 1 \in 0..Len(s) /\ n - 1 < n /\ n - 1 \notin Bad
    BY <1>1, <2>1, <2>2, <2>3, <2>5, SMT
  <2>7. Right(n - 1)
    BY <2>6 DEF Bad
  <2>8. kept[n] \in Seq(T)
    <3>1. kept[n - 1] \in Seq(T) /\ s[n] \in T
      BY <1>1, <2>6, <2>7 DEF Right
    <3>2. kept[n] = kept[n - 1] \/ kept[n] = Append(kept[n - 1], s[n])
      BY <1>5, <2>6
    <3>3. \A q \in Seq(T) : \A x \in T : Append(q, x) \in Seq(T)
      BY SMT
    <3>. QED BY <3>1, <3>2, <3>3
  <2>9. (\A j \in DOMAIN s : s[j] # e) => kept[n] = SubSeq(s, 1, n)
    <3>. SUFFICES ASSUME \A j \in DOMAIN s : s[j] # e PROVE kept[n] = SubSeq(s, 1, n)
      OBVIOUS
    <3>1. kept[n] = Append(SubSeq(s, 1, n - 1), s[n])
      <4>1. kept[n - 1] = SubSeq(s, 1, n - 1)
        BY <2>7 DEF Right
      <4>2. s[n] # e
        <5>1. DOMAIN s = 1..Len(s)
          BY SMT
        <5>. QED BY <2>6, <5>1
      <4>3. kept[n] = Append(kept[n - 1], s[n])
        BY <1>5, <2>6, <4>2
      <4>. QED BY <4>1, <4>3
    <3>2. SubSeq(s, 1, n) = Append(SubSeq(s, 1, n - 1), s[n])
      BY <1>1, <2>6, SMT
    <3>. QED BY <3>1, <3>2
  <2>. QED BY <2>3, <2>8, <2>9 DEF Right
<1>7. Right(Len(s))
  BY <1>1, <1>6, SMT
<1>8. SubSeq(s, 1, Len(s)) = s
  BY SMT
<1>. QED BY <1>2, <1>7, <1>8

LEMMA PruneStep ==
    ASSUME IInv, NEW b \in Blocks, PruneOneBlockFile(b)
    PROVE  IInv'
<1>1. /\ UNCHANGED <<index, valid, received, linked, seqId, failedBlocks, candidates, tip,
                     counters, linkQueue, abc, inv, partial>>
      /\ status' = [status EXCEPT ![b] = @ \ {"HAVE_DATA", "HAVE_UNDO"}]
      /\ unlinked' = IF b = Genesis THEN unlinked
                     ELSE [unlinked EXCEPT ![Prev[b]] = Erase(@, b)]
  BY DEF PruneOneBlockFile, markVars, chainVars, threadVars
<1>3. /\ status' \in [Blocks -> SUBSET Bits]
      /\ \A c \in Blocks : /\ Failed(c)' <=> Failed(c)
                           /\ HaveData(c)' => HaveData(c)
                           /\ "FAILED_VALID" \in status'[c] <=> "FAILED_VALID" \in status[c]
  BY <1>1 DEF Failed, HaveData, IInv, Typed, TypedBlocks
<1>4. /\ unlinked' \in [Blocks -> Seq(received)]
      /\ \A p \in Blocks : \A i \in DOMAIN unlinked'[p] :
            unlinked'[p][i] # Genesis /\ Prev[unlinked'[p][i]] = p
  <2>1. CASE b = Genesis
    BY <1>1, <2>1, SMTT(30) DEF IInv, Typed, TypedBlocks, Chained
  <2>2. CASE b # Genesis
    <3>0. Prev[b] \in Blocks
      BY <2>2, PrevType
    <3>. DEFINE p == Prev[b]
                T == {c \in received : c # Genesis /\ Prev[c] = p}
                w == unlinked[p]
    <3>1. /\ unlinked \in [Blocks -> Seq(received)] /\ w \in Seq(received)
          /\ \A i \in DOMAIN w : w[i] # Genesis /\ Prev[w[i]] = p
      BY <2>2, <3>0 DEF IInv, Typed, TypedBlocks, Chained
    <3>. HIDE DEF w
    <3>2. w \in Seq(T)
      BY <3>1, SMT
    <3>3. \A v \in Seq(T) : v \in Seq(received) /\ \A i \in DOMAIN v : v[i] # Genesis /\ Prev[v[i]] = p
      <4>1. \A v \in Seq(T) : \A i \in DOMAIN v : v[i] \in T
        BY SMT
      <4>2. \A v \in Seq(T) : v \in Seq(received)
        BY SMT
      <4>. QED BY <4>1, <4>2
    <3>. HIDE DEF T
    <3>4. Erase(w, b) \in Seq(T)
      BY <3>2, EraseFacts
    <3>5. unlinked' = [unlinked EXCEPT ![p] = Erase(w, b)]
      BY <1>1, <2>2, <3>0, <3>1 DEF w
    <3>6. unlinked'[p] = Erase(w, b) /\ \A q \in Blocks \ {p} : unlinked'[q] = unlinked[q]
      BY <2>2, <3>0, <3>1, <3>5
    <3>7. unlinked' \in [Blocks -> Seq(received)]
      BY <3>1, <3>3, <3>4, <3>5
    <3>. HIDE DEF p
    <3>8. ASSUME NEW q \in Blocks, NEW i \in DOMAIN unlinked'[q]
          PROVE  unlinked'[q][i] # Genesis /\ Prev[unlinked'[q][i]] = q
      <4>1. CASE q = p
        BY <4>1, <3>3, <3>4, <3>6
      <4>2. CASE q # p
        BY <4>2, <3>6, SMTT(30) DEF IInv, Chained
      <4>. QED BY <4>1, <4>2
    <3>. QED BY <3>7, <3>8
  <2>. QED BY <2>1, <2>2
<1>5. Typed'
  BY <1>1, <1>3, <1>4 DEF IInv, Typed, TypedBlocks, TypedLocals
<1>6. Stored'
  BY <1>1, <1>3 DEF IInv, Stored
<1>7. Chained'
  BY <1>1, <1>4 DEF IInv, Chained, Reached
<1>8. Locked' /\ Clear' /\ Active'
  <2>1. /\ tip \in Blocks /\ Anc[tip] \subseteq Blocks
        /\ abc.mostWork # None => Anc[abc.mostWork] \subseteq Blocks
    BY AncDef DEF IInv, Typed, TypedBlocks, TypedLocals, Locals
  <2>. QED BY <1>1, <1>3, <2>1 DEF IInv, Locked, Clear, Active
<1>9. Marked'
  BY <1>1, <1>3, AncDef DEF IInv, Marked, NoInvalidAncestor, Typed, TypedBlocks
<1>. QED BY <1>5, <1>6, <1>7, <1>8, <1>9 DEF IInv

-----------------------------------------------------------------------------
(* The theorems.                                                             *)

LEMMA NextIInv == IInv /\ [Next]_vars => IInv'
<1>. SUFFICES ASSUME IInv, [Next]_vars PROVE IInv'
  OBVIOUS
<1>1. CASE UNCHANGED vars
  <2>1. UNCHANGED <<indexVars, failedBlocks, chainVars, counters, linkQueue, inv, abc, partial>>
    BY <1>1 DEF vars, markVars, threadVars, callVars
  <2>2. Locked'
    BY <2>1 DEF IInv, Locked, indexVars, chainVars
  <2>. QED BY <2>1, <2>2, LocalsStep DEF IInv, Chained, Clear, Typed, TypedLocals
<1>2. CASE Arrival
  BY <1>2, LinkStep, HeaderStep, RejectHeaderStep, IgnoreStep, RejectStep, StoreStep DEF Arrival
<1>3. CASE ActivateBestChain
  BY <1>3, LoopStep, DiscardStep, DisconnectStep, ConnectStep, ConnectInvalidStep
     DEF ActivateBestChain
<1>4. CASE OperatorCall
  BY <1>4, InvalidateDisconnectStep, InvalidateFailStep, InvalidateFinishStep, PreciousStep,
     InvalidateStep, ReconsiderStep, PruneStep DEF OperatorCall
<1>5. CASE Aborted
  BY <1>1, <1>5 DEF Aborted
<1>. QED BY <1>1, <1>2, <1>3, <1>4, <1>5 DEF Next

\* The inductive invariant holds in every reachable state.
THEOREM InvariantHolds == Spec => []IInv
BY InitIInv, NextIInv, PTL DEF Spec

\* Whatever arrives, whoever calls and whatever is pruned, in any order and any
\* number of times: the active chain consists of received, connected blocks that
\* are not marked failed, at every step of ActivateBestChain and InvalidateBlock.
THEOREM ChainActiveValid == Spec => []ActiveChainValid
<1>1. IInv => ActiveChainValid
  <2>. SUFFICES ASSUME IInv, NEW a \in Anc[tip], linkQueue = <<>> PROVE a \in linked
    BY DEF IInv, Active, ActiveChainValid
  <2>1. a \in Reached
    BY ReachedFacts DEF IInv, Chained
  <2>. QED BY <2>1, SMTT(30) DEF Reached, Range
<1>. QED BY <1>1, InvariantHolds, PTL

\* A block is marked failed only if a block of its chain was found or declared
\* invalid, which is what CheckBlockIndex asserts, and m_failed_blocks holds only
\* such blocks, which is what AcceptBlockHeader asserts.
THEOREM ChainFailedMarks == Spec => []FailedMarksExact
<1>1. IInv => FailedMarksExact
  BY DEF IInv, Marked, FailedMarksExact, Typed, TypedBlocks
<1>. QED BY <1>1, InvariantHolds, PTL
=============================================================================
