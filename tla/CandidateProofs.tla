--------------------------- MODULE CandidateProofs ---------------------------
(***************************************************************************)
(* Proofs about the choice of the active chain in Chainstate: the set of   *)
(* candidates, the progress of ActivateBestChain, and the block it settles *)
(* on, for every tree of blocks and any number of calls.                   *)
(***************************************************************************)
EXTENDS ChainstateProofs

\* A leaf that names no prover is tried with Zenon.
USE Zenon

\* Every block is before b or after it.
BelowForks(b) == \A c \in Blocks : b \in Anc[c] \/ c \in Anc[b]

\* What pruning relies on: no reorganisation is as deep as MIN_BLOCKS_TO_KEEP.  A
\* block that far below another one is below every fork.  It holds of every tree
\* if nothing is pruned.  Where it holds, no candidate ever lacks data, so what
\* FindMostWorkChain does with one that does is not part of the theorems below.
PruneBelowForks ==
    \A b, t \in Blocks :
        <<"prune", b>> \in Calls /\ Height[b] + MaxAhead <= Height[t] => BelowForks(b)

Moving == abc.pc \in {"find", "step"}

\* Whoever links blocks will call ActivateBestChain.
Held == linkQueue # <<>> => wanted /\ abc.pc \in {"idle", "released"}

\* A block waits, or is queued, at most once, and only until it is linked.
Fresh ==
    /\ \A p \in Blocks : Range(unlinked[p]) \cap Reached = {}
    /\ \A p \in Blocks : IsInjective(unlinked[p])
    /\ Range(linkQueue) \cap linked = {} /\ IsInjective(linkQueue)

\* Only blocks of the active chain that are below all forks lack their data, or
\* are linked a second time.
Kept ==
    /\ \A b \in received : valid[b] >= TRANSACTIONS
    /\ \A b \in received : HaveData(b) \/ b \in Anc[tip]
    /\ \A b \in received : ~HaveData(b) => BelowForks(b)
    /\ \A b \in Range(linkQueue) \cap Anc[tip] : BelowForks(b)

NotWorse ==
    /\ \A c \in candidates : ~Worse(c, tip, seqId)
    /\ candidates \cap Range(linkQueue) \subseteq {tip}

\* CandidatesComplete at every step.  A section of ActivateBestChain may go back
\* to a tip worse than the one it started from; only blocks not worse than that
\* one are then certain to be candidates.
Complete ==
    ~partial /\ inv = None /\ abc.pc # "fatal" =>
        \A b \in linked :
            /\ ~Failed(b) /\ ~Worse(b, tip, seqId)
            /\ Moving => ~Worse(b, abc.starting, seqId)
            => b \in candidates

\* What a section of ActivateBestChain may rely on: it can go back to the tip it
\* started from, and has not gone beyond it unless it is on its way up.
Goal ==
    Moving =>
        /\ abc.starting \in linked
        /\ \A a \in Anc[abc.starting] : ~Failed(a) /\ a \in Connectable
        /\ ~partial /\ abc.mostWork # None => ~Worse(abc.mostWork, abc.starting, seqId)
        /\ abc.pc = "find" \/ tip \notin Anc[abc.mostWork] => ~Worse(abc.starting, tip, seqId)

\* Nothing better is left behind, or a call of ActivateBestChain will follow.
Settled ==
    \/ inv # None \/ wanted
    \/ /\ abc.pc = "idle" => \A c \in candidates : ~Worse(tip, c, seqId)
       /\ abc.mostWork # None => \A c \in candidates : ~Worse(abc.mostWork, c, seqId)

\* Once ActivateBestChain is on its way up to a block it does not leave it.
Ahead == abc.pc \in {"find", "released"} /\ abc.mostWork # None => tip \in Anc[abc.mostWork]

JInv == Held /\ Fresh /\ Kept /\ NotWorse /\ Complete /\ Goal /\ Ahead /\ Settled

-----------------------------------------------------------------------------
(* Facts about a state.                                                      *)

LEMMA StateFacts ==
    ASSUME IInv
    PROVE  /\ linked \subseteq received /\ received \subseteq Blocks /\ candidates \subseteq Blocks
           /\ seqId \in [Blocks -> Int] /\ abc \in Locals /\ linkQueue \in Seq(received)
           /\ tip \in Blocks /\ Anc[tip] \subseteq Blocks /\ tip \in Anc[tip] /\ tip \in Reached
           /\ Anc[tip] \subseteq Reached /\ Reached \subseteq Blocks /\ candidates \subseteq Reached
           /\ \A a \in Anc[tip] : ~Failed(a)
           /\ linkQueue = <<>> => Reached = linked
<1>1. /\ linked \subseteq received /\ received \subseteq Blocks /\ candidates \subseteq Blocks
      /\ seqId \in [Blocks -> Int] /\ abc \in Locals /\ linkQueue \in Seq(received)
      /\ tip \in Blocks /\ tip \in Reached /\ candidates \subseteq Reached
  BY DEF IInv, Typed, TypedBlocks, TypedLocals, Chained
<1>2. Anc[tip] \subseteq Blocks /\ tip \in Anc[tip]
  BY <1>1, AncDef, AncClosed
<1>3. Anc[tip] \subseteq Reached /\ Reached \subseteq Blocks
  BY <1>1, ReachedFacts DEF IInv
<1>4. \A a \in Anc[tip] : ~Failed(a)
  BY DEF IInv, Active
<1>5. linkQueue = <<>> => Reached = linked
  BY SMT DEF Reached, Range
<1>. QED BY <1>1, <1>2, <1>3, <1>4, <1>5

LEMMA InitJInv == Init => JInv
<1>. SUFFICES ASSUME Init PROVE JInv
  OBVIOUS
<1>0. Genesis \in Blocks /\ Anc[Genesis] = {Genesis}
  BY TreeAssumption, AncDef
<1>1. /\ linkQueue = <<>> /\ tip = Genesis /\ candidates = {Genesis}
      /\ linked = {Genesis} /\ received = {Genesis} /\ unlinked = [b \in Blocks |-> <<>>]
      /\ abc.pc = "idle" /\ abc.mostWork = None
  BY DEF Init, Idle
<1>6. HaveData(Genesis) /\ valid[Genesis] >= TRANSACTIONS
  BY <1>0, SMT DEF Init, HaveData, SCRIPTS, TRANSACTIONS
<1>7. seqId \in [Blocks -> Int]
  BY SMT DEF Init
<1>. USE <1>0, <1>6, <1>7
<1>2. ~Worse(Genesis, Genesis, seqId)
  BY <1>1, WorseOrder
<1>3. Held /\ Fresh
  BY <1>1, SMT DEF Held, Fresh, Range, Reached, IsInjective
<1>4. Kept /\ NotWorse
  BY <1>1, <1>2, SMT DEF Kept, NotWorse, Range
<1>5. Complete /\ Goal /\ Ahead /\ Settled
  BY <1>1, <1>2 DEF Complete, Goal, Ahead, Settled, Moving
<1>. QED BY <1>3, <1>4, <1>5 DEF JInv

-----------------------------------------------------------------------------
(* Headers and blocks arriving.                                              *)

\* A step taken while cs_main is free that marks blocks failed at most.
LEMMA MarksStep ==
    ASSUME IInv, JInv, Free,
           UNCHANGED <<received, linked, seqId, unlinked, linkQueue, candidates, tip, abc, inv, partial>>,
           wanted => wanted',
           \A b \in received : valid'[b] = valid[b],
           \A b \in Blocks : (Failed(b) => Failed(b)') /\ (HaveData(b)' <=> HaveData(b))
    PROVE  JInv'
<1>1. ~Moving /\ ~Moving' /\ linked \subseteq Blocks /\ received \subseteq Blocks
  BY StateFacts DEF Free, Moving
<1>2. Held' /\ Fresh' /\ NotWorse'
  BY DEF JInv, Held, Fresh, NotWorse, Reached
<1>3. Kept'
  BY <1>1 DEF JInv, Kept
<1>4. Complete'
  BY <1>1 DEF JInv, Complete
<1>5. Goal' /\ Ahead' /\ Settled'
  BY <1>1 DEF JInv, Goal, Ahead, Settled
<1>. QED BY <1>2, <1>3, <1>4, <1>5 DEF JInv

LEMMA JHeaderSteps ==
    ASSUME IInv, JInv, NEW b \in Blocks \ {Genesis}, NEW r \in BOOLEAN,
           AcceptBlockHeader(b) \/ RejectBlockHeader(b) \/ IgnoreBlock(b, r) \/ RejectBlock(b, r)
    PROVE  JInv'
<1>1. received \subseteq index /\ received \subseteq Blocks /\ valid \in [Blocks -> Nat]
  BY DEF IInv, Typed, TypedBlocks
<1>2. CASE AcceptBlockHeader(b)
  BY <1>1, <1>2, MarksStep
     DEF AcceptBlockHeader, chainVars, threadVars, callVars, Failed, HaveData
<1>3. CASE RejectBlockHeader(b)
  <2>1. \A c \in Blocks : (Failed(c) => Failed(c)') /\ (HaveData(c)' <=> HaveData(c))
    BY <1>3, SMT DEF RejectBlockHeader, Failed, HaveData, Mark
  <2>. QED BY <1>1, <1>3, <2>1, MarksStep DEF RejectBlockHeader, chainVars, threadVars, callVars
<1>4. CASE IgnoreBlock(b, r)
  BY <1>1, <1>4, MarksStep DEF IgnoreBlock, chainVars, callVars, Failed, HaveData
<1>5. CASE RejectBlock(b, r)
  <2>1. \A c \in Blocks : (Failed(c) => Failed(c)') /\ (HaveData(c)' <=> HaveData(c))
    BY <1>5 DEF RejectBlock, Failed, HaveData, Mark
  <2>. QED BY <1>1, <1>5, <2>1, MarksStep DEF RejectBlock, chainVars, threadVars, callVars
<1>. QED BY <1>2, <1>3, <1>4, <1>5

\* A block added to those that wait.
LEMMA AppendOnce ==
    ASSUME NEW S, NEW q \in Seq(S), NEW e \in S, e \notin Range(q), IsInjective(q)
    PROVE  IsInjective(Append(q, e)) /\ Range(Append(q, e)) = Range(q) \cup {e}
<1>. DEFINE z == Append(q, e)
            n == Len(q)
<1>1. /\ n \in Nat /\ DOMAIN q = 1..n /\ DOMAIN z = 1..(n + 1) /\ z[n + 1] = e
      /\ \A i \in 1..n : z[i] = q[i]
  BY SMT
<1>2. \A i \in 1..n : q[i] # e
  BY <1>1 DEF Range
<1>3. \A i, j \in 1..n : q[i] = q[j] => i = j
  BY <1>1 DEF IsInjective
<1>. HIDE DEF z, n
<1>4. \A i \in 1..(n + 1) : i \in 1..n \/ i = n + 1
  BY <1>1, SMT
<1>5. \A i, j \in DOMAIN z : z[i] = z[j] => i = j
  BY <1>1, <1>2, <1>3, <1>4
<1>6. n + 1 \in DOMAIN z /\ \A i \in 1..n : i \in DOMAIN z
  BY <1>1, SMT
<1>7. Range(z) = Range(q) \cup {e}
  BY <1>1, <1>4, <1>6 DEF Range
<1>. QED BY <1>5, <1>7 DEF IsInjective, z

\* The head of a queue is taken and w is added.
LEMMA QueueOnce ==
    ASSUME NEW S, NEW q \in Seq(S), q # <<>>, NEW w \in Seq(S),
           IsInjective(q), IsInjective(w), Range(q) \cap Range(w) = {}
    PROVE  /\ IsInjective(Tail(q) \o w) /\ Head(q) \notin Range(Tail(q) \o w)
           /\ Range(Tail(q) \o w) \subseteq Range(q) \cup Range(w) /\ Head(q) \in Range(q)
<1>. DEFINE n == Len(q) - 1
            z == Tail(q) \o w
<1>1. /\ n \in Nat /\ Len(w) \in Nat /\ DOMAIN q = 1..(n + 1) /\ DOMAIN w = 1..Len(w)
      /\ DOMAIN z = 1..(n + Len(w)) /\ Head(q) = q[1]
  BY SMT
<1>2. \A i \in 1..n : z[i] = q[i + 1]
  BY <1>1, SMT
<1>3. \A i \in DOMAIN z : i \notin 1..n => i - n \in 1..Len(w) /\ z[i] = w[i - n]
  BY <1>1, SMT
<1>4. \A i, j \in 1..(n + 1) : q[i] = q[j] => i = j
  BY <1>1 DEF IsInjective
<1>5. \A i, j \in 1..Len(w) : w[i] = w[j] => i = j
  BY <1>1 DEF IsInjective
<1>6. \A i \in 1..(n + 1), j \in 1..Len(w) : q[i] # w[j]
  BY <1>1 DEF Range
<1>. HIDE DEF z, n
<1>7. \A i \in 1..n : i + 1 \in 1..(n + 1) /\ i + 1 # 1
  BY <1>1, SMT
<1>8. ASSUME NEW i \in DOMAIN z, NEW j \in DOMAIN z, z[i] = z[j]
      PROVE  i = j
  <2>0. i \in Int /\ j \in Int /\ n \in Int
    BY <1>1, SMT
  <2>1. CASE i \in 1..n /\ j \in 1..n
    <3>1. q[i + 1] = q[j + 1] /\ i + 1 \in 1..(n + 1) /\ j + 1 \in 1..(n + 1)
      BY <2>1, <1>2, <1>7, <1>8
    <3>2. i + 1 = j + 1
      BY <3>1, <1>4
    <3>. QED BY <3>2, <2>0, SMT
  <2>2. CASE i \notin 1..n /\ j \notin 1..n
    <3>1. w[i - n] = w[j - n] /\ i - n \in 1..Len(w) /\ j - n \in 1..Len(w)
      BY <2>2, <1>3, <1>8
    <3>2. i - n = j - n
      BY <3>1, <1>5
    <3>. QED BY <3>2, <2>0, SMT
  <2>3. CASE i \in 1..n /\ j \notin 1..n
    BY <2>3, <1>2, <1>3, <1>6, <1>7, <1>8, SMT
  <2>4. CASE i \notin 1..n /\ j \in 1..n
    BY <2>4, <1>2, <1>3, <1>6, <1>7, <1>8, SMT
  <2>. QED BY <2>1, <2>2, <2>3, <2>4
<1>9. 1 \in 1..(n + 1)
  BY <1>1, SMT
<1>10. \A i \in DOMAIN z : z[i] # q[1] /\ z[i] \in Range(q) \cup Range(w)
  <2>. SUFFICES ASSUME NEW i \in DOMAIN z PROVE z[i] # q[1] /\ z[i] \in Range(q) \cup Range(w)
    OBVIOUS
  <2>1. CASE i \in 1..n
    <3>1. z[i] = q[i + 1] /\ i + 1 \in 1..(n + 1) /\ i + 1 # 1
      BY <2>1, <1>2, <1>7
    <3>2. q[i + 1] # q[1]
      BY <3>1, <1>4, <1>9
    <3>3. q[i + 1] \in Range(q)
      BY <3>1, <1>1 DEF Range
    <3>. QED BY <3>1, <3>2, <3>3
  <2>2. CASE i \notin 1..n
    <3>1. z[i] = w[i - n] /\ i - n \in 1..Len(w)
      BY <2>2, <1>3
    <3>2. q[1] # w[i - n]
      BY <3>1, <1>6, <1>9
    <3>. QED BY <3>1, <3>2, <1>1 DEF Range
  <2>. QED BY <2>1, <2>2
<1>11. Head(q) \in Range(q)
  BY <1>1, <1>9 DEF Range
<1>12. IsInjective(z)
  BY <1>8 DEF IsInjective
<1>13. Head(q) \notin Range(z) /\ Range(z) \subseteq Range(q) \cup Range(w)
  <2>1. \A x \in Range(z) : \E i \in DOMAIN z : x = z[i]
    BY DEF Range
  <2>. QED BY <1>1, <1>10, <2>1
<1>. QED BY <1>11, <1>12, <1>13 DEF z

\* A block that waits has its data.
LEMMA WaitingFacts ==
    ASSUME IInv, JInv, NEW p \in Blocks, NEW c \in Range(unlinked[p])
    PROVE  /\ c \in received /\ c \in Blocks /\ c \notin Reached /\ HaveData(c)
           /\ c # Genesis /\ Prev[c] = p
<1>1. PICK i \in DOMAIN unlinked[p] : c = unlinked[p][i]
  BY DEF Range
<1>2. unlinked[p] \in Seq(received) /\ received \subseteq Blocks
  BY DEF IInv, Typed, TypedBlocks
<1>3. c \in received /\ c \in Blocks
  BY <1>1, <1>2, SMT
<1>4. c # Genesis /\ Prev[c] = p
  BY <1>1 DEF IInv, Chained
<1>5. c \notin Reached
  BY DEF JInv, Fresh
<1>. QED BY <1>3, <1>4, <1>5, StateFacts DEF JInv, Kept

LEMMA JStoreStep ==
    ASSUME IInv, JInv, NEW b \in Blocks \ {Genesis}, NEW r \in BOOLEAN, StoreBlock(b, r)
    PROVE  JInv'
<1>. USE DEF Range
<1>1. /\ UNCHANGED <<seqId, candidates, tip, abc, inv, partial>>
      /\ linkQueue = <<>> /\ abc.pc \notin {"find", "step", "fatal"} /\ wanted'
      /\ ~HaveData(b) /\ linked' = linked \ {b} /\ received' = received \cup {b}
      /\ status' = Mark({b}, {"HAVE_DATA"})
      /\ valid' = [valid EXCEPT ![b] = IF @ < TRANSACTIONS THEN TRANSACTIONS ELSE @]
      /\ \/ Prev[b] \in linked /\ linkQueue' = <<b>> /\ unlinked' = unlinked
         \/ /\ Prev[b] \notin linked /\ linkQueue' = <<>>
            /\ \/ unlinked' = unlinked
               \/ unlinked' = [unlinked EXCEPT ![Prev[b]] = Append(@, b)]
  BY DEF StoreBlock, Free, Ignored, chainVars, callVars
<1>2. \A p \in Blocks : b \notin Range(unlinked[p])
  BY <1>1, WaitingFacts
<1>3. /\ Reached = linked /\ Prev[b] \in Blocks /\ linked \subseteq Blocks /\ tip \in Blocks
      /\ Prev[b] \notin linked => b \notin linked
  BY <1>1, StateFacts, PrevType DEF IInv, Chained
<1>4. /\ linkQueue' \in {<<>>, <<b>>} /\ Range(linkQueue') \subseteq {b}
      /\ Reached' \subseteq linked \cup {b}
  BY <1>1, <1>3, SMT DEF Reached
<1>5. Held' /\ ~Moving'
  BY <1>1 DEF Held, Moving, IInv, Typed, TypedLocals, Locals
<1>6. Fresh'
  <2>1. Range(linkQueue') \cap linked' = {} /\ IsInjective(linkQueue')
    BY <1>1, SMT DEF IsInjective
  <2>2. ASSUME NEW p \in Blocks
        PROVE  Range(unlinked'[p]) \cap Reached' = {} /\ IsInjective(unlinked'[p])
    <3>1. Range(unlinked[p]) \cap linked = {} /\ IsInjective(unlinked[p]) /\ b \notin Range(unlinked[p])
      BY <1>2, <1>3 DEF JInv, Fresh
    <3>2. CASE unlinked'[p] = unlinked[p]
      BY <3>1, <3>2, <1>4
    <3>3. CASE unlinked'[p] # unlinked[p]
      <4>1. /\ p = Prev[b] /\ Prev[b] \notin linked /\ unlinked'[p] = Append(unlinked[p], b)
            /\ linkQueue' = <<>> /\ unlinked[p] \in Seq(received')
        <5>1. unlinked \in [Blocks -> Seq(received)]
          BY DEF IInv, Typed, TypedBlocks
        <5>2. unlinked[p] \in Seq(received)
          BY <5>1
        <5>3. unlinked[p] \in Seq(received')
          BY <5>2, <1>1, SMT
        <5>. QED BY <1>1, <1>3, <3>3, <5>1, <5>3
      <4>2. b \in received'
        BY <1>1
      <4>3. IsInjective(unlinked'[p]) /\ Range(unlinked'[p]) = Range(unlinked[p]) \cup {b}
        <5>. HIDE DEF Range
        <5>1. unlinked[p] \in Seq(received') /\ b \notin Range(unlinked[p]) /\ IsInjective(unlinked[p])
          BY <3>1, <4>1
        <5>2. /\ IsInjective(Append(unlinked[p], b))
              /\ Range(Append(unlinked[p], b)) = Range(unlinked[p]) \cup {b}
          BY <4>2, <5>1, AppendOnce, SMT
        <5>. QED BY <4>1, <5>2
      <4>4. Reached' = linked /\ b \notin linked
        <5>1. b \notin linked /\ linked' = linked /\ Range(linkQueue') = {}
          BY <4>1, <1>1, <1>3, SMT
        <5>. QED BY <5>1 DEF Reached
      <4>. QED BY <3>1, <4>3, <4>4
    <3>. QED BY <3>2, <3>3
  <2>. QED BY <2>1, <2>2 DEF Fresh
<1>7. \A c \in Blocks : (Failed(c)' <=> Failed(c)) /\ (HaveData(c)' <=> HaveData(c) \/ c = b)
  BY <1>1 DEF Failed, HaveData, Mark
<1>8. b \in Anc[tip] => b \in received /\ BelowForks(b)
  BY <1>1, <1>3, StateFacts DEF JInv, Kept
<1>9. Kept'
  <2>1. \A c \in received' : valid'[c] >= TRANSACTIONS
    BY <1>1, SMT DEF JInv, Kept, TRANSACTIONS, IInv, Typed, TypedBlocks
  <2>2. \A c \in received' : HaveData(c)' \/ c \in Anc[tip]
    BY <1>1, <1>7, StateFacts DEF JInv, Kept
  <2>3. \A c \in received' : ~HaveData(c)' => BelowForks(c)
    BY <1>1, <1>7, StateFacts DEF JInv, Kept
  <2>. QED BY <1>1, <1>4, <1>8, <2>1, <2>2, <2>3, ZenonT(30) DEF Kept
<1>10. NotWorse'
  <2>1. b \in candidates => b = tip
    <3>1. b \in candidates => b \in received
      BY <1>3, StateFacts
    <3>2. b \in candidates => b \in Anc[tip]
      BY <1>1, <3>1 DEF JInv, Kept
    <3>. QED BY <3>2, StateFacts, WorseTotal DEF JInv, NotWorse
  <2>. QED BY <1>1, <1>4, <2>1 DEF JInv, NotWorse
<1>11. Complete'
  <2>1. ~Moving /\ linked' \subseteq linked
    BY <1>1 DEF Moving
  <2>. QED BY <1>1, <1>3, <1>5, <1>7, <2>1 DEF JInv, Complete
<1>12. Goal' /\ Ahead' /\ Settled'
  BY <1>1, <1>5 DEF JInv, Goal, Ahead, Settled
<1>. QED BY <1>5, <1>6, <1>9, <1>10, <1>11, <1>12 DEF JInv

\* The order of two blocks depends on their own nSequenceId only.
LEMMA WorseSame ==
    ASSUME NEW a, NEW b, NEW s1, NEW s2, s1[a] = s2[a], s1[b] = s2[b]
    PROVE  Worse(a, b, s1) <=> Worse(a, b, s2)
BY DEF Worse

\* A block linked a second time is on the active chain and below all forks, so its
\* new nSequenceId changes its order with no other block that could be the tip.
LEMMA JLinkStep ==
    ASSUME IInv, IInv', JInv, LinkBlock
    PROVE  JInv'
<1>. DEFINE b == Head(linkQueue)
            w == unlinked[b]
<1>1. /\ UNCHANGED <<valid, status, received, tip, abc, inv, wanted, partial>>
      /\ linkQueue # <<>> /\ linked' = linked \cup {b}
      /\ seqId' = [seqId EXCEPT ![b] = counters.sequence]
      /\ candidates' = IF Worse(b, tip, seqId') THEN candidates ELSE candidates \cup {b}
      /\ linkQueue' = Tail(linkQueue) \o w /\ unlinked' = [unlinked EXCEPT ![b] = <<>>]
  BY DEF LinkBlock, TryAddBlockIndexCandidate, Waiting, threadVars, callVars
<1>2. /\ linkQueue \in Seq(received) /\ unlinked \in [Blocks -> Seq(received)] /\ received \subseteq Blocks
      /\ seqId \in [Blocks -> Int] /\ linked \subseteq Blocks /\ tip \in Blocks /\ candidates \subseteq Blocks
      /\ seqId' \in [Blocks -> Int]
  BY DEF IInv, Typed, TypedBlocks
<1>3. b \in received /\ b \in Blocks
  BY <1>1, <1>2, SMT
<1>4. w \in Seq(received)
  BY <1>2, <1>3
<1>. HIDE DEF b
<1>5. /\ IsInjective(linkQueue) /\ IsInjective(w) /\ Range(linkQueue) \cap linked = {}
      /\ Range(linkQueue) \cap Range(w) = {} /\ Range(w) \cap Reached = {}
  BY <1>3 DEF JInv, Fresh, Reached
<1>. HIDE DEF w
<1>6. /\ IsInjective(linkQueue') /\ b \notin Range(linkQueue')
      /\ Range(linkQueue') \subseteq Range(linkQueue) \cup Range(w) /\ b \in Range(linkQueue)
  BY <1>1, <1>2, <1>4, <1>5, QueueOnce DEF b
<1>7. Reached' \subseteq Reached \cup Range(w) /\ b \in Reached
  BY <1>1, <1>6 DEF Reached
<1>8. wanted /\ abc.pc \in {"idle", "released"} /\ ~Moving /\ ~Moving'
  BY <1>1 DEF JInv, Held, Moving
<1>9. Held' /\ Goal' /\ Ahead' /\ Settled'
  BY <1>1, <1>8 DEF JInv, Held, Goal, Ahead, Settled
<1>10. Fresh'
  <2>1. Range(linkQueue') \cap linked' = {}
    BY <1>1, <1>5, <1>6, <1>7 DEF Reached
  <2>2. ASSUME NEW p \in Blocks
        PROVE  Range(unlinked'[p]) \cap Reached' = {} /\ IsInjective(unlinked'[p])
    <3>1. CASE p = b
      BY <3>1, <1>1, <1>2, SMT DEF Range, IsInjective
    <3>2. CASE p # b
      <4>1. unlinked'[p] = unlinked[p] /\ Range(unlinked[p]) \cap Reached = {} /\ IsInjective(unlinked[p])
        BY <3>2, <1>1, <1>2 DEF JInv, Fresh
      <4>2. Range(unlinked[p]) \cap Range(w) = {}
        <5>1. \A c \in Range(unlinked[p]) : Prev[c] = p
          BY WaitingFacts
        <5>2. \A c \in Range(w) : Prev[c] = b
          BY <1>3, WaitingFacts DEF w
        <5>. QED BY <3>2, <5>1, <5>2
      <4>. QED BY <1>7, <4>1, <4>2
    <3>. QED BY <3>1, <3>2
  <2>. QED BY <1>6, <2>1, <2>2 DEF Fresh
<1>11. Kept'
  <2>1. Range(w) \cap Anc[tip] = {}
    BY <1>5, StateFacts
  <2>. QED BY <1>1, <1>6, <2>1 DEF JInv, Kept, HaveData
<1>12. \A x, y \in Blocks \ {b} : Worse(x, y, seqId') <=> Worse(x, y, seqId)
  <2>1. \A x \in Blocks \ {b} : seqId'[x] = seqId[x]
    BY <1>1, <1>2
  <2>. QED BY <2>1, WorseSame
<1>13. b = tip => \A c \in Blocks \ {b} : c \in Anc[tip] \/ tip \in Anc[c]
  BY <1>6, StateFacts DEF JInv, Kept, BelowForks
<1>14. \A c \in Blocks \ {b} : Worse(c, tip, seqId') <=> Worse(c, tip, seqId)
  <2>1. CASE b = tip
    <3>1. ASSUME NEW c \in Blocks \ {b}, c \in Anc[tip]
          PROVE  Worse(c, tip, seqId') /\ Worse(c, tip, seqId)
      BY <2>1, <3>1, <1>2, WorseTotal
    <3>2. ASSUME NEW c \in Blocks \ {b}, tip \in Anc[c]
          PROVE  ~Worse(c, tip, seqId') /\ ~Worse(c, tip, seqId)
      BY <2>1, <3>2, <1>2, WorseTotal
    <3>. QED BY <1>13, <2>1, <3>1, <3>2
  <2>2. CASE b # tip
    BY <2>2, <1>2, <1>12
  <2>. QED BY <2>1, <2>2
<1>15. NotWorse'
  <2>1. b \in candidates => b = tip
    BY <1>6 DEF JInv, NotWorse
  <2>2. ~Worse(tip, tip, seqId')
    BY <1>2, WorseOrder
  <2>3. \A c \in candidates' : ~Worse(c, tip, seqId')
    <3>. SUFFICES ASSUME NEW c \in candidates' PROVE ~Worse(c, tip, seqId')
      OBVIOUS
    <3>1. CASE c = b
      BY <3>1, <1>1, <2>1, <2>2
    <3>2. CASE c # b
      <4>1. c \in candidates /\ c \in Blocks
        BY <3>2, <1>1, <1>2
      <4>. QED BY <3>2, <4>1, <1>14 DEF JInv, NotWorse
    <3>. QED BY <3>1, <3>2
  <2>4. candidates' \cap Range(linkQueue') \subseteq {tip}
    <3>1. candidates \cap Range(w) = {}
      BY <1>5, StateFacts
    <3>2. candidates' \subseteq candidates \cup {b}
      BY <1>1
    <3>3. candidates \cap Range(linkQueue) \subseteq {tip}
      BY DEF JInv, NotWorse
    <3>. QED BY <1>6, <3>1, <3>2, <3>3
  <2>. QED BY <1>1, <2>3, <2>4 DEF NotWorse
<1>16. Complete'
  <2>. SUFFICES ASSUME ~partial, inv = None, abc.pc # "fatal", NEW c \in linked', ~Failed(c)',
                       ~Worse(c, tip, seqId')
                PROVE  c \in candidates'
    BY <1>1 DEF Complete
  <2>1. CASE c = b
    BY <2>1, <1>1
  <2>2. CASE c # b
    <3>1. c \in linked /\ c \in Blocks /\ ~Failed(c) /\ ~Worse(c, tip, seqId)
      BY <2>2, <1>1, <1>2, <1>14 DEF Failed
    <3>2. c \in candidates
      BY <3>1, <1>8 DEF JInv, Complete
    <3>. QED BY <3>2, <1>1
  <2>. QED BY <2>1, <2>2
<1>. QED BY <1>9, <1>10, <1>11, <1>15, <1>16 DEF JInv

-----------------------------------------------------------------------------
(* ActivateBestChain.                                                        *)

\* A section of ActivateBestChain is the only thing that runs.
LEMMA MovingFacts ==
    ASSUME IInv, JInv, Moving
    PROVE  /\ linkQueue = <<>> /\ Reached = linked /\ inv = None /\ tip \in linked
           /\ abc.starting \in Blocks
           /\ Range(linkQueue) = {}
<1>1. linkQueue = <<>> /\ inv = None
  BY DEF Moving, JInv, Held, IInv, Locked
<1>2. Reached = linked /\ tip \in linked
  BY <1>1, StateFacts
<1>3. abc.starting \in Blocks
  BY StateFacts DEF JInv, Goal
<1>. QED BY <1>1, <1>2, <1>3, SMT DEF Range

LEMMA BestNotWorse ==
    ASSUME IInv, candidates # {}
    PROVE  \A c \in candidates : ~Worse(BestCandidate, c, seqId)
<1>1. candidates \in SUBSET Blocks /\ seqId \in [Blocks -> Int]
  BY StateFacts
<1>2. \E b \in candidates : \A c \in candidates : ~Worse(b, c, seqId)
  BY <1>1, BestExists
<1>. QED BY <1>2 DEF BestCandidate

\* FindMostWorkChain finds the tip it started from or a better block.
LEMMA MostWorkGood ==
    ASSUME IInv, JInv, abc.pc = "find"
    PROVE  /\ ~partial => IF MostWork = None THEN ~Worse(tip, abc.starting, seqId)
                          ELSE ~Worse(MostWork, abc.starting, seqId)
           /\ MostWork = None => abc.mostWork = None /\ candidates = {}
           /\ MostWork # None => wanted \/ \A c \in candidates : ~Worse(MostWork, c, seqId)
<1>1. Moving /\ abc.starting \in linked /\ inv = None /\ ~Failed(abc.starting)
  BY MovingFacts, AncClosed DEF Moving, JInv, Goal
<1>2. /\ seqId \in [Blocks -> Int] /\ abc.starting \in Blocks /\ tip \in Blocks
      /\ None \notin Blocks
  BY <1>1, MovingFacts, StateFacts, ChainstateAssumption
<1>3. ~partial => Worse(abc.starting, tip, seqId) \/ abc.starting \in candidates
  BY <1>1, <1>2, WorseOrder DEF JInv, Complete
<1>4. CASE abc.mostWork # None
  BY <1>1, <1>4 DEF MostWork, JInv, Goal, Settled
<1>5. CASE abc.mostWork = None /\ candidates = {}
  BY <1>2, <1>3, <1>5, WorseTotal DEF MostWork
<1>6. CASE abc.mostWork = None /\ candidates # {}
  <2>1. /\ MostWork = BestCandidate /\ MostWork \in Blocks /\ MostWork \in candidates
        /\ \A c \in candidates : ~Worse(MostWork, c, seqId)
    BY <1>6, BestNotWorse, BestCandidateIn DEF MostWork
  <2>2. ~Worse(MostWork, tip, seqId)
    BY <2>1 DEF JInv, NotWorse
  <2>3. Worse(abc.starting, tip, seqId) => ~Worse(tip, abc.starting, seqId)
    BY <1>2, WorseTotal
  <2>4. ~partial => ~Worse(MostWork, abc.starting, seqId)
    BY <1>2, <1>3, <2>1, <2>2, <2>3, WorseTotal
  <2>. QED BY <1>2, <2>1, <2>4
<1>. QED BY <1>4, <1>5, <1>6

\* A step that changes no more than the locals of ActivateBestChain.
LEMMA LocalsJInv ==
    ASSUME IInv, JInv, linkQueue = <<>>,
           UNCHANGED <<indexVars, chainVars, linkQueue, inv, partial>>,
           Complete', Goal', Ahead', Settled'
    PROVE  JInv'
<1>1. Held' /\ Fresh' /\ NotWorse'
  BY DEF JInv, Held, Fresh, NotWorse, Reached, indexVars, chainVars
<1>2. Kept'
  BY DEF JInv, Kept, HaveData, indexVars, chainVars
<1>. QED BY <1>1, <1>2 DEF JInv

LEMMA JStartSteps ==
    ASSUME IInv, JInv, AbcStart \/ AbcLoop
    PROVE  JInv'
<1>1. /\ UNCHANGED <<indexVars, chainVars, linkQueue, inv, partial>>
      /\ Free /\ linkQueue = <<>> /\ ~Moving
  BY DEF AbcStart, AbcLoop, Free, Moving, callVars
<1>2. /\ tip \in Blocks /\ tip \in linked /\ seqId \in [Blocks -> Int] /\ abc \in Locals
      /\ Anc[tip] \subseteq Blocks /\ tip \in Anc[tip]
  BY <1>1, StateFacts
<1>3. ~Worse(tip, tip, seqId) /\ \A a \in Anc[tip] : ~Failed(a) /\ a \in Connectable
  BY <1>2, WorseOrder DEF IInv, Active
<1>4. ASSUME abc'.pc = "find", abc'.starting = tip,
             abc'.mostWork # None => abc'.mostWork = abc.mostWork /\ tip \in Anc[abc.mostWork]
      PROVE  Complete' /\ Goal' /\ Ahead'
  <2>1. abc'.mostWork # None => ~Worse(abc'.mostWork, tip, seqId)
    BY <1>2, <1>4, WorseTotal DEF Locals
  <2>2. Moving'
    BY <1>4 DEF Moving
  <2>3. Goal'
    BY <1>1, <1>2, <1>3, <1>4, <2>1, ZenonT(30) DEF Goal, Failed, indexVars, chainVars
  <2>4. Complete'
    BY <1>1, <1>4 DEF Complete, JInv, Failed, indexVars, chainVars, Free
  <2>. QED BY <1>1, <1>4, <2>3, <2>4 DEF Ahead, chainVars
<1>5. CASE AbcStart
  <2>1. /\ abc' = [Idle EXCEPT !.pc = "find", !.starting = tip]
    BY <1>5 DEF AbcStart
  <2>2. abc'.pc = "find" /\ abc'.starting = tip /\ abc'.mostWork = None
    BY <2>1 DEF Idle
  <2>3. Settled'
    BY <2>2 DEF Settled
  <2>. QED BY <1>1, <1>4, <2>2, <2>3, LocalsJInv
<1>6. CASE AbcLoop /\ tip = abc.mostWork
  <2>1. abc' = Idle /\ wanted' = wanted /\ abc.pc = "released"
    BY <1>6 DEF AbcLoop
  <2>2. abc'.pc = "idle" /\ abc'.mostWork = None /\ ~Moving'
    BY <2>1 DEF Idle, Moving
  <2>3. Settled'
    BY <1>1, <1>6, <1>2, <2>1, <2>2, ChainstateAssumption DEF Settled, JInv, indexVars, chainVars
  <2>4. Complete' /\ Goal' /\ Ahead'
    BY <1>1, <2>1, <2>2 DEF Complete, Goal, Ahead, JInv, Failed, indexVars, chainVars
  <2>. QED BY <1>1, <2>3, <2>4, LocalsJInv
<1>7. CASE AbcLoop /\ tip # abc.mostWork
  <2>1. /\ abc' = [abc EXCEPT !.pc = "find", !.starting = tip, !.connected = FALSE]
        /\ abc.pc = "released" /\ wanted' = wanted
    BY <1>7 DEF AbcLoop
  <2>2. abc'.pc = "find" /\ abc'.starting = tip /\ abc'.mostWork = abc.mostWork
    BY <1>2, <2>1 DEF Locals
  <2>3. abc'.mostWork # None => abc'.mostWork = abc.mostWork /\ tip \in Anc[abc.mostWork]
    BY <2>1, <2>2 DEF JInv, Ahead
  <2>4. Settled'
    BY <1>1, <2>1, <2>2 DEF Settled, JInv, indexVars, chainVars
  <2>. QED BY <1>1, <1>4, <2>2, <2>3, <2>4, LocalsJInv
<1>. QED BY <1>5, <1>6, <1>7

\* Leaving the section with a tip that is not worse, what is complete with respect
\* to the tip it started from is complete with respect to the new one.
LEMMA LeaveComplete ==
    ASSUME IInv, JInv, Moving, ~partial => ~Worse(tip, abc.starting, seqId)
    PROVE  ~partial => \A b \in linked : ~Failed(b) /\ ~Worse(b, tip, seqId) => b \in candidates
<1>1. seqId \in [Blocks -> Int] /\ abc.starting \in Blocks /\ tip \in Blocks /\ linked \subseteq Blocks
  BY MovingFacts, StateFacts
<1>2. inv = None /\ abc.pc # "fatal"
  BY MovingFacts DEF Moving
<1>3. ~partial => \A b \in linked : ~Worse(b, tip, seqId) => ~Worse(b, abc.starting, seqId)
  BY <1>1, WorseTotal
<1>. QED BY <1>2, <1>3 DEF JInv, Complete

LEMMA JBreakStep ==
    ASSUME IInv, JInv, AbcBreak
    PROVE  JInv' /\ (~partial => ~Worse(tip', abc.starting, seqId'))
<1>1. /\ UNCHANGED <<indexVars, chainVars, linkQueue, inv, partial, wanted>>
      /\ abc.pc = "find" /\ Moving /\ MostWork \in {None, tip}
      /\ abc' = IF abc.connected THEN [abc EXCEPT !.pc = "released", !.mostWork = MostWork]
                ELSE Idle
  BY DEF AbcBreak, Moving, callVars
<1>2. linkQueue = <<>> /\ tip \in Blocks /\ abc \in Locals /\ tip \in Anc[tip]
  BY <1>1, MovingFacts, StateFacts
<1>3. ~partial => ~Worse(tip, abc.starting, seqId)
  BY <1>1, <1>2, MostWorkGood, ChainstateAssumption
<1>4. ~partial => \A b \in linked : ~Failed(b) /\ ~Worse(b, tip, seqId) => b \in candidates
  BY <1>1, <1>3, LeaveComplete
<1>5. \/ abc'.pc = "idle" /\ abc'.mostWork = None
      \/ abc'.pc = "released" /\ abc'.mostWork = MostWork
  BY <1>1, <1>2 DEF Idle, Locals
<1>6. Complete' /\ Goal'
  BY <1>1, <1>4, <1>5 DEF Complete, Goal, Moving, Failed, indexVars, chainVars
<1>7. Ahead'
  BY <1>1, <1>2, <1>5 DEF Ahead, chainVars
<1>8. Settled'
  BY <1>1, <1>5, MostWorkGood DEF Settled, indexVars, chainVars
<1>. QED BY <1>1, <1>2, <1>3, <1>6, <1>7, <1>8, LocalsJInv, ZenonT(30) DEF indexVars, chainVars

LEMMA JStepFatalSteps ==
    ASSUME IInv, JInv, AbcStep \/ AbcFatal
    PROVE  JInv'
<1>1. /\ UNCHANGED <<indexVars, chainVars, linkQueue, inv, partial, wanted>>
      /\ Moving /\ linkQueue = <<>> /\ abc \in Locals
  BY MovingFacts, StateFacts DEF AbcStep, AbcFatal, Moving, callVars
<1>2. CASE AbcStep
  <2>1. /\ abc'.pc = "step" /\ abc'.mostWork = MostWork /\ abc'.starting = abc.starting
        /\ abc.pc = "find" /\ Moving'
    BY <1>1, <1>2 DEF AbcStep, Locals, Moving
  <2>2. Complete'
    BY <1>1, <2>1 DEF Complete, JInv, Failed, indexVars, chainVars
  <2>3. Goal'
    BY <1>1, <2>1, MostWorkGood DEF Goal, JInv, Failed, indexVars, chainVars
  <2>4. Ahead'
    BY <2>1 DEF Ahead
  <2>5. Settled'
    BY <1>1, <2>1, MostWorkGood DEF Settled, indexVars, chainVars
  <2>. QED BY <1>1, <2>2, <2>3, <2>4, <2>5, LocalsJInv
<1>3. CASE AbcFatal
  <2>1. abc'.pc = "fatal" /\ abc'.mostWork = abc.mostWork
    BY <1>1, <1>3 DEF AbcFatal, Locals
  <2>2. Complete' /\ Goal' /\ Ahead'
    BY <2>1 DEF Complete, Goal, Ahead, Moving
  <2>3. Settled'
    BY <1>1, <2>1 DEF Settled, JInv, indexVars, chainVars
  <2>. QED BY <1>1, <2>2, <2>3, LocalsJInv
<1>. QED BY <1>2, <1>3

\* FindMostWorkChain never meets a block without data: only failed blocks make a
\* candidate unusable.
LEMMA DiscardFacts ==
    ASSUME IInv, JInv, FindMostWorkChainDiscard
    PROVE  LET n == BestCandidate
               f == FirstFailed(n)
           IN  /\ n \in Blocks /\ Anc[n] \subseteq linked /\ f \in Anc[n] /\ f \in Blocks
               /\ Failed(f) /\ status' = Mark(Anc[n] \ Anc[f], {"FAILED_CHILD"})
               /\ unlinked' = unlinked
<1>. DEFINE n == BestCandidate
            f == FirstFailed(n)
<1>1. /\ Moving /\ candidates # {} /\ FailedPath(n) # {}
      /\ Failed(f) => status' = Mark(Anc[n] \ Anc[f], {"FAILED_CHILD"}) /\ unlinked' = unlinked
  BY DEF FindMostWorkChainDiscard, Moving
<1>2. Reached = linked
  BY <1>1, MovingFacts
<1>3. n \in Blocks /\ n \in linked
  BY <1>1, <1>2, BestCandidateIn
<1>4. Anc[n] \subseteq linked /\ linked \subseteq received
  BY <1>2, <1>3, ReachedFacts DEF IInv
<1>5. f \in Anc[n] /\ f \in Blocks
  BY <1>1, <1>3, FirstFailedIn
<1>6. Failed(f)
  <2>1. f \in FailedPath(n)
    <3>1. FailedPath(n) \in SUBSET Anc[n]
      BY DEF FailedPath
    <3>. QED BY <1>1, <1>3, <3>1, HighestExists DEF FirstFailed
  <2>2. HaveData(f) \/ f \in Anc[tip]
    BY <1>4, <1>5 DEF JInv, Kept
  <2>. QED BY <2>1, <2>2 DEF FailedPath
<1>. QED BY <1>1, <1>3, <1>4, <1>5, <1>6

LEMMA JDiscardStep ==
    ASSUME IInv, JInv, FindMostWorkChainDiscard
    PROVE  JInv'
<1>. DEFINE n == BestCandidate
            f == FirstFailed(n)
            M == Anc[n] \ Anc[f]
<1>1. /\ UNCHANGED <<valid, received, linked, seqId, tip, linkQueue, abc, inv, wanted, partial>>
      /\ abc.pc = "find" /\ Moving /\ abc.mostWork = None
      /\ candidates' = candidates \ Unusable(n, f)
  BY DEF FindMostWorkChainDiscard, Moving, threadVars, callVars
<1>2. /\ n \in Blocks /\ f \in Anc[n] /\ f \in Blocks /\ Failed(f) /\ unlinked' = unlinked
      /\ status' = Mark(M, {"FAILED_CHILD"})
  BY DiscardFacts
<1>3. linked \subseteq Blocks /\ abc.starting \in Blocks
  BY <1>1, MovingFacts, StateFacts
<1>. HIDE DEF n, f
<1>4. \A b \in Blocks : /\ HaveData(b)' <=> HaveData(b)
                        /\ Failed(b)' <=> Failed(b) \/ b \in M
  BY <1>2 DEF Mark, Failed, HaveData
<1>5. \A b \in Unusable(n, f) : Failed(b)'
  BY <1>2, <1>4, AncDef DEF Unusable
<1>6. Held' /\ Fresh' /\ Ahead'
  BY <1>1, <1>2 DEF JInv, Held, Fresh, Ahead, Reached
<1>7. Kept'
  <2>1. received \subseteq Blocks
    BY StateFacts
  <2>. QED BY <1>1, <1>4, <2>1 DEF JInv, Kept
<1>8. NotWorse' /\ Settled'
  BY <1>1 DEF JInv, NotWorse, Settled
<1>9. Complete'
  <2>1. ASSUME NEW b \in linked, ~Failed(b)', b \in candidates
        PROVE  b \in candidates'
    BY <1>1, <1>5, <2>1
  <2>2. \A b \in linked : ~Failed(b)' => ~Failed(b)
    BY <1>3, <1>4
  <2>. QED BY <1>1, <2>1, <2>2 DEF JInv, Complete, Moving
<1>10. Goal'
  <2>1. /\ abc.starting \in linked /\ \A a \in Anc[abc.starting] : ~Failed(a) /\ a \in Connectable
        /\ ~Worse(abc.starting, tip, seqId)
    BY <1>1 DEF JInv, Goal
  <2>2. M \cap Anc[abc.starting] = {}
    BY <1>2, <1>3, <2>1, AboveIsOutside
  <2>3. \A a \in Anc[abc.starting] : ~Failed(a)'
    BY <1>3, <1>4, <2>1, <2>2, AncDef
  <2>. QED BY <1>1, <2>1, <2>3 DEF Goal
<1>. QED BY <1>6, <1>7, <1>8, <1>9, <1>10 DEF JInv

\* What a step that is complete with respect to where the section started leaves
\* to show.
LEMMA AfterStepFacts ==
    ASSUME NEW t \in Blocks, seqId \in [Blocks -> Int], abc.starting \in Blocks
    PROVE  /\ AfterStep(t) = "find" => ~Worse(abc.starting, t, seqId)
           /\ AfterStep(t) = "released" => ~Worse(t, abc.starting, seqId)
           /\ AfterStep(t) \in {"find", "released"}
BY WorseTotal DEF AfterStep

\* DisconnectTip read the block from disk, so it has its data.
LEMMA JDisconnectStep ==
    ASSUME IInv, JInv, AbcDisconnect
    PROVE  JInv' /\ (abc'.pc = "released" => ~Worse(tip', abc.starting, seqId'))
<1>1. /\ UNCHANGED <<valid, status, received, linked, seqId, unlinked, candidates, linkQueue, inv,
                     wanted, partial>>
      /\ abc.pc = "step" /\ tip \notin Anc[abc.mostWork] /\ tip' = Prev[tip] /\ Moving
      /\ HaveData(tip)
      /\ abc' = IF tip' = abc.mostWork
                THEN [abc EXCEPT !.pc = AfterStep(tip'), !.connected = TRUE] ELSE abc
  BY DEF AbcDisconnect, Moving, CanDisconnect, HaveData, indexVars, callVars
<1>2. /\ linkQueue = <<>> /\ Range(linkQueue) = {} /\ abc.starting \in Blocks /\ abc \in Locals
      /\ tip \in Blocks /\ seqId \in [Blocks -> Int] /\ linked \subseteq Blocks
      /\ candidates \subseteq Blocks /\ abc.mostWork # None /\ abc.mostWork \in Blocks /\ inv = None
  BY <1>1, MovingFacts, StateFacts DEF IInv, Locked, Locals
<1>3. tip # Genesis /\ tip' \in Blocks /\ Anc[tip] = {tip} \cup Anc[tip'] /\ tip' \in Anc[tip]
  BY <1>1, <1>2, AncClosed, AncDef, PrevType, SMT
<1>4. ~Worse(abc.starting, tip, seqId) /\ ~Worse(tip, tip', seqId)
  BY <1>1, <1>2, <1>3, WorseTotal DEF JInv, Goal
<1>5. \A b \in Blocks : /\ ~Worse(b, tip, seqId) => ~Worse(b, tip', seqId)
                        /\ ~Worse(b, abc.starting, seqId) => ~Worse(b, tip, seqId)
  BY <1>2, <1>3, <1>4, WorseTotal
<1>6. PICK t \in Blocks : t = tip'
  BY <1>3
<1>7. /\ abc'.mostWork = abc.mostWork /\ abc'.starting = abc.starting
      /\ abc'.pc = "step" \/ (abc'.pc = AfterStep(t) /\ t = abc.mostWork)
  <2>1. abc' = IF t = abc.mostWork
               THEN [abc EXCEPT !.pc = AfterStep(t), !.connected = TRUE] ELSE abc
    BY <1>1, <1>6
  <2>. QED BY <1>1, <1>2, <2>1 DEF Locals
<1>8. /\ abc'.pc = "find" => ~Worse(abc.starting, t, seqId)
      /\ abc'.pc = "released" => ~Worse(t, abc.starting, seqId)
      /\ abc'.pc \in {"step", "find", "released"}
  BY <1>2, <1>7, AfterStepFacts
<1>9. Held' /\ Fresh' /\ NotWorse'
  BY <1>1, <1>2, <1>5 DEF JInv, Held, Fresh, NotWorse, Reached
<1>10. Kept'
  <2>1. \A b \in received : HaveData(b) \/ b \in Anc[tip']
    BY <1>1, <1>3 DEF JInv, Kept
  <2>2. \A b : HaveData(b)' <=> HaveData(b)
    BY <1>1 DEF HaveData
  <2>3. Range(linkQueue)' = {}
    BY <1>1, <1>2
  <2>. QED BY <1>1, <2>1, <2>2, <2>3 DEF JInv, Kept
<1>11. Complete'
  <2>1. ASSUME NEW b \in linked, ~Failed(b), ~Worse(b, t, seqId), ~partial,
               abc'.pc \in {"find", "step"} => ~Worse(b, abc.starting, seqId)
        PROVE  b \in candidates
    <3>1. ~Worse(b, abc.starting, seqId)
      BY <1>2, <1>8, <2>1, WorseTotal
    <3>2. ~Worse(b, tip, seqId)
      BY <1>2, <1>5, <3>1
    <3>3. abc.pc # "fatal" /\ Complete
      BY <1>1 DEF JInv
    <3>. QED BY <1>2, <2>1, <3>1, <3>2, <3>3, ZenonT(30) DEF Complete
  <2>2. \A b : Failed(b)' <=> Failed(b)
    BY <1>1 DEF Failed
  <2>. QED BY <1>1, <1>6, <1>7, <2>1, <2>2, ZenonT(30) DEF Complete, Moving
<1>12. Goal'
  <2>1. /\ abc.starting \in linked /\ \A a \in Anc[abc.starting] : ~Failed(a) /\ a \in Connectable
        /\ ~partial => ~Worse(abc.mostWork, abc.starting, seqId)
    BY <1>1, <1>2 DEF JInv, Goal
  <2>2. ~Worse(abc.starting, t, seqId)
    BY <1>2, <1>4, <1>5, <1>6
  <2>. QED BY <1>1, <1>6, <1>7, <2>1, <2>2, SMTT(30) DEF Goal, Failed
<1>13. Ahead'
  BY <1>2, <1>6, <1>7, AncClosed DEF Ahead
<1>14. Settled'
  BY <1>1, <1>2, <1>7, <1>8 DEF JInv, Settled
<1>. QED BY <1>1, <1>6, <1>8, <1>9, <1>10, <1>11, <1>12, <1>13, <1>14, ZenonT(30) DEF JInv

\* PruneBlockIndexCandidates drops what is worse than the new tip only.
LEMMA JConnectStep ==
    ASSUME IInv, JInv, AbcConnect
    PROVE  JInv' /\ (abc'.pc = "released" => ~Worse(tip', abc.starting, seqId'))
<1>. DEFINE n == NextBlock
<1>1. /\ UNCHANGED <<received, linked, seqId, unlinked, linkQueue, inv, wanted, partial>>
      /\ abc.pc = "step" /\ tip \in Anc[abc.mostWork] /\ tip' = n /\ Moving
      /\ status' = Mark({n}, {"HAVE_UNDO"})
      /\ valid' = [valid EXCEPT ![n] = IF Failed(n) THEN @ ELSE SCRIPTS]
      /\ candidates' = {c \in candidates : ~Worse(c, n, seqId)}
      /\ abc' = IF Work[n] > Work[abc.old] \/ n = abc.mostWork
                THEN [abc EXCEPT !.pc = AfterStep(n), !.connected = TRUE] ELSE abc
  BY DEF AbcConnect, Moving, PruneBlockIndexCandidates, callVars
<1>2. /\ linkQueue = <<>> /\ Range(linkQueue) = {} /\ abc.starting \in Blocks /\ abc \in Locals
      /\ tip \in Blocks /\ seqId \in [Blocks -> Int] /\ linked \subseteq Blocks /\ inv = None
      /\ candidates \subseteq Blocks /\ abc.mostWork # None /\ abc.mostWork \in Blocks
      /\ received \subseteq Blocks /\ valid \in [Blocks -> Nat]
  BY <1>1, MovingFacts, StateFacts DEF IInv, Locked, Locals, Typed, TypedBlocks
<1>3. /\ n \in Blocks /\ Anc[n] = {n} \cup Anc[tip] /\ n \in Anc[abc.mostWork] /\ tip \in Anc[n]
      /\ ~Failed(n)
  <2>1. abc.mostWork # tip
    BY <1>1 DEF IInv, Locked
  <2>2. n \in Anc[abc.mostWork]
    BY <1>1, <1>2, <2>1, NextOnBranch DEF NextBlock
  <2>. QED BY <1>1, <1>2, <2>2, NextBlockFacts, StateFacts
<1>. HIDE DEF n
<1>4. /\ \A b \in Blocks : (HaveData(b)' <=> HaveData(b)) /\ (Failed(b)' <=> Failed(b))
      /\ \A b \in received : valid[b] >= TRANSACTIONS => valid'[b] >= TRANSACTIONS
  BY <1>1, <1>2, <1>3, SMT DEF Mark, HaveData, Failed, SCRIPTS, TRANSACTIONS
<1>5. ~Worse(n, tip, seqId)
  BY <1>2, <1>3, WorseTotal
<1>7. /\ abc'.mostWork = abc.mostWork /\ abc'.starting = abc.starting
      /\ abc'.pc = "step" \/ abc'.pc = AfterStep(n)
  BY <1>1, <1>2 DEF Locals
<1>8. /\ abc'.pc = "find" => ~Worse(abc.starting, n, seqId)
      /\ abc'.pc = "released" => ~Worse(n, abc.starting, seqId)
      /\ abc'.pc \in {"step", "find", "released"}
  BY <1>2, <1>3, <1>7, AfterStepFacts
<1>9. Held' /\ Fresh'
  BY <1>1, <1>2 DEF JInv, Held, Fresh, Reached
<1>10. NotWorse'
  BY <1>1, <1>2 DEF NotWorse
<1>11. Kept'
  <2>1. Range(linkQueue)' = {}
    BY <1>1, <1>2
  <2>. QED BY <1>1, <1>2, <1>3, <1>4, <2>1 DEF JInv, Kept
<1>12. Complete'
  <2>1. ASSUME NEW b \in linked, ~Failed(b), ~Worse(b, n, seqId), ~partial,
               abc'.pc \in {"find", "step"} => ~Worse(b, abc.starting, seqId)
        PROVE  b \in candidates'
    <3>1. ~Worse(b, abc.starting, seqId) /\ ~Worse(b, tip, seqId)
      BY <1>2, <1>3, <1>5, <1>8, <2>1, WorseTotal, ZenonT(30)
    <3>2. abc.pc # "fatal" /\ Complete
      BY <1>1 DEF JInv
    <3>3. b \in candidates
      BY <1>2, <2>1, <3>1, <3>2 DEF Complete
    <3>. QED BY <1>1, <2>1, <3>3
  <2>2. \A b \in linked : Failed(b)' <=> Failed(b)
    BY <1>2, <1>4
  <2>. QED BY <1>1, <1>7, <2>1, <2>2 DEF Complete, Moving
<1>13. Goal'
  <2>1. /\ abc.starting \in linked /\ \A a \in Anc[abc.starting] : ~Failed(a) /\ a \in Connectable
        /\ ~partial => ~Worse(abc.mostWork, abc.starting, seqId)
    BY <1>1, <1>2 DEF JInv, Goal
  <2>2. \A a \in Anc[abc.starting] : ~Failed(a)'
    BY <1>2, <1>4, <2>1, AncDef
  <2>. QED BY <1>1, <1>3, <1>7, <1>8, <2>1, <2>2, SMTT(30) DEF Goal
<1>14. Ahead'
  BY <1>1, <1>3, <1>7 DEF Ahead
<1>15. Settled'
  BY <1>1, <1>2, <1>7, <1>8 DEF JInv, Settled
<1>. QED BY <1>1, <1>8, <1>9, <1>10, <1>11, <1>12, <1>13, <1>14, <1>15, ZenonT(30) DEF JInv

\* The block that fails cannot be on the chain the section started from, whose
\* blocks were all connected before.
LEMMA JConnectInvalidStep ==
    ASSUME IInv, JInv, AbcConnectInvalid
    PROVE  JInv' /\ (abc'.pc = "released" => ~Worse(tip', abc.starting, seqId'))
<1>. DEFINE n == NextBlock
<1>1. /\ UNCHANGED <<valid, received, linked, seqId, unlinked, tip, linkQueue, inv, wanted, partial>>
      /\ abc.pc = "step" /\ tip \in Anc[abc.mostWork] /\ Moving /\ n \notin Connectable
      /\ status' = Mark({n}, {"FAILED_VALID"}) /\ candidates' = candidates \ {n}
      /\ abc' = [abc EXCEPT !.pc = AfterStep(tip), !.mostWork = None, !.connected = TRUE]
  BY DEF AbcConnectInvalid, Moving, callVars
<1>2. /\ linkQueue = <<>> /\ Range(linkQueue) = {} /\ abc.starting \in Blocks /\ abc \in Locals
      /\ tip \in Blocks /\ seqId \in [Blocks -> Int] /\ linked \subseteq Blocks /\ inv = None
      /\ received \subseteq Blocks
  BY <1>1, MovingFacts, StateFacts
<1>3. n \in Blocks
  BY <1>1, NextBlockFacts
<1>. HIDE DEF n
<1>4. \A b \in Blocks : (HaveData(b)' <=> HaveData(b)) /\ (Failed(b)' <=> Failed(b) \/ b = n)
  BY <1>1, <1>3 DEF Mark, HaveData, Failed
<1>7. /\ abc'.mostWork = None /\ abc'.starting = abc.starting /\ abc'.pc = AfterStep(tip)
  BY <1>1, <1>2 DEF Locals
<1>8. /\ abc'.pc = "find" => ~Worse(abc.starting, tip, seqId)
      /\ abc'.pc = "released" => ~Worse(tip, abc.starting, seqId)
      /\ abc'.pc \in {"find", "released"}
  BY <1>2, <1>7, AfterStepFacts
<1>9. Held' /\ Fresh' /\ NotWorse'
  BY <1>1, <1>2 DEF JInv, Held, Fresh, NotWorse, Reached
<1>11. Kept'
  BY <1>1, <1>2, <1>4 DEF JInv, Kept
<1>12. Complete'
  <2>1. ASSUME NEW b \in linked, ~Failed(b)', ~Worse(b, tip, seqId), ~partial,
               abc'.pc = "find" => ~Worse(b, abc.starting, seqId)
        PROVE  b \in candidates'
    <3>1. ~Worse(b, abc.starting, seqId) /\ ~Failed(b) /\ b # n
      BY <1>2, <1>4, <1>8, <2>1, WorseTotal
    <3>2. abc.pc # "fatal" /\ Complete
      BY <1>1 DEF JInv
    <3>3. b \in candidates
      BY <1>2, <2>1, <3>1, <3>2 DEF Complete
    <3>. QED BY <1>1, <3>1, <3>3
  <2>. QED BY <1>1, <1>7, <2>1 DEF Complete, Moving
<1>13. Goal'
  <2>1. /\ abc.starting \in linked /\ \A a \in Anc[abc.starting] : ~Failed(a) /\ a \in Connectable
    BY <1>1 DEF JInv, Goal
  <2>2. \A a \in Anc[abc.starting] : ~Failed(a)'
    BY <1>1, <1>2, <1>4, <2>1, AncDef
  <2>. QED BY <1>1, <1>7, <1>8, <2>1, <2>2, SMTT(30) DEF Goal, Moving
<1>14. Ahead' /\ Settled'
  BY <1>7, <1>8 DEF Ahead, Settled
<1>. QED BY <1>1, <1>8, <1>9, <1>11, <1>12, <1>13, <1>14, ZenonT(30) DEF JInv

-----------------------------------------------------------------------------
(* The operator's calls.                                                     *)

\* Nothing waits to be linked when the operator gets cs_main.
LEMMA FreeFacts ==
    ASSUME IInv, Free
    PROVE  /\ linkQueue = <<>> /\ Range(linkQueue) = {} /\ Reached = linked /\ ~Moving
           /\ abc.pc # "fatal" /\ tip \in linked
<1>1. linkQueue = <<>> /\ ~Moving /\ abc.pc # "fatal"
  BY DEF Free, Moving
<1>. QED BY <1>1, StateFacts, SMT DEF Range

LEMMA JPreciousStep ==
    ASSUME IInv, JInv, NEW b \in Blocks, PreciousBlock(b)
    PROVE  JInv'
<1>1. /\ UNCHANGED <<valid, status, received, linked, unlinked, tip, linkQueue, abc, inv>> /\ Free
  BY DEF PreciousBlock
<1>2. /\ linkQueue = <<>> /\ Range(linkQueue) = {} /\ ~Moving /\ ~Moving' /\ tip \in linked
      /\ linked \subseteq Blocks /\ linked \subseteq received /\ tip \in Blocks
      /\ seqId \in [Blocks -> Int] /\ candidates \subseteq Blocks /\ ~Failed(tip)
  BY <1>1, FreeFacts, StateFacts DEF Moving
<1>3. CASE Work[b] < Work[tip]
  <2>1. UNCHANGED <<seqId, candidates, wanted, partial>>
    BY <1>3 DEF PreciousBlock
  <2>2. \A c \in Blocks : (Failed(c) => Failed(c)') /\ (HaveData(c)' <=> HaveData(c))
    BY <1>1 DEF Failed, HaveData
  <2>. QED BY <1>1, <2>1, <2>2, MarksStep
<1>4. CASE ~ (Work[b] < Work[tip])
  <2>1. PICK z : /\ seqId' = [seqId EXCEPT ![b] = z] /\ wanted'
                 /\ partial' = (partial \/ (b = tip /\ z > seqId[b]))
    BY <1>4 DEF PreciousBlock
  <2>2. /\ IsValid(b, TRANSACTIONS) /\ b \in linked =>
              candidates' = {c \in candidates \cup {b} : ~Worse(c, tip, seqId')}
        /\ ~ (IsValid(b, TRANSACTIONS) /\ b \in linked) => candidates' = candidates \ {b}
    BY <1>4 DEF PreciousBlock, PruneBlockIndexCandidates
  <2>3. seqId' \in [Blocks -> Int]
    BY PreciousStep DEF IInv, Typed, TypedBlocks
  <2>4. z \in Int
    BY <1>2, <2>1, <2>3
  <2>5. \A c \in linked : valid[c] >= TRANSACTIONS
    BY <1>2 DEF JInv, Kept
  <2>6. \A c \in Blocks : b # tip /\ c # b => (Worse(c, tip, seqId') <=> Worse(c, tip, seqId))
    BY <1>2, <2>1 DEF Worse
  <2>7. ~partial' => \A c \in Blocks : b = tip /\ Worse(c, tip, seqId) => Worse(c, tip, seqId')
    <3>0. seqId[tip] \in Int
      BY <1>2
    <3>a. ~partial' /\ b = tip => ~ (z > seqId[tip])
      BY <2>1
    <3>1. ~partial' /\ b = tip => z <= seqId[tip]
      BY <2>4, <3>0, <3>a, SMT
    <3>2. \A c \in Blocks : Work[c] \in Nat /\ Addr[c] \in Nat /\ seqId[c] \in Int
      BY <1>2, WorkDef, TreeAssumption
    <3>. QED BY <1>2, <2>1, <2>4, <3>1, <3>2, SMTT(30) DEF Worse
  <2>8. b = tip => IsValid(b, TRANSACTIONS) /\ b \in linked
    BY <1>2, <2>5 DEF IsValid
  <2>9. NotWorse'
    <3>1. \A c \in candidates' : ~Worse(c, tip, seqId')
      BY <1>2, <2>2, <2>6, <2>8 DEF JInv, NotWorse
    <3>. QED BY <1>1, <1>2, <3>1 DEF NotWorse
  <2>10. Complete'
    <3>1. ASSUME NEW c \in linked, ~partial', inv = None, ~Failed(c), ~Worse(c, tip, seqId')
          PROVE  c \in candidates'
      <4>1. CASE c = b
        BY <1>2, <2>2, <2>5, <3>1, <4>1 DEF IsValid
      <4>2. CASE c # b
        <5>1. ~Worse(c, tip, seqId) /\ ~partial
          BY <1>2, <2>1, <2>6, <2>7, <3>1, <4>2, ZenonT(30)
        <5>2. c \in candidates
          BY <1>1, <1>2, <3>1, <5>1, FreeFacts, ZenonT(30) DEF JInv, Complete
        <5>. QED BY <2>2, <3>1, <4>2, <5>2
      <4>. QED BY <4>1, <4>2
    <3>2. \A c : Failed(c)' <=> Failed(c)
      BY <1>1 DEF Failed
    <3>. QED BY <1>1, <3>1, <3>2 DEF Complete
  <2>11. Held' /\ Fresh' /\ Ahead' /\ Goal' /\ Settled'
    BY <1>1, <1>2, <2>1 DEF JInv, Held, Fresh, Reached, Ahead, Goal, Settled
  <2>12. Kept'
    BY <1>1 DEF JInv, Kept, HaveData
  <2>. QED BY <2>9, <2>10, <2>11, <2>12 DEF JInv
<1>. QED BY <1>3, <1>4

LEMMA JInvalidateStep ==
    ASSUME IInv, JInv, NEW b \in Blocks, InvalidateBlock(b)
    PROVE  JInv'
<1>1. /\ UNCHANGED <<indexVars, chainVars, linkQueue, abc, wanted, partial>>
      /\ linkQueue = <<>> /\ inv = None /\ abc.pc = "idle"
  BY DEF InvalidateBlock, MutexFree, Free
<1>. USE <1>1 DEF indexVars, chainVars
<1>2. Held' /\ Fresh' /\ NotWorse' /\ Goal' /\ Ahead'
  BY DEF JInv, Held, Fresh, NotWorse, Reached, Goal, Moving, Ahead
<1>3. Kept'
  BY DEF JInv, Kept, HaveData
<1>4. Complete' /\ Settled'
  BY DEF JInv, Complete, Settled, Moving, Failed
<1>. QED BY <1>2, <1>3, <1>4 DEF JInv

\* The parent and the blocks of candidate_blocks_by_work are not worse than the
\* new tip.
LEMMA JInvalidateDisconnectStep ==
    ASSUME IInv, JInv, InvalidateDisconnect
    PROVE  JInv'
<1>1. /\ UNCHANGED <<valid, received, linked, seqId, unlinked, linkQueue, abc, wanted, partial>>
      /\ Free /\ inv # None /\ inv.pindex \in Anc[tip] /\ HaveData(tip) /\ tip' = Prev[tip]
      /\ candidates' = (candidates \ {tip}) \cup {Prev[tip]}
                          \cup {c \in inv.byWork : ~Worse(c, Prev[tip], seqId)}
      /\ \E added : inv' = [inv EXCEPT !.byWork = @ \ added, !.toMarkFailed = tip]
  BY DEF InvalidateDisconnect, CanDisconnect, HaveData, callVars
<1>2. /\ linkQueue = <<>> /\ Range(linkQueue) = {} /\ tip \in Blocks /\ seqId \in [Blocks -> Int]
      /\ candidates \subseteq Blocks /\ abc.pc = "idle" /\ abc.mostWork = None
      /\ inv \in [pindex : Blocks \ {Genesis}, toMarkFailed : Blocks, byWork : SUBSET Blocks]
  BY <1>1, FreeFacts, StateFacts DEF IInv, Locked, Typed, TypedLocals
<1>3. tip # Genesis /\ Prev[tip] \in Blocks /\ Anc[tip] = {tip} \cup Anc[Prev[tip]]
      /\ Prev[tip] \in Anc[tip]
  <2>1. tip # Genesis
    BY <1>1, <1>2, AncDef
  <2>. QED BY <1>2, <2>1, AncClosed, AncDef, PrevType, SMTT(30)
<1>4. inv' # None
  <2>1. inv' \in [pindex : Blocks, toMarkFailed : Blocks, byWork : SUBSET Blocks]
    BY <1>1, <1>2
  <2>. QED BY <2>1, ChainstateAssumption
<1>5. Complete' /\ Settled' /\ Goal' /\ Ahead' /\ Held' /\ Fresh'
  BY <1>1, <1>2, <1>4 DEF Complete, Settled, Goal, Moving, Ahead, Held, JInv, Fresh, Reached
<1>6. NotWorse'
  <2>1. ~Worse(tip, Prev[tip], seqId) /\ ~Worse(Prev[tip], Prev[tip], seqId)
    BY <1>2, <1>3, WorseTotal, WorseOrder
  <2>2. \A c \in candidates' : ~Worse(c, Prev[tip], seqId)
    BY <1>1, <1>2, <1>3, <2>1, WorseTotal DEF JInv, NotWorse
  <2>. QED BY <1>1, <1>2, <2>2 DEF NotWorse
<1>7. Kept'
  <2>1. \A b \in Blocks : HaveData(b)' <=> HaveData(b)
    BY <1>2, <1>3 DEF InvalidateDisconnect, Mark, HaveData
  <2>2. \A b \in received : HaveData(b) \/ b \in Anc[tip']
    BY <1>1, <1>3 DEF JInv, Kept
  <2>3. received \subseteq Blocks
    BY StateFacts
  <2>. QED BY <1>1, <1>2, <2>1, <2>2, <2>3, ZenonT(30) DEF JInv, Kept
<1>. QED BY <1>5, <1>6, <1>7 DEF JInv

LEMMA JInvalidateFailStep ==
    ASSUME IInv, JInv, InvalidateFail
    PROVE  JInv'
<1>1. /\ UNCHANGED <<indexVars, chainVars, linkQueue, abc>> /\ wanted' /\ partial'
      /\ linkQueue = <<>> /\ inv # None /\ abc.pc = "idle"
  BY DEF InvalidateFail, Free, IInv, Locked
<1>. USE <1>1 DEF indexVars, chainVars
<1>2. Held' /\ Fresh' /\ NotWorse' /\ Goal' /\ Ahead'
  BY DEF JInv, Held, Fresh, NotWorse, Reached, Goal, Moving, Ahead
<1>3. Kept'
  BY DEF JInv, Kept, HaveData
<1>4. Complete' /\ Settled'
  BY DEF Complete, Settled
<1>. QED BY <1>2, <1>3, <1>4 DEF JInv

\* The last loop of InvalidateBlock looks at every block of m_block_index.
LEMMA JInvalidateFinishStep ==
    ASSUME IInv, JInv, InvalidateFinish
    PROVE  JInv'
<1>. DEFINE b == inv.toMarkFailed
<1>1. /\ UNCHANGED <<valid, received, linked, seqId, unlinked, tip, linkQueue, abc, partial>>
      /\ Free /\ inv # None /\ wanted' /\ status' = Mark({b}, {"FAILED_VALID"})
      /\ candidates' = (candidates \ {b}) \cup {c \in Eligible \ {b} : ~Worse(c, tip, seqId)}
  BY DEF InvalidateFinish, callVars
<1>2. /\ linkQueue = <<>> /\ Range(linkQueue) = {} /\ abc.pc = "idle" /\ abc.mostWork = None
      /\ linked \subseteq Blocks /\ linked \subseteq received /\ received \subseteq index
      /\ b \in Blocks /\ received \subseteq Blocks
  BY <1>1, FreeFacts, StateFacts DEF IInv, Locked, Typed, TypedBlocks, TypedLocals
<1>. HIDE DEF b
<1>3. \A c \in Blocks : (HaveData(c)' <=> HaveData(c)) /\ (Failed(c)' <=> Failed(c) \/ c = b)
  BY <1>1, <1>2 DEF Mark, HaveData, Failed
<1>4. Held' /\ Fresh' /\ Goal' /\ Ahead' /\ Settled'
  BY <1>1, <1>2 DEF JInv, Held, Fresh, Reached, Goal, Moving, Ahead, Settled
<1>5. Kept'
  BY <1>1, <1>2, <1>3 DEF JInv, Kept
<1>6. NotWorse'
  BY <1>1, <1>2 DEF JInv, NotWorse
<1>7. Complete'
  <2>1. ASSUME NEW c \in linked, ~Failed(c)', ~Worse(c, tip, seqId)
        PROVE  c \in candidates'
    <3>1. ~Failed(c) /\ c # b /\ c \in index /\ valid[c] >= TRANSACTIONS
      BY <1>2, <1>3, <2>1 DEF JInv, Kept
    <3>. QED BY <1>1, <2>1, <3>1 DEF Eligible, IsValid
  <2>. QED BY <1>1, <2>1 DEF Complete
<1>. QED BY <1>4, <1>5, <1>6, <1>7 DEF JInv

\* A linked block that is reset is not worse than the tip, and becomes a
\* candidate, unless it is an ancestor of the one reconsidered.
LEMMA JReconsiderStep ==
    ASSUME IInv, JInv, NEW b \in Blocks, ResetBlockFailureFlags(b)
    PROVE  JInv'
<1>. DEFINE below == {d \in index : b \in Anc[d] /\ ~IsValid(d, TRANSACTIONS)}
            R == below \cup {a \in Anc[b] : Failed(a)}
<1>1. /\ UNCHANGED <<valid, received, linked, seqId, unlinked, tip, linkQueue, abc, inv>>
      /\ Free /\ wanted' /\ candidates' = candidates \cup Revived(below) /\ b \in index
      /\ partial' = (partial \/ \E a \in Anc[b] \ {b} : Failed(a))
      /\ status' = [c \in Blocks |-> IF c \in R THEN status[c] \ {"FAILED_VALID", "FAILED_CHILD"}
                                     ELSE status[c]]
  BY DEF ResetBlockFailureFlags, ResetFailed, CanCall
<1>2. /\ linkQueue = <<>> /\ Range(linkQueue) = {} /\ ~Moving /\ ~Moving' /\ abc.pc # "fatal"
      /\ linked \subseteq Blocks /\ linked \subseteq received /\ received \subseteq Blocks
      /\ tip \in Blocks /\ ~Failed(tip) /\ seqId \in [Blocks -> Int] /\ b \in Anc[b]
      /\ index \subseteq Blocks
  BY <1>1, FreeFacts, StateFacts, AncClosed DEF Moving, IInv, Typed, TypedBlocks
<1>3. \A c \in Blocks : (HaveData(c)' <=> HaveData(c)) /\ (Failed(c)' <=> Failed(c) /\ c \notin R)
  <2>. HIDE DEF R
  <2>. QED BY <1>1 DEF HaveData, Failed
<1>4. Held' /\ Fresh' /\ Goal' /\ Ahead' /\ Settled'
  BY <1>1, <1>2 DEF JInv, Held, Fresh, Reached, Goal, Ahead, Settled
<1>5. Kept'
  BY <1>1, <1>2, <1>3 DEF JInv, Kept
<1>6. NotWorse'
  <2>1. \A c \in Revived(below) : ~Worse(c, tip, seqId)
    BY <1>2, WorseTotal DEF Revived
  <2>. QED BY <1>1, <1>2, <2>1 DEF JInv, NotWorse
<1>7. Complete'
  <2>1. ASSUME NEW c \in linked, ~partial', inv = None, ~Failed(c)', ~Worse(c, tip, seqId)
        PROVE  c \in candidates'
    <3>0. ~partial /\ \A a \in Anc[b] \ {b} : ~Failed(a)
      BY <1>1, <2>1
    <3>1. CASE ~Failed(c)
      BY <1>1, <1>2, <2>1, <3>0, <3>1, ZenonT(30) DEF JInv, Complete
    <3>2. CASE Failed(c)
      <4>1. c \in below
        BY <1>1, <1>2, <1>3, <2>1, <3>0, <3>2, ZenonT(30) DEF IsValid
      <4>2. Worse(tip, c, seqId) /\ valid[c] >= TRANSACTIONS
        BY <1>2, <2>1, <3>2, WorseTotal DEF JInv, Kept
      <4>. QED BY <1>1, <2>1, <4>1, <4>2 DEF Revived
    <3>. QED BY <3>1, <3>2
  <2>. QED BY <1>1, <2>1 DEF Complete
<1>. QED BY <1>4, <1>5, <1>6, <1>7 DEF JInv

\* A pruned block is below all forks, so it is in the active chain and does not
\* wait to be linked.
LEMMA PruneFacts ==
    ASSUME PruneBelowForks, IInv, JInv, NEW b \in Blocks, PruneOneBlockFile(b)
    PROVE  BelowForks(b) /\ b \in Anc[tip] /\ unlinked' = unlinked
<1>1. /\ UNCHANGED <<valid, received, linked, seqId, candidates, tip, linkQueue, abc, inv, wanted, partial>>
      /\ linkQueue = <<>> /\ <<"prune", b>> \in Calls /\ Height[b] <= Height[tip] - MaxAhead
      /\ status' = [status EXCEPT ![b] = @ \ {"HAVE_DATA", "HAVE_UNDO"}]
      /\ unlinked' = IF b = Genesis THEN unlinked
                     ELSE [unlinked EXCEPT ![Prev[b]] = Erase(@, b)]
  BY DEF PruneOneBlockFile, CanCall, chainVars, threadVars
<1>2. /\ Range(linkQueue) = {} /\ Reached = linked /\ tip \in Blocks /\ received \subseteq Blocks
      /\ linked \subseteq Blocks /\ Anc[tip] \subseteq linked /\ seqId \in [Blocks -> Int]
      /\ status \in [Blocks -> SUBSET Bits] /\ unlinked \in [Blocks -> Seq(received)]
  BY <1>1, StateFacts, SMTT(30) DEF Range, IInv, Typed, TypedBlocks
<1>3. BelowForks(b) /\ b \in Anc[tip] /\ b \in linked
  <2>1. Height[b] \in Nat /\ Height[tip] \in Nat /\ MaxAhead \in Nat \ {0}
    BY <1>2, HeightDef, ChainstateAssumption
  <2>2. Height[b] + MaxAhead <= Height[tip] /\ ~ (Height[tip] < Height[b]) /\ Height[tip] # Height[b]
    BY <1>1, <2>1, SMT
  <2>3. BelowForks(b)
    BY <1>1, <1>2, <2>2 DEF PruneBelowForks
  <2>4. tip \notin Anc[b]
    BY <2>2, AncHeight
  <2>. QED BY <1>2, <2>3, <2>4 DEF BelowForks
<1>4. unlinked' = unlinked
  <2>1. CASE b = Genesis
    BY <1>1, <2>1
  <2>2. CASE b # Genesis
    <3>1. Prev[b] \in Blocks
      BY <2>2, PrevType
    <3>2. b \notin Range(unlinked[Prev[b]])
      BY <1>2, <1>3, <3>1 DEF JInv, Fresh
    <3>3. Erase(unlinked[Prev[b]], b) = unlinked[Prev[b]]
      <4>. DEFINE w == unlinked[Prev[b]]
      <4>1. w \in Seq(received)
        BY <3>1 DEF IInv, Typed, TypedBlocks
      <4>. HIDE DEF w
      <4>2. \A i \in DOMAIN w : w[i] # b
        BY <3>2 DEF Range, w
      <4>3. Erase(w, b) = w
        BY <4>1, <4>2, EraseFacts
      <4>. QED BY <4>3 DEF w
    <3>. QED BY <1>1, <1>2, <2>2, <3>1, <3>3
  <2>. QED BY <2>1, <2>2
<1>. QED BY <1>3, <1>4

LEMMA JPruneStep ==
    ASSUME PruneBelowForks, IInv, JInv, NEW b \in Blocks, PruneOneBlockFile(b)
    PROVE  JInv'
<1>1. /\ UNCHANGED <<valid, received, linked, seqId, candidates, tip, linkQueue, abc, inv, wanted, partial>>
      /\ status' = [status EXCEPT ![b] = @ \ {"HAVE_DATA", "HAVE_UNDO"}]
  BY DEF PruneOneBlockFile, chainVars, threadVars
<1>2. /\ received \subseteq Blocks /\ linked \subseteq Blocks
      /\ status \in [Blocks -> SUBSET Bits]
  BY StateFacts DEF IInv, Typed, TypedBlocks
<1>3. BelowForks(b) /\ b \in Anc[tip] /\ unlinked' = unlinked
  BY PruneFacts
<1>5. /\ \A c \in Blocks : Failed(c)' <=> Failed(c)
      /\ \A c \in Blocks : c # b => (HaveData(c)' <=> HaveData(c))
  BY <1>1, <1>2 DEF Failed, HaveData
<1>6. Held' /\ Fresh' /\ NotWorse' /\ Ahead' /\ Settled'
  BY <1>1, <1>3 DEF JInv, Held, Fresh, Reached, NotWorse, Ahead, Settled
<1>7. Kept'
  BY <1>1, <1>2, <1>3, <1>5 DEF JInv, Kept
<1>8. Complete'
  BY <1>1, <1>2, <1>5 DEF JInv, Complete, Moving
<1>9. Goal'
  <2>1. Moving => \A a \in Anc[abc.starting] : a \in Blocks
    BY MovingFacts, AncDef
  <2>. QED BY <1>1, <1>5, <2>1 DEF JInv, Goal, Moving
<1>. QED BY <1>6, <1>7, <1>8, <1>9 DEF JInv

-----------------------------------------------------------------------------
(* The theorems.                                                             *)

LEMMA NextJInv ==
    ASSUME PruneBelowForks, IInv, IInv', JInv, [Next]_vars
    PROVE  JInv'
<1>1. CASE UNCHANGED vars
  <2>1. /\ UNCHANGED <<indexVars, chainVars, linkQueue, abc, inv, wanted, partial>>
    BY <1>1 DEF vars, threadVars, callVars
  <2>. USE <2>1 DEF indexVars, chainVars
  <2>2. Held' /\ Fresh' /\ NotWorse' /\ Ahead' /\ Settled'
    BY DEF JInv, Held, Fresh, NotWorse, Reached, Ahead, Settled
  <2>3. Kept' /\ Goal' /\ Complete'
    BY DEF JInv, Kept, HaveData, Goal, Complete, Moving, Failed
  <2>. QED BY <2>2, <2>3 DEF JInv
<1>2. CASE Arrival
  BY <1>2, JHeaderSteps, JStoreStep, JLinkStep DEF Arrival
<1>3. CASE ActivateBestChain
  BY <1>3, JStartSteps, JDiscardStep, JBreakStep, JStepFatalSteps, JDisconnectStep, JConnectStep,
     JConnectInvalidStep, ZenonT(30) DEF ActivateBestChain
<1>4. CASE OperatorCall
  BY <1>4, JInvalidateDisconnectStep, JInvalidateFailStep, JInvalidateFinishStep, JPreciousStep,
     JInvalidateStep, JReconsiderStep, JPruneStep, ZenonT(30) DEF OperatorCall
<1>. QED BY <1>1, <1>2, <1>3, <1>4 DEF Next, Aborted

LEMMA CandidateInvariant ==
    ASSUME PruneBelowForks
    PROVE  Spec => [](IInv /\ JInv)
<1>1. Init => IInv /\ JInv
  BY InitIInv, InitJInv
<1>2. IInv /\ JInv /\ [Next]_vars => (IInv /\ JInv)'
  BY NextIInv, NextJInv
<1>. QED BY <1>1, <1>2, PTL DEF Spec

\* CheckBlockIndex: whenever cs_main is free and no InvalidateBlock is halfway,
\* setBlockIndexCandidates holds exactly the linked blocks with no invalid
\* ancestor that do not sort worse than the tip, for any tree of blocks, order of
\* arrival and operator calls, with pruning if no fork is as deep as
\* MIN_BLOCKS_TO_KEEP (PruneBelowForks).
THEOREM ChainCandidatesExact ==
    ASSUME PruneBelowForks
    PROVE  Spec => []CandidatesExact
<1>1. ASSUME IInv, JInv PROVE CandidatesExact
  <2>1. ASSUME Checkable, ~partial, NEW b \in linked, NoInvalidAncestor(b), ~Worse(b, tip, seqId)
        PROVE  b \in candidates
    <3>1. inv = None /\ ~Moving /\ abc.pc # "fatal" /\ b \in Blocks
      BY <1>1, <2>1, FreeFacts, StateFacts DEF Checkable
    <3>2. ~Failed(b)
      BY <1>1, <2>1, <3>1 DEF IInv, Marked
    <3>. QED BY <1>1, <2>1, <3>1, <3>2 DEF JInv, Complete
  <2>2. Checkable => candidates \subseteq linked
    BY <1>1, StateFacts DEF Checkable, Free
  <2>3. ~partial => CandidatesComplete
    BY <2>1 DEF CandidatesComplete
  <2>. QED BY <1>1, <2>2, <2>3 DEF CandidatesExact, JInv, NotWorse
<1>. QED BY <1>1, CandidateInvariant, PTL

\* "We absolutely may not unlock cs_main until we've made forward progress": a
\* locked section of ActivateBestChain ends on a tip that is not worse than the
\* one it started from, whatever invalid blocks it met on the way, if nothing
\* above a fork is pruned (PruneBelowForks).
THEOREM ChainNoRegress ==
    ASSUME PruneBelowForks
    PROVE  Spec => NoRegress
<1>1. ASSUME IInv, JInv, [Next]_vars, Moving, abc'.pc \notin {"find", "step"}, ~partial,
             abc'.pc # "fatal"
      PROVE  ~Worse(tip', abc.starting, seqId')
  <2>1. abc' # abc
    BY <1>1 DEF Moving
  <2>2. CASE AbcBreak
    BY <1>1, <2>2, JBreakStep
  <2>3. CASE AbcDisconnect \/ AbcConnect \/ AbcConnectInvalid
    <3>1. JInv' /\ (abc'.pc = "released" => ~Worse(tip', abc.starting, seqId'))
      BY <1>1, <2>3, JDisconnectStep, JConnectStep, JConnectInvalidStep, ZenonT(30)
    <3>2. abc'.pc = "released"
      <4>1. IInv'
        BY <1>1, NextIInv
      <4>2. abc'.pc \in {"idle", "find", "step", "released", "fatal"}
        BY <4>1 DEF IInv, Typed, TypedLocals, Locals
      <4>3. abc'.pc = "idle" => FALSE
        <5>1. abc \in Locals
          BY <1>1, StateFacts
        <5>. QED BY <1>1, <2>3, <5>1, AfterStepType, ZenonT(30) DEF AbcDisconnect, AbcConnect, AbcConnectInvalid,
                 Locals, Moving
      <4>. QED BY <1>1, <4>2, <4>3
    <3>. QED BY <3>1, <3>2
  <2>4. ~AbcStart /\ ~AbcLoop /\ ~AbcFatal /\ ~AbcStep /\ ~FindMostWorkChainDiscard
    <3>1. abc \in Locals
      BY <1>1, StateFacts
    <3>2. ~AbcStart /\ ~AbcLoop
      BY <1>1 DEF AbcStart, AbcLoop, Free, Moving
    <3>3. ~AbcFatal /\ ~AbcStep
      BY <1>1, <3>1 DEF AbcFatal, AbcStep, Locals
    <3>4. ~FindMostWorkChainDiscard
      BY <2>1 DEF FindMostWorkChainDiscard, threadVars
    <3>. QED BY <3>2, <3>3, <3>4
  <2>5. CASE ActivateBestChain
    BY <2>2, <2>3, <2>4, <2>5 DEF ActivateBestChain
  <2>6. ~Arrival
    BY <2>1 DEF Arrival, LinkBlock, AcceptBlockHeader, RejectBlockHeader, IgnoreBlock, RejectBlock,
       StoreBlock, threadVars
  <2>7. ~OperatorCall
    BY <2>1 DEF OperatorCall, InvalidateDisconnect, InvalidateFail, InvalidateFinish, PreciousBlock,
       InvalidateBlock, ResetBlockFailureFlags, PruneOneBlockFile, threadVars
  <2>. QED BY <1>1, <2>1, <2>5, <2>6, <2>7, ZenonT(30) DEF Next, Aborted, vars, threadVars
<1>2. IInv /\ JInv /\ [Next]_vars =>
         [abc.pc \in {"find", "step"} /\ abc'.pc \notin {"find", "step"}
             => partial \/ abc'.pc = "fatal" \/ ~Worse(tip', abc.starting, seqId')]_vars
  BY <1>1 DEF Moving
<1>. QED BY <1>2, CandidateInvariant, PTL DEF Spec, NoRegress

\* Whenever no call of ActivateBestChain or InvalidateBlock is running or waiting,
\* the tip is the best of all blocks with a fully received and valid chain: no
\* interleaving of arrivals, sections and operator calls loses the wakeup, if
\* nothing above a fork is pruned (PruneBelowForks).
THEOREM ChainBestWhenSettled ==
    ASSUME PruneBelowForks
    PROVE  Spec => []BestWhenSettled
<1>1. ASSUME IInv, JInv, Checkable, MutexFree, ~wanted, ~partial
      PROVE  tip = BestUsable
  <2>1. /\ inv = None /\ abc.pc = "idle" /\ ~Moving /\ tip \in linked /\ linked \subseteq Blocks
        /\ tip \in Blocks /\ seqId \in [Blocks -> Int] /\ Anc[tip] \subseteq Blocks
    BY <1>1, FreeFacts, StateFacts DEF Checkable, MutexFree
  <2>2. tip \in Usable
    BY <1>1, <2>1 DEF Usable, IInv, Active
  <2>3. ASSUME NEW u \in Usable, Worse(tip, u, seqId)
        PROVE  FALSE
    <3>1. u \in linked /\ u \in Blocks /\ ~Failed(u)
      BY <2>1, AncClosed DEF Usable
    <3>2. ~Worse(u, tip, seqId)
      BY <2>1, <2>3, <3>1, WorseTotal
    <3>3. u \in candidates
      BY <1>1, <2>1, <3>1, <3>2 DEF JInv, Complete
    <3>. QED BY <1>1, <2>1, <2>3, <3>3 DEF JInv, Settled
  <2>4. /\ BestUsable \in Usable /\ ~Worse(BestUsable, tip, seqId) /\ BestUsable \in Blocks
    <3>1. \E b \in Usable : \A c \in Usable : ~Worse(b, c, seqId)
      BY <2>2, <2>3
    <3>2. BestUsable \in Usable /\ \A c \in Usable : ~Worse(BestUsable, c, seqId)
      BY <3>1 DEF BestUsable
    <3>. QED BY <2>1, <2>2, <3>2 DEF Usable
  <2>. QED BY <2>1, <2>3, <2>4, WorseTotal
<1>2. IInv /\ JInv => BestWhenSettled
  BY <1>1 DEF BestWhenSettled
<1>. QED BY <1>2, CandidateInvariant, PTL

-----------------------------------------------------------------------------
(* Linking, while nobody calls InvalidateBlock or ResetBlockFailureFlags.    *)

NoReset == Calls \subseteq {"precious", "prune"} \X Blocks

\* b was dropped or marked because a block it is built on is invalid and was never
\* received.
Blocked(b) == \E x \in Anc[b] : x \notin received /\ Failed(x) /\ ~NoInvalidAncestor(x)

\* A received block that is not linked waits for its parent or will never be
\* linked; nothing waits for a linked block.
KInv ==
    /\ inv = None /\ counters.reverse < 0
    /\ \A b \in index : valid[b] >= TREE
    /\ \A b \in Blocks : seqId[b] > 0 => b \in Reached
    /\ failedBlocks \subseteq Reached
    /\ \A p \in linked : unlinked[p] = <<>>
    /\ \A b \in Blocks : Failed(b) /\ b \notin Reached => Blocked(b)
    /\ \A b \in received \ Reached : b \in Range(unlinked[Prev[b]]) \/ Blocked(b)

LEMMA InitKInv == Init => KInv
<1>. SUFFICES ASSUME Init PROVE KInv
  OBVIOUS
<1>1. Genesis \in Blocks
  BY TreeAssumption
<1>2. Reached = {Genesis} /\ linked = {Genesis} /\ received = {Genesis} /\ index = {Genesis}
  BY SMT DEF Init, Reached, Range
<1>3. \A b \in Blocks : ~Failed(b)
  BY DEF Init, Failed
<1>4. \A b \in Blocks : seqId[b] > 0 => b = Genesis
  BY SMT DEF Init
<1>5. valid[Genesis] >= TREE /\ counters.reverse < 0 /\ inv = None /\ failedBlocks = {}
  BY <1>1, SMT DEF Init, SCRIPTS, TREE
<1>6. unlinked[Genesis] = <<>>
  BY <1>1 DEF Init
<1>. QED BY <1>2, <1>3, <1>4, <1>5, <1>6 DEF KInv

\* The first block of a branch that is not reached was never received.
LEMMA FirstMissing ==
    ASSUME IInv, KInv, linkQueue = <<>>, NEW c \in Blocks, c \notin Reached
    PROVE  \E x \in Anc[c] : x \notin received
<1>. DEFINE S == {d \in Blocks : d \notin Reached =>
                     \E x \in Anc[d] : x \notin Reached /\ x # Genesis /\ Prev[x] \in Reached}
<1>1. /\ Genesis \in Reached /\ Reached = linked /\ Reached \subseteq received
      /\ received \subseteq Blocks /\ \A d \in Reached : Anc[d] \subseteq Reached
  BY StateFacts, ReachedFacts DEF IInv, Chained
<1>2. Genesis \in S
  BY <1>1, TreeAssumption
<1>3. ASSUME NEW d \in Blocks \ {Genesis}, Prev[d] \in S
      PROVE  d \in S
  <2>1. Anc[d] = {d} \cup Anc[Prev[d]]
    BY AncDef
  <2>. QED BY <1>3, <2>1
<1>4. S \in SUBSET Blocks
  OBVIOUS
<1>. HIDE DEF S
<1>5. S = Blocks
  BY <1>2, <1>3, <1>4, TreeInduction
<1>6. PICK x \in Anc[c] : x \notin Reached /\ x # Genesis /\ Prev[x] \in Reached
  BY <1>5 DEF S
<1>7. x \in Blocks /\ Anc[x] = {x} \cup Anc[Prev[x]]
  BY <1>6, AncDef
<1>8. ASSUME x \in received
      PROVE  FALSE
  <2>1. unlinked[Prev[x]] = <<>>
    BY <1>1, <1>6 DEF KInv
  <2>2. Blocked(x)
    BY <1>6, <1>8, <2>1, SMTT(30) DEF KInv, Range
  <2>. QED BY <1>1, <1>6, <1>7, <1>8, <2>2, ZenonT(30) DEF Blocked
<1>. QED BY <1>6, <1>8

\* A step that neither receives nor links a block.
LEMMA KMarks ==
    ASSUME IInv, IInv', KInv, UNCHANGED <<received, linked, linkQueue, unlinked, inv>>,
           counters'.reverse < 0, failedBlocks' \subseteq Reached,
           \A b \in index' : b \in index \/ valid'[b] >= TREE,
           \A b \in index : valid[b] >= TREE => valid'[b] >= TREE,
           \A b \in Blocks : seqId'[b] > 0 => seqId[b] > 0,
           \A b \in Blocks : /\ Failed(b) => Failed(b)'
                             /\ "FAILED_VALID" \in status[b] => "FAILED_VALID" \in status'[b],
           \A b \in Blocks \ Reached : Failed(b)' => Failed(b) \/ Blocked(b)'
    PROVE  KInv'
<1>1. Reached' = Reached
  BY DEF Reached
<1>2. received \subseteq Blocks
  BY StateFacts
<1>3. \A b \in Blocks : Blocked(b) => Blocked(b)'
  <2>1. \A b \in Blocks : Anc[b] \subseteq Blocks
    BY AncDef
  <2>2. \A b \in Blocks : ~NoInvalidAncestor(b) => ~NoInvalidAncestor(b)'
    BY <2>1 DEF NoInvalidAncestor
  <2>. QED BY <2>1, <2>2 DEF Blocked
<1>4. /\ inv' = None /\ \A b \in index' : valid'[b] >= TREE
      /\ \A p \in linked' : unlinked'[p] = <<>>
  BY DEF KInv
<1>5. /\ \A b \in Blocks : seqId'[b] > 0 => b \in Reached'
      /\ failedBlocks' \subseteq Reached'
  BY <1>1 DEF KInv
<1>6. \A b \in Blocks : Failed(b)' /\ b \notin Reached' => Blocked(b)'
  BY <1>1, <1>3 DEF KInv
<1>7. \A b \in received' \ Reached' : b \in Range(unlinked[Prev[b]])' \/ Blocked(b)'
  BY <1>1, <1>2, <1>3 DEF KInv
<1>. QED BY <1>4, <1>5, <1>6, <1>7 DEF KInv

LEMMA KHeaderSteps ==
    ASSUME IInv, IInv', KInv, NEW b \in Blocks \ {Genesis}, NEW r \in BOOLEAN,
           AcceptBlockHeader(b) \/ IgnoreBlock(b, r)
    PROVE  KInv'
<1>1. /\ UNCHANGED <<received, linked, linkQueue, unlinked, inv, status, failedBlocks, counters, seqId>>
      /\ index' = index \cup {b}
      /\ valid' = [valid EXCEPT ![b] = IF b \in index THEN @ ELSE TREE]
  BY DEF AcceptBlockHeader, IgnoreBlock, AddToBlockIndex, threadVars
<1>2. valid \in [Blocks -> Nat] /\ index \subseteq Blocks
  BY DEF IInv, Typed, TypedBlocks
<1>3. /\ \A c \in index' : c \in index \/ valid'[c] >= TREE
      /\ \A c \in index : valid[c] >= TREE => valid'[c] >= TREE
  BY <1>1, <1>2, SMT DEF TREE
<1>4. counters'.reverse < 0 /\ failedBlocks' \subseteq Reached
  BY <1>1 DEF KInv
<1>5. \A c \in Blocks : Failed(c)' <=> Failed(c)
  BY <1>1 DEF Failed
<1>. QED BY <1>1, <1>3, <1>4, <1>5, KMarks, ZenonT(30)

\* The blocks between a failed one and a new header are linked, or built on one
\* that was never received.
LEMMA KRejectHeaderStep ==
    ASSUME IInv, IInv', KInv, NEW b \in Blocks \ {Genesis}, RejectBlockHeader(b)
    PROVE  KInv'
<1>1. /\ UNCHANGED <<received, linked, linkQueue, unlinked, inv, failedBlocks, counters, seqId,
                     index, valid>>
      /\ linkQueue = <<>>
  BY DEF RejectBlockHeader, Free, markVars, threadVars
<1>2. PICK f \in FailedAbove(b) : status' = Mark(Anc[Prev[b]] \ Anc[f], {"FAILED_CHILD"})
  BY DEF RejectBlockHeader
<1>. DEFINE M == Anc[Prev[b]] \ Anc[f]
<1>3. /\ Prev[b] \in Blocks /\ f \in Anc[Prev[b]] /\ f \in failedBlocks /\ f \in Reached
      /\ "FAILED_VALID" \in status[f] /\ f \in Blocks
  BY <1>2, PrevType, AncDef DEF FailedAbove, KInv, IInv, Marked
<1>4. Anc[f] \subseteq Reached /\ Reached \subseteq received
  BY <1>3, ReachedFacts DEF IInv
<1>5. \A c \in Blocks : /\ Failed(c)' <=> Failed(c) \/ c \in M
                        /\ "FAILED_VALID" \in status'[c] <=> "FAILED_VALID" \in status[c]
  BY <1>2 DEF Failed, Mark
<1>6. ASSUME NEW c \in Blocks \ Reached, c \in M
      PROVE  Blocked(c)'
  <2>1. PICK x \in Anc[c] : x \notin received
    BY <1>1, FirstMissing
  <2>2. x \in M /\ x \in Blocks
    BY <1>3, <1>4, <1>6, <2>1, AncClosed, AncDef, SMTT(30)
  <2>3. f \in Anc[x]
    BY <1>3, <2>2, AncLine
  <2>4. Failed(x)' /\ ~NoInvalidAncestor(x)'
    BY <1>3, <1>5, <2>2, <2>3 DEF NoInvalidAncestor
  <2>. QED BY <1>1, <2>1, <2>4 DEF Blocked
<1>7. \A c \in Blocks \ Reached : Failed(c)' => Failed(c) \/ Blocked(c)'
  BY <1>5, <1>6
<1>8. counters'.reverse < 0 /\ failedBlocks' \subseteq Reached
  BY <1>1 DEF KInv
<1>. QED BY <1>1, <1>5, <1>7, <1>8, KMarks, ZenonT(30)

LEMMA KRejectStep ==
    ASSUME IInv, IInv', KInv, NEW b \in Blocks \ {Genesis}, NEW r \in BOOLEAN, RejectBlock(b, r)
    PROVE  KInv'
<1>1. /\ UNCHANGED <<received, linked, linkQueue, unlinked, inv, failedBlocks, counters, seqId>>
      /\ status' = Mark({b}, {"FAILED_VALID"}) /\ index' = index \cup {b} /\ b \notin WellFormed
      /\ valid' = [valid EXCEPT ![b] = IF b \in index THEN @ ELSE TREE]
  BY DEF RejectBlock, AddToBlockIndex, threadVars
<1>2. valid \in [Blocks -> Nat] /\ index \subseteq Blocks /\ b \notin received /\ b \in Anc[b]
  BY <1>1, AncClosed DEF IInv, Typed, TypedBlocks, Stored
<1>3. /\ \A c \in index' : c \in index \/ valid'[c] >= TREE
      /\ \A c \in index : valid[c] >= TREE => valid'[c] >= TREE
  BY <1>1, <1>2, SMTT(30) DEF TREE
<1>4. counters'.reverse < 0 /\ failedBlocks' \subseteq Reached
  BY <1>1 DEF KInv
<1>5. \A c \in Blocks : /\ Failed(c)' <=> Failed(c) \/ c = b
                        /\ "FAILED_VALID" \in status'[c] <=> "FAILED_VALID" \in status[c] \/ c = b
  BY <1>1 DEF Failed, Mark
<1>6. Blocked(b)'
  BY <1>1, <1>2, <1>5 DEF Blocked, NoInvalidAncestor
<1>. QED BY <1>1, <1>3, <1>4, <1>5, <1>6, KMarks, ZenonT(30)

LEMMA KLocalsSteps ==
    ASSUME IInv, IInv', KInv, AbcStart \/ AbcLoop \/ AbcBreak \/ AbcStep \/ AbcDisconnect \/ AbcFatal
    PROVE  KInv'
<1>1. UNCHANGED <<received, linked, linkQueue, unlinked, inv, status, failedBlocks, counters, seqId,
                  index, valid>>
  BY DEF AbcStart, AbcLoop, AbcBreak, AbcStep, AbcDisconnect, AbcFatal, indexVars, markVars
<1>2. counters'.reverse < 0 /\ failedBlocks' \subseteq Reached
  BY <1>1 DEF KInv
<1>3. \A c \in Blocks : Failed(c)' <=> Failed(c)
  BY <1>1 DEF Failed
<1>. QED BY <1>1, <1>2, <1>3, KMarks

LEMMA KDiscardStep ==
    ASSUME IInv, IInv', JInv, KInv, FindMostWorkChainDiscard
    PROVE  KInv'
<1>1. /\ UNCHANGED <<received, linked, linkQueue, inv, failedBlocks, counters, seqId, index, valid>>
  BY DEF FindMostWorkChainDiscard, threadVars
<1>2. PICK M : M \subseteq linked /\ status' = Mark(M, {"FAILED_CHILD"}) /\ unlinked' = unlinked
  <2>1. Anc[BestCandidate] \ Anc[FirstFailed(BestCandidate)] \subseteq linked
    BY DiscardFacts
  <2>. QED BY <2>1, DiscardFacts
<1>3. counters'.reverse < 0 /\ failedBlocks' \subseteq Reached
  BY <1>1 DEF KInv
<1>4. \A c \in Blocks : /\ Failed(c)' <=> Failed(c) \/ c \in M
                        /\ "FAILED_VALID" \in status'[c] <=> "FAILED_VALID" \in status[c]
  BY <1>2 DEF Failed, Mark
<1>5. \A c \in Blocks \ Reached : Failed(c)' => Failed(c)
  BY <1>2, <1>4 DEF Reached
<1>. QED BY <1>1, <1>2, <1>3, <1>4, <1>5, KMarks, ZenonT(30)

LEMMA KConnectSteps ==
    ASSUME IInv, IInv', KInv, AbcConnect \/ AbcConnectInvalid
    PROVE  KInv'
<1>. DEFINE n == NextBlock
<1>1. /\ UNCHANGED <<received, linked, linkQueue, unlinked, inv, counters, seqId, index>>
      /\ abc.pc = "step" /\ tip \in Anc[abc.mostWork] /\ failedBlocks' \subseteq failedBlocks \cup {n}
      /\ \E bits \in SUBSET Bits : status' = Mark({n}, bits)
      /\ valid' = valid \/ valid' = [valid EXCEPT ![n] = IF Failed(n) THEN @ ELSE SCRIPTS]
  BY DEF AbcConnect, AbcConnectInvalid, markVars, Bits
<1>2. n \in Reached /\ valid \in [Blocks -> Nat] /\ index \subseteq Blocks
  BY <1>1, NextBlockFacts DEF IInv, Typed, TypedBlocks
<1>. HIDE DEF n
<1>3. counters'.reverse < 0 /\ failedBlocks' \subseteq Reached
  BY <1>1, <1>2 DEF KInv
<1>4. \A c \in index : valid[c] >= TREE => valid'[c] >= TREE
  <2>. SUFFICES ASSUME NEW c \in index, valid[c] >= TREE PROVE valid'[c] >= TREE
    OBVIOUS
  <2>1. c \in Blocks /\ (valid'[c] = valid[c] \/ valid'[c] = SCRIPTS)
    <3>1. CASE valid' = valid
      BY <1>2, <3>1
    <3>2. CASE valid' = [valid EXCEPT ![n] = IF Failed(n) THEN @ ELSE SCRIPTS]
      BY <1>2, <3>2
    <3>. QED BY <1>1, <3>1, <3>2
  <2>. QED BY <2>1, SMT DEF SCRIPTS, TREE
<1>5. \A c \in Blocks : /\ Failed(c) => Failed(c)'
                        /\ c # n => (Failed(c)' <=> Failed(c))
                        /\ "FAILED_VALID" \in status[c] => "FAILED_VALID" \in status'[c]
  BY <1>1 DEF Failed, Mark
<1>. QED BY <1>1, <1>2, <1>3, <1>4, <1>5, KMarks, ZenonT(30)

LEMMA KPreciousStep ==
    ASSUME IInv, IInv', KInv, NEW b \in Blocks, PreciousBlock(b)
    PROVE  KInv'
<1>1. UNCHANGED <<received, linked, linkQueue, unlinked, inv, failedBlocks, status, index, valid>>
  BY DEF PreciousBlock, markVars
<1>2. counters.reverse \in Int /\ counters.reverse < 0 /\ seqId \in [Blocks -> Int]
  BY DEF KInv, IInv, Typed, TypedBlocks, TypedLocals
<1>3. counters'.reverse < 0 /\ \A c \in Blocks : seqId'[c] > 0 => seqId[c] > 0
  <2>1. CASE Work[b] < Work[tip]
    BY <1>2, <2>1 DEF PreciousBlock
  <2>2. CASE ~ (Work[b] < Work[tip])
    <3>1. PICK z : /\ z = (IF Work[tip] > counters.lastPrecious THEN -1 ELSE counters.reverse)
                   /\ seqId' = [seqId EXCEPT ![b] = z]
                   /\ counters' = [counters EXCEPT !.reverse = z - 1, !.lastPrecious = Work[tip]]
      BY <2>2 DEF PreciousBlock
    <3>2. z \in Int /\ z < 0
      BY <1>2, <3>1, SMT
    <3>3. counters \in [sequence : Int, reverse : Int, lastPrecious : Int]
      BY DEF IInv, Typed, TypedLocals
    <3>. QED BY <1>2, <3>1, <3>2, <3>3, SMTT(30)
  <2>. QED BY <2>1, <2>2
<1>4. \A c \in Blocks : Failed(c)' <=> Failed(c)
  BY <1>1 DEF Failed
<1>5. failedBlocks' \subseteq Reached
  BY <1>1 DEF KInv
<1>. QED BY <1>1, <1>3, <1>4, <1>5, KMarks, ZenonT(30)

LEMMA KPruneStep ==
    ASSUME PruneBelowForks, IInv, IInv', JInv, KInv, NEW b \in Blocks, PruneOneBlockFile(b)
    PROVE  KInv'
<1>1. /\ UNCHANGED <<received, linked, linkQueue, inv, failedBlocks, counters, seqId, index, valid>>
      /\ status' = [status EXCEPT ![b] = @ \ {"HAVE_DATA", "HAVE_UNDO"}]
  BY DEF PruneOneBlockFile, markVars, threadVars
<1>2. unlinked' = unlinked
  BY PruneFacts
<1>3. status \in [Blocks -> SUBSET Bits]
  BY DEF IInv, Typed, TypedBlocks
<1>4. \A c \in Blocks : /\ Failed(c)' <=> Failed(c)
                        /\ "FAILED_VALID" \in status'[c] <=> "FAILED_VALID" \in status[c]
  BY <1>1, <1>3 DEF Failed
<1>5. counters'.reverse < 0 /\ failedBlocks' \subseteq Reached
  BY <1>1 DEF KInv
<1>. QED BY <1>1, <1>2, <1>4, <1>5, KMarks, ZenonT(30)

\* A block that is stored has no failed mark; it waits for its parent unless that
\* one is blocked.
LEMMA KStoreStep ==
    ASSUME IInv, IInv', KInv, NEW b \in Blocks \ {Genesis}, NEW r \in BOOLEAN, StoreBlock(b, r)
    PROVE  KInv'
<1>1. /\ UNCHANGED <<inv, seqId, counters, failedBlocks>>
      /\ linkQueue = <<>> /\ HeaderAccepted(b) /\ index' = index \cup {b}
      /\ received' = received \cup {b} /\ status' = Mark({b}, {"HAVE_DATA"})
      /\ linked' = linked \ {b}
      /\ valid' = [valid EXCEPT ![b] = IF @ < TRANSACTIONS THEN TRANSACTIONS ELSE @]
  BY DEF StoreBlock, AddToBlockIndex, Free
<1>2. /\ Prev[b] \in linked => linkQueue' = <<b>> /\ unlinked' = unlinked
      /\ Prev[b] \notin linked /\ IsValid(Prev[b], TREE) =>
            linkQueue' = linkQueue /\ unlinked' = [unlinked EXCEPT ![Prev[b]] = Append(@, b)]
      /\ Prev[b] \notin linked /\ ~IsValid(Prev[b], TREE) =>
            linkQueue' = linkQueue /\ unlinked' = unlinked
  BY DEF StoreBlock
<1>3. /\ Reached = linked /\ received \subseteq Blocks /\ linked \subseteq Blocks
      /\ valid \in [Blocks -> Nat] /\ index \subseteq Blocks /\ Prev[b] \in Blocks
      /\ unlinked \in [Blocks -> Seq(received)]
  BY <1>1, StateFacts, PrevType, ZenonT(30) DEF IInv, Typed, TypedBlocks
<1>4. ~Failed(b) /\ Prev[b] \in index /\ (b \in linked => Prev[b] \in linked)
  BY <1>1, <1>3 DEF HeaderAccepted, IInv, Stored, Chained
<1>5. \A c \in Blocks : /\ Failed(c)' <=> Failed(c)
                        /\ "FAILED_VALID" \in status'[c] <=> "FAILED_VALID" \in status[c]
  BY <1>1 DEF Failed, Mark
<1>6. \A c \in Blocks : Blocked(c) => Blocked(c)'
  <2>1. \A c \in Blocks : Anc[c] \subseteq Blocks
    BY AncDef
  <2>2. \A c \in Blocks : ~NoInvalidAncestor(c) => ~NoInvalidAncestor(c)'
    BY <1>5, <2>1 DEF NoInvalidAncestor
  <2>. QED BY <1>1, <1>4, <1>5, <2>1, <2>2, ZenonT(30) DEF Blocked
<1>7. /\ inv' = None /\ counters'.reverse < 0
      /\ \A c \in index' : valid'[c] >= TREE
  <2>1. inv' = None /\ counters'.reverse < 0 /\ \A c \in index : valid[c] >= TREE
    BY <1>1 DEF KInv
  <2>2. \A c \in Blocks : /\ c # b => valid'[c] = valid[c]
                          /\ c = b => valid'[c] >= TRANSACTIONS
    BY <1>1, <1>3, SMTT(30) DEF TRANSACTIONS
  <2>. QED BY <1>1, <1>3, <2>1, <2>2, SMTT(30) DEF TREE, TRANSACTIONS
<1>8. CASE Prev[b] \in linked
  <2>1. Reached' = linked \cup {b}
    <3>1. linkQueue' = <<b>> /\ Reached' = linked' \cup Range(linkQueue')
      BY <1>2, <1>8 DEF Reached
    <3>2. Range(<<b>>) = {b}
      BY SMT DEF Range
    <3>. QED BY <1>1, <3>1, <3>2
  <2>2. \A p \in linked' : unlinked'[p] = <<>>
    BY <1>1, <1>2, <1>8 DEF KInv
  <2>3. (\A c \in Blocks : seqId'[c] > 0 => c \in Reached') /\ failedBlocks' \subseteq Reached'
    BY <1>1, <1>3, <2>1 DEF KInv
  <2>4. \A c \in Blocks : Failed(c)' /\ c \notin Reached' => Blocked(c)'
    BY <1>3, <1>5, <1>6, <2>1, ZenonT(30) DEF KInv
  <2>5. \A c \in received' \ Reached' : c \in Range(unlinked[Prev[c]])' \/ Blocked(c)'
    BY <1>1, <1>2, <1>3, <1>6, <1>8, <2>1, ZenonT(30) DEF KInv
  <2>. QED BY <1>7, <2>2, <2>3, <2>4, <2>5, ZenonT(30) DEF KInv
<1>9. CASE Prev[b] \notin linked
  <2>1. linked' = linked /\ Reached' = Reached
    BY <1>1, <1>2, <1>4, <1>9, ZenonT(30) DEF Reached
  <2>2. \A p \in Blocks : p # Prev[b] => unlinked'[p] = unlinked[p]
    BY <1>2, <1>3, <1>9
  <2>3. \A p \in linked' : unlinked'[p] = <<>>
    BY <1>3, <1>9, <2>1, <2>2 DEF KInv
  <2>4. (\A c \in Blocks : seqId'[c] > 0 => c \in Reached') /\ failedBlocks' \subseteq Reached'
    BY <1>1, <2>1 DEF KInv
  <2>5. \A c \in Blocks : Failed(c)' /\ c \notin Reached' => Blocked(c)'
    BY <1>5, <1>6, <2>1 DEF KInv
  <2>6. Range(unlinked[Prev[b]]) \subseteq Range(unlinked'[Prev[b]])
    <3>1. PICK q \in Seq(received) : q = unlinked[Prev[b]]
      BY <1>3
    <3>2. unlinked'[Prev[b]] \in {q, Append(q, b)}
      BY <1>2, <1>3, <1>9, <3>1, ZenonT(30)
    <3>3. Range(q) \subseteq Range(Append(q, b))
      BY <3>1, SMT DEF Range
    <3>. QED BY <3>1, <3>2, <3>3
  <2>7. b \in Range(unlinked'[Prev[b]]) \/ Blocked(b)'
    <3>1. CASE IsValid(Prev[b], TREE)
      <4>1. PICK q \in Seq(received) : q = unlinked[Prev[b]]
        BY <1>3
      <4>2. unlinked'[Prev[b]] = Append(q, b)
        BY <1>2, <1>3, <1>9, <3>1, <4>1, ZenonT(30)
      <4>3. DOMAIN Append(q, b) = 1..(Len(q) + 1) /\ Append(q, b)[Len(q) + 1] = b /\ Len(q) \in Nat
        BY <4>1, SMT
      <4>4. b \in Range(Append(q, b))
        BY <4>3, SMT DEF Range
      <4>. QED BY <4>2, <4>4
    <3>2. CASE ~IsValid(Prev[b], TREE)
      <4>1. Failed(Prev[b])
        BY <1>4, <3>2 DEF IsValid, KInv
      <4>2. Blocked(Prev[b])'
        BY <1>3, <1>6, <1>9, <4>1 DEF KInv
      <4>3. Anc[Prev[b]] \subseteq Anc[b]
        BY AncDef
      <4>. QED BY <4>2, <4>3 DEF Blocked
    <3>. QED BY <3>1, <3>2
  <2>8. ASSUME NEW c \in received' \ Reached'
        PROVE  c \in Range(unlinked'[Prev[c]]) \/ Blocked(c)'
    <3>1. CASE c = b
      BY <2>7, <3>1
    <3>2. CASE c # b
      <4>1. c \in Blocks \ {Genesis} /\ Prev[c] \in Blocks
        BY <1>1, <1>3, <2>1, <2>8, PrevType, ZenonT(30) DEF IInv, Chained
      <4>2. c \in Range(unlinked[Prev[c]]) \/ Blocked(c)
        BY <1>1, <2>1, <2>8, <3>2, ZenonT(30) DEF KInv
      <4>. QED BY <1>6, <2>2, <2>6, <4>1, <4>2, ZenonT(30)
    <3>. QED BY <3>1, <3>2
  <2>. QED BY <1>7, <2>3, <2>4, <2>5, <2>8, ZenonT(30) DEF KInv
<1>. QED BY <1>8, <1>9

LEMMA KLinkStep ==
    ASSUME IInv, IInv', KInv, LinkBlock
    PROVE  KInv'
<1>1. PICK b : b = Head(linkQueue)
  OBVIOUS
<1>2. /\ UNCHANGED <<index, valid, status, received, failedBlocks, inv>> /\ linkQueue # <<>>
      /\ linked' = linked \cup {b} /\ seqId' = [seqId EXCEPT ![b] = counters.sequence]
      /\ counters' = [counters EXCEPT !.sequence = @ + 1]
      /\ linkQueue' = Tail(linkQueue) \o unlinked[b] /\ unlinked' = [unlinked EXCEPT ![b] = <<>>]
  BY <1>1 DEF LinkBlock, Waiting, markVars, threadVars
<1>3. /\ linkQueue \in Seq(received) /\ unlinked \in [Blocks -> Seq(received)]
      /\ received \subseteq Blocks /\ seqId \in [Blocks -> Int] /\ linked \subseteq Blocks
      /\ counters \in [sequence : Int, reverse : Int, lastPrecious : Int]
  BY StateFacts DEF IInv, Typed, TypedBlocks, TypedLocals
<1>4. b \in received /\ unlinked[b] \in Seq(received)
      /\ Range(linkQueue') \cup {b} = Range(linkQueue) \cup Range(unlinked[b])
  <2>1. b \in received
    BY <1>1, <1>2, <1>3, SMT
  <2>2. unlinked[b] \in Seq(received)
    BY <1>3, <2>1
  <2>3. Range(Tail(linkQueue) \o unlinked[b]) \cup {Head(linkQueue)}
           = Range(linkQueue) \cup Range(unlinked[b])
    BY <1>2, <1>3, <2>2, QueueElements, ZenonT(30)
  <2>. QED BY <1>1, <1>2, <2>1, <2>2, <2>3, ZenonT(30)
<1>5. Reached' = Reached \cup Range(unlinked[b]) /\ b \in Reached'
  BY <1>2, <1>4 DEF Reached
<1>6. /\ inv' = None /\ counters'.reverse < 0 /\ failedBlocks' \subseteq Reached'
      /\ \A c \in index' : valid'[c] >= TREE
  BY <1>2, <1>3, <1>5 DEF KInv
<1>7. \A c \in Blocks : seqId'[c] > 0 => c \in Reached'
  BY <1>2, <1>3, <1>5 DEF KInv
<1>8. \A p \in linked' : unlinked'[p] = <<>>
  BY <1>2, <1>3, <1>4 DEF KInv
<1>9. \A c \in Blocks : (Failed(c)' <=> Failed(c)) /\ (Blocked(c)' <=> Blocked(c))
  BY <1>2 DEF Failed, Blocked, NoInvalidAncestor
<1>10. \A c \in Blocks : Failed(c)' /\ c \notin Reached' => Blocked(c)'
  BY <1>5, <1>9 DEF KInv
<1>11. ASSUME NEW c \in received' \ Reached'
       PROVE  c \in Range(unlinked'[Prev[c]]) \/ Blocked(c)'
  <2>1. c \in received \ Reached /\ c \in Blocks \ {Genesis} /\ c \notin Range(unlinked[b])
    BY <1>2, <1>3, <1>5, <1>11, ZenonT(30) DEF IInv, Chained
  <2>2. CASE Blocked(c)
    BY <1>9, <2>1, <2>2
  <2>3. CASE c \in Range(unlinked[Prev[c]])
    <3>1. Prev[c] # b /\ Prev[c] \in Blocks
      BY <2>1, <2>3, PrevType
    <3>2. unlinked'[Prev[c]] = unlinked[Prev[c]]
      BY <1>2, <1>3, <3>1
    <3>. QED BY <2>3, <3>2
  <2>. QED BY <2>1, <2>2, <2>3, ZenonT(30) DEF KInv
<1>. QED BY <1>6, <1>7, <1>8, <1>10, <1>11, ZenonT(30) DEF KInv

LEMMA NextKInv ==
    ASSUME PruneBelowForks, NoReset, IInv, IInv', JInv, KInv, [Next]_vars
    PROVE  KInv'
<1>1. CASE UNCHANGED vars
  <2>1. UNCHANGED <<received, linked, linkQueue, unlinked, inv, status, failedBlocks, counters, seqId,
                    index, valid>>
    BY <1>1 DEF vars, indexVars, markVars, threadVars
  <2>. QED BY <2>1 DEF KInv, Reached, Failed, Blocked, NoInvalidAncestor
<1>2. CASE Arrival
  BY <1>2, KHeaderSteps, KRejectHeaderStep, KRejectStep, KStoreStep, KLinkStep, ZenonT(30) DEF Arrival
<1>3. CASE ActivateBestChain
  BY <1>3, KLocalsSteps, KDiscardStep, KConnectSteps DEF ActivateBestChain
<1>4. CASE OperatorCall
  <2>1. ~InvalidateDisconnect /\ ~InvalidateFail /\ ~InvalidateFinish
    BY DEF KInv, InvalidateDisconnect, InvalidateFail, InvalidateFinish
  <2>2. \A b \in Blocks : ~InvalidateBlock(b) /\ ~ResetBlockFailureFlags(b)
    BY DEF NoReset, InvalidateBlock, ResetBlockFailureFlags, CanCall
  <2>. QED BY <1>4, <2>1, <2>2, KPreciousStep, KPruneStep, ZenonT(30) DEF OperatorCall
<1>. QED BY <1>1, <1>2, <1>3, <1>4 DEF Next, Aborted

\* How often a block is in a list without repetitions.
LEMMA CountOnce ==
    ASSUME NEW q, IsInjective(q), NEW b
    PROVE  LET n == Cardinality({i \in DOMAIN q : q[i] = b})
           IN  n \in {0, 1} /\ (n = 1 <=> b \in Range(q))
<1>. DEFINE I == {i \in DOMAIN q : q[i] = b}
<1>1. CASE b \notin Range(q)
  <2>1. I = {}
    BY <1>1 DEF Range
  <2>. QED BY <1>1, <2>1, FS_EmptySet, SMT
<1>2. CASE b \in Range(q)
  <2>1. PICK i \in DOMAIN q : q[i] = b
    BY <1>2 DEF Range
  <2>2. I = {i}
    BY <2>1 DEF IsInjective
  <2>3. Cardinality({i}) = 1
    BY FS_Singleton
  <2>. QED BY <1>2, <2>2, <2>3
<1>. QED BY <1>1, <1>2

\* CheckBlockIndex, for every order in which headers and blocks arrive, with
\* preciousblock, and with pruning if it stays below all forks (PruneBelowForks):
\* nChainTx is set exactly when all ancestors were received, and a received block
\* waits in m_blocks_unlinked, once, exactly as long as a block it is built on is
\* missing, unless one of them is invalid.
THEOREM ChainLinkedExact ==
    ASSUME PruneBelowForks, NoReset
    PROVE  Spec => []LinkedExact
<1>1. ASSUME IInv, JInv, KInv, Free
      PROVE  LinkedExact
  <2>0. /\ linkQueue = <<>> /\ Reached = linked /\ linked \subseteq received /\ received \subseteq index
        /\ index \subseteq Blocks /\ received \subseteq Blocks
        /\ \A b \in linked : Anc[b] \subseteq linked
    <3>1. linkQueue = <<>> /\ Reached = linked
      BY <1>1, FreeFacts
    <3>2. linked \subseteq received /\ received \subseteq index /\ index \subseteq Blocks
      BY <1>1 DEF IInv, Typed, TypedBlocks
    <3>. QED BY <1>1, <3>1, <3>2, ReachedFacts, ZenonT(30) DEF IInv
  <2>1. \A b \in Blocks : b \in linked <=> Anc[b] \subseteq received
    BY <1>1, <2>0, FirstMissing
  <2>2. \A b \in index : seqId[b] > 0 => b \in linked
    BY <1>1, <2>0 DEF KInv
  <2>3. ASSUME NEW b \in received \ {Genesis}
        PROVE  LET waits   == unlinked[Prev[b]]
                   entries == Cardinality({i \in DOMAIN waits : waits[i] = b})
               IN  /\ entries <= 1
                   /\ ~HaveData(b) \/ WholeChain(b) => entries = 0
                   /\ HaveData(b) /\ b \notin linked /\ NoInvalidAncestor(b) => entries = 1
    <3>. DEFINE q == unlinked[Prev[b]]
                n == Cardinality({i \in DOMAIN q : q[i] = b})
    <3>1. b \in Blocks /\ Prev[b] \in Blocks
      BY <2>0, PrevType
    <3>2. IsInjective(q) /\ Range(q) \cap linked = {}
      BY <1>1, <2>0, <3>1 DEF JInv, Fresh
    <3>. HIDE DEF q
    <3>3. n \in {0, 1} /\ (n = 1 <=> b \in Range(q))
      BY <3>2, CountOnce
    <3>4. ~HaveData(b) => b \in linked
      BY <1>1, <2>0, StateFacts DEF JInv, Kept
    <3>5. WholeChain(b) => b \in linked
      <4>1. WholeChain(b) => Anc[b] \subseteq received
        BY <1>1, <3>1, AncDef DEF WholeChain, IInv, Stored
      <4>. QED BY <2>1, <3>1, <4>1
    <3>6. b \notin linked /\ NoInvalidAncestor(b) => b \in Range(q)
      <4>1. Blocked(b) => ~NoInvalidAncestor(b)
        BY <3>1, AncClosed DEF Blocked, NoInvalidAncestor
      <4>. QED BY <1>1, <2>0, <4>1 DEF KInv, q
    <3>7. n \in {0, 1} /\ (~HaveData(b) \/ WholeChain(b) => n # 1)
          /\ (b \notin linked /\ NoInvalidAncestor(b) => n = 1)
      BY <3>2, <3>3, <3>4, <3>5, <3>6, ZenonT(30)
    <3>. HIDE DEF n
    <3>8. n <= 1 /\ (~HaveData(b) \/ WholeChain(b) => n = 0)
          /\ (b \notin linked /\ NoInvalidAncestor(b) => n = 1)
      BY <3>7, SMT
    <3>. QED BY <3>8 DEF n, q
  <2>. QED BY <2>0, <2>1, <2>2, <2>3, ZenonT(30) DEF LinkedExact
<1>2. IInv /\ JInv /\ KInv => LinkedExact
  BY <1>1 DEF LinkedExact
<1>3. Init => KInv
  BY InitKInv
<1>4. (IInv /\ JInv) /\ (IInv /\ JInv)' /\ KInv /\ [Next]_vars => KInv'
  BY NextKInv
<1>. QED BY <1>2, <1>3, <1>4, CandidateInvariant, PTL DEF Spec

\* If nothing is pruned and the operator calls nothing, setBlockIndexCandidates is
\* complete without exception: in every tree, for every order in which headers and
\* blocks arrive, valid or not, between the sections of ActivateBestChain.
THEOREM ChainCandidatesComplete ==
    ASSUME Calls = {}
    PROVE  Spec => []CandidatesComplete
<1>. DEFINE P == ~partial /\ inv = None
<1>1. Init => P
  BY DEF Init
<1>2. P /\ [Next]_vars => P'
  <2>. SUFFICES ASSUME P, [Next]_vars PROVE P'
    OBVIOUS
  <2>1. ~InvalidateDisconnect /\ ~InvalidateFail /\ ~InvalidateFinish
    BY DEF InvalidateDisconnect, InvalidateFail, InvalidateFinish
  <2>2. \A b \in Blocks : ~InvalidateBlock(b) /\ ~ResetBlockFailureFlags(b) /\ ~PreciousBlock(b)
    BY DEF InvalidateBlock, ResetBlockFailureFlags, PreciousBlock, CanCall
  <2>3. CASE UNCHANGED <<partial, inv>>
    BY <2>3
  <2>4. CASE Arrival
    BY <2>3, <2>4, ZenonT(30) DEF Arrival, LinkBlock, AcceptBlockHeader, RejectBlockHeader, IgnoreBlock, RejectBlock,
       StoreBlock, threadVars, callVars
  <2>5. CASE ActivateBestChain
    BY <2>3, <2>5 DEF ActivateBestChain, AbcStart, AbcLoop, AbcBreak, AbcStep, AbcDisconnect, AbcFatal,
       AbcConnect, AbcConnectInvalid, FindMostWorkChainDiscard, threadVars, callVars
  <2>6. CASE OperatorCall
    BY <2>1, <2>2, <2>3, <2>6, ZenonT(30) DEF OperatorCall, PruneOneBlockFile, threadVars
  <2>7. CASE UNCHANGED vars
    BY <2>3, <2>7 DEF vars, threadVars, callVars
  <2>. QED BY <2>4, <2>5, <2>6, <2>7 DEF Next, Aborted
<1>3. P /\ CandidatesExact => CandidatesComplete
  BY DEF CandidatesExact
<1>4. PruneBelowForks
  BY DEF PruneBelowForks
<1>5. Spec => []CandidatesExact
  BY <1>4, ChainCandidatesExact
<1>. QED BY <1>1, <1>2, <1>3, <1>5, PTL DEF Spec
=============================================================================
