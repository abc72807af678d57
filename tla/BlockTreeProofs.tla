---------------------------- MODULE BlockTreeProofs ----------------------------
(***************************************************************************)
(* What the recursive definitions of BlockTree compute, for every tree.    *)
(* Induction over blocks is the last conjunct of TreeAssumption, applied   *)
(* to the set of blocks a statement holds for.                             *)
(***************************************************************************)
EXTENDS BlockTree, TLAPS

\* A leaf that names no prover is tried with Zenon.
USE Zenon

LOCAL INSTANCE WellFoundedInduction

\* A set of naturals that is not empty has a least one.
LEMMA LeastNumber ==
    ASSUME NEW S \in SUBSET Nat, S # {}
    PROVE  \E n \in S : \A m \in S : ~ (m < n)
<1>1. \E n \in S : \A m \in S : ~ (<<m, n>> \in OpToRel(<, Nat))
  BY NatLessThanWellFounded, WFMin
<1>. QED BY <1>1 DEF OpToRel

\* An inductive set of blocks contains them all.
LEMMA TreeInduction ==
    ASSUME NEW S \in SUBSET Blocks, Genesis \in S,
           \A b \in Blocks \ {Genesis} : Prev[b] \in S => b \in S
    PROVE  S = Blocks
BY TreeAssumption

LEMMA PrevType == \A b \in Blocks \ {Genesis} : Prev[b] \in Blocks
BY TreeAssumption
-----------------------------------------------------------------------------
(* The recursive definitions have a solution.                                *)

\* The pairs of a block and the sum of w over its ancestors.
ClosedUnder(T, w) ==
    /\ <<Genesis, w[Genesis]>> \in T
    /\ \A b \in Blocks \ {Genesis}, n \in Nat :
          <<Prev[b], n>> \in T => <<b, w[b] + n>> \in T
Sums(w) == {x \in Blocks \X Nat : \A T \in SUBSET (Blocks \X Nat) :
                                     ClosedUnder(T, w) => x \in T}

LEMMA SumsClosed ==
    ASSUME NEW w \in [Blocks -> Nat]
    PROVE  ClosedUnder(Sums(w), w) /\ Sums(w) \subseteq Blocks \X Nat
<1>1. <<Genesis, w[Genesis]>> \in Sums(w)
  BY TreeAssumption DEF Sums, ClosedUnder
<1>2. ASSUME NEW b \in Blocks \ {Genesis}, NEW n \in Nat, <<Prev[b], n>> \in Sums(w)
      PROVE  <<b, w[b] + n>> \in Sums(w)
  <2>1. w[b] + n \in Nat
    BY SMT
  <2>2. ASSUME NEW T \in SUBSET (Blocks \X Nat), ClosedUnder(T, w)
        PROVE  <<b, w[b] + n>> \in T
    BY <1>2, <2>2 DEF Sums, ClosedUnder
  <2>. QED BY <2>1, <2>2 DEF Sums
<1>. QED BY <1>1, <1>2 DEF ClosedUnder, Sums

\* There is one sum for every block.
LEMMA SumsUnique ==
    ASSUME NEW w \in [Blocks -> Nat]
    PROVE  \A b \in Blocks : \E n \in Nat : /\ <<b, n>> \in Sums(w)
                                            /\ \A m \in Nat : <<b, m>> \in Sums(w) => m = n
<1>. DEFINE R == Sums(w)
            One(b, n) == <<b, n>> \in R /\ \A m \in Nat : <<b, m>> \in R => m = n
            S == {b \in Blocks : \E n \in Nat : One(b, n)}
<1>0. ClosedUnder(R, w) /\ R \subseteq Blocks \X Nat
  BY SumsClosed
<1>a. \A T \in SUBSET (Blocks \X Nat) : ClosedUnder(T, w) => R \subseteq T
  BY DEF Sums
<1>. HIDE DEF R
<1>1. Genesis \in S
  <2>1. ASSUME NEW m \in Nat, <<Genesis, m>> \in R, m # w[Genesis]
        PROVE  FALSE
    <3>1. ClosedUnder(R \ {<<Genesis, m>>}, w)
      BY <1>0, <2>1 DEF ClosedUnder
    <3>. QED BY <3>1, <1>0, <1>a, <2>1
  <2>. QED BY <2>1, <1>0, TreeAssumption DEF ClosedUnder
<1>2. ASSUME NEW b \in Blocks \ {Genesis}, Prev[b] \in S
      PROVE  b \in S
  <2>1. PICK n \in Nat : One(Prev[b], n)
    BY <1>2
  <2>2. <<b, w[b] + n>> \in R /\ w[b] + n \in Nat
    BY <2>1, <1>0 DEF ClosedUnder
  <2>3. ASSUME NEW m \in Nat, <<b, m>> \in R, m # w[b] + n
        PROVE  FALSE
    <3>1. ClosedUnder(R \ {<<b, m>>}, w)
      <4>1. <<Genesis, w[Genesis]>> \in R \ {<<b, m>>}
        BY <1>0 DEF ClosedUnder
      <4>2. ASSUME NEW c \in Blocks \ {Genesis}, NEW k \in Nat,
                   <<Prev[c], k>> \in R \ {<<b, m>>}
            PROVE  <<c, w[c] + k>> \in R \ {<<b, m>>}
        <5>1. <<c, w[c] + k>> \in R
          BY <1>0, <4>2 DEF ClosedUnder
        <5>2. c = b => k = n
          BY <2>1, <4>2
        <5>. QED BY <5>1, <5>2, <2>3
      <4>. QED BY <4>1, <4>2 DEF ClosedUnder
    <3>. QED BY <3>1, <1>0, <1>a, <2>3
  <2>. QED BY <2>2, <2>3
<1>3. S = Blocks
  BY <1>1, <1>2, TreeInduction
<1>. QED BY <1>3 DEF R

\* So a sum over the ancestors can be defined by recursion.
LEMMA SumExists ==
    ASSUME NEW w \in [Blocks -> Nat]
    PROVE  \E f \in [Blocks -> Nat] :
              \A b \in Blocks : f[b] = w[b] + (IF b = Genesis THEN 0 ELSE f[Prev[b]])
<1>. DEFINE f == [b \in Blocks |-> CHOOSE n \in Nat : <<b, n>> \in Sums(w)]
<1>1. \A b \in Blocks : f[b] \in Nat /\ <<b, f[b]>> \in Sums(w)
  BY SumsUnique
<1>2. \A b \in Blocks, n \in Nat : <<b, n>> \in Sums(w) => n = f[b]
  BY SumsUnique, <1>1
<1>3. f \in [Blocks -> Nat]
  BY <1>1
<1>. HIDE DEF f
<1>4. ASSUME NEW b \in Blocks
      PROVE  f[b] = w[b] + (IF b = Genesis THEN 0 ELSE f[Prev[b]])
  <2>. /\ Genesis \in Blocks /\ w[b] \in Nat
       /\ b # Genesis => Prev[b] \in Blocks /\ f[Prev[b]] \in Nat
    BY TreeAssumption, PrevType, <1>1
  <2>1. CASE b = Genesis
    <3>1. <<b, w[b]>> \in Sums(w)
      BY <2>1, SumsClosed DEF ClosedUnder
    <3>2. f[b] = w[b]
      BY <3>1, <1>2
    <3>. QED BY <3>2, <2>1, SMT
  <2>2. CASE b # Genesis
    <3>1. <<b, w[b] + f[Prev[b]]>> \in Sums(w)
      BY <2>2, <1>1, SumsClosed DEF ClosedUnder
    <3>2. f[b] = w[b] + f[Prev[b]]
      BY <3>1, <2>2, <1>2, SMT
    <3>. QED BY <3>2, <2>2
  <2>. QED BY <2>1, <2>2
<1>. QED BY <1>3, <1>4

\* nHeight counts the blocks below.
LEMMA HeightDef ==
    /\ Height \in [Blocks -> Nat]
    /\ \A b \in Blocks : Height[b] = IF b = Genesis THEN 0 ELSE 1 + Height[Prev[b]]
<1>. DEFINE H(f) == [b \in Blocks |-> IF b = Genesis THEN 0 ELSE 1 + f[Prev[b]]]
            w == [b \in Blocks |-> IF b = Genesis THEN 0 ELSE 1]
<1>1. PICK f \in [Blocks -> Nat] :
         \A b \in Blocks : f[b] = w[b] + (IF b = Genesis THEN 0 ELSE f[Prev[b]])
  <2>1. w \in [Blocks -> Nat]
    OBVIOUS
  <2>. HIDE DEF w
  <2>. QED BY <2>1, SumExists
<1>2. f = H(f)
  <2>1. \A b \in Blocks : f[b] = H(f)[b]
    BY <1>1, PrevType, SMT
  <2>. QED BY <2>1
<1>3. Height = H(Height)
  BY <1>2 DEF Height
<1>4. \A b \in Blocks : Height[b] = IF b = Genesis THEN 0 ELSE 1 + Height[Prev[b]]
  BY <1>3
<1>5. \A b \in Blocks : Height[b] \in Nat
  <2>. DEFINE S == {b \in Blocks : Height[b] \in Nat}
  <2>1. Genesis \in S
    BY <1>4, TreeAssumption, SMT
  <2>2. \A b \in Blocks \ {Genesis} : Prev[b] \in S => b \in S
    BY <1>4, SMT
  <2>3. S \in SUBSET Blocks
    OBVIOUS
  <2>. HIDE DEF S
  <2>4. S = Blocks
    BY <2>1, <2>2, <2>3, TreeInduction
  <2>. QED BY <2>4 DEF S
<1>6. Height = [b \in Blocks |-> Height[b]]
  BY <1>3
<1>7. Height \in [Blocks -> Nat]
  BY <1>5, <1>6
<1>. QED BY <1>4, <1>7

\* nChainWork adds up the proofs.
LEMMA WorkDef ==
    /\ Work \in [Blocks -> Nat]
    /\ \A b \in Blocks : Work[b] = Proof[b] + (IF b = Genesis THEN 0 ELSE Work[Prev[b]])
<1>. DEFINE W(f) == [b \in Blocks |-> Proof[b] + (IF b = Genesis THEN 0 ELSE f[Prev[b]])]
<1>1. PICK f \in [Blocks -> Nat] :
         \A b \in Blocks : f[b] = Proof[b] + (IF b = Genesis THEN 0 ELSE f[Prev[b]])
  <2>1. Proof \in [Blocks -> Nat]
    BY TreeAssumption
  <2>. QED BY <2>1, SumExists
<1>2. f = W(f)
  <2>1. \A b \in Blocks : f[b] = W(f)[b]
    BY <1>1
  <2>. QED BY <2>1
<1>3. Work = W(Work)
  BY <1>2 DEF Work
<1>4. \A b \in Blocks : Work[b] = Proof[b] + (IF b = Genesis THEN 0 ELSE Work[Prev[b]])
  BY <1>3
<1>a. \A b \in Blocks : Proof[b] \in Nat
  BY TreeAssumption
<1>5. \A b \in Blocks : Work[b] \in Nat
  <2>. DEFINE S == {b \in Blocks : Work[b] \in Nat}
  <2>1. Genesis \in S
    BY <1>4, <1>a, TreeAssumption, SMT
  <2>2. \A b \in Blocks \ {Genesis} : Prev[b] \in S => b \in S
    BY <1>4, <1>a, SMT
  <2>3. S \in SUBSET Blocks
    OBVIOUS
  <2>. HIDE DEF S
  <2>4. S = Blocks
    BY <2>1, <2>2, <2>3, TreeInduction
  <2>. QED BY <2>4 DEF S
<1>6. Work = [b \in Blocks |-> Work[b]]
  BY <1>3
<1>. QED BY <1>4, <1>5, <1>6

\* The blocks reached from b.
Closure(b) == {a \in Blocks : \A S \in SUBSET Blocks :
                  b \in S /\ (\A c \in S \ {Genesis} : Prev[c] \in S) => a \in S}

LEMMA ClosureStep ==
    ASSUME NEW b \in Blocks
    PROVE  Closure(b) = {b} \cup (IF b = Genesis THEN {} ELSE Closure(Prev[b]))
<1>. DEFINE Closed(S) == \A c \in S \ {Genesis} : Prev[c] \in S
            Right == {b} \cup (IF b = Genesis THEN {} ELSE Closure(Prev[b]))
<1>1. ASSUME NEW a \in Closure(b)
      PROVE  a \in Right
  <2>1. Right \in SUBSET Blocks
    BY DEF Closure
  <2>2. Closed(Right)
    BY PrevType DEF Closure
  <2>. QED BY <2>1, <2>2 DEF Closure
<1>2. ASSUME NEW a \in Right
      PROVE  a \in Closure(b)
  BY PrevType DEF Closure
<1>. QED BY <1>1, <1>2

\* The ancestors, one step at a time.
LEMMA AncDef ==
    /\ Anc \in [Blocks -> SUBSET Blocks]
    /\ \A b \in Blocks : Anc[b] = {b} \cup (IF b = Genesis THEN {} ELSE Anc[Prev[b]])
<1>. DEFINE A(f) == [b \in Blocks |-> {b} \cup (IF b = Genesis THEN {} ELSE f[Prev[b]])]
            f == [b \in Blocks |-> Closure(b)]
<1>2. f = A(f)
  BY ClosureStep, PrevType
<1>. HIDE DEF f
<1>3. Anc = A(Anc)
  BY <1>2 DEF Anc
<1>4. \A b \in Blocks : Anc[b] = {b} \cup (IF b = Genesis THEN {} ELSE Anc[Prev[b]])
  BY <1>3
<1>5. \A b \in Blocks : Anc[b] \subseteq Blocks
  <2>. DEFINE S == {b \in Blocks : Anc[b] \subseteq Blocks}
  <2>1. Genesis \in S
    BY <1>4, TreeAssumption
  <2>2. \A b \in Blocks \ {Genesis} : Prev[b] \in S => b \in S
    BY <1>4
  <2>3. S \in SUBSET Blocks
    OBVIOUS
  <2>. HIDE DEF S
  <2>4. S = Blocks
    BY <2>1, <2>2, <2>3, TreeInduction
  <2>. QED BY <2>4 DEF S
<1>6. Anc = [b \in Blocks |-> Anc[b]]
  BY <1>3
<1>. QED BY <1>4, <1>5, <1>6
-----------------------------------------------------------------------------
(* A branch of the tree.                                                     *)

\* A block is its own ancestor, the root is everybody's, and an ancestor's
\* ancestors are ancestors.
LEMMA AncClosed ==
    ASSUME NEW b \in Blocks
    PROVE  /\ b \in Anc[b] /\ Genesis \in Anc[b]
           /\ \A a \in Anc[b] : Anc[a] \subseteq Anc[b]
<1>. DEFINE S == {c \in Blocks : /\ Genesis \in Anc[c]
                                 /\ \A a \in Anc[c] : Anc[a] \subseteq Anc[c]}
<1>1. Genesis \in S
  BY AncDef, TreeAssumption, SMT
<1>2. ASSUME NEW c \in Blocks \ {Genesis}, Prev[c] \in S
      PROVE  c \in S
  <2>1. Anc[c] = {c} \cup Anc[Prev[c]]
    BY AncDef
  <2>. QED BY <1>2, <2>1
<1>3. S \in SUBSET Blocks
  OBVIOUS
<1>. HIDE DEF S
<1>4. S = Blocks
  BY <1>1, <1>2, <1>3, TreeInduction
<1>. QED BY <1>4, AncDef DEF S

\* Heights grow along a branch.
LEMMA AncHeight ==
    ASSUME NEW b \in Blocks, NEW a \in Anc[b]
    PROVE  a \in Blocks /\ (a = b \/ Height[a] < Height[b])
<1>. DEFINE S == {c \in Blocks : \A d \in Anc[c] : d \in Blocks /\ (d = c \/ Height[d] < Height[c])}
<1>1. Genesis \in S
  BY AncDef, TreeAssumption, SMT
<1>2. ASSUME NEW c \in Blocks \ {Genesis}, Prev[c] \in S
      PROVE  c \in S
  <2>1. Anc[c] = {c} \cup Anc[Prev[c]] /\ Height[c] = 1 + Height[Prev[c]]
    BY AncDef, HeightDef
  <2>2. \A d \in Blocks : Height[d] \in Nat
    BY HeightDef
  <2>. QED BY <1>2, <2>1, <2>2, PrevType, SMT
<1>3. S \in SUBSET Blocks
  OBVIOUS
<1>. HIDE DEF S
<1>4. S = Blocks
  BY <1>1, <1>2, <1>3, TreeInduction
<1>. QED BY <1>4, SMT DEF S

\* The ancestors are in every set of blocks that contains the block and, with a
\* block, its parent.
LEMMA AncLeast ==
    ASSUME NEW Q \in SUBSET Blocks, \A c \in Q \ {Genesis} : Prev[c] \in Q, NEW b \in Q
    PROVE  Anc[b] \subseteq Q
<1>. DEFINE S == {c \in Blocks : c \in Q => Anc[c] \subseteq Q}
<1>1. Genesis \in S
  BY AncDef, TreeAssumption, SMT
<1>2. ASSUME NEW c \in Blocks \ {Genesis}, Prev[c] \in S
      PROVE  c \in S
  <2>1. Anc[c] = {c} \cup Anc[Prev[c]]
    BY AncDef
  <2>. QED BY <1>2, <2>1
<1>3. S \in SUBSET Blocks
  OBVIOUS
<1>. HIDE DEF S
<1>4. S = Blocks
  BY <1>1, <1>2, <1>3, TreeInduction
<1>. QED BY <1>4 DEF S

\* A branch is a line.
LEMMA AncLine ==
    ASSUME NEW b \in Blocks, NEW a \in Anc[b], NEW c \in Anc[b], c \notin Anc[a]
    PROVE  a \in Anc[c]
<1>. DEFINE S == {d \in Blocks : \A x, y \in Anc[d] : y \notin Anc[x] => x \in Anc[y]}
<1>1. Genesis \in S
  BY AncDef, TreeAssumption, SMT
<1>2. ASSUME NEW d \in Blocks \ {Genesis}, Prev[d] \in S
      PROVE  d \in S
  <2>1. Anc[d] = {d} \cup Anc[Prev[d]]
    BY AncDef
  <2>. QED BY <1>2, <2>1
<1>3. S \in SUBSET Blocks
  OBVIOUS
<1>. HIDE DEF S
<1>4. S = Blocks
  BY <1>1, <1>2, <1>3, TreeInduction
<1>. QED BY <1>4 DEF S

\* A branch has one block at every height up to its own.
LEMMA AncAtHeight ==
    ASSUME NEW b \in Blocks, NEW h \in 0..Height[b]
    PROVE  GetAncestor(b, h) \in Anc[b] /\ Height[GetAncestor(b, h)] = h
<1>. DEFINE S == {c \in Blocks : \A k \in 0..Height[c] : \E a \in Anc[c] : Height[a] = k}
<1>1. Genesis \in S
  BY AncDef, HeightDef, TreeAssumption, SMT
<1>2. ASSUME NEW c \in Blocks \ {Genesis}, Prev[c] \in S
      PROVE  c \in S
  <2>1. Anc[c] = {c} \cup Anc[Prev[c]] /\ Height[c] = 1 + Height[Prev[c]]
    BY AncDef, HeightDef
  <2>2. Height[c] \in Nat /\ Height[Prev[c]] \in Nat
    BY HeightDef, PrevType
  <2>. QED BY <1>2, <2>1, <2>2, SMT
<1>3. S \in SUBSET Blocks
  OBVIOUS
<1>. HIDE DEF S
<1>4. S = Blocks
  BY <1>1, <1>2, <1>3, TreeInduction
<1>5. \E a \in Anc[b] : Height[a] = h
  BY <1>4 DEF S
<1>. QED BY <1>5 DEF GetAncestor

\* The block after t on the way to b.
LEMMA NextOnBranch ==
    ASSUME NEW b \in Blocks, NEW t \in Anc[b], t # b
    PROVE  LET n == GetAncestor(b, Height[t] + 1)
           IN  /\ n \in Anc[b] /\ n \in Blocks \ {Genesis} /\ n \notin Anc[t]
               /\ Prev[n] = t /\ Anc[n] = {n} \cup Anc[t]
<1>. DEFINE n == GetAncestor(b, Height[t] + 1)
<1>1. t \in Blocks /\ Height[t] \in Nat /\ Height[b] \in Nat /\ Height[t] < Height[b]
  BY AncHeight, HeightDef
<1>2. n \in Anc[b] /\ Height[n] = Height[t] + 1
  <2>1. Height[t] + 1 \in 0..Height[b]
    BY <1>1, SMT
  <2>. QED BY <2>1, AncAtHeight
<1>. HIDE DEF n
<1>3. n \in Blocks \ {Genesis}
  BY <1>1, <1>2, AncHeight, HeightDef, SMT
<1>4. Prev[n] \in Blocks /\ Prev[n] \in Anc[b] /\ Height[Prev[n]] = Height[t]
  <2>1. Prev[n] \in Blocks /\ Height[Prev[n]] \in Nat /\ Height[n] = 1 + Height[Prev[n]]
    BY <1>3, PrevType, HeightDef
  <2>2. Prev[n] \in Anc[n]
    BY <1>3, <2>1, AncDef, AncClosed, ZenonT(30)
  <2>. QED BY <1>1, <1>2, <2>1, <2>2, AncClosed, SMT
<1>5. Prev[n] = t
  <2>1. Prev[n] \in Anc[t] \/ t \in Anc[Prev[n]]
    BY <1>4, AncLine
  <2>. QED BY <1>1, <1>4, <2>1, AncHeight, SMT
<1>6. n \notin Anc[t]
  <2>1. ~ (Height[n] < Height[t]) /\ n # t
    BY <1>1, <1>2, SMT
  <2>. QED BY <1>1, <2>1, AncHeight
<1>. QED BY <1>2, <1>3, <1>5, <1>6, AncDef DEF n

\* A set of ancestors that is not empty has a highest one.
LEMMA HighestExists ==
    ASSUME NEW b \in Blocks, NEW T \in SUBSET Anc[b], T # {}
    PROVE  \E a \in T : \A c \in T : Height[c] <= Height[a]
<1>. DEFINE N == {Height[b] - Height[a] : a \in T}
<1>1. \A a \in T : Height[a] \in Nat /\ Height[b] - Height[a] \in Nat
  BY AncHeight, HeightDef, SMT
<1>2. PICK n \in N : \A m \in N : ~ (m < n)
  <2>1. N \subseteq Nat /\ N # {}
    BY <1>1
  <2>. HIDE DEF N
  <2>. QED BY <2>1, LeastNumber
<1>3. PICK a \in T : Height[b] - Height[a] = n
  BY <1>2
<1>4. \A c \in T : ~ (Height[b] - Height[c] < Height[b] - Height[a])
  BY <1>2, <1>3
<1>. QED BY <1>1, <1>4, HeightDef, SMT

\* An ancestor has less work.
LEMMA AncWork ==
    ASSUME NEW b \in Blocks, NEW a \in Anc[b], a # b
    PROVE  Work[a] \in Nat /\ Work[b] \in Nat /\ Work[a] < Work[b]
<1>. DEFINE S == {c \in Blocks : \A d \in Anc[c] : d = c \/ Work[d] < Work[c]}
<1>1. Genesis \in S
  BY AncDef, TreeAssumption, SMT
<1>2. ASSUME NEW c \in Blocks \ {Genesis}, Prev[c] \in S
      PROVE  c \in S
  <2>1. Anc[c] = {c} \cup Anc[Prev[c]] /\ Work[Prev[c]] < Work[c]
    BY AncDef, WorkDef, PrevType, TreeAssumption, SMT
  <2>2. \A d \in Anc[Prev[c]] : d \in Blocks /\ Work[d] \in Nat
    BY AncDef, PrevType, WorkDef
  <2>. QED BY <1>2, <2>1, <2>2, WorkDef, SMT
<1>3. S \in SUBSET Blocks
  OBVIOUS
<1>. HIDE DEF S
<1>4. S = Blocks
  BY <1>1, <1>2, <1>3, TreeInduction
<1>. QED BY <1>4, AncHeight, WorkDef DEF S
=============================================================================
