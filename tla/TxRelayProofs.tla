---------------------------- MODULE TxRelayProofs ----------------------------
(***************************************************************************)
(* Proofs about TxRequest and TxRelay, for any number of peers,            *)
(* transactions and hashes, any priorities, delays and limits.             *)
(***************************************************************************)
EXTENDS TxRelay, FiniteSetTheorems, SequenceTheorems, TLAPS

\* A leaf that names no prover is tried with Zenon.
USE Zenon

States == {"NONE", "DELAYED", "READY", "BEST", "REQUESTED", "COMPLETED"}
LiveStates == {"DELAYED", "READY", "BEST", "REQUESTED"}

-----------------------------------------------------------------------------
(* Rows: the announcements of one hash.                                      *)

\* The times that are never read are 0.
Row(r) ==
    /\ r \in Rows
    /\ \A p \in Peers : /\ r[p].state = "NONE" => r[p] = NoAnn
                        /\ r[p].state = "COMPLETED" => r[p].time = 0

\* SanityCheck, spelled out.
Sane(h, r) ==
    /\ Row(r)
    /\ \A p \in Peers : r[p].state = "COMPLETED" => \E q \in Peers : r[q].state \in LiveStates
    /\ \A p, q \in Peers : r[p].state \in Selected /\ r[q].state \in Selected => p = q
    /\ \A p \in Peers : r[p].state = "READY" => \E q \in Peers : r[q].state \in Selected
    /\ \A p, q \in Peers : r[p].state = "READY" /\ r[q].state = "BEST" => ~Better(h, r, p, q)

\* r2 is r with other states.
Moved(r, r2) ==
    /\ r2 \in Rows
    /\ \A p \in Peers :
          /\ r2[p].preferred = r[p].preferred
          /\ r2[p].time = IF r2[p].state = "COMPLETED" THEN 0 ELSE r[p].time

LEMMA RowType ==
    ASSUME NEW r \in Rows, NEW p \in Peers
    PROVE  r[p].state \in States /\ r[p].time \in Int /\ r[p].preferred \in BOOLEAN
  BY DEF Rows, States

LEMMA RowEqual ==
    ASSUME NEW r \in Rows, NEW r2 \in Rows,
           \A p \in Peers : /\ r2[p].state = r[p].state /\ r2[p].time = r[p].time
                            /\ r2[p].preferred = r[p].preferred
    PROVE  r2 = r
  BY SMT DEF Rows

LEMMA NoRowFacts ==
    /\ Row(NoRow) /\ \A p \in Peers : NoRow[p] = NoAnn /\ NoRow[p].state = "NONE"
    /\ \A h \in Hashes : Sane(h, NoRow)
  BY SMT DEF NoRow, NoAnn, Row, Rows, Sane, Selected

\* The row of a hash that nobody has announced.
LEMMA NoneIsNoRow ==
    ASSUME NEW r, Row(r), \A p \in Peers : r[p].state = "NONE"
    PROVE  r = NoRow
  BY DEF Row, Rows, NoRow

\* The members of a set with at most one element.
LEMMA AtMostOne ==
    ASSUME NEW S \in SUBSET Peers
    PROVE  (Cardinality(S) <= 1) <=> \A p, q \in S : p = q
<1>1. IsFiniteSet(S) BY RequestAssumption, FS_Subset
<1>2. ASSUME NEW p \in S, NEW q \in S, p # q PROVE Cardinality(S) > 1
  <2>1. IsFiniteSet({p, q}) /\ Cardinality({p, q}) = 2
    <3>1. IsFiniteSet({p}) /\ Cardinality({p}) = 1 BY FS_Singleton
    <3>2. {p, q} = {p} \cup {q} /\ q \notin {p} BY <1>2
    <3>. QED BY <3>1, <3>2, FS_AddElement, SMT
  <2>2. Cardinality({p, q}) <= Cardinality(S) BY <1>1, FS_Subset
  <2>. QED BY <1>1, <2>1, <2>2, FS_CardinalityType, SMT
<1>3. ASSUME \A p, q \in S : p = q PROVE Cardinality(S) <= 1
  <2>1. CASE S = {} BY <2>1, FS_EmptySet, SMT
  <2>2. CASE S # {}
    <3>1. PICK p \in S : TRUE BY <2>2
    <3>2. S = {p} BY <1>3
    <3>. QED BY <3>2, FS_Singleton, SMT
  <2>. QED BY <2>1, <2>2
<1>. QED BY <1>1, <1>2, <1>3, FS_CardinalityType, SMT

\* A sane row passes the check.
LEMMA SanePasses ==
    ASSUME NEW h \in Hashes, NEW r, Sane(h, r)
    PROVE  SanityCheck(h, r)
<1>1. InState(r, Selected) \in SUBSET Peers BY DEF InState
<1>2. \A p, q \in InState(r, Selected) : p = q BY DEF InState, Sane
<1>3. Cardinality(InState(r, Selected)) <= 1 BY <1>1, <1>2, AtMostOne
<1>4. InState(r, {"COMPLETED"}) # {} => Live(r) # {}
  BY DEF InState, Live, Sane, LiveStates
<1>5. InState(r, {"READY"}) # {} => InState(r, Selected) # {} BY DEF InState, Sane
<1>6. \A p \in InState(r, {"READY"}), q \in InState(r, {"BEST"}) : ~Better(h, r, p, q)
  BY DEF InState, Sane
<1>. QED BY <1>3, <1>4, <1>5, <1>6 DEF SanityCheck

\* A set of naturals that is not empty has a least one.
LEMMA LeastNumber ==
    ASSUME NEW S \in SUBSET Nat, S # {}
    PROVE  \E n \in S : \A m \in S : ~ (m < n)
<1>1. \E n \in S : \A m \in S : ~ (<<m, n>> \in OpToRel(<, Nat))
  BY NatLessThanWellFounded, WFMin
<1>. QED BY <1>1 DEF OpToRel

\* A set of peers that is not empty has a minimum in every strict order.
LEMMA MinimalExists ==
    ASSUME NEW S \in SUBSET Peers, S # {}, NEW R,
           \A p \in Peers : <<p, p>> \notin R,
           \A p, q, o \in Peers : <<p, q>> \in R /\ <<q, o>> \in R => <<p, o>> \in R
    PROVE  \E p \in S : \A q \in S : <<q, p>> \notin R
<1>. DEFINE Below(p) == {q \in S : <<q, p>> \in R}
            N == {Cardinality(Below(p)) : p \in S}
<1>1. \A p \in S : IsFiniteSet(Below(p)) /\ Cardinality(Below(p)) \in Nat
  <2>1. \A p \in S : Below(p) \in SUBSET Peers OBVIOUS
  <2>. HIDE DEF Below
  <2>. QED BY <2>1, RequestAssumption, FS_Subset, FS_CardinalityType
<1>2. PICK n \in N : \A m \in N : ~ (m < n)
  <2>. HIDE DEF Below
  <2>1. N \subseteq Nat /\ N # {} BY <1>1, SMT
  <2>. HIDE DEF N
  <2>. QED BY <2>1, LeastNumber
<1>3. PICK p \in S : Cardinality(Below(p)) = n BY <1>2, ZenonT(30)
<1>4. ASSUME NEW q \in S, <<q, p>> \in R PROVE FALSE
  <2>1. Below(q) \in SUBSET Below(p) /\ q \in Below(p) /\ q \notin Below(q) BY <1>4
  <2>. HIDE DEF Below
  <2>2. /\ Cardinality(Below(q)) \in N /\ Cardinality(Below(q)) \in Nat
        /\ Cardinality(Below(p)) \in Nat /\ IsFiniteSet(Below(p))
    BY <1>1
  <2>. HIDE DEF N
  <2>3. Cardinality(Below(q)) <= Cardinality(Below(p)) /\ Cardinality(Below(q)) # Cardinality(Below(p))
    BY <2>1, <2>2, FS_Subset
  <2>. QED BY <1>2, <1>3, <2>2, <2>3, SMT
<1>. QED BY <1>4

-----------------------------------------------------------------------------
(* Priorities.                                                               *)

\* No two announcements of a hash have the same priority.
LEMMA BetterOrder ==
    ASSUME NEW h \in Hashes, NEW r \in Rows
    PROVE  /\ \A p \in Peers : ~Better(h, r, p, p)
           /\ \A p, q \in Peers : p # q => Better(h, r, p, q) \/ Better(h, r, q, p)
           /\ \A p, q \in Peers : Better(h, r, p, q) => ~Better(h, r, q, p)
           /\ \A p, q, o \in Peers : Better(h, r, p, q) /\ Better(h, r, q, o) => Better(h, r, p, o)
<1>1. \A p \in Peers : Rank[h][p] \in Int /\ r[p].preferred \in BOOLEAN
  BY RequestAssumption, RowType, SMT
<1>2. \A p, q \in Peers : Rank[h][p] = Rank[h][q] => p = q BY RequestAssumption
<1>. QED BY <1>1, <1>2, SMT DEF Better

LEMMA BetterMoved ==
    ASSUME NEW h, NEW r, NEW r2, Moved(r, r2), NEW p \in Peers, NEW q \in Peers
    PROVE  Better(h, r2, p, q) <=> Better(h, r, p, q)
  BY DEF Better, Moved

\* A set of announcements that is not empty has a best one, and only one.
LEMMA TopExists ==
    ASSUME NEW h \in Hashes, NEW r \in Rows, NEW S \in SUBSET Peers, S # {}
    PROVE  /\ Top(h, r, S) \in S
           /\ \A q \in S : q # Top(h, r, S) => Better(h, r, Top(h, r, S), q)
<1>. DEFINE R == {x \in Peers \X Peers : Better(h, r, x[1], x[2])}
<1>1. \A p, q \in Peers : <<p, q>> \in R <=> Better(h, r, p, q) OBVIOUS
<1>. HIDE DEF R
<1>2. PICK p \in S : \A q \in S : <<q, p>> \notin R
  <2>1. \A q \in Peers : <<q, q>> \notin R BY <1>1, BetterOrder
  <2>2. \A q, o, m \in Peers : <<q, o>> \in R /\ <<o, m>> \in R => <<q, m>> \in R
    BY <1>1, BetterOrder
  <2>. QED BY <2>1, <2>2, MinimalExists
<1>3. \A q \in S \ {p} : Better(h, r, p, q) BY <1>1, <1>2, BetterOrder
<1>. QED BY <1>3 DEF Top

LEMMA TopIs ==
    ASSUME NEW h \in Hashes, NEW r \in Rows, NEW S \in SUBSET Peers, NEW p \in S,
           \A q \in S : q # p => ~Better(h, r, q, p)
    PROVE  Top(h, r, S) = p
  BY TopExists, BetterOrder

-----------------------------------------------------------------------------
(* What the operations of the tracker do to a row.                           *)

LEMMA SetStateFacts ==
    ASSUME NEW r \in Rows, NEW p \in Peers, NEW s \in States
    PROVE  LET r2 == SetState(r, p, s)
           IN  /\ r2 \in Rows /\ r2[p].state = s /\ r2[p].preferred = r[p].preferred
               /\ r2[p].time = IF s = "COMPLETED" THEN 0 ELSE r[p].time
               /\ \A q \in Peers : q # p => r2[q] = r[q]
<1>. DEFINE a == InStateNow(r[p], s)
<1>1. /\ a \in [state : States, time : Int, preferred : BOOLEAN] /\ a.state = s
      /\ a.preferred = r[p].preferred /\ a.time = IF s = "COMPLETED" THEN 0 ELSE r[p].time
  <2>1. r[p] \in [state : States, time : Int, preferred : BOOLEAN] BY DEF Rows, States
  <2>. QED BY <2>1, SMT DEF InStateNow
<1>2. SetState(r, p, s) = [r EXCEPT ![p] = a] BY DEF SetState
<1>. HIDE DEF a
<1>. QED BY <1>1, <1>2 DEF Rows, States

\* Only these rows are compared.
LEMMA MovedFacts ==
    ASSUME NEW r, Row(r), NEW r2 \in Rows, NEW P \in SUBSET Peers,
           \A p \in Peers \ P : r2[p] = r[p],
           \A p \in P : /\ r2[p].preferred = r[p].preferred /\ r2[p].state # "NONE"
                        /\ r2[p].time = IF r2[p].state = "COMPLETED" THEN 0 ELSE r[p].time
    PROVE  Moved(r, r2) /\ Row(r2)
  BY DEF Moved, Row

\* The row when the delay of p is over.
LEMMA PromoteFacts ==
    ASSUME NEW h \in Hashes, NEW r, Sane(h, r), NEW p \in Peers, r[p].state = "DELAYED"
    PROVE  LET r2 == PromoteCandidateReady(h, r, p)
           IN  /\ Moved(r, r2) /\ Sane(h, r2) /\ r2[p].state \in Selectable
               /\ \A q \in Peers : q # p => \/ r2[q].state = r[q].state
                                            \/ {r[q].state, r2[q].state} \subseteq Selectable
<1>. DEFINE r2 == PromoteCandidateReady(h, r, p)
            better == {q \in InState(r, {"READY"}) : Better(h, r, q, p)}
            best == InState(r, {"BEST"})
<1>1. Row(r) /\ r \in Rows BY DEF Sane, Row
<1>2. CASE better # {}
  <2>1. r2 = SetState(r, p, "READY") BY <1>2 DEF PromoteCandidateReady
  <2>2. PICK q \in Peers : r[q].state = "READY" /\ Better(h, r, q, p) BY <1>2 DEF InState
  <2>3. /\ r2 \in Rows /\ r2[p].state = "READY" /\ r2[p].preferred = r[p].preferred
        /\ r2[p].time = r[p].time /\ \A o \in Peers : o # p => r2[o] = r[o]
    <3>1. "READY" \in States BY DEF States
    <3>. HIDE DEF r2
    <3>. QED BY <1>1, <2>1, <3>1, SetStateFacts, SMT
  <2>. HIDE DEF r2, better, best
  <2>4. Moved(r, r2) /\ Row(r2)
    <3>1. \A o \in Peers \ {p} : r2[o] = r[o] BY <2>3
    <3>2. \A o \in {p} : /\ r2[o].preferred = r[o].preferred /\ r2[o].state # "NONE"
                        /\ r2[o].time = IF r2[o].state = "COMPLETED" THEN 0 ELSE r[o].time
      BY <2>3
    <3>3. {p} \in SUBSET Peers OBVIOUS
    <3>. QED BY <1>1, <2>3, <3>1, <3>2, <3>3, MovedFacts
  <2>5. \A o \in Peers : r[o].state = "BEST" => ~Better(h, r, p, o)
    BY <1>1, <2>2, BetterOrder DEF Sane
  <2>6. \A o, m \in Peers : Better(h, r2, o, m) <=> Better(h, r, o, m) BY <2>4, BetterMoved
  <2>7. Sane(h, r2)
    <3>1. \A o \in Peers : r2[o].state \in Selected <=> r[o].state \in Selected
      BY <2>3 DEF Selected
    <3>2. \A o \in Peers : r2[o].state \in LiveStates <=> r[o].state \in LiveStates
      BY <2>3 DEF LiveStates
    <3>3. \A o, m \in Peers : r2[o].state = "READY" /\ r2[m].state = "BEST" => ~Better(h, r2, o, m)
      BY <2>3, <2>5, <2>6 DEF Sane
    <3>4. \E o \in Peers : r2[o].state \in Selected BY <2>2, <3>1 DEF Sane
    <3>5. \A o, m \in Peers : r2[o].state \in Selected /\ r2[m].state \in Selected => o = m
      BY <3>1 DEF Sane
    <3>6. \E o \in Peers : r2[o].state \in LiveStates BY <2>3 DEF LiveStates
    <3>. QED BY <2>4, <3>3, <3>4, <3>5, <3>6 DEF Sane
  <2>. QED BY <2>3, <2>4, <2>7 DEF r2, Selectable
<1>3. CASE better = {} /\ best # {} /\ \A q \in best : Better(h, r, p, q)
  <2>1. PICK b \in Peers : r[b].state = "BEST" BY <1>3 DEF InState
  <2>2. b # p /\ Better(h, r, p, b) /\ best = {b}
    BY <1>3, <2>1 DEF InState, Sane, Selected
  <2>3. r2 = [q \in Peers |-> IF q = p THEN InStateNow(r[p], "BEST")
                              ELSE IF q = b THEN InStateNow(r[b], "READY") ELSE r[q]]
    <3>1. r2 = [q \in Peers |-> IF q = p THEN InStateNow(r[p], "BEST")
                              ELSE IF q \in best THEN InStateNow(r[q], "READY") ELSE r[q]]
      BY <1>3 DEF PromoteCandidateReady
    <3>. HIDE DEF r2, best
    <3>. QED BY <2>2, <3>1
  <2>. HIDE DEF r2
  <2>4. /\ r2 \in Rows /\ r2[p].state = "BEST" /\ r2[b].state = "READY"
        /\ r2[p].preferred = r[p].preferred /\ r2[b].preferred = r[b].preferred
        /\ r2[p].time = r[p].time /\ r2[b].time = r[b].time
        /\ \A o \in Peers : o # p /\ o # b => r2[o] = r[o]
    <3>. DEFINE Ann == [state : States, time : Int, preferred : BOOLEAN]
                a == InStateNow(r[p], "BEST")
                c == InStateNow(r[b], "READY")
    <3>1. \A q \in Peers : r[q] \in Ann BY <1>1 DEF Rows, States
    <3>2. \A q \in Peers : r[q].time \in Int /\ r[q].preferred \in BOOLEAN BY <1>1, RowType
    <3>3. a \in Ann /\ a.state = "BEST" /\ a.time = r[p].time /\ a.preferred = r[p].preferred
      BY <3>2 DEF InStateNow, States
    <3>4. c \in Ann /\ c.state = "READY" /\ c.time = r[b].time /\ c.preferred = r[b].preferred
      BY <3>2 DEF InStateNow, States
    <3>5. Rows = [Peers -> Ann] BY DEF Rows, States
    <3>. HIDE DEF a, c, Ann
    <3>6. r2 \in [Peers -> Ann] BY <2>3, <3>1, <3>3, <3>4 DEF a, c
    <3>7. r2[p] = a /\ r2[b] = c /\ \A o \in Peers : o # p /\ o # b => r2[o] = r[o]
      BY <2>2, <2>3 DEF a, c
    <3>. QED BY <3>3, <3>4, <3>5, <3>6, <3>7
  <2>5. Moved(r, r2) /\ Row(r2)
    <3>1. \A o \in Peers \ {p, b} : r2[o] = r[o] BY <2>4
    <3>2. {p, b} \in SUBSET Peers OBVIOUS
    <3>3. \A o \in {p, b} : /\ r2[o].preferred = r[o].preferred /\ r2[o].state # "NONE"
                            /\ r2[o].time = IF r2[o].state = "COMPLETED" THEN 0 ELSE r[o].time
      BY <2>4
    <3>. QED BY <1>1, <2>4, <3>1, <3>2, <3>3, MovedFacts
  <2>6. \A o, m \in Peers : Better(h, r2, o, m) <=> Better(h, r, o, m) BY <2>5, BetterMoved
  <2>7. \A o \in Peers : r2[o].state \in Selected => o = p
    BY <2>1, <2>4 DEF Sane, Selected
  <2>8. \A o \in Peers : r2[o].state = "READY" => ~Better(h, r, o, p)
    <3>1. \A o \in Peers : r[o].state = "READY" => ~Better(h, r, o, p)
      BY <1>3 DEF InState
    <3>2. ~Better(h, r, b, p) BY <1>1, <2>2, BetterOrder
    <3>. QED BY <2>4, <3>1, <3>2
  <2>9. Sane(h, r2)
    <3>1. r2[p].state \in Selected /\ r2[p].state \in LiveStates BY <2>4 DEF Selected, LiveStates
    <3>2. \A o \in Peers : r2[o].state = "BEST" => o = p BY <2>7 DEF Selected
    <3>. QED BY <2>5, <2>6, <2>7, <2>8, <3>1, <3>2 DEF Sane
  <2>. QED BY <2>1, <2>4, <2>5, <2>9 DEF r2, Selectable
<1>4. CASE better = {} /\ ~(best # {} /\ \A q \in best : Better(h, r, p, q))
  <2>. DEFINE s == IF InState(r, Selected) = {} THEN "BEST" ELSE "READY"
  <2>1. r2 = SetState(r, p, s) /\ s \in {"BEST", "READY"} BY <1>4 DEF PromoteCandidateReady
  <2>2. /\ r2 \in Rows /\ r2[p].state = s /\ r2[p].preferred = r[p].preferred
        /\ r2[p].time = r[p].time /\ \A o \in Peers : o # p => r2[o] = r[o]
    <3>1. s \in States /\ s # "COMPLETED" BY DEF States
    <3>. HIDE DEF r2, s
    <3>. QED BY <1>1, <2>1, <3>1, SetStateFacts, SMT
  <2>. HIDE DEF r2
  <2>3. Moved(r, r2) /\ Row(r2)
    <3>1. \A o \in Peers \ {p} : r2[o] = r[o] BY <2>2
    <3>2. s # "NONE" /\ s # "COMPLETED" OBVIOUS
    <3>. HIDE DEF s
    <3>. QED BY <1>1, <2>2, <3>1, <3>2, MovedFacts, ZenonT(30)
  <2>4. \A o, m \in Peers : Better(h, r2, o, m) <=> Better(h, r, o, m) BY <2>3, BetterMoved
  <2>5. \A o \in Peers : r[o].state = "BEST" => ~Better(h, r, p, o)
    BY <1>4 DEF InState, Sane, Selected
  <2>6. \A o \in Peers : r[o].state = "READY" => ~Better(h, r, o, p)
    BY <1>4 DEF InState
  <2>7. r2[p].state \in LiveStates BY <2>1, <2>2 DEF LiveStates
  <2>8. Sane(h, r2)
    <3>1. CASE InState(r, Selected) = {}
      <4>1. \A o \in Peers : r[o].state \notin Selected /\ r[o].state # "READY"
        BY <3>1 DEF InState, Sane
      <4>2. r2[p].state = "BEST" /\ r2[p].state \in Selected BY <2>2, <3>1 DEF Selected
      <4>3. \A o \in Peers : r2[o].state \in Selected => o = p BY <2>2, <4>1
      <4>4. \A o \in Peers : r2[o].state # "READY" BY <2>2, <4>1, <4>2
      <4>. QED BY <2>3, <2>7, <4>3, <4>4 DEF Sane
    <3>2. CASE InState(r, Selected) # {}
      <4>1. PICK b \in Peers : r[b].state \in Selected BY <3>2 DEF InState
      <4>2. r2[p].state = "READY" /\ r2[p].state \notin Selected BY <2>2, <3>2 DEF Selected
      <4>3. r2[b].state \in Selected BY <2>2, <4>1 DEF Selected
      <4>4. \A o, m \in Peers : r2[o].state \in Selected /\ r2[m].state \in Selected => o = m
        BY <2>2, <4>2 DEF Sane
      <4>5. \A o, m \in Peers : r2[o].state = "READY" /\ r2[m].state = "BEST" => ~Better(h, r2, o, m)
        BY <2>2, <2>4, <2>5, <4>2 DEF Sane
      <4>. QED BY <2>3, <2>7, <4>3, <4>4, <4>5 DEF Sane
    <3>. QED BY <3>1, <3>2
  <2>. QED BY <2>1, <2>2, <2>3, <2>8 DEF r2, Selectable
<1>. QED BY <1>2, <1>3, <1>4 DEF r2

\* The row when p is no longer a candidate: if it was selected, the best of the others
\* is.
LEMMA ReselectFacts ==
    ASSUME NEW h \in Hashes, NEW r, Sane(h, r), NEW p \in Peers, NEW s \in {"COMPLETED", "DELAYED"},
           r[p].state \in LiveStates,
           s = "COMPLETED" => \E q \in Peers : q # p /\ r[q].state \in LiveStates
    PROVE  LET r2 == ChangeAndReselect(h, r, p, s)
           IN  /\ Moved(r, r2) /\ Sane(h, r2) /\ r2[p].state = s
               /\ \A q \in Peers : q # p => \/ r2[q].state = r[q].state
                                            \/ {r[q].state, r2[q].state} \subseteq Selectable
<1>. DEFINE r2 == ChangeAndReselect(h, r, p, s)
            ready == InState(r, {"READY"})
<1>1. Row(r) /\ r \in Rows /\ s \in States /\ "BEST" \in States BY DEF Sane, Row, States
<1>2. CASE r[p].state \in Selected /\ ready # {}
  <2>. DEFINE t == Top(h, r, ready)
              r1 == SetState(r, t, "BEST")
  <2>1. /\ t \in Peers /\ r[t].state = "READY" /\ t # p
        /\ \A q \in Peers : r[q].state = "READY" /\ q # t => Better(h, r, t, q)
    <3>1. ready \in SUBSET Peers BY DEF InState
    <3>2. t \in ready /\ \A q \in ready : q # t => Better(h, r, t, q)
      <4>. HIDE DEF ready
      <4>. QED BY <1>1, <1>2, <3>1, TopExists
    <3>. HIDE DEF t
    <3>. QED BY <1>2, <3>2 DEF InState, Selected
  <2>2. r2 = SetState(r1, p, s) BY <1>2 DEF ChangeAndReselect
  <2>. HIDE DEF t, r2
  <2>3. /\ r1 \in Rows /\ r1[t].state = "BEST" /\ r1[t].preferred = r[t].preferred
        /\ r1[t].time = r[t].time /\ \A o \in Peers : o # t => r1[o] = r[o]
    BY <1>1, <2>1, SetStateFacts, SMT
  <2>. HIDE DEF r1
  <2>4. /\ r2 \in Rows /\ r2[p].state = s /\ r2[p].preferred = r1[p].preferred
        /\ r2[p].time = IF s = "COMPLETED" THEN 0 ELSE r1[p].time
        /\ \A o \in Peers : o # p => r2[o] = r1[o]
    BY <1>1, <2>2, <2>3, SetStateFacts, SMT
  <2>5. /\ r2[p].preferred = r[p].preferred /\ r2[t].state = "BEST"
        /\ r2[t].preferred = r[t].preferred /\ r2[t].time = r[t].time
        /\ r2[p].time = IF s = "COMPLETED" THEN 0 ELSE r[p].time
        /\ \A o \in Peers : o # p /\ o # t => r2[o] = r[o]
    BY <2>1, <2>3, <2>4
  <2>6. Moved(r, r2) /\ Row(r2)
    <3>1. \A o \in Peers \ {p, t} : r2[o] = r[o] BY <2>5
    <3>2. {p, t} \in SUBSET Peers BY <2>1
    <3>3. \A o \in {p, t} : /\ r2[o].preferred = r[o].preferred /\ r2[o].state # "NONE"
                            /\ r2[o].time = IF r2[o].state = "COMPLETED" THEN 0 ELSE r[o].time
      BY <2>4, <2>5
    <3>. QED BY <1>1, <2>4, <3>1, <3>2, <3>3, MovedFacts
  <2>7. \A o, m \in Peers : Better(h, r2, o, m) <=> Better(h, r, o, m) BY <2>6, BetterMoved
  <2>8. \A o \in Peers : r2[o].state \in Selected => o = t
    BY <1>2, <2>4, <2>5 DEF Sane, Selected
  <2>9. \A o \in Peers : r2[o].state = "READY" => ~Better(h, r, o, t)
    <3>1. \A o \in Peers : r2[o].state = "READY" => o # t /\ r[o].state = "READY" BY <2>4, <2>5
    <3>. QED BY <1>1, <2>1, <3>1, BetterOrder
  <2>10. Sane(h, r2)
    <3>1. r2[t].state \in Selected /\ r2[t].state \in LiveStates BY <2>5 DEF Selected, LiveStates
    <3>2. \A o \in Peers : r2[o].state = "BEST" => o = t BY <2>8 DEF Selected
    <3>. QED BY <2>1, <2>6, <2>7, <2>8, <2>9, <3>1, <3>2 DEF Sane
  <2>. QED BY <2>1, <2>4, <2>5, <2>6, <2>10 DEF r2, Selectable
<1>3. CASE ~(r[p].state \in Selected /\ ready # {})
  <2>1. r2 = SetState(r, p, s) BY <1>3 DEF ChangeAndReselect
  <2>. HIDE DEF r2
  <2>2. /\ r2 \in Rows /\ r2[p].state = s /\ r2[p].preferred = r[p].preferred
        /\ r2[p].time = IF s = "COMPLETED" THEN 0 ELSE r[p].time
        /\ \A o \in Peers : o # p => r2[o] = r[o]
    BY <1>1, <2>1, SetStateFacts, SMT
  <2>3. Moved(r, r2) /\ Row(r2)
    <3>1. \A o \in Peers \ {p} : r2[o] = r[o] BY <2>2
    <3>2. \A o \in {p} : /\ r2[o].preferred = r[o].preferred /\ r2[o].state # "NONE"
                         /\ r2[o].time = IF r2[o].state = "COMPLETED" THEN 0 ELSE r[o].time
      BY <2>2
    <3>. QED BY <1>1, <2>2, <3>1, <3>2, MovedFacts
  <2>4. \A o, m \in Peers : Better(h, r2, o, m) <=> Better(h, r, o, m) BY <2>3, BetterMoved
  <2>5. \E o \in Peers : r2[o].state \in LiveStates
    <3>1. CASE s = "COMPLETED" BY <2>2, <3>1
    <3>2. CASE s = "DELAYED" BY <2>2, <3>2 DEF LiveStates
    <3>. QED BY <3>1, <3>2
  <2>6. \A o, m \in Peers : r2[o].state \in Selected /\ r2[m].state \in Selected => o = m
    BY <2>2 DEF Sane, Selected
  <2>7. \A o, m \in Peers : r2[o].state = "READY" /\ r2[m].state = "BEST" => ~Better(h, r2, o, m)
    BY <2>2, <2>4 DEF Sane
  <2>8. ASSUME NEW o \in Peers, r2[o].state = "READY"
        PROVE  \E m \in Peers : r2[m].state \in Selected
    <3>1. o # p /\ r[o].state = "READY" BY <2>2, <2>8
    <3>2. r[p].state \notin Selected BY <1>3, <3>1 DEF InState
    <3>3. PICK m \in Peers : r[m].state \in Selected BY <3>1 DEF Sane
    <3>. QED BY <2>2, <3>2, <3>3
  <2>9. Sane(h, r2) BY <2>3, <2>5, <2>6, <2>7, <2>8 DEF Sane
  <2>. QED BY <2>2, <2>3, <2>9 DEF r2
<1>. QED BY <1>2, <1>3 DEF r2

\* What a response or an expiry does: the announcement is complete, or nothing is left.
LEMMA CompletedFacts ==
    ASSUME NEW h \in Hashes, NEW r, Sane(h, r), NEW p \in Peers, r[p].state \in LiveStates
    PROVE  LET r2 == MakeCompleted(h, r, p)
           IN  /\ Sane(h, r2)
               /\ \/ /\ r2 = NoRow
                     /\ \A q \in Peers : q # p => r[q].state \in {"NONE", "COMPLETED"}
                  \/ /\ Moved(r, r2) /\ r2[p].state = "COMPLETED"
                     /\ \E q \in Peers : q # p /\ r[q].state \in LiveStates
                     /\ \A q \in Peers : q # p => \/ r2[q].state = r[q].state
                                                  \/ {r[q].state, r2[q].state} \subseteq Selectable
<1>. DEFINE r2 == MakeCompleted(h, r, p)
<1>1. r[p].state # "COMPLETED" /\ r \in Rows /\ Row(r) BY DEF LiveStates, Sane, Row
<1>2. Live(r) = {q \in Peers : r[q].state \in LiveStates} BY DEF Live, InState, LiveStates
<1>3. CASE Live(r) = {p}
  <2>1. r2 = NoRow BY <1>1, <1>3 DEF MakeCompleted
  <2>2. \A q \in Peers : q # p => r[q].state \notin LiveStates BY <1>2, <1>3
  <2>3. \A q \in Peers : r[q].state \in States BY <1>1, RowType
  <2>4. \A q \in Peers : q # p => r[q].state \in {"NONE", "COMPLETED"}
    BY <2>2, <2>3 DEF States, LiveStates
  <2>. HIDE DEF r2
  <2>. QED BY <2>1, <2>4, NoRowFacts DEF r2
<1>4. CASE Live(r) # {p}
  <2>1. r2 = ChangeAndReselect(h, r, p, "COMPLETED") BY <1>1, <1>4 DEF MakeCompleted
  <2>2. \E q \in Peers : q # p /\ r[q].state \in LiveStates BY <1>2, <1>4
  <2>3. "COMPLETED" \in {"COMPLETED", "DELAYED"} OBVIOUS
  <2>. HIDE DEF r2
  <2>. QED BY <2>1, <2>2, <2>3, ReselectFacts, SMT DEF r2
<1>. QED BY <1>3, <1>4

-----------------------------------------------------------------------------
(* The loops of SetTimePoint.                                                *)

\* A set of numbers that has 0 and the successors of its members has them all.
LEMMA Climb ==
    ASSUME NEW N \in Nat, NEW S \in SUBSET (0..N), 0 \in S,
           \A k \in 1..N : k - 1 \in S => k \in S
    PROVE  \A k \in 0..N : k \in S
<1>. DEFINE Bad == {k \in 0..N : k \notin S}
<1>. SUFFICES ASSUME Bad # {} PROVE FALSE OBVIOUS
<1>1. Bad \subseteq Nat BY SMT
<1>2. PICK n \in Bad : \A m \in Bad : ~ (m < n)
  <2>. HIDE DEF Bad
  <2>. QED BY <1>1, LeastNumber
<1>3. n \in 1..N /\ n - 1 \in 0..N /\ n - 1 < n BY <1>2, SMT
<1>4. n - 1 \in S BY <1>2, <1>3
<1>. QED BY <1>2, <1>3, <1>4

\* The turns of a loop.
HasTurns(F, N, V, first) ==
    \E g \in [0..N -> V] : g[0] = first /\ \A k \in 1..N : g[k] = F[g[k - 1]]

LEMMA TurnsExist ==
    ASSUME NEW N \in Nat, NEW V, NEW first \in V, NEW F \in [V -> V]
    PROVE  HasTurns(F, N, V, first)
<1>. DEFINE Good(n, g) == g[0] = first /\ \A k \in 1..n : g[k] = F[g[k - 1]]
            S == {n \in 0..N : \E g \in [0..N -> V] : Good(n, g)}
<1>1. 0 \in S
  <2>. DEFINE g == [k \in 0..N |-> first]
  <2>1. g \in [0..N -> V] /\ Good(0, g) /\ 0 \in 0..N BY SMT
  <2>. HIDE DEF g
  <2>2. \E f \in [0..N -> V] : Good(0, f) BY <2>1
  <2>. QED BY <2>1, <2>2
<1>2. ASSUME NEW n \in 1..N, n - 1 \in S PROVE n \in S
  <2>1. PICK g \in [0..N -> V] : Good(n - 1, g) BY <1>2
  <2>2. n - 1 \in 0..N /\ n \in 0..N /\ n # 0 /\ n - 1 # n BY SMT
  <2>. DEFINE f == [g EXCEPT ![n] = F[g[n - 1]]]
  <2>3. F[g[n - 1]] \in V BY <2>2
  <2>4. f \in [0..N -> V] BY <2>3
  <2>5. \A k \in 0..N : k # n => f[k] = g[k] OBVIOUS
  <2>6. f[n] = F[f[n - 1]] BY <2>2
  <2>. HIDE DEF f
  <2>7. ASSUME NEW k \in 1..n PROVE f[k] = F[f[k - 1]]
    <3>1. CASE k = n BY <2>6, <3>1
    <3>2. CASE k # n
      <4>1. k \in 0..N /\ k - 1 \in 0..N /\ k - 1 # n /\ k \in 1..(n - 1) BY <3>2, SMT
      <4>. QED BY <2>1, <2>5, <3>2, <4>1
    <3>. QED BY <3>1, <3>2
  <2>8. f[0] = first
    <3>1. 0 \in 0..N /\ 0 # n BY SMT
    <3>. QED BY <2>1, <2>5, <3>1
  <2>9. Good(n, f) BY <2>7, <2>8
  <2>. QED BY <2>2, <2>4, <2>9
<1>3. S \subseteq 0..N OBVIOUS
<1>. HIDE DEF S
<1>4. N \in S
  <2>1. N \in 0..N /\ S \in SUBSET (0..N) BY <1>3, SMT
  <2>. QED BY <1>1, <1>2, <2>1, Climb
<1>. QED BY <1>4 DEF S, HasTurns

\* A loop that takes one peer out of a set at every turn ends in time.
LEMMA LoopEnds ==
    ASSUME NEW N \in Nat, NEW d \in [0..N -> SUBSET Peers], N = Cardinality(d[0]),
           \A k \in 1..N : d[k] = {} \/ \E p \in d[k - 1] : d[k] \subseteq d[k - 1] \ {p}
    PROVE  d[N] = {}
<1>. DEFINE S == {k \in 0..N : d[k] = {} \/ Cardinality(d[k]) + k <= N}
<1>1. N \in Nat OBVIOUS
<1>2. \A k \in 0..N : IsFiniteSet(d[k]) /\ Cardinality(d[k]) \in Nat
  BY RequestAssumption, FS_Subset, FS_CardinalityType
<1>3. 0 \in S
  <2>1. 0 \in 0..N BY <1>1, SMT
  <2>. QED BY <1>1, <1>2, <2>1, SMT
<1>4. ASSUME NEW k \in 1..N, k - 1 \in S PROVE k \in S
  <2>1. k \in 0..N /\ k - 1 \in 0..N BY <1>1, SMT
  <2>2. CASE d[k] = {} BY <2>1, <2>2
  <2>3. CASE d[k] # {}
    <3>1. PICK p \in d[k - 1] : d[k] \subseteq d[k - 1] \ {p} BY <2>3
    <3>2. Cardinality(d[k - 1]) + (k - 1) <= N BY <1>4, <3>1
    <3>3. /\ IsFiniteSet(d[k - 1] \ {p})
          /\ Cardinality(d[k - 1] \ {p}) = Cardinality(d[k - 1]) - 1
      <4>1. IsFiniteSet(d[k - 1]) BY <1>2, <2>1
      <4>. QED BY <3>1, <4>1, FS_RemoveElement, SMT
    <3>4. Cardinality(d[k]) <= Cardinality(d[k - 1] \ {p}) BY <3>1, <3>3, FS_Subset
    <3>5. Cardinality(d[k]) + k <= N BY <1>1, <1>2, <2>1, <3>2, <3>3, <3>4, SMT
    <3>. QED BY <2>1, <3>5
  <2>. QED BY <2>2, <2>3
<1>5. S \in SUBSET (0..N) OBVIOUS
<1>. HIDE DEF S
<1>6. N \in S
  <2>1. N \in 0..N BY <1>1, SMT
  <2>. QED BY <1>1, <1>3, <1>4, <1>5, <2>1, Climb
<1>7. d[N] = {} \/ Cardinality(d[N]) = 0 BY <1>1, <1>2, <1>6, SMT DEF S
<1>8. N \in 0..N BY <1>1, SMT
<1>. QED BY <1>2, <1>7, <1>8, FS_EmptySet

\* Of finitely many times one is the least.
LEMMA LeastTime ==
    ASSUME NEW S \in SUBSET Peers, S # {}, NEW f \in [Peers -> Int]
    PROVE  \E p \in S : \A q \in S : f[p] <= f[q]
<1>. DEFINE R == {x \in Peers \X Peers : f[x[1]] < f[x[2]]}
<1>1. \A p, q \in Peers : <<p, q>> \in R <=> f[p] < f[q] OBVIOUS
<1>2. \A p \in Peers : f[p] \in Int OBVIOUS
<1>. HIDE DEF R
<1>3. PICK p \in S : \A q \in S : <<q, p>> \notin R
  <2>1. \A q \in Peers : <<q, q>> \notin R BY <1>1, <1>2, SMT
  <2>2. ASSUME NEW q \in Peers, NEW o \in Peers, NEW m \in Peers, <<q, o>> \in R, <<o, m>> \in R
        PROVE  <<q, m>> \in R
    <3>1. f[q] < f[o] /\ f[o] < f[m] BY <1>1, <2>2
    <3>2. f[q] < f[m] BY <1>2, <3>1, SMT
    <3>. QED BY <1>1, <3>2
  <2>. QED BY <2>1, <2>2, MinimalExists
<1>4. \A q \in S : ~ (f[q] < f[p]) BY <1>1, <1>3
<1>. QED BY <1>2, <1>4, SMT

\* How far the first loop has come from r0 when the row is r; all that is left when
\* only requests that expired were waited for.
Passed(r0, r) ==
    /\ Moved(r0, r)
    /\ \A p \in Peers :
          \/ r[p].state = r0[p].state
          \/ {r0[p].state, r[p].state} \subseteq Selectable
          \/ r0[p].state = "DELAYED" /\ r0[p].time <= 0 /\ r[p].state \in Selectable
          \/ r0[p].state = "REQUESTED" /\ r0[p].time <= 0 /\ r[p].state = "COMPLETED"
Over(r) == \A p \in Peers : \/ r[p].state \in {"NONE", "COMPLETED"}
                            \/ r[p].state = "REQUESTED" /\ r[p].time <= 0
Passing(h, r0, r) == Sane(h, r) /\ (Passed(r0, r) \/ (r = NoRow /\ Over(r0)))

LEMMA MovedTwice ==
    ASSUME NEW r0, NEW r, NEW r2, Moved(r0, r), Moved(r, r2),
           \A p \in Peers : r[p].state = "COMPLETED" => r2[p].state = "COMPLETED"
    PROVE  Moved(r0, r2)
  BY DEF Moved

LEMMA PassTimeStep ==
    ASSUME NEW h \in Hashes, NEW r0 \in Rows, NEW r, Passing(h, r0, r), Due(r) # {}
    PROVE  LET r2 == PassTime(h, r)
           IN  Passing(h, r0, r2) /\ \E p \in Due(r) : Due(r2) \subseteq Due(r) \ {p}
<1>. DEFINE r2 == PassTime(h, r)
            p == CHOOSE q \in Due(r) : \A o \in Due(r) : r[q].time <= r[o].time
<1>1. Sane(h, r) /\ r \in Rows BY DEF Passing, Sane, Row
<1>2. p \in Due(r)
  <2>. DEFINE f == [q \in Peers |-> r[q].time]
  <2>1. f \in [Peers -> Int] BY <1>1, RowType
  <2>2. Due(r) \in SUBSET Peers /\ \A q \in Due(r) : f[q] = r[q].time BY DEF Due, InState
  <2>. HIDE DEF f
  <2>3. \E q \in Due(r) : \A o \in Due(r) : f[q] <= f[o] BY <2>1, <2>2, LeastTime
  <2>4. \E q \in Due(r) : \A o \in Due(r) : r[q].time <= r[o].time BY <2>2, <2>3
  <2>. QED BY <2>4
<1>3. r2 = IF r[p].state = "DELAYED" THEN PromoteCandidateReady(h, r, p) ELSE MakeCompleted(h, r, p)
  BY DEF PassTime
<1>. HIDE DEF r2, p
<1>4. p \in Peers /\ r[p].state \in {"DELAYED", "REQUESTED"} /\ r[p].time <= 0
  BY <1>2 DEF Due, InState, Waiting
<1>5. Passed(r0, r)
  <2>1. r # NoRow BY <1>4, NoRowFacts
  <2>. QED BY <2>1 DEF Passing
<1>6. r0[p].state = r[p].state /\ r0[p].time = r[p].time
  BY <1>4, <1>5 DEF Passed, Moved, Selectable
<1>7. ASSUME Moved(r, r2), Sane(h, r2),
             \A q \in Peers : q # p => \/ r2[q].state = r[q].state
                                       \/ {r[q].state, r2[q].state} \subseteq Selectable,
             \/ r[p].state = "DELAYED" /\ r2[p].state \in Selectable
             \/ r[p].state = "REQUESTED" /\ r2[p].state = "COMPLETED"
      PROVE  Passing(h, r0, r2) /\ Due(r2) \subseteq Due(r) \ {p}
  <2>1. \A q \in Peers : r[q].state = "COMPLETED" => r2[q].state = "COMPLETED"
    BY <1>4, <1>7 DEF Selectable
  <2>2. Moved(r0, r2) BY <1>5, <1>7, <2>1, MovedTwice, SMT DEF Passed
  <2>3. ASSUME NEW q \in Peers
        PROVE  \/ r2[q].state = r0[q].state
               \/ {r0[q].state, r2[q].state} \subseteq Selectable
               \/ r0[q].state = "DELAYED" /\ r0[q].time <= 0 /\ r2[q].state \in Selectable
               \/ r0[q].state = "REQUESTED" /\ r0[q].time <= 0 /\ r2[q].state = "COMPLETED"
    <3>1. CASE q = p BY <1>4, <1>6, <1>7, <3>1
    <3>2. CASE q # p BY <1>5, <1>7, <3>2 DEF Passed, Selectable
    <3>. QED BY <3>1, <3>2
  <2>4. Passing(h, r0, r2) BY <1>7, <2>2, <2>3 DEF Passing, Passed
  <2>5. ASSUME NEW q \in Due(r2) PROVE q \in Due(r) \ {p}
    <3>1. q \in Peers /\ r2[q].state \in Waiting /\ r2[q].time <= 0 BY <2>5 DEF Due, InState
    <3>2. q # p BY <1>7, <3>1 DEF Waiting, Selectable
    <3>3. r[q].state = r2[q].state BY <1>7, <3>1, <3>2 DEF Waiting, Selectable
    <3>4. r2[q].time = r[q].time BY <1>7, <3>1 DEF Moved, Waiting
    <3>. QED BY <3>1, <3>2, <3>3, <3>4 DEF Due, InState
  <2>. QED BY <2>4, <2>5
<1>8. CASE r[p].state = "DELAYED"
  <2>1. r2 = PromoteCandidateReady(h, r, p) BY <1>3, <1>8
  <2>. QED BY <1>1, <1>2, <1>4, <1>7, <1>8, <2>1, PromoteFacts, SMT DEF r2
<1>9. CASE r[p].state = "REQUESTED"
  <2>1. r2 = MakeCompleted(h, r, p) /\ r[p].state \in LiveStates BY <1>3, <1>9 DEF LiveStates
  <2>2. CASE /\ Sane(h, r2) /\ r2 = NoRow
             /\ \A q \in Peers : q # p => r[q].state \in {"NONE", "COMPLETED"}
    <3>1. Over(r0)
      <4>1. ASSUME NEW q \in Peers, q # p
            PROVE  \/ r0[q].state \in {"NONE", "COMPLETED"}
                   \/ r0[q].state = "REQUESTED" /\ r0[q].time <= 0
        BY <1>5, <2>2, <4>1 DEF Passed, Selectable
      <4>. QED BY <1>4, <1>6, <1>9, <4>1 DEF Over
    <3>2. Due(r2) = {} BY <2>2, NoRowFacts DEF Due, InState, Waiting
    <3>. QED BY <1>2, <2>2, <3>1, <3>2 DEF Passing, r2
  <2>3. CASE /\ Sane(h, r2) /\ Moved(r, r2) /\ r2[p].state = "COMPLETED"
             /\ \A q \in Peers : q # p => \/ r2[q].state = r[q].state
                                          \/ {r[q].state, r2[q].state} \subseteq Selectable
    BY <1>2, <1>7, <1>9, <2>3 DEF r2
  <2>. QED BY <1>1, <1>4, <2>1, <2>2, <2>3, CompletedFacts, SMT
<1>. QED BY <1>4, <1>8, <1>9

\* The loop over what is due.
LEMMA PassedTimeFacts ==
    ASSUME NEW h \in Hashes, NEW r0, Sane(h, r0)
    PROVE  LET r == PassedTime(h, r0) IN Passing(h, r0, r) /\ Due(r) = {}
<1>. DEFINE N == Cardinality(Due(r0))
            body == [r \in Rows |-> PassTime(h, r)]
            V == {r \in Rows : Passing(h, r0, r)}
            F == [r \in V |-> PassTime(h, r)]
            Good(g) == g = [i \in 0..N |-> IF i = 0 THEN r0 ELSE body[g[i - 1]]]
            f == CHOOSE g : Good(g)
<1>1. N \in Nat
  <2>1. Due(r0) \in SUBSET Peers BY DEF Due, InState
  <2>. QED BY <2>1, RequestAssumption, FS_Subset, FS_CardinalityType
<1>2. r0 \in Rows BY DEF Sane, Row
<1>3. r0 \in V
  <2>1. Passing(h, r0, r0) BY <1>2 DEF Passing, Passed, Moved, Sane, Row
  <2>. QED BY <1>2, <2>1
<1>4. ASSUME NEW r \in V, Due(r) = {} PROVE PassTime(h, r) = r BY <1>4 DEF PassTime
<1>5. ASSUME NEW r \in V, Due(r) # {}
      PROVE  /\ PassTime(h, r) \in V
             /\ \E p \in Due(r) : Due(PassTime(h, r)) \subseteq Due(r) \ {p}
  <2>. DEFINE r2 == PassTime(h, r)
  <2>1. Passing(h, r0, r) OBVIOUS
  <2>2. Passing(h, r0, r2) /\ \E p \in Due(r) : Due(r2) \subseteq Due(r) \ {p}
    BY <1>2, <1>5, <2>1, PassTimeStep
  <2>3. r2 \in Rows
    <3>. HIDE DEF r2
    <3>. QED BY <2>2 DEF Passing, Sane, Row
  <2>. QED BY <2>2, <2>3
<1>6. \A r \in V : r \in Rows /\ Passing(h, r0, r) /\ body[r] = PassTime(h, r) OBVIOUS
<1>. HIDE DEF V, body
<1>7. \A r \in V : PassTime(h, r) \in V BY <1>4, <1>5
<1>8. \E g : Good(g)
  <2>1. F \in [V -> V] BY <1>7
  <2>2. \A r \in V : F[r] = PassTime(h, r) OBVIOUS
  <2>. HIDE DEF F
  <2>3. PICK g \in [0..N -> V] : g[0] = r0 /\ \A i \in 1..N : g[i] = F[g[i - 1]]
    <3>1. HasTurns(F, N, V, r0) BY <1>1, <1>3, <2>1, TurnsExist
    <3>. QED BY <3>1 DEF HasTurns
  <2>. HIDE DEF N
  <2>4. ASSUME NEW i \in 0..N PROVE g[i] = IF i = 0 THEN r0 ELSE body[g[i - 1]]
    <3>1. CASE i = 0 BY <2>3, <3>1
    <3>2. CASE i # 0
      <4>1. i \in 1..N /\ i - 1 \in 0..N BY <1>1, <3>2, SMT
      <4>2. g[i - 1] \in V BY <4>1
      <4>. QED BY <1>6, <2>2, <2>3, <3>2, <4>1, <4>2
    <3>. QED BY <3>1, <3>2
  <2>5. Good(g) BY <2>4
  <2>. QED BY <2>5
<1>9. Good(f) BY <1>8
<1>10. PassedTime(h, r0) = f[N] BY DEF PassedTime, body
<1>. HIDE DEF f, N
<1>11. \A i \in 0..N : f[i] = IF i = 0 THEN r0 ELSE body[f[i - 1]] BY <1>9
<1>12. f[0] = r0 /\ \A i \in 1..N : f[i] = body[f[i - 1]]
  <2>1. 0 \in 0..N /\ \A i \in 1..N : i \in 0..N /\ i # 0 BY <1>1, SMT
  <2>. QED BY <1>11, <2>1
<1>13. \A i \in 0..N : f[i] \in V
  <2>. DEFINE S == {i \in 0..N : f[i] \in V}
  <2>1. S \in SUBSET (0..N) OBVIOUS
  <2>2. 0 \in S BY <1>1, <1>3, <1>12, SMT
  <2>3. ASSUME NEW i \in 1..N, i - 1 \in S PROVE i \in S
    <3>1. i \in 0..N /\ f[i - 1] \in V BY <1>1, <2>3, SMT
    <3>2. f[i] \in V BY <1>6, <1>7, <1>12, <3>1
    <3>. QED BY <3>1, <3>2
  <2>4. \A i \in S : f[i] \in V OBVIOUS
  <2>. HIDE DEF S
  <2>. QED BY <1>1, <2>1, <2>2, <2>3, <2>4, Climb
<1>14. Due(f[N]) = {}
  <2>. DEFINE d == [i \in 0..N |-> Due(f[i])]
  <2>1. d \in [0..N -> SUBSET Peers] BY DEF Due, InState
  <2>2. \A i \in 0..N : d[i] = Due(f[i]) OBVIOUS
  <2>. HIDE DEF d
  <2>3. ASSUME NEW i \in 1..N
        PROVE  d[i] = {} \/ \E p \in d[i - 1] : d[i] \subseteq d[i - 1] \ {p}
    <3>1. i \in 0..N /\ i - 1 \in 0..N BY <1>1, SMT
    <3>2. f[i - 1] \in V /\ f[i] = PassTime(h, f[i - 1]) BY <1>6, <1>12, <1>13, <3>1
    <3>3. d[i] = Due(f[i]) /\ d[i - 1] = Due(f[i - 1]) BY <2>2, <3>1
    <3>4. CASE Due(f[i - 1]) = {} BY <1>4, <3>2, <3>3, <3>4
    <3>5. CASE Due(f[i - 1]) # {} BY <1>5, <3>2, <3>3, <3>5, SMT
    <3>. QED BY <3>4, <3>5
  <2>4. N \in 0..N /\ 0 \in 0..N BY <1>1, SMT
  <2>5. N = Cardinality(d[0]) BY <1>12, <2>2, <2>4 DEF N
  <2>6. d[N] = {} BY <1>1, <2>1, <2>3, <2>5, LoopEnds
  <2>. QED BY <2>2, <2>4, <2>6
<1>15. f[N] \in V BY <1>1, <1>13, SMT
<1>. QED BY <1>6, <1>10, <1>14, <1>15

\* How far the second loop has come from r1.
Turned(r1, r) ==
    /\ Moved(r1, r)
    /\ \A p \in Peers :
          \/ r[p].state = r1[p].state
          \/ {r1[p].state, r[p].state} \subseteq Selectable
          \/ r1[p].state \in Selectable /\ r1[p].time > 0 /\ r[p].state = "DELAYED"
Turning(h, r1, r) == Sane(h, r) /\ Turned(r1, r)

LEMMA TurnBackStep ==
    ASSUME NEW h \in Hashes, NEW r1 \in Rows, NEW r, Turning(h, r1, r), Early(r) # {}
    PROVE  LET r2 == TurnBack(h, r)
           IN  Turning(h, r1, r2) /\ \E p \in Early(r) : Early(r2) \subseteq Early(r) \ {p}
<1>. DEFINE r2 == TurnBack(h, r)
            p == CHOOSE q \in Early(r) : \A o \in Early(r) : r[q].time >= r[o].time
<1>1. Sane(h, r) /\ r \in Rows /\ Turned(r1, r) BY DEF Turning, Sane, Row
<1>2. p \in Early(r)
  <2>. DEFINE f == [q \in Peers |-> 0 - r[q].time]
  <2>1. \A q \in Peers : r[q].time \in Int BY <1>1, RowType
  <2>2. f \in [Peers -> Int] BY <2>1, SMT
  <2>3. Early(r) \in SUBSET Peers /\ \A q \in Early(r) : f[q] = 0 - r[q].time
    BY DEF Early, InState
  <2>. HIDE DEF f
  <2>4. PICK q \in Early(r) : \A o \in Early(r) : f[q] <= f[o] BY <2>2, <2>3, LeastTime
  <2>5. \A o \in Early(r) : r[q].time >= r[o].time BY <2>1, <2>3, <2>4, SMT
  <2>. QED BY <2>5
<1>3. r2 = ChangeAndReselect(h, r, p, "DELAYED") BY DEF TurnBack
<1>. HIDE DEF p, r2
<1>4. p \in Peers /\ r[p].state \in Selectable /\ r[p].time > 0
  BY <1>2 DEF Early, InState
<1>5. /\ Moved(r, r2) /\ Sane(h, r2) /\ r2[p].state = "DELAYED"
      /\ \A q \in Peers : q # p => \/ r2[q].state = r[q].state
                                   \/ {r[q].state, r2[q].state} \subseteq Selectable
  <2>1. r[p].state \in LiveStates /\ "DELAYED" \in {"COMPLETED", "DELAYED"} /\ "DELAYED" # "COMPLETED"
    BY <1>4 DEF Selectable, LiveStates
  <2>. QED BY <1>1, <1>3, <1>4, <2>1, ReselectFacts, SMT
<1>6. r1[p].state \in Selectable /\ r1[p].time > 0
  BY <1>1, <1>4 DEF Turned, Moved, Selectable
<1>7. Moved(r1, r2)
  <2>1. \A q \in Peers : r[q].state = "COMPLETED" => r2[q].state = "COMPLETED"
    BY <1>4, <1>5 DEF Selectable
  <2>. QED BY <1>1, <1>5, <2>1, MovedTwice DEF Turned
<1>8. ASSUME NEW q \in Peers
      PROVE  \/ r2[q].state = r1[q].state
             \/ {r1[q].state, r2[q].state} \subseteq Selectable
             \/ r1[q].state \in Selectable /\ r1[q].time > 0 /\ r2[q].state = "DELAYED"
  <2>1. CASE q = p BY <1>5, <1>6, <2>1
  <2>2. CASE q # p BY <1>1, <1>5, <2>2 DEF Turned, Selectable
  <2>. QED BY <2>1, <2>2
<1>9. Turning(h, r1, r2) BY <1>5, <1>7, <1>8 DEF Turning, Turned
<1>10. ASSUME NEW q \in Early(r2) PROVE q \in Early(r) \ {p}
  <2>1. q \in Peers /\ r2[q].state \in Selectable /\ r2[q].time > 0 BY DEF Early, InState
  <2>2. q # p /\ r[q].state \in Selectable BY <1>5, <2>1 DEF Selectable
  <2>3. r2[q].time = r[q].time BY <1>5, <2>1 DEF Moved, Selectable
  <2>. QED BY <2>1, <2>2, <2>3 DEF Early, InState
<1>. QED BY <1>2, <1>9, <1>10 DEF r2

\* The loop after the clock went back.
LEMMA TurnedBackFacts ==
    ASSUME NEW h \in Hashes, NEW r0, Sane(h, r0)
    PROVE  LET r == TurnedBack(h, r0) IN Turning(h, r0, r) /\ Early(r) = {}
<1>. DEFINE N == Cardinality(Early(r0))
            body == [r \in Rows |-> TurnBack(h, r)]
            V == {r \in Rows : Turning(h, r0, r)}
            F == [r \in V |-> TurnBack(h, r)]
            Good(g) == g = [i \in 0..N |-> IF i = 0 THEN r0 ELSE body[g[i - 1]]]
            f == CHOOSE g : Good(g)
<1>1. N \in Nat
  <2>1. Early(r0) \in SUBSET Peers BY DEF Early, InState
  <2>. QED BY <2>1, RequestAssumption, FS_Subset, FS_CardinalityType
<1>2. r0 \in Rows BY DEF Sane, Row
<1>3. r0 \in V
  <2>1. Turning(h, r0, r0) BY <1>2 DEF Turning, Turned, Moved, Sane, Row
  <2>. QED BY <1>2, <2>1
<1>4. ASSUME NEW r \in V, Early(r) = {} PROVE TurnBack(h, r) = r BY <1>4 DEF TurnBack
<1>5. ASSUME NEW r \in V, Early(r) # {}
      PROVE  /\ TurnBack(h, r) \in V
             /\ \E p \in Early(r) : Early(TurnBack(h, r)) \subseteq Early(r) \ {p}
  <2>. DEFINE r2 == TurnBack(h, r)
  <2>1. Turning(h, r0, r) OBVIOUS
  <2>2. Turning(h, r0, r2) /\ \E p \in Early(r) : Early(r2) \subseteq Early(r) \ {p}
    BY <1>2, <1>5, <2>1, TurnBackStep
  <2>3. r2 \in Rows
    <3>. HIDE DEF r2
    <3>. QED BY <2>2, ZenonT(30) DEF Turning, Sane, Row
  <2>. QED BY <2>2, <2>3
<1>6. \A r \in V : r \in Rows /\ Turning(h, r0, r) /\ body[r] = TurnBack(h, r) OBVIOUS
<1>. HIDE DEF V, body
<1>7. \A r \in V : TurnBack(h, r) \in V BY <1>4, <1>5
<1>8. \E g : Good(g)
  <2>1. F \in [V -> V] BY <1>7
  <2>2. \A r \in V : F[r] = TurnBack(h, r) OBVIOUS
  <2>. HIDE DEF F
  <2>3. PICK g \in [0..N -> V] : g[0] = r0 /\ \A i \in 1..N : g[i] = F[g[i - 1]]
    <3>1. HasTurns(F, N, V, r0) BY <1>1, <1>3, <2>1, TurnsExist
    <3>. QED BY <3>1 DEF HasTurns
  <2>. HIDE DEF N
  <2>4. ASSUME NEW i \in 0..N PROVE g[i] = IF i = 0 THEN r0 ELSE body[g[i - 1]]
    <3>1. CASE i = 0 BY <2>3, <3>1
    <3>2. CASE i # 0
      <4>1. i \in 1..N /\ i - 1 \in 0..N BY <1>1, <3>2, SMT
      <4>2. g[i - 1] \in V BY <4>1
      <4>. QED BY <1>6, <2>2, <2>3, <3>2, <4>1, <4>2
    <3>. QED BY <3>1, <3>2
  <2>5. Good(g) BY <2>4
  <2>. QED BY <2>5
<1>9. Good(f) BY <1>8
<1>10. TurnedBack(h, r0) = f[N] BY DEF TurnedBack, body
<1>. HIDE DEF f, N
<1>11. \A i \in 0..N : f[i] = IF i = 0 THEN r0 ELSE body[f[i - 1]] BY <1>9
<1>12. f[0] = r0 /\ \A i \in 1..N : f[i] = body[f[i - 1]]
  <2>1. 0 \in 0..N /\ \A i \in 1..N : i \in 0..N /\ i # 0 BY <1>1, SMT
  <2>. QED BY <1>11, <2>1
<1>13. \A i \in 0..N : f[i] \in V
  <2>. DEFINE S == {i \in 0..N : f[i] \in V}
  <2>1. S \in SUBSET (0..N) OBVIOUS
  <2>2. 0 \in S BY <1>1, <1>3, <1>12, SMT
  <2>3. ASSUME NEW i \in 1..N, i - 1 \in S PROVE i \in S
    <3>1. i \in 0..N /\ f[i - 1] \in V BY <1>1, <2>3, SMT
    <3>2. f[i] \in V BY <1>6, <1>7, <1>12, <3>1
    <3>. QED BY <3>1, <3>2
  <2>4. \A i \in S : f[i] \in V OBVIOUS
  <2>. HIDE DEF S
  <2>. QED BY <1>1, <2>1, <2>2, <2>3, <2>4, Climb
<1>14. Early(f[N]) = {}
  <2>. DEFINE d == [i \in 0..N |-> Early(f[i])]
  <2>1. d \in [0..N -> SUBSET Peers] BY ZenonT(30) DEF Early, InState
  <2>2. \A i \in 0..N : d[i] = Early(f[i]) OBVIOUS
  <2>. HIDE DEF d
  <2>3. ASSUME NEW i \in 1..N
        PROVE  d[i] = {} \/ \E p \in d[i - 1] : d[i] \subseteq d[i - 1] \ {p}
    <3>1. i \in 0..N /\ i - 1 \in 0..N BY <1>1, SMT
    <3>2. f[i - 1] \in V /\ f[i] = TurnBack(h, f[i - 1]) BY <1>6, <1>12, <1>13, <3>1
    <3>3. d[i] = Early(f[i]) /\ d[i - 1] = Early(f[i - 1]) BY <2>2, <3>1
    <3>4. CASE Early(f[i - 1]) = {} BY <1>4, <3>2, <3>3, <3>4
    <3>5. CASE Early(f[i - 1]) # {} BY <1>5, <3>2, <3>3, <3>5, SMT
    <3>. QED BY <3>4, <3>5
  <2>4. N \in 0..N /\ 0 \in 0..N BY <1>1, SMT
  <2>5. N = Cardinality(d[0]) BY <1>12, <2>2, <2>4 DEF N
  <2>6. d[N] = {} BY <1>1, <2>1, <2>3, <2>5, LoopEnds
  <2>. QED BY <2>2, <2>4, <2>6
<1>15. f[N] \in V BY <1>1, <1>13, SMT
<1>. QED BY <1>6, <1>10, <1>14, <1>15

\* The states of a row at a time point: what both loops leave.
LEMMA AtTimePointStates ==
    ASSUME NEW h \in Hashes, NEW r0, Sane(h, r0), NEW r1, NEW r2, Row(r1),
           Passed(r0, r1), Due(r1) = {}, Sane(h, r2), Turned(r1, r2), Early(r2) = {}
    PROVE  /\ Moved(r0, r2)
           /\ \A p \in Peers :
                /\ r0[p].state \in {"NONE", "COMPLETED"} => r2[p].state = r0[p].state
                /\ r0[p].state = "REQUESTED" =>
                      r2[p].state = IF r0[p].time <= 0 THEN "COMPLETED" ELSE "REQUESTED"
                /\ r0[p].state \in {"DELAYED", "READY", "BEST"} =>
                      IF r0[p].time <= 0 THEN r2[p].state \in Selectable ELSE r2[p].state = "DELAYED"
<1>1. r0 \in Rows /\ r1 \in Rows /\ r2 \in Rows BY DEF Sane, Row
<1>2. \A p \in Peers : r1[p].state = "COMPLETED" => r2[p].state = "COMPLETED"
  BY DEF Turned, Selectable
<1>3. Moved(r0, r2) BY <1>2, MovedTwice, SMT DEF Passed, Turned
<1>4. ASSUME NEW p \in Peers
      PROVE  /\ r0[p].state \in {"NONE", "COMPLETED"} => r2[p].state = r0[p].state
             /\ r0[p].state = "REQUESTED" =>
                   r2[p].state = IF r0[p].time <= 0 THEN "COMPLETED" ELSE "REQUESTED"
             /\ r0[p].state \in {"DELAYED", "READY", "BEST"} =>
                   IF r0[p].time <= 0 THEN r2[p].state \in Selectable ELSE r2[p].state = "DELAYED"
  <2>1. /\ r0[p].state \in States /\ r1[p].state \in States /\ r2[p].state \in States
        /\ r0[p].time \in Int /\ r1[p].time \in Int /\ r2[p].time \in Int
    BY <1>1, RowType
  <2>2. r1[p].state \in {"DELAYED", "REQUESTED"} => ~(r1[p].time <= 0) BY DEF Due, InState, Waiting
  <2>3. r2[p].state \in Selectable => ~(r2[p].time > 0) BY DEF Early, InState
  <2>4. /\ r1[p].time = IF r1[p].state = "COMPLETED" THEN 0 ELSE r0[p].time
        /\ r2[p].time = IF r2[p].state = "COMPLETED" THEN 0 ELSE r1[p].time
    BY DEF Passed, Turned, Moved
  <2>5. \/ r1[p].state = r0[p].state
        \/ r0[p].state \in Selectable /\ r1[p].state \in Selectable
        \/ r0[p].state = "DELAYED" /\ r0[p].time <= 0 /\ r1[p].state \in Selectable
        \/ r0[p].state = "REQUESTED" /\ r0[p].time <= 0 /\ r1[p].state = "COMPLETED"
    BY DEF Passed
  <2>6. \/ r2[p].state = r1[p].state
        \/ r1[p].state \in Selectable /\ r2[p].state \in Selectable
        \/ r1[p].state \in Selectable /\ r1[p].time > 0 /\ r2[p].state = "DELAYED"
    BY DEF Turned
  <2>7. CASE r0[p].state \in {"NONE", "COMPLETED"} BY <2>5, <2>6, <2>7 DEF Selectable
  <2>8. CASE r0[p].state = "REQUESTED"
    <3>1. CASE r0[p].time <= 0
      <4>1. r1[p].state = "COMPLETED" BY <2>2, <2>4, <2>5, <2>8, <3>1 DEF Selectable
      <4>. QED BY <1>2, <2>8, <3>1, <4>1
    <3>2. CASE ~(r0[p].time <= 0)
      <4>1. r1[p].state = "REQUESTED" BY <2>5, <2>8, <3>2 DEF Selectable
      <4>2. r2[p].state = "REQUESTED" BY <2>6, <4>1 DEF Selectable
      <4>. QED BY <2>8, <3>2, <4>2
    <3>. QED BY <3>1, <3>2
  <2>9. CASE r0[p].state \in {"DELAYED", "READY", "BEST"}
    <3>1. CASE r0[p].time <= 0
      <4>1. r1[p].state \in Selectable /\ r1[p].time = r0[p].time
        BY <2>2, <2>4, <2>5, <2>9, <3>1 DEF Selectable
      <4>2. r2[p].state \in Selectable BY <2>1, <2>6, <3>1, <4>1, SMT
      <4>. QED BY <2>9, <3>1, <4>2
    <3>2. CASE ~(r0[p].time <= 0)
      <4>1. r1[p].state \in {"DELAYED", "READY", "BEST"} /\ r1[p].time = r0[p].time
        BY <2>4, <2>5, <2>9, <3>2 DEF Selectable
      <4>2. r2[p].state = "DELAYED" BY <2>1, <2>3, <2>4, <2>6, <3>2, <4>1, SMT DEF Selectable
      <4>. QED BY <2>9, <3>2, <4>2
    <3>. QED BY <3>1, <3>2
  <2>. QED BY <2>1, <2>7, <2>8, <2>9 DEF States
<1>. QED BY <1>3, <1>4

\* The loops of SetTimePoint compute what they are for.
LEMMA SetTimePointFacts ==
    ASSUME NEW h \in Hashes, NEW r0, Sane(h, r0)
    PROVE  Sane(h, SetTimePoint(h, r0)) /\ SetTimePoint(h, r0) = AtTimePoint(h, r0)
<1>. DEFINE r1 == PassedTime(h, r0)
            r2 == TurnedBack(h, r1)
            expired == {p \in InState(r0, {"REQUESTED"}) : r0[p].time <= 0}
            pending == InState(r0, {"REQUESTED"}) \ expired
            cand == InState(r0, {"DELAYED"} \cup Selectable)
            due == {p \in cand : r0[p].time <= 0}
            state(p) == IF p \in expired THEN "COMPLETED"
                        ELSE IF p \notin cand THEN r0[p].state
                        ELSE IF p \notin due THEN "DELAYED"
                        ELSE IF pending = {} /\ p = Top(h, r0, due) THEN "BEST" ELSE "READY"
<1>1. r0 \in Rows BY DEF Sane, Row
<1>2. Passing(h, r0, r1) /\ Due(r1) = {} BY PassedTimeFacts
<1>3. SetTimePoint(h, r0) = r2 BY DEF SetTimePoint
<1>. HIDE DEF r1
<1>4. Sane(h, r1) BY <1>2 DEF Passing
<1>5. Turning(h, r1, r2) /\ Early(r2) = {} BY <1>4, TurnedBackFacts
<1>. HIDE DEF r2
<1>6. Sane(h, r2) /\ Turned(r1, r2) /\ Row(r2) /\ r2 \in Rows /\ Row(r1)
  BY <1>4, <1>5 DEF Turning, Sane, Row
<1>7. AtTimePoint(h, r0) = IF pending \cup cand = {} THEN NoRow
                           ELSE [p \in Peers |-> InStateNow(r0[p], state(p))]
  BY DEF AtTimePoint
<1>8. ASSUME NEW p \in Peers
      PROVE  /\ r0[p].state \in States /\ r0[p].time \in Int
             /\ p \in expired <=> r0[p].state = "REQUESTED" /\ r0[p].time <= 0
             /\ p \in pending <=> r0[p].state = "REQUESTED" /\ ~(r0[p].time <= 0)
             /\ p \in cand <=> r0[p].state \in {"DELAYED", "READY", "BEST"}
             /\ p \in due <=> r0[p].state \in {"DELAYED", "READY", "BEST"} /\ r0[p].time <= 0
  BY <1>1, RowType DEF InState, Selectable
<1>9. pending \in SUBSET Peers /\ cand \in SUBSET Peers /\ due \in SUBSET Peers BY DEF InState
<1>10. CASE r1 = NoRow /\ Over(r0)
  <2>1. \A p \in Peers : r2[p].state = "NONE" BY <1>6, <1>10, NoRowFacts DEF Turned, Selectable
  <2>2. r2 = NoRow BY <1>6, <2>1, NoneIsNoRow
  <2>3. \A p \in Peers : p \notin pending /\ p \notin cand
    <3>. HIDE DEF pending, cand
    <3>. QED BY <1>8, <1>10 DEF Over
  <2>4. pending \cup cand = {} BY <1>9, <2>3
  <2>. QED BY <1>3, <1>6, <1>7, <2>2, <2>4
<1>11. CASE Passed(r0, r1)
  <2>1. /\ Moved(r0, r2)
        /\ \A p \in Peers :
             /\ r0[p].state \in {"NONE", "COMPLETED"} => r2[p].state = r0[p].state
             /\ r0[p].state = "REQUESTED" =>
                   r2[p].state = IF r0[p].time <= 0 THEN "COMPLETED" ELSE "REQUESTED"
             /\ r0[p].state \in {"DELAYED", "READY", "BEST"} =>
                   IF r0[p].time <= 0 THEN r2[p].state \in Selectable ELSE r2[p].state = "DELAYED"
    BY <1>2, <1>5, <1>6, <1>11, AtTimePointStates, SMT
  <2>. HIDE DEF expired, pending, cand, due
  <2>2. \A p \in Peers : r2[p].state \in Selectable <=> p \in due
    BY <1>8, <2>1 DEF States, Selectable
  <2>3. \A p \in Peers : r2[p].state = "REQUESTED" <=> p \in pending
    BY <1>8, <2>1 DEF States, Selectable
  <2>4. CASE pending \cup cand = {}
    <3>1. \A p \in Peers : r2[p].state \in {"NONE", "COMPLETED"}
      BY <1>8, <2>1, <2>4 DEF States
    <3>2. \A p \in Peers : r2[p].state = "NONE" BY <1>6, <3>1 DEF Sane, LiveStates
    <3>. QED BY <1>3, <1>6, <1>7, <2>4, <3>2, NoneIsNoRow
  <2>5. CASE pending \cup cand # {}
    <3>1. ASSUME NEW p \in due
          PROVE  r2[p].state = IF pending = {} /\ p = Top(h, r0, due) THEN "BEST" ELSE "READY"
      <4>1. p \in Peers /\ r2[p].state \in {"READY", "BEST"} BY <1>9, <2>2, <3>1 DEF Selectable
      <4>2. CASE pending # {}
        <5>1. PICK q \in Peers : r2[q].state = "REQUESTED" BY <1>9, <2>3, <4>2
        <5>2. r2[p].state # "BEST" BY <1>6, <4>1, <5>1 DEF Sane, Selected
        <5>. QED BY <4>1, <4>2, <5>2
      <4>3. CASE pending = {}
        <5>1. PICK b \in Peers : r2[b].state = "BEST"
          <6>1. CASE r2[p].state = "BEST" BY <4>1, <6>1
          <6>2. CASE r2[p].state = "READY"
            <7>1. PICK b \in Peers : r2[b].state \in Selected BY <1>6, <4>1, <6>2 DEF Sane
            <7>. QED BY <2>3, <4>3, <7>1 DEF Selected
          <6>. QED BY <4>1, <6>1, <6>2
        <5>2. b \in due BY <2>2, <5>1 DEF Selectable
        <5>3. \A q \in due : q # b => r2[q].state = "READY"
          BY <1>6, <1>9, <2>2, <5>1, ZenonT(30) DEF Sane, Selected, Selectable
        <5>4. \A q \in due : q # b => ~Better(h, r0, q, b)
          <6>1. \A q \in due : q # b => ~Better(h, r2, q, b) BY <1>6, <1>9, <5>1, <5>3 DEF Sane
          <6>2. \A q \in Peers : Better(h, r2, q, b) <=> Better(h, r0, q, b)
            BY <2>1, <5>1, BetterMoved
          <6>. QED BY <1>9, <6>1, <6>2
        <5>5. Top(h, r0, due) = b BY <1>1, <1>9, <5>2, <5>4, TopIs
        <5>. QED BY <4>3, <5>1, <5>3, <5>5
      <4>. QED BY <4>2, <4>3
    <3>2. \A p \in Peers : r2[p].state = state(p) BY <1>8, <2>1, <3>1 DEF States
    <3>3. \A p \in Peers : /\ r2[p].preferred = r0[p].preferred
                           /\ r2[p].time = IF r2[p].state = "COMPLETED" THEN 0 ELSE r0[p].time
      BY <2>1 DEF Moved
    <3>. HIDE DEF state
    <3>4. ASSUME NEW p \in Peers PROVE r2[p] = InStateNow(r0[p], state(p))
      <4>1. r2[p] = [state |-> r2[p].state, time |-> r2[p].time, preferred |-> r2[p].preferred]
        BY <1>6 DEF Rows
      <4>. QED BY <3>2, <3>3, <4>1 DEF InStateNow
    <3>5. r2 = [p \in Peers |-> InStateNow(r0[p], state(p))] BY <1>6, <3>4 DEF Rows
    <3>. QED BY <1>3, <1>6, <1>7, <2>5, <3>5
  <2>. QED BY <2>4, <2>5
<1>. QED BY <1>2, <1>10, <1>11 DEF Passing

LEMMA NoTimePoint == ASSUME NEW h \in Hashes PROVE SetTimePoint(h, NoRow) = NoRow
<1>1. AtTimePoint(h, NoRow) = NoRow BY NoRowFacts DEF AtTimePoint, InState, Selectable
<1>. QED BY <1>1, NoRowFacts, SetTimePointFacts

\* Peers that have not announced the hash stay that way.
Absent(r, r2) == \A p \in Peers : r[p] = NoAnn => r2[p] = NoAnn

LEMMA TimePointAbsent ==
    ASSUME NEW h \in Hashes, NEW r, Sane(h, r)
    PROVE  Absent(r, SetTimePoint(h, r))
<1>1. ASSUME NEW p \in Peers, r[p] = NoAnn PROVE AtTimePoint(h, r)[p] = NoAnn
  <2>1. r[p].state = "NONE" /\ NoAnn.time = 0 /\ NoAnn.preferred = FALSE BY <1>1, SMT DEF NoAnn
  <2>2. InStateNow(r[p], "NONE") = NoAnn BY <1>1, <2>1 DEF InStateNow, NoAnn
  <2>3. NoRow[p] = NoAnn BY NoRowFacts
  <2>. QED BY <2>1, <2>2, <2>3 DEF AtTimePoint, InState, Selectable
<1>. QED BY <1>1, SetTimePointFacts DEF Absent

LEMMA ReceivedInvFacts ==
    ASSUME NEW h \in Hashes, NEW r, Sane(h, r), NEW p \in Peers, NEW preferred \in BOOLEAN,
           NEW reqtime \in Int
    PROVE  LET r2 == ReceivedInv(r, p, preferred, reqtime)
           IN  Sane(h, r2) /\ \A q \in Peers : q # p => r2[q] = r[q]
<1>. DEFINE r2 == ReceivedInv(r, p, preferred, reqtime)
<1>1. CASE r[p].state # "NONE" BY <1>1 DEF ReceivedInv
<1>2. CASE r[p].state = "NONE"
  <2>. DEFINE a == [state |-> "DELAYED", time |-> reqtime, preferred |-> preferred]
  <2>1. Row(r) /\ r \in Rows BY DEF Sane, Row
  <2>2. r2 = [r EXCEPT ![p] = a] BY <1>2 DEF ReceivedInv
  <2>. HIDE DEF r2
  <2>3. r2 \in Rows /\ r2[p].state = "DELAYED" /\ \A q \in Peers : q # p => r2[q] = r[q]
    BY <2>1, <2>2 DEF Rows
  <2>4. Row(r2) BY <2>1, <2>3 DEF Row
  <2>5. \A q, o \in Peers : q # p /\ o # p => (Better(h, r2, q, o) <=> Better(h, r, q, o))
    BY <2>3 DEF Better
  <2>6. Sane(h, r2)
    <3>1. \E q \in Peers : r2[q].state \in LiveStates BY <2>3 DEF LiveStates
    <3>2. \A q, o \in Peers : r2[q].state \in Selected /\ r2[o].state \in Selected => q = o
      BY <2>3 DEF Sane, Selected
    <3>3. \A q \in Peers : r2[q].state = "READY" => \E o \in Peers : r2[o].state \in Selected
      BY <1>2, <2>3 DEF Sane, Selected
    <3>4. \A q, o \in Peers : r2[q].state = "READY" /\ r2[o].state = "BEST" => ~Better(h, r2, q, o)
      BY <2>3, <2>5 DEF Sane
    <3>. QED BY <2>4, <3>1, <3>2, <3>3, <3>4 DEF Sane
  <2>. QED BY <2>3, <2>6 DEF r2
<1>. QED BY <1>1, <1>2

LEMMA RequestedTxFacts ==
    ASSUME NEW h \in Hashes, NEW r, Sane(h, r), NEW p \in Peers, r[p].state = "BEST",
           NEW expiry \in Int
    PROVE  LET r2 == RequestedTx(r, p, expiry)
           IN  Sane(h, r2) /\ \A q \in Peers : q # p => r2[q] = r[q]
<1>. DEFINE r2 == RequestedTx(r, p, expiry)
            a == [r[p] EXCEPT !.state = "REQUESTED", !.time = expiry]
<1>1. Row(r) /\ r \in Rows BY DEF Sane, Row
<1>2. r2 = [q \in Peers |-> IF q = p THEN a ELSE r[q]] BY DEF RequestedTx
<1>3. a \in [state : States, time : Int, preferred : BOOLEAN] /\ a.state = "REQUESTED"
      /\ a.preferred = r[p].preferred
  BY <1>1 DEF Rows, States
<1>. HIDE DEF r2, a
<1>4. /\ r2 \in Rows /\ r2[p].state = "REQUESTED" /\ r2[p].preferred = r[p].preferred
      /\ \A q \in Peers : q # p => r2[q] = r[q]
  BY <1>1, <1>2, <1>3 DEF Rows, States
<1>5. Row(r2) BY <1>1, <1>4 DEF Row
<1>6. Sane(h, r2)
  <2>1. r2[p].state \in LiveStates /\ r2[p].state \in Selected BY <1>4 DEF LiveStates, Selected
  <2>2. \A q \in Peers : r2[q].state \in Selected => q = p BY <1>4 DEF Sane, Selected
  <2>3. \A q \in Peers : r2[q].state # "BEST" BY <1>4, <2>2 DEF Selected
  <2>. QED BY <1>5, <2>1, <2>2, <2>3 DEF Sane
<1>. QED BY <1>4, <1>6 DEF r2

LEMMA ResponseFacts ==
    ASSUME NEW h \in Hashes, NEW r, Sane(h, r), NEW p \in Peers
    PROVE  LET r2 == ReceivedResponse(h, r, p)
           IN  Sane(h, r2) /\ Absent(r, r2)
<1>. DEFINE r2 == ReceivedResponse(h, r, p)
<1>1. r[p].state \in States BY RowType DEF Sane, Row
<1>2. CASE r[p].state \in {"NONE", "COMPLETED"}
  BY <1>2 DEF ReceivedResponse, MakeCompleted, Absent
<1>3. CASE r[p].state \in LiveStates
  <2>1. r2 = MakeCompleted(h, r, p) BY <1>3 DEF ReceivedResponse, LiveStates
  <2>2. Sane(h, r2) BY <1>3, <2>1, CompletedFacts
  <2>. HIDE DEF r2
  <2>3. CASE r2 = NoRow BY <2>2, <2>3, NoRowFacts DEF Absent, r2
  <2>4. CASE \A q \in Peers : q # p => \/ r2[q].state = r[q].state
                                       \/ {r[q].state, r2[q].state} \subseteq Selectable
    <3>1. ASSUME NEW q \in Peers, r[q] = NoAnn PROVE r2[q] = NoAnn
      <4>1. r[q].state = "NONE" BY <3>1, SMT DEF NoAnn
      <4>2. r2[q].state = "NONE" BY <1>3, <2>4, <4>1 DEF LiveStates, Selectable
      <4>. QED BY <2>2, <4>2 DEF Sane, Row
    <3>. QED BY <2>2, <3>1 DEF Absent, r2
  <2>. QED BY <1>3, <2>1, <2>3, <2>4, CompletedFacts, SMT
<1>. QED BY <1>1, <1>2, <1>3 DEF States, LiveStates

LEMMA DisconnectedFacts ==
    ASSUME NEW h \in Hashes, NEW r, Sane(h, r), NEW p \in Peers
    PROVE  LET r2 == DisconnectedPeer(h, r, p)
           IN  Sane(h, r2) /\ Absent(r, r2) /\ r2[p] = NoAnn
<1>. DEFINE r1 == ReceivedResponse(h, r, p)
            r2 == DisconnectedPeer(h, r, p)
<1>1. CASE r[p].state = "NONE" BY <1>1 DEF DisconnectedPeer, Absent, Sane, Row
<1>2. CASE r[p].state # "NONE"
  <2>1. r1 = MakeCompleted(h, r, p) BY <1>2 DEF ReceivedResponse
  <2>2. r2 = [r1 EXCEPT ![p] = NoAnn] BY <1>2, <2>1 DEF DisconnectedPeer
  <2>3. Sane(h, r1) /\ Absent(r, r1) BY ResponseFacts
  <2>4. r[p].state \in States BY RowType DEF Sane, Row
  <2>5. \/ r1 = NoRow
        \/ r1[p].state = "COMPLETED"
    <3>1. CASE r[p].state = "COMPLETED" BY <2>1, <3>1 DEF MakeCompleted
    <3>2. CASE r[p].state \in LiveStates
      <4>1. LET m == MakeCompleted(h, r, p) IN m = NoRow \/ m[p].state = "COMPLETED"
        BY <3>2, CompletedFacts
      <4>. QED BY <2>1, <4>1
    <3>. QED BY <1>2, <2>4, <3>1, <3>2 DEF States, LiveStates
  <2>. HIDE DEF r1, r2
  <2>6. r1 \in Rows /\ Row(r1) BY <2>3 DEF Sane, Row
  <2>7. /\ r2 \in Rows /\ r2[p] = NoAnn /\ r2[p].state = "NONE"
        /\ \A q \in Peers : q # p => r2[q] = r1[q]
    BY <2>2, <2>6, SMT DEF Rows, NoAnn
  <2>8. r1[p].state \notin LiveStates /\ r1[p].state # "BEST" /\ r1[p].state \notin Selected
    <3>1. r1[p].state \in {"NONE", "COMPLETED"} BY <2>5, NoRowFacts
    <3>. QED BY <3>1 DEF LiveStates, Selected
  <2>9. Absent(r, r2) BY <2>3, <2>7 DEF Absent
  <2>10. Sane(h, r2)
    <3>1. Row(r2) BY <2>6, <2>7 DEF Row
    <3>2. \A q \in Peers : /\ r2[q].state \in LiveStates <=> r1[q].state \in LiveStates
                           /\ r2[q].state \in Selected <=> r1[q].state \in Selected
      BY <2>7, <2>8 DEF LiveStates, Selected
    <3>3. \A q \in Peers : r2[q].state # "NONE" => q # p /\ r2[q] = r1[q] BY <2>7
    <3>4. \A q, o \in Peers : q # p /\ o # p => (Better(h, r2, q, o) <=> Better(h, r1, q, o))
      BY <2>7 DEF Better
    <3>5. \A q \in Peers : r2[q].state = "COMPLETED" => \E o \in Peers : r2[o].state \in LiveStates
      BY <2>3, <3>2, <3>3 DEF Sane
    <3>6. \A q \in Peers : r2[q].state = "READY" => \E o \in Peers : r2[o].state \in Selected
      BY <2>3, <3>2, <3>3 DEF Sane
    <3>7. \A q, o \in Peers : r2[q].state = "READY" /\ r2[o].state = "BEST" => ~Better(h, r2, q, o)
      BY <2>3, <3>3, <3>4 DEF Sane
    <3>8. \A q, o \in Peers : r2[q].state \in Selected /\ r2[o].state \in Selected => q = o
      BY <2>3, <3>2 DEF Sane
    <3>. QED BY <3>1, <3>5, <3>6, <3>7, <3>8 DEF Sane
  <2>. QED BY <2>7, <2>9, <2>10 DEF r2
<1>. QED BY <1>1, <1>2

LEMMA ShiftFacts ==
    ASSUME NEW h \in Hashes, NEW r, Sane(h, r), NEW by \in Int, NEW floor \in Int
    PROVE  LET r2 == [p \in Peers |-> Shift(r[p], by, floor)]
           IN  Sane(h, r2) /\ Absent(r, r2)
<1>. DEFINE r2 == [p \in Peers |-> Shift(r[p], by, floor)]
<1>1. Row(r) /\ r \in Rows BY DEF Sane, Row
<1>2. ASSUME NEW p \in Peers
      PROVE  /\ r2[p] \in [state : States, time : Int, preferred : BOOLEAN]
             /\ r2[p].state = r[p].state /\ r2[p].preferred = r[p].preferred
             /\ r[p].state \in {"NONE", "COMPLETED"} => r2[p] = r[p]
  <2>1. r[p] \in [state : States, time : Int, preferred : BOOLEAN] BY <1>1 DEF Rows, States
  <2>2. Shift(r[p], by, floor) =
          IF r[p].state \in {"NONE", "COMPLETED"} THEN r[p]
          ELSE [r[p] EXCEPT !.time = IF r[p].time - by < -floor THEN -floor ELSE r[p].time - by]
    BY DEF Shift
  <2>. QED BY <2>1, <2>2, SMT
<1>3. r2 \in Rows BY <1>2 DEF Rows, States
<1>. HIDE DEF r2
<1>4. Row(r2) BY <1>1, <1>2, <1>3 DEF Row
<1>5. \A p, q \in Peers : Better(h, r2, p, q) <=> Better(h, r, p, q) BY <1>2 DEF Better
<1>6. Sane(h, r2) BY <1>2, <1>4, <1>5, ZenonT(30) DEF Sane
<1>7. Absent(r, r2) BY <1>2, SMT DEF Absent, NoAnn
<1>. QED BY <1>6, <1>7 DEF r2

\* A hash that nobody has announced.
LEMMA AbsentRow ==
    ASSUME NEW h \in Hashes, NEW r, Sane(h, r), Absent(NoRow, r)
    PROVE  r = NoRow
<1>1. \A p \in Peers : r[p] = NoAnn BY NoRowFacts DEF Absent
<1>. QED BY <1>1, NoneIsNoRow, SMT DEF Sane, NoAnn

-----------------------------------------------------------------------------
(* The invariant.                                                            *)

Types ==
    /\ req \in [Hashes -> Rows]
    /\ orphans \in [Txs -> {NoOrphan} \cup [from : Peers, witness : BOOLEAN]]
    /\ work \in [Peers -> SUBSET Txs]
    /\ rejects \in SUBSET Hashes /\ tipMoved \in BOOLEAN /\ confirmed \in SUBSET Hashes
    /\ mempool \in SUBSET Txs /\ chain \in SUBSET Txs /\ quiet \in SUBSET Txs
    /\ block \in [pc : {"none", "erased", "noted"}, txs : SUBSET Txs]
    /\ connected \in SUBSET Peers /\ world \in Worlds /\ back \in Nat

\* Blocks and callbacks have their types.  What the chain confirms or conflicts with
\* has been touched.
Block == [txs : SUBSET Txs, spent : SUBSET Txs]
Callback == [kind : {"BlockConnected", "BlockDisconnected"}, txs : SUBSET Txs, spent : SUBSET Txs]
Chained ==
    /\ blocks \in Seq(Block) /\ callbacks \in Seq(Callback)
    /\ chain \in SUBSET touched /\ spent \in SUBSET touched /\ touched \in SUBSET Txs

\* Every row is sane, and empty for a peer that has left.
Tracked == \A h \in Hashes : /\ Sane(h, req[h])
                             /\ \A p \in Peers \ connected : req[h][p] = NoAnn

\* Which hashes are not tracked.  An orphan's are not, neither of them, although
\* AlreadyHaveTx looks up one: that is why accepting or refusing an orphan later has
\* nothing to forget.
Untracked ==
    /\ \A h \in Rejects : req[h] = NoRow
    /\ \A t \in Orphans : \A h \in OrphanHashes(t) : req[h] = NoRow
    /\ \A h \in confirmed : req[h] # NoRow =>
          block.pc = "noted" /\ \E t \in block.txs : h \in TxHashes(t)
    /\ \A t \in mempool : \A h \in TxHashes(t) : req[h] # NoRow => t \in quiet

RelayInv == Types /\ Tracked /\ Untracked /\ OrphanQueued

LEMMA HashFacts ==
    /\ \A t \in Txs : Txid[t] \in Hashes /\ Wtxid[t] \in Hashes
    /\ \A t \in Txs : TxHashes(t) \in SUBSET Hashes /\ OrphanHashes(t) \in SUBSET TxHashes(t)
    /\ \A t \in Txs : \A witness : WtxidOf(t, witness) \in TxHashes(t)
    /\ \A s, t \in Txs : \A h : h \in TxHashes(s) /\ h \in TxHashes(t) => s = t
<1>1. \A t \in Txs : Txid[t] \in Hashes /\ Wtxid[t] \in Hashes BY RelayAssumption
<1>2. \A t \in Txs : TxHashes(t) \in SUBSET Hashes /\ OrphanHashes(t) \in SUBSET TxHashes(t)
  BY <1>1 DEF TxHashes, OrphanHashes, WtxidOf
<1>3. \A t \in Txs : \A witness : WtxidOf(t, witness) \in TxHashes(t)
  BY DEF TxHashes, WtxidOf
<1>4. \A s, t \in Txs : \A h : h \in TxHashes(s) /\ h \in TxHashes(t) => s = t
  BY RelayAssumption
<1>. QED BY <1>1, <1>2, <1>3, <1>4

\* A tracker; one with nothing that the other does not have.
Whole(q) == q \in [Hashes -> Rows] /\ \A h \in Hashes : Sane(h, q[h])
Fewer(q, q2) == Whole(q2) /\ \A h \in Hashes : Absent(q[h], q2[h])

LEMMA FewerFacts ==
    ASSUME NEW q, NEW q2, Fewer(q, q2), NEW h \in Hashes, q[h] = NoRow
    PROVE  q2[h] = NoRow
  BY AbsentRow DEF Fewer, Whole

LEMMA FewerTwice ==
    ASSUME NEW q, NEW q1, NEW q2, Fewer(q, q1), Fewer(q1, q2)
    PROVE  Fewer(q, q2)
  BY DEF Fewer, Absent

LEMMA FewerSame == ASSUME NEW q, Whole(q) PROVE Fewer(q, q)
  BY DEF Fewer, Absent

\* A tracker row by row.
LEMMA RowByRow ==
    ASSUME NEW q2, DOMAIN q2 = Hashes, q2 = [h \in Hashes |-> q2[h]],
           \A h \in Hashes : Sane(h, q2[h])
    PROVE  Whole(q2)
<1>1. \A h \in Hashes : q2[h] \in Rows BY DEF Sane, Row
<1>2. q2 \in [Hashes -> Rows] BY <1>1
<1>. QED BY <1>2 DEF Whole

LEMMA RespondedFacts ==
    ASSUME NEW q, Whole(q), NEW p \in Peers, NEW hashes
    PROVE  Fewer(q, Responded(q, p, hashes))
<1>. DEFINE q2 == Responded(q, p, hashes)
<1>1. ASSUME NEW h \in Hashes PROVE Sane(h, q2[h]) /\ Absent(q[h], q2[h])
  <2>1. q2[h] = IF h \in hashes THEN ReceivedResponse(h, q[h], p) ELSE q[h] BY DEF Responded
  <2>2. Sane(h, q[h]) /\ Absent(q[h], q[h]) BY DEF Whole, Absent
  <2>3. Sane(h, ReceivedResponse(h, q[h], p)) /\ Absent(q[h], ReceivedResponse(h, q[h], p))
    BY <2>2, ResponseFacts
  <2>. QED BY <2>1, <2>2, <2>3
<1>2. q2 = [h \in Hashes |-> q2[h]] /\ DOMAIN q2 = Hashes BY DEF Responded
<1>. HIDE DEF q2
<1>. QED BY <1>1, <1>2, RowByRow DEF Fewer, q2

LEMMA ForgetFacts ==
    ASSUME NEW q, Whole(q), NEW hashes
    PROVE  LET q2 == ForgetTxHash(q, hashes)
           IN  Fewer(q, q2) /\ \A h \in Hashes : q2[h] = IF h \in hashes THEN NoRow ELSE q[h]
<1>. DEFINE q2 == ForgetTxHash(q, hashes)
<1>1. \A h \in Hashes : q2[h] = IF h \in hashes THEN NoRow ELSE q[h] BY DEF ForgetTxHash
<1>2. q2 = [h \in Hashes |-> q2[h]] /\ DOMAIN q2 = Hashes BY DEF ForgetTxHash
<1>. HIDE DEF q2
<1>3. ASSUME NEW h \in Hashes PROVE Sane(h, q2[h]) /\ Absent(q[h], q2[h])
  BY <1>1, NoRowFacts DEF Whole, Absent
<1>. QED BY <1>1, <1>2, <1>3, RowByRow DEF Fewer, q2

\* Announcements: only of these hashes, only of this peer.
LEMMA AnnouncedFacts ==
    ASSUME NEW q, Whole(q), NEW p \in Peers, NEW hashes, NEW isWtxid \in BOOLEAN,
           NEW q2 \in AddTxAnnouncements(q, p, hashes, isWtxid)
    PROVE  /\ Whole(q2)
           /\ \A h \in Hashes : \A o \in Peers : o # p => q2[h][o] = q[h][o]
           /\ \A h \in Hashes : h \notin hashes => q2[h] = q[h]
<1>. DEFINE delay == AnnouncementDelay(q, p, isWtxid)
            pref == p \in Preferred
<1>1. delay \in Int /\ pref \in BOOLEAN
  BY RelayAssumption, SMT DEF AnnouncementDelay
<1>. HIDE DEF delay
<1>2. PICK s : /\ s \subseteq hashes
               /\ q2 = [h \in Hashes |-> IF h \in s THEN ReceivedInv(q[h], p, pref, delay) ELSE q[h]]
  BY DEF AddTxAnnouncements, delay
<1>. HIDE DEF pref
<1>3. ASSUME NEW h \in Hashes
      PROVE  /\ Sane(h, q2[h]) /\ \A o \in Peers : o # p => q2[h][o] = q[h][o]
             /\ h \notin hashes => q2[h] = q[h]
  <2>1. Sane(h, q[h]) BY DEF Whole
  <2>2. /\ Sane(h, ReceivedInv(q[h], p, pref, delay))
        /\ \A o \in Peers : o # p => ReceivedInv(q[h], p, pref, delay)[o] = q[h][o]
    BY <1>1, <2>1, ReceivedInvFacts, SMT
  <2>3. q2[h] = IF h \in s THEN ReceivedInv(q[h], p, pref, delay) ELSE q[h] BY <1>2
  <2>. QED BY <1>2, <2>1, <2>2, <2>3
<1>4. q2 = [h \in Hashes |-> q2[h]] /\ DOMAIN q2 = Hashes BY <1>2
<1>. QED BY <1>3, <1>4, RowByRow

-----------------------------------------------------------------------------
(* What a step leaves alone.                                                 *)

LEMMA TrackedWhole == ASSUME Types, Tracked PROVE Whole(req)
  BY DEF Types, Tracked, Whole

LEMMA TrackedFewer ==
    ASSUME Types, Tracked, Fewer(req, req'), connected' = connected
    PROVE  Tracked'
  BY DEF Tracked, Fewer, Absent, Whole

LEMMA UntrackedFewer ==
    ASSUME Types, Untracked, Fewer(req, req'), Rejects' \subseteq Rejects,
           UNCHANGED <<orphans, confirmed, mempool, quiet, block>>
    PROVE  Untracked'
<1>1. Rejects \in SUBSET Hashes /\ confirmed \in SUBSET Hashes /\ mempool \in SUBSET Txs
  BY DEF Types, Rejects
<1>2. Orphans' = Orphans /\ Orphans \in SUBSET Txs /\ \A t \in Txs : OrphanHashes(t)' = OrphanHashes(t)
  BY DEF Orphans, OrphanHashes, WtxidOf
<1>3. \A h \in Hashes : req[h] = NoRow => req'[h] = NoRow BY FewerFacts
<1>4. \A h \in Rejects' : req'[h] = NoRow BY <1>1, <1>3 DEF Untracked
<1>5. \A t \in Orphans' : \A h \in OrphanHashes(t)' : req'[h] = NoRow
  BY <1>2, <1>3, HashFacts, SMT DEF Untracked
<1>6. \A h \in confirmed' : req'[h] # NoRow =>
         block'.pc = "noted" /\ \E t \in block'.txs : h \in TxHashes(t)
  BY <1>1, <1>3 DEF Untracked
<1>7. \A t \in mempool' : \A h \in TxHashes(t) : req'[h] # NoRow => t \in quiet'
  BY <1>1, <1>3, HashFacts DEF Untracked
<1>. QED BY <1>4, <1>5, <1>6, <1>7 DEF Untracked

LEMMA QueuedSame ==
    ASSUME OrphanQueued, UNCHANGED <<orphans, work, mempool, chain, touched, quiet, connected>>
    PROVE  OrphanQueued'
<1>1. Orphans' = Orphans BY DEF Orphans
<1>. QED BY <1>1 DEF OrphanQueued

LEMMA ChainedInit == ASSUME Init PROVE Chained
  BY EmptySeq DEF Init, Chained

LEMMA RelayInit == ASSUME Init PROVE RelayInv
<1>1. Types
  <2>1. req \in [Hashes -> Rows] BY NoRowFacts DEF Init, Row
  <2>2. back \in Nat /\ connected \in SUBSET Peers BY RelayAssumption DEF Init
  <2>. QED BY <2>1, <2>2 DEF Init, Types, NoBlock
<1>2. Tracked BY NoRowFacts DEF Init, Tracked
<1>3. Orphans = {} BY DEF Init, Orphans
<1>4. Untracked BY <1>3 DEF Init, Untracked, Rejects
<1>5. OrphanQueued BY <1>3 DEF Init, OrphanQueued
<1>. QED BY <1>1, <1>2, <1>4, <1>5 DEF RelayInv

-----------------------------------------------------------------------------
(* Messages.                                                                 *)

\* No filter, orphan or mempool entry has the hash.
Unknown(h) == /\ h \notin Rejects /\ h \notin confirmed
              /\ \A t \in Orphans : h \notin OrphanHashes(t)
              /\ \A t \in mempool : h \notin TxHashes(t)

LEMMA NotHadIsUnknown ==
    ASSUME Types, NEW s \in Txs, NEW isWtxid \in BOOLEAN,
           ~AlreadyHaveTx(WtxidOf(s, isWtxid), isWtxid)
    PROVE  Unknown(WtxidOf(s, isWtxid))
<1>. DEFINE h == WtxidOf(s, isWtxid)
<1>1. h \in TxHashes(s) BY HashFacts
<1>2. Orphans \in SUBSET Txs /\ mempool \in SUBSET Txs BY DEF Types, Orphans
<1>3. ASSUME NEW t \in Orphans PROVE h \notin OrphanHashes(t)
  <2>. SUFFICES ASSUME h \in OrphanHashes(t) PROVE FALSE OBVIOUS
  <2>1. t = s BY <1>1, <1>2, HashFacts
  <2>2. h # IF isWtxid THEN WtxidOf(t, orphans[t].witness) ELSE Txid[t] BY DEF AlreadyHaveTx
  <2>. QED BY <2>1, <2>2 DEF OrphanHashes, WtxidOf
<1>4. ASSUME NEW t \in mempool PROVE h \notin TxHashes(t)
  <2>. SUFFICES ASSUME h \in TxHashes(t) PROVE FALSE OBVIOUS
  <2>1. t = s BY <1>1, <1>2, HashFacts
  <2>2. h # IF isWtxid THEN Wtxid[t] ELSE Txid[t] BY DEF AlreadyHaveTx
  <2>. QED BY <2>1, <2>2 DEF WtxidOf
<1>. QED BY <1>3, <1>4 DEF Unknown, AlreadyHaveTx

LEMMA UntrackedAdded ==
    ASSUME Types, Untracked, Rejects' \subseteq Rejects,
           \A h \in Hashes : Unknown(h) \/ (req[h] = NoRow => req'[h] = NoRow),
           UNCHANGED <<orphans, confirmed, mempool, quiet, block>>
    PROVE  Untracked'
<1>1. Rejects \in SUBSET Hashes /\ confirmed \in SUBSET Hashes /\ mempool \in SUBSET Txs
  BY DEF Types, Rejects
<1>2. Orphans' = Orphans /\ Orphans \in SUBSET Txs /\ \A t \in Txs : OrphanHashes(t)' = OrphanHashes(t)
  BY DEF Orphans, OrphanHashes, WtxidOf
<1>3. \A h \in Rejects' : req'[h] = NoRow BY <1>1 DEF Untracked, Unknown
<1>4. \A t \in Orphans' : \A h \in OrphanHashes(t)' : req'[h] = NoRow
  BY <1>2, HashFacts, SMT DEF Untracked, Unknown
<1>5. \A h \in confirmed' : req'[h] # NoRow =>
         block'.pc = "noted" /\ \E t \in block'.txs : h \in TxHashes(t)
  BY <1>1 DEF Untracked, Unknown
<1>6. \A t \in mempool' : \A h \in TxHashes(t) : req'[h] # NoRow => t \in quiet'
  BY <1>1, HashFacts DEF Untracked, Unknown
<1>. QED BY <1>3, <1>4, <1>5, <1>6 DEF Untracked

LEMMA InvKeeps ==
    ASSUME RelayInv, NEW p \in Peers, NEW t \in Txs, Inv(p, t)
    PROVE  RelayInv'
<1>. DEFINE isWtxid == p \in WtxidPeers
            h == WtxidOf(t, isWtxid)
<1>1. Types /\ Tracked /\ Untracked /\ OrphanQueued BY DEF RelayInv
<1>2. /\ p \in connected /\ rejects' = Rejects /\ tipMoved' = FALSE
      /\ req' \in IF AlreadyHaveTx(h, isWtxid) THEN {req}
                  ELSE AddTxAnnouncements(req, p, {h}, isWtxid)
      /\ UNCHANGED <<orphans, work, confirmed, mempool, chain, touched, quiet, block, connected, back, world>>
  BY DEF Inv, Ready, poolVars, chainVars, cbVars, envVars
<1>3. isWtxid \in BOOLEAN /\ Whole(req) BY <1>1, TrackedWhole, SMT
<1>. HIDE DEF isWtxid
<1>4. /\ Whole(req')
      /\ \A g \in Hashes : \A o \in Peers : o # p => req'[g][o] = req[g][o]
      /\ \A g \in Hashes : Unknown(g) \/ req'[g] = req[g]
  <2>1. CASE AlreadyHaveTx(h, isWtxid) BY <1>2, <1>3, <2>1
  <2>2. CASE ~AlreadyHaveTx(h, isWtxid)
    <3>1. Unknown(h) BY <1>1, <1>3, <2>2, NotHadIsUnknown
    <3>2. /\ Whole(req')
          /\ \A g \in Hashes : \A o \in Peers : o # p => req'[g][o] = req[g][o]
          /\ \A g \in Hashes : g \notin {h} => req'[g] = req[g]
      BY <1>2, <1>3, <2>2, AnnouncedFacts, SMT
    <3>. QED BY <3>1, <3>2
  <2>. QED BY <2>1, <2>2
<1>. HIDE DEF h
<1>5. Rejects' = Rejects /\ Rejects \in SUBSET Hashes BY <1>1, <1>2 DEF Rejects, Types
<1>6. Types' BY <1>1, <1>2, <1>4, <1>5 DEF Types, Whole
<1>7. Tracked' BY <1>1, <1>2, <1>4, ZenonT(30) DEF Tracked, Whole
<1>8. Untracked' BY <1>1, <1>2, <1>4, <1>5, UntrackedAdded
<1>9. OrphanQueued' BY <1>1, <1>2, QueuedSame
<1>. QED BY <1>6, <1>7, <1>8, <1>9 DEF RelayInv

LEMMA NotFoundKeeps ==
    ASSUME RelayInv, NEW p \in Peers, NEW h, NotFound(p, h)
    PROVE  RelayInv'
<1>1. Types /\ Tracked /\ Untracked /\ OrphanQueued BY DEF RelayInv
<1>2. /\ req' = Responded(req, p, {h})
      /\ UNCHANGED <<orphans, work, rejects, tipMoved, confirmed, mempool, chain, touched, quiet, block,
                     connected, back, world>>
  BY DEF NotFound, filterVars, poolVars, chainVars, cbVars, envVars
<1>3. Fewer(req, req') BY <1>1, <1>2, TrackedWhole, RespondedFacts
<1>4. Rejects' = Rejects BY <1>2 DEF Rejects
<1>5. Types' BY <1>1, <1>2, <1>3 DEF Types, Fewer, Whole
<1>6. Tracked' BY <1>1, <1>2, <1>3, TrackedFewer
<1>7. Untracked' BY <1>1, <1>2, <1>3, <1>4, UntrackedFewer
<1>8. OrphanQueued' BY <1>1, <1>2, QueuedSame
<1>. QED BY <1>5, <1>6, <1>7, <1>8 DEF RelayInv

\* What all tx messages have in common.
TxFrame(p) ==
    /\ p \in connected /\ tipMoved' = FALSE
    /\ UNCHANGED <<confirmed, block, connected, back, world>>

LEMMA TxKnownKeeps ==
    ASSUME RelayInv, NEW p \in Peers, NEW t \in Txs, NEW witness \in BOOLEAN, TxFrame(p),
           TxKnown(p, t, witness)
    PROVE  RelayInv'
<1>1. Types /\ Tracked /\ Untracked /\ OrphanQueued BY DEF RelayInv
<1>2. /\ req' = Responded(req, p, {Txid[t], WtxidOf(t, witness)}) /\ rejects' = Rejects
      /\ UNCHANGED <<orphans, work, mempool, chain, touched, quiet>>
  BY DEF TxKnown, poolVars, chainVars, cbVars
<1>3. tipMoved' = FALSE /\ UNCHANGED <<confirmed, block, connected, back, world>> BY DEF TxFrame
<1>4. Fewer(req, req') BY <1>1, <1>2, TrackedWhole, RespondedFacts
<1>5. Rejects' = Rejects /\ Rejects \in SUBSET Hashes BY <1>1, <1>2, <1>3 DEF Rejects, Types
<1>6. Types' BY <1>1, <1>2, <1>3, <1>4, <1>5 DEF Types, Fewer, Whole
<1>7. Tracked' BY <1>1, <1>3, <1>4, TrackedFewer
<1>8. Untracked' BY <1>1, <1>2, <1>3, <1>4, <1>5, UntrackedFewer
<1>9. OrphanQueued' BY <1>1, <1>2, <1>3, QueuedSame
<1>. QED BY <1>6, <1>7, <1>8, <1>9 DEF RelayInv

\* The work sets after a transaction was accepted.
LEMMA ChildrenFacts ==
    ASSUME Types, OrphanQueued, NEW w \in [Peers -> SUBSET Txs], NEW t \in Txs, NEW p
    PROVE  LET w2 == AddChildrenToWorkSet(w, t, p)
           IN  /\ w2 \in [Peers -> SUBSET Txs]
               /\ \A q \in Peers : w[q] \subseteq w2[q]
               /\ \A q \in Peers \ connected : w[q] = {} => w2[q] = {}
               /\ \A c \in Orphans : t \in Parents[c] => c \in w2[orphans[c].from]
<1>1. Orphans \in SUBSET Txs /\ \A c \in Orphans : orphans[c].from \in Peers
  BY DEF Orphans, Types
<1>2. \A c \in Orphans : orphans[c].from \in connected BY DEF OrphanQueued
<1>. QED BY <1>1, <1>2 DEF AddChildrenToWorkSet

LEMMA TxValidKeeps ==
    ASSUME RelayInv, NEW p \in Peers, NEW t \in Txs, NEW witness \in BOOLEAN, TxFrame(p),
           TxValid(p, t, witness)
    PROVE  RelayInv'
<1>1. Types /\ Tracked /\ Untracked /\ OrphanQueued BY DEF RelayInv
<1>2. /\ req' = ForgetTxHash(Responded(req, p, TxHashes(t)), TxHashes(t))
      /\ mempool' = mempool \cup {t} /\ quiet' = quiet \ {t}
      /\ work' = AddChildrenToWorkSet(work, t, p)
      /\ rejects' = Rejects /\ UNCHANGED <<orphans, chain, touched>>
  BY DEF TxValid, chainVars
<1>3. tipMoved' = FALSE /\ UNCHANGED <<confirmed, block, connected, back, world>> BY DEF TxFrame
<1>4. /\ Fewer(req, Responded(req, p, TxHashes(t))) /\ Fewer(Responded(req, p, TxHashes(t)), req')
      /\ \A h \in Hashes : h \in TxHashes(t) => req'[h] = NoRow
  <2>1. Fewer(req, Responded(req, p, TxHashes(t))) BY <1>1, TrackedWhole, RespondedFacts
  <2>2. Whole(Responded(req, p, TxHashes(t))) BY <2>1 DEF Fewer
  <2>. QED BY <1>2, <2>1, <2>2, ForgetFacts
<1>5. Fewer(req, req') BY <1>4, FewerTwice
<1>6. Rejects' = Rejects /\ Rejects \in SUBSET Hashes BY <1>1, <1>2, <1>3 DEF Rejects, Types
<1>7. /\ work' \in [Peers -> SUBSET Txs] /\ \A q \in Peers : work[q] \subseteq work'[q]
      /\ \A q \in Peers \ connected : work[q] = {} => work'[q] = {}
      /\ \A c \in Orphans : t \in Parents[c] => c \in work'[orphans[c].from]
  <2>1. work \in [Peers -> SUBSET Txs] BY <1>1 DEF Types
  <2>. QED BY <1>1, <1>2, <2>1, ChildrenFacts
<1>8. Orphans' = Orphans /\ Orphans \in SUBSET Txs BY <1>2 DEF Orphans
<1>9. Types' BY <1>1, <1>2, <1>3, <1>5, <1>6, <1>7, ZenonT(30) DEF Types, Fewer, Whole
<1>10. Tracked' BY <1>1, <1>3, <1>5, TrackedFewer
<1>11. Untracked'
  <2>1. \A h \in Hashes : req[h] = NoRow => req'[h] = NoRow BY <1>5, FewerFacts
  <2>2. confirmed \in SUBSET Hashes /\ mempool \in SUBSET Txs BY <1>1 DEF Types
  <2>3. \A h \in Rejects' : req'[h] = NoRow BY <1>1, <1>6, <2>1 DEF Untracked
  <2>4. \A s \in Orphans' : \A h \in OrphanHashes(s)' : req'[h] = NoRow
    <3>1. \A s \in Txs : OrphanHashes(s)' = OrphanHashes(s) BY <1>2 DEF OrphanHashes, WtxidOf
    <3>. QED BY <1>1, <1>8, <2>1, <3>1, HashFacts, SMT DEF Untracked
  <2>5. \A h \in confirmed' : req'[h] # NoRow =>
           block'.pc = "noted" /\ \E s \in block'.txs : h \in TxHashes(s)
    BY <1>1, <1>3, <2>1, <2>2 DEF Untracked
  <2>6. \A s \in mempool' : \A h \in TxHashes(s) : req'[h] # NoRow => s \in quiet'
    BY <1>1, <1>2, <1>4, <2>1, <2>2, HashFacts DEF Untracked
  <2>. QED BY <2>3, <2>4, <2>5, <2>6 DEF Untracked
<1>12. OrphanQueued'
  <2>1. ASSUME NEW c \in Orphans \ touched,
               Parents[c] \subseteq (mempool' \cup chain) \ quiet'
        PROVE  c \in work'[orphans[c].from]
    <3>1. CASE t \in Parents[c] BY <1>7, <3>1
    <3>2. CASE t \notin Parents[c]
      <4>1. Parents[c] \subseteq (mempool \cup chain) \ quiet BY <1>2, <2>1, <3>2
      <4>2. c \in work[orphans[c].from] BY <1>1, <4>1 DEF OrphanQueued
      <4>3. orphans[c].from \in Peers BY <1>1, <1>8 DEF Types, Orphans
      <4>. QED BY <1>7, <4>2, <4>3
    <3>. QED BY <3>1, <3>2
  <2>. QED BY <1>1, <1>2, <1>3, <1>7, <1>8, <2>1 DEF OrphanQueued
<1>. QED BY <1>9, <1>10, <1>11, <1>12 DEF RelayInv

\* Fewer orphans.
LEMMA KeepOrphansFacts ==
    ASSUME Types, NEW kept
    PROVE  /\ KeepOrphans(kept) \in [Txs -> {NoOrphan} \cup [from : Peers, witness : BOOLEAN]]
           /\ \A s \in Txs : KeepOrphans(kept)[s] # NoOrphan =>
                s \in Orphans /\ s \in kept /\ KeepOrphans(kept)[s] = orphans[s]
  BY DEF Types, KeepOrphans, Orphans

LEMMA TxOrphanKeeps ==
    ASSUME RelayInv, Chained, NEW p \in Peers, NEW t \in Txs, NEW witness \in BOOLEAN, TxFrame(p),
           TxOrphan(p, t, witness)
    PROVE  RelayInv'
<1>. DEFINE wtxid == WtxidOf(t, witness)
            q == Responded(req, p, {Txid[t], wtxid})
            parents == {Txid[s] : s \in Parents[t]}
            wanted == {h \in parents : ~AlreadyHaveTx(h, FALSE)}
<1>1. Types /\ Tracked /\ Untracked /\ OrphanQueued BY DEF RelayInv
<1>2. tipMoved' = FALSE /\ p \in connected /\ UNCHANGED <<confirmed, block, connected, back, world>>
  BY DEF TxFrame
<1>3. /\ "missing" \in Results(t, witness) /\ UNCHANGED <<work, mempool, chain, touched, quiet>>
      /\ \/ /\ rejects' = Rejects \cup {Txid[t], wtxid}
            /\ req' = ForgetTxHash(q, {Txid[t], wtxid}) /\ UNCHANGED orphans
         \/ /\ rejects' = Rejects
            /\ \E added \in AddTxAnnouncements(q, p, wanted, FALSE) :
                  req' = ForgetTxHash(added, {Txid[t], wtxid})
            /\ \E kept \in Keeps(t) :
                  orphans' = IF t \in kept \ Orphans
                             THEN [KeepOrphans(kept) EXCEPT ![t] = [from |-> p, witness |-> witness]]
                             ELSE KeepOrphans(kept)
  BY DEF TxOrphan, poolVars, chainVars, cbVars
<1>4. ASSUME NEW h \in wanted PROVE Unknown(h)
  <2>1. PICK s \in Parents[t] : h = Txid[s] /\ ~AlreadyHaveTx(h, FALSE) OBVIOUS
  <2>2. s \in Txs /\ h = WtxidOf(s, FALSE) BY <2>1, RelayAssumption DEF WtxidOf
  <2>3. FALSE \in BOOLEAN OBVIOUS
  <2>. QED BY <1>1, <2>1, <2>2, <2>3, NotHadIsUnknown
<1>5. Txid[t] \in Hashes /\ wtxid \in Hashes BY HashFacts
<1>6. Fewer(req, q) /\ Whole(q) BY <1>1, TrackedWhole, RespondedFacts DEF Fewer
<1>. HIDE DEF q, wanted
<1>7. /\ Whole(req') /\ req'[Txid[t]] = NoRow /\ req'[wtxid] = NoRow
      /\ \A h \in Hashes : \A o \in Peers : o # p /\ req[h][o] = NoAnn => req'[h][o] = NoAnn
      /\ \A h \in Hashes : Unknown(h) \/ (req[h] = NoRow => req'[h] = NoRow)
  <2>1. PICK added : /\ req' = ForgetTxHash(added, {Txid[t], wtxid})
                     /\ added = q \/ added \in AddTxAnnouncements(q, p, wanted, FALSE)
    BY <1>3
  <2>2. /\ Whole(added) /\ \A h \in Hashes : h \notin wanted => added[h] = q[h]
        /\ \A h \in Hashes : \A o \in Peers : o # p => added[h][o] = q[h][o]
    <3>1. CASE added = q BY <1>6, <3>1
    <3>2. CASE added \in AddTxAnnouncements(q, p, wanted, FALSE)
      <4>. DEFINE no == FALSE
      <4>1. no \in BOOLEAN /\ added \in AddTxAnnouncements(q, p, wanted, no) BY <3>2
      <4>. HIDE DEF no
      <4>. QED BY <1>6, <4>1, AnnouncedFacts, SMT
    <3>. QED BY <2>1, <3>1, <3>2
  <2>3. /\ Fewer(added, req')
        /\ \A h \in Hashes : req'[h] = IF h \in {Txid[t], wtxid} THEN NoRow ELSE added[h]
    BY <2>1, <2>2, ForgetFacts, SMT
  <2>4. \A h \in Hashes : \A o \in Peers : o # p /\ req[h][o] = NoAnn => req'[h][o] = NoAnn
    BY <1>6, <2>2, <2>3, SMT DEF Fewer, Absent
  <2>5. ASSUME NEW h \in Hashes, ~Unknown(h), req[h] = NoRow PROVE req'[h] = NoRow
    <3>1. q[h] = NoRow BY <1>6, <2>5, FewerFacts
    <3>. QED BY <1>4, <2>2, <2>3, <2>5, <3>1
  <2>. QED BY <1>5, <2>3, <2>4, <2>5 DEF Fewer
<1>8. /\ rejects' \in SUBSET Hashes
      /\ \A h \in Rejects' : h \in Rejects \/ h \in {Txid[t], wtxid}
  BY <1>1, <1>2, <1>3, <1>5 DEF Rejects, Types
<1>9. /\ orphans' \in [Txs -> {NoOrphan} \cup [from : Peers, witness : BOOLEAN]]
      /\ \A s \in Orphans' : \/ s \in Orphans /\ orphans'[s] = orphans[s]
                             \/ s = t /\ orphans'[t] = [from |-> p, witness |-> witness]
  <2>1. CASE UNCHANGED orphans BY <1>1, <2>1 DEF Orphans, Types
  <2>2. CASE \E kept : orphans' = IF t \in kept \ Orphans
                                  THEN [KeepOrphans(kept) EXCEPT ![t] = [from |-> p, witness |-> witness]]
                                  ELSE KeepOrphans(kept)
    <3>1. PICK kept : orphans' = IF t \in kept \ Orphans
                                 THEN [KeepOrphans(kept) EXCEPT ![t] = [from |-> p, witness |-> witness]]
                                 ELSE KeepOrphans(kept)
      BY <2>2
    <3>. DEFINE k == KeepOrphans(kept)
    <3>2. /\ k \in [Txs -> {NoOrphan} \cup [from : Peers, witness : BOOLEAN]]
          /\ \A s \in Txs : k[s] # NoOrphan => s \in Orphans /\ k[s] = orphans[s]
      BY <1>1, KeepOrphansFacts
    <3>3. Orphans' = {s \in Txs : orphans'[s] # NoOrphan} BY DEF Orphans
    <3>. HIDE DEF k
    <3>4. CASE t \in kept \ Orphans
      <4>1. orphans' = [k EXCEPT ![t] = [from |-> p, witness |-> witness]] BY <3>1, <3>4 DEF k
      <4>. QED BY <3>2, <3>3, <4>1
    <3>5. CASE t \notin kept \ Orphans
      <4>1. orphans' = k BY <3>1, <3>5 DEF k
      <4>. QED BY <3>2, <3>3, <4>1
    <3>. QED BY <3>4, <3>5
  <2>. QED BY <1>3, <2>1, <2>2
<1>10. Orphans \in SUBSET Txs /\ Orphans' \in SUBSET Txs BY DEF Orphans
<1>11. Types' BY <1>1, <1>2, <1>3, <1>7, <1>8, <1>9 DEF Types, Whole
<1>12. Tracked' BY <1>1, <1>2, <1>7 DEF Tracked, Whole
<1>13. Untracked'
  <2>1. Rejects \in SUBSET Hashes /\ confirmed \in SUBSET Hashes /\ mempool \in SUBSET Txs
    BY <1>1 DEF Types, Rejects
  <2>2. \A h \in Rejects' : req'[h] = NoRow BY <1>1, <1>7, <1>8, <2>1 DEF Untracked, Unknown
  <2>3. ASSUME NEW s \in Orphans', NEW h \in OrphanHashes(s)' PROVE req'[h] = NoRow
    <3>1. CASE s \in Orphans /\ orphans'[s] = orphans[s]
      <4>1. h \in OrphanHashes(s) BY <2>3, <3>1 DEF OrphanHashes, WtxidOf
      <4>2. h \in Hashes BY <1>10, <3>1, <4>1, HashFacts
      <4>. QED BY <1>1, <1>7, <3>1, <4>1, <4>2 DEF Untracked, Unknown
    <3>2. CASE s = t /\ orphans'[t] = [from |-> p, witness |-> witness]
      <4>1. h \in {Txid[t], wtxid} BY <2>3, <3>2, SMT DEF OrphanHashes, WtxidOf
      <4>. QED BY <1>7, <4>1
    <3>. QED BY <1>9, <3>1, <3>2
  <2>4. \A h \in confirmed' : req'[h] # NoRow =>
           block'.pc = "noted" /\ \E s \in block'.txs : h \in TxHashes(s)
    BY <1>1, <1>2, <1>7, <2>1 DEF Untracked, Unknown
  <2>5. \A s \in mempool' : \A h \in TxHashes(s) : req'[h] # NoRow => s \in quiet'
    BY <1>1, <1>3, <1>7, <2>1, HashFacts DEF Untracked, Unknown
  <2>. QED BY <2>2, <2>3, <2>4, <2>5 DEF Untracked
<1>14. OrphanQueued'
  <2>1. t \in touched \/ ~(Parents[t] \subseteq mempool \cup chain)
    BY <1>3 DEF Results, Chained
  <2>2. ASSUME NEW s \in Orphans', s \notin touched,
               Parents[s] \subseteq (mempool \cup chain) \ quiet
        PROVE  s \in work[orphans'[s].from]
    <3>1. s # t
      <4>1. Parents[s] \subseteq mempool \cup chain BY <2>2
      <4>. QED BY <2>1, <2>2, <4>1
    <3>2. s \in Orphans /\ orphans'[s] = orphans[s] BY <1>9, <3>1
    <3>. QED BY <1>1, <2>2, <3>2 DEF OrphanQueued
  <2>3. \A s \in Orphans' : orphans'[s].from \in connected BY <1>1, <1>2, <1>9, SMT DEF OrphanQueued
  <2>. QED BY <1>1, <1>2, <1>3, <2>2, <2>3 DEF OrphanQueued
<1>. QED BY <1>11, <1>12, <1>13, <1>14 DEF RelayInv

LEMMA RefusedHashes ==
    ASSUME NEW t \in Txs, NEW witness, NEW result \in {"reject", "nonstandard", "stripped"}
    PROVE  Refused(t, witness, result) \in SUBSET {Txid[t], WtxidOf(t, witness)}
  BY DEF Refused

LEMMA ResultsFacts ==
    ASSUME NEW t, NEW witness
    PROVE  /\ Results(t, witness) \ {"valid", "missing"} \subseteq {"reject", "nonstandard", "stripped"}
           /\ "valid" \in Results(t, witness) => WtxidOf(t, witness) = Wtxid[t]
           /\ "missing" \in Results(t, witness) =>
                t \in chain \/ t \in spent \/ ~(Parents[t] \subseteq mempool \cup chain)
  BY DEF Results

LEMMA TxRefusedKeeps ==
    ASSUME RelayInv, NEW p \in Peers, NEW t \in Txs, NEW witness \in BOOLEAN, TxFrame(p),
           TxRefused(p, t, witness)
    PROVE  RelayInv'
<1>. DEFINE wtxid == WtxidOf(t, witness)
            q == Responded(req, p, {Txid[t], wtxid})
<1>1. Types /\ Tracked /\ Untracked /\ OrphanQueued BY DEF RelayInv
<1>2. tipMoved' = FALSE /\ UNCHANGED <<confirmed, block, connected, back, world>> BY DEF TxFrame
<1>3. PICK result \in Results(t, witness) \ {"valid", "missing"} :
         /\ rejects' = Rejects \cup Refused(t, witness, result)
         /\ req' = ForgetTxHash(q, Refused(t, witness, result))
  BY DEF TxRefused
<1>4. UNCHANGED <<orphans, work, mempool, chain, touched, quiet>> BY DEF TxRefused, poolVars, chainVars, cbVars
<1>. DEFINE hs == Refused(t, witness, result)
<1>5. hs \in SUBSET Hashes BY RefusedHashes, ResultsFacts, HashFacts, SMT
<1>. HIDE DEF hs
<1>6. Fewer(req, q) /\ Whole(q) BY <1>1, TrackedWhole, RespondedFacts DEF Fewer
<1>. HIDE DEF q
<1>7. Fewer(req, req') /\ \A h \in hs : req'[h] = NoRow
  <2>1. Fewer(q, req') /\ \A h \in Hashes : req'[h] = IF h \in hs THEN NoRow ELSE q[h]
    BY <1>3, <1>6, ForgetFacts, SMT DEF hs
  <2>. QED BY <1>5, <1>6, <2>1, FewerTwice
<1>8. rejects' \in SUBSET Hashes /\ \A h \in Rejects' : h \in Rejects \/ h \in hs
  BY <1>1, <1>2, <1>3, <1>5 DEF Rejects, Types, hs
<1>9. Types' BY <1>1, <1>2, <1>4, <1>7, <1>8 DEF Types, Fewer, Whole
<1>10. Tracked' BY <1>1, <1>2, <1>7, TrackedFewer
<1>11. Untracked'
  <2>1. \A h \in Hashes : req[h] = NoRow => req'[h] = NoRow BY <1>7, FewerFacts
  <2>2. Rejects \in SUBSET Hashes /\ confirmed \in SUBSET Hashes /\ mempool \in SUBSET Txs
    BY <1>1 DEF Types, Rejects
  <2>3. \A h \in Rejects' : req'[h] = NoRow BY <1>1, <1>7, <1>8, <2>1, <2>2 DEF Untracked
  <2>4. \A s \in Orphans' : \A h \in OrphanHashes(s)' : req'[h] = NoRow
    <3>1. Orphans' = Orphans /\ Orphans \in SUBSET Txs BY <1>4 DEF Orphans
    <3>2. \A s \in Txs : OrphanHashes(s)' = OrphanHashes(s) BY <1>4 DEF OrphanHashes, WtxidOf
    <3>. QED BY <1>1, <2>1, <3>1, <3>2, HashFacts, SMT DEF Untracked
  <2>5. \A h \in confirmed' : req'[h] # NoRow =>
           block'.pc = "noted" /\ \E s \in block'.txs : h \in TxHashes(s)
    BY <1>1, <1>2, <2>1, <2>2 DEF Untracked
  <2>6. \A s \in mempool' : \A h \in TxHashes(s) : req'[h] # NoRow => s \in quiet'
    BY <1>1, <1>4, <2>1, <2>2, HashFacts DEF Untracked
  <2>. QED BY <2>3, <2>4, <2>5, <2>6 DEF Untracked
<1>12. OrphanQueued' BY <1>1, <1>2, <1>4, QueuedSame
<1>. QED BY <1>9, <1>10, <1>11, <1>12 DEF RelayInv

LEMMA TxKeeps ==
    ASSUME RelayInv, Chained, NEW p \in Peers, NEW t \in Txs, NEW witness \in BOOLEAN,
           Tx(p, t, witness)
    PROVE  RelayInv'
<1>1. TxFrame(p) BY DEF Tx, TxFrame, Ready, envVars, cbVars
<1>2. \/ TxKnown(p, t, witness) \/ TxValid(p, t, witness)
      \/ TxOrphan(p, t, witness) \/ TxRefused(p, t, witness)
  BY DEF Tx
<1>. QED BY <1>1, <1>2, TxKnownKeeps, TxValidKeeps, TxOrphanKeeps, TxRefusedKeeps

-----------------------------------------------------------------------------
(* Orphans.                                                                  *)

\* An orphan that is in no work set because its turn came has inputs that are missing.
LEMMA StillQueued ==
    ASSUME Types, OrphanQueued, Chained, NEW p \in Peers, NEW skipped \in SUBSET work[p],
           \A s \in skipped \cap Orphans : "missing" \in Results(s, orphans[s].witness),
           NEW c \in Orphans, c \notin touched,
           Parents[c] \subseteq (mempool \cup chain) \ quiet
    PROVE  c \in work[orphans[c].from] /\ c \notin skipped
<1>1. c \in work[orphans[c].from] BY DEF OrphanQueued
<1>2. Parents[c] \subseteq mempool \cup chain OBVIOUS
<1>3. c \notin skipped BY <1>2, ResultsFacts DEF Chained
<1>. QED BY <1>1, <1>3

LEMMA ProcessOrphanTxKeeps ==
    ASSUME RelayInv, Chained, NEW p \in Peers, ProcessOrphanTx(p)
    PROVE  RelayInv'
<1>1. Types /\ Tracked /\ Untracked /\ OrphanQueued BY DEF RelayInv
<1>2. UNCHANGED <<req, tipMoved, confirmed, block, connected, back, world>>
  BY DEF ProcessOrphanTx, envVars, cbVars
<1>3. PICK skipped \in SUBSET work[p] :
         /\ \A s \in skipped \cap Orphans : "missing" \in Results(s, orphans[s].witness)
         /\ \/ /\ skipped = work[p] /\ work' = [work EXCEPT ![p] = {}]
               /\ UNCHANGED <<orphans, rejects, mempool, chain, touched, quiet>>
            \/ \E t \in (work[p] \ skipped) \cap Orphans :
                  LET left == [work EXCEPT ![p] = @ \ (skipped \cup {t})]
                  IN  \/ OrphanAccepted(p, t) /\ work' = AddChildrenToWorkSet(left, t, p)
                      \/ OrphanRefused(p, t) /\ work' = left
  BY DEF ProcessOrphanTx, poolVars, chainVars, cbVars
<1>4. /\ work \in [Peers -> SUBSET Txs] /\ Orphans \in SUBSET Txs
      /\ \A c \in Orphans : orphans[c].from \in Peers
  BY <1>1 DEF Types, Orphans
<1>5. ASSUME NEW c \in Orphans, c \notin touched,
             Parents[c] \subseteq (mempool \cup chain) \ quiet
      PROVE  c \in work[orphans[c].from] /\ c \notin skipped
  BY <1>1, <1>3, <1>5, StillQueued
<1>6. Tracked' BY <1>1, <1>2 DEF Tracked
<1>7. Rejects \in SUBSET Hashes /\ confirmed \in SUBSET Hashes /\ mempool \in SUBSET Txs
      /\ rejects \in SUBSET Hashes
  BY <1>1 DEF Types, Rejects
<1>8. CASE /\ skipped = work[p] /\ work' = [work EXCEPT ![p] = {}]
           /\ UNCHANGED <<orphans, rejects, mempool, chain, touched, quiet>>
  <2>1. Types' BY <1>1, <1>2, <1>8 DEF Types
  <2>2. Untracked'
    <3>1. Fewer(req, req') BY <1>1, <1>2, TrackedWhole, FewerSame
    <3>2. Rejects' \subseteq Rejects BY <1>2, <1>8 DEF Rejects
    <3>. QED BY <1>1, <1>2, <1>8, <3>1, <3>2, UntrackedFewer
  <2>3. Orphans' = Orphans BY <1>8 DEF Orphans
  <2>4. ASSUME NEW c \in Orphans, c \notin touched,
               Parents[c] \subseteq (mempool \cup chain) \ quiet
        PROVE  c \in work'[orphans[c].from]
    <3>1. c \in work[orphans[c].from] /\ c \notin skipped BY <1>5, <2>4
    <3>2. orphans[c].from # p BY <1>8, <3>1
    <3>. QED BY <1>4, <1>8, <3>1, <3>2
  <2>5. OrphanQueued'
    <3>1. \A q \in Peers \ connected : work'[q] = {} BY <1>1, <1>4, <1>8 DEF OrphanQueued
    <3>. QED BY <1>1, <1>2, <1>8, <2>3, <2>4, <3>1 DEF OrphanQueued
  <2>. QED BY <1>6, <2>1, <2>2, <2>5 DEF RelayInv
<1>9. ASSUME NEW t \in (work[p] \ skipped) \cap Orphans, NEW left,
             left = [work EXCEPT ![p] = @ \ (skipped \cup {t})],
             \/ OrphanAccepted(p, t) /\ work' = AddChildrenToWorkSet(left, t, p)
             \/ OrphanRefused(p, t) /\ work' = left
      PROVE  RelayInv'
  <2>1. t \in Txs /\ t \in Orphans /\ orphans' = [orphans EXCEPT ![t] = NoOrphan]
        /\ UNCHANGED <<chain, touched>>
    BY <1>4, <1>9 DEF OrphanAccepted, OrphanRefused, poolVars, chainVars, cbVars
  <2>2. /\ left \in [Peers -> SUBSET Txs] /\ \A q \in Peers : left[q] \subseteq work[q]
        /\ \A q \in Peers : q # p => left[q] = work[q]
        /\ left[p] = work[p] \ (skipped \cup {t})
    BY <1>4, <1>9
  <2>3. /\ orphans' \in [Txs -> {NoOrphan} \cup [from : Peers, witness : BOOLEAN]]
        /\ Orphans' = Orphans \ {t} /\ \A c \in Orphans' : orphans'[c] = orphans[c]
    BY <1>1, <2>1 DEF Types, Orphans
  <2>4. ASSUME NEW c \in Orphans', c \notin touched,
               Parents[c] \subseteq (mempool \cup chain) \ quiet
        PROVE  c \in left[orphans[c].from]
    <3>1. c \in Orphans /\ c # t BY <2>3
    <3>2. c \in work[orphans[c].from] /\ c \notin skipped BY <1>5, <2>4, <3>1
    <3>. QED BY <1>4, <2>2, <3>1, <3>2
  <2>5. \A q \in Peers \ connected : left[q] = {} BY <1>1, <2>2 DEF OrphanQueued
  <2>6. \A c \in Orphans' : \A h \in OrphanHashes(c)' : req'[h] = NoRow
    <3>1. \A c \in Orphans' : OrphanHashes(c)' = OrphanHashes(c) BY <2>3 DEF OrphanHashes, WtxidOf
    <3>. QED BY <1>1, <1>2, <2>3, <3>1 DEF Untracked
  <2>7. \A h \in OrphanHashes(t) : req[h] = NoRow BY <1>1, <2>1 DEF Untracked
  <2>8. \A h \in confirmed' : req'[h] # NoRow =>
           block'.pc = "noted" /\ \E s \in block'.txs : h \in TxHashes(s)
    BY <1>1, <1>2 DEF Untracked
  <2>9. CASE OrphanAccepted(p, t) /\ work' = AddChildrenToWorkSet(left, t, p)
    <3>1. /\ WtxidOf(t, orphans[t].witness) = Wtxid[t]
          /\ mempool' = mempool \cup {t} /\ quiet' = quiet \ {t} /\ rejects' = rejects
      BY <2>9, ResultsFacts DEF OrphanAccepted
    <3>2. /\ work' \in [Peers -> SUBSET Txs] /\ \A q \in Peers : left[q] \subseteq work'[q]
          /\ \A q \in Peers \ connected : left[q] = {} => work'[q] = {}
          /\ \A c \in Orphans : t \in Parents[c] => c \in work'[orphans[c].from]
      BY <1>1, <2>1, <2>2, <2>9, ChildrenFacts, SMT
    <3>3. Types' BY <1>1, <1>2, <2>1, <2>3, <3>1, <3>2 DEF Types
    <3>4. Untracked'
      <4>1. TxHashes(t) = OrphanHashes(t) BY <3>1 DEF TxHashes, OrphanHashes
      <4>2. \A s \in mempool' : \A h \in TxHashes(s) : req'[h] # NoRow => s \in quiet'
        BY <1>1, <1>2, <2>7, <3>1, <4>1 DEF Untracked
      <4>3. \A h \in Rejects' : req'[h] = NoRow BY <1>1, <1>2, <3>1 DEF Untracked, Rejects
      <4>. QED BY <2>6, <2>8, <4>2, <4>3 DEF Untracked
    <3>5. ASSUME NEW c \in Orphans', c \notin touched,
                 Parents[c] \subseteq (mempool' \cup chain) \ quiet'
          PROVE  c \in work'[orphans[c].from]
      <4>1. c \in Orphans BY <2>3
      <4>2. CASE t \in Parents[c] BY <3>2, <4>1, <4>2
      <4>3. CASE t \notin Parents[c]
        <5>1. Parents[c] \subseteq (mempool \cup chain) \ quiet BY <3>1, <3>5, <4>3
        <5>. QED BY <1>4, <2>4, <3>2, <3>5, <4>1, <5>1
      <4>. QED BY <4>2, <4>3
    <3>6. OrphanQueued'
      <4>1. \A q \in Peers \ connected : work'[q] = {} BY <2>5, <3>2
      <4>2. \A c \in Orphans' : orphans'[c].from \in connected BY <1>1, <2>3 DEF OrphanQueued
      <4>. QED BY <1>2, <2>1, <2>3, <3>5, <4>1, <4>2, SMT DEF OrphanQueued
    <3>. QED BY <1>6, <3>3, <3>4, <3>6 DEF RelayInv
  <2>10. CASE OrphanRefused(p, t) /\ work' = left
    <3>1. PICK result \in Results(t, orphans[t].witness) \ {"valid", "missing"} :
             rejects' = rejects \cup Refused(t, orphans[t].witness, result)
      BY <2>10 DEF OrphanRefused
    <3>2. UNCHANGED <<mempool, quiet>> BY <2>10 DEF OrphanRefused, poolVars, chainVars, cbVars
    <3>. DEFINE hs == Refused(t, orphans[t].witness, result)
    <3>3. hs \in SUBSET OrphanHashes(t) BY <2>1, RefusedHashes, ResultsFacts DEF OrphanHashes
    <3>4. rejects' = rejects \cup hs BY <3>1
    <3>. HIDE DEF hs
    <3>5. rejects' \in SUBSET Hashes BY <1>7, <2>1, <3>3, <3>4, HashFacts
    <3>6. Types' BY <1>1, <1>2, <2>1, <2>2, <2>3, <2>10, <3>2, <3>5 DEF Types
    <3>7. Untracked'
      <4>1. \A h \in Rejects' : h \in Rejects \/ h \in OrphanHashes(t)
        BY <1>2, <3>3, <3>4 DEF Rejects
      <4>2. \A h \in Rejects' : req'[h] = NoRow BY <1>1, <1>2, <2>7, <4>1 DEF Untracked
      <4>3. \A s \in mempool' : \A h \in TxHashes(s) : req'[h] # NoRow => s \in quiet'
        BY <1>1, <1>2, <3>2 DEF Untracked
      <4>. QED BY <2>6, <2>8, <4>2, <4>3 DEF Untracked
    <3>8. OrphanQueued'
      <4>1. \A c \in Orphans' : orphans'[c].from \in connected BY <1>1, <2>3 DEF OrphanQueued
      <4>. QED BY <1>2, <2>1, <2>3, <2>4, <2>5, <2>10, <3>2, <4>1, SMT DEF OrphanQueued
    <3>. QED BY <1>6, <3>6, <3>7, <3>8 DEF RelayInv
  <2>. QED BY <1>9, <2>9, <2>10
<1>. QED BY <1>3, <1>8, <1>9

-----------------------------------------------------------------------------
(* SendMessages and FinalizeNode.                                            *)

LEMMA SendMessagesKeeps ==
    ASSUME RelayInv, NEW p \in Peers, SendMessages(p)
    PROVE  RelayInv'
<1>. DEFINE moved == [h \in Hashes |-> SetTimePoint(h, req[h])]
            requestable == {h \in Hashes : moved[h][p].state = "BEST"}
            known == {h \in requestable : AlreadyHaveTx(h, IsWtxid(h))}
<1>1. Types /\ Tracked /\ Untracked /\ OrphanQueued BY DEF RelayInv
<1>2. /\ p \in connected
      /\ req' = [h \in Hashes |->
                   IF h \in known THEN NoRow
                   ELSE IF h \in requestable THEN RequestedTx(moved[h], p, GETDATA_TX_INTERVAL)
                   ELSE moved[h]]
      /\ UNCHANGED <<rejects, tipMoved>> \/ (rejects' = Rejects /\ tipMoved' = FALSE)
      /\ UNCHANGED <<orphans, work, confirmed, mempool, chain, touched, quiet, block, connected, back, world>>
  BY DEF SendMessages, poolVars, chainVars, cbVars, envVars
<1>3. GETDATA_TX_INTERVAL \in Int BY RelayAssumption, SMT
<1>4. ASSUME NEW h \in Hashes
      PROVE  /\ Sane(h, moved[h]) /\ Absent(req[h], moved[h])
             /\ h \in requestable => moved[h][p].state = "BEST"
  BY <1>1, SetTimePointFacts, TimePointAbsent DEF Tracked
<1>. HIDE DEF moved, requestable, known
<1>5. ASSUME NEW h \in Hashes PROVE Sane(h, req'[h]) /\ Absent(req[h], req'[h])
  <2>1. CASE h \in known
    <3>1. req'[h] = NoRow BY <1>2, <2>1
    <3>. QED BY <3>1, NoRowFacts DEF Absent
  <2>2. CASE h \notin known /\ h \in requestable
    <3>1. req'[h] = RequestedTx(moved[h], p, GETDATA_TX_INTERVAL) BY <1>2, <2>2
    <3>2. Sane(h, req'[h]) /\ \A o \in Peers : o # p => req'[h][o] = moved[h][o]
      BY <1>3, <1>4, <2>2, <3>1, RequestedTxFacts, SMT
    <3>3. req[h][p] # NoAnn
      <4>1. moved[h][p].state = "BEST" BY <1>4, <2>2
      <4>2. moved[h][p] # NoAnn BY <4>1, SMT DEF NoAnn
      <4>. QED BY <1>4, <4>2 DEF Absent
    <3>. QED BY <1>4, <3>2, <3>3 DEF Absent
  <2>3. CASE h \notin known /\ h \notin requestable
    <3>1. req'[h] = moved[h] BY <1>2, <2>3
    <3>. QED BY <1>4, <3>1
  <2>. QED BY <2>1, <2>2, <2>3
<1>6. Fewer(req, req')
  <2>1. DOMAIN req' = Hashes /\ req' = [h \in Hashes |-> req'[h]] BY <1>2
  <2>. QED BY <1>5, <2>1, RowByRow DEF Fewer
<1>7. Rejects' = Rejects /\ rejects' \in SUBSET Hashes /\ tipMoved' \in BOOLEAN
  <2>1. CASE UNCHANGED <<rejects, tipMoved>> BY <1>1, <2>1 DEF Rejects, Types
  <2>2. CASE rejects' = Rejects /\ tipMoved' = FALSE BY <1>1, <2>2 DEF Rejects, Types
  <2>. QED BY <1>2, <2>1, <2>2
<1>8. Types' BY <1>1, <1>2, <1>6, <1>7 DEF Types, Fewer, Whole
<1>9. Tracked' BY <1>1, <1>2, <1>6, TrackedFewer
<1>10. Untracked' BY <1>1, <1>2, <1>6, <1>7, UntrackedFewer
<1>11. OrphanQueued' BY <1>1, <1>2, QueuedSame
<1>. QED BY <1>8, <1>9, <1>10, <1>11 DEF RelayInv

\* Fewer orphans, the same otherwise.
LEMMA UntrackedKept ==
    ASSUME Types, Untracked, Fewer(req, req'), NEW kept, orphans' = KeepOrphans(kept),
           UNCHANGED <<rejects, tipMoved, confirmed, mempool, quiet>>,
           block' = block \/ block.pc # "noted"
    PROVE  Untracked'
<1>1. Rejects' = Rejects /\ Rejects \in SUBSET Hashes /\ confirmed \in SUBSET Hashes
      /\ mempool \in SUBSET Txs
  BY DEF Types, Rejects
<1>2. /\ Orphans \in SUBSET Txs
      /\ \A s \in Orphans' : s \in Orphans /\ OrphanHashes(s)' = OrphanHashes(s)
  <2>1. Orphans' = {s \in Txs : orphans'[s] # NoOrphan} BY DEF Orphans
  <2>2. \A s \in Orphans' : s \in Orphans /\ orphans'[s] = orphans[s] BY <2>1, KeepOrphansFacts
  <2>. QED BY <2>2 DEF OrphanHashes, WtxidOf, Orphans
<1>3. \A h \in Hashes : req[h] = NoRow => req'[h] = NoRow BY FewerFacts
<1>4. \A h \in Rejects' : req'[h] = NoRow BY <1>1, <1>3 DEF Untracked
<1>5. \A s \in Orphans' : \A h \in OrphanHashes(s)' : req'[h] = NoRow
  BY <1>2, <1>3, HashFacts, SMT DEF Untracked
<1>6. \A h \in confirmed' : req'[h] # NoRow =>
         block'.pc = "noted" /\ \E s \in block'.txs : h \in TxHashes(s)
  BY <1>1, <1>3 DEF Untracked
<1>7. \A s \in mempool' : \A h \in TxHashes(s) : req'[h] # NoRow => s \in quiet'
  BY <1>1, <1>3, HashFacts DEF Untracked
<1>. QED BY <1>4, <1>5, <1>6, <1>7 DEF Untracked

LEMMA FinalizeNodeKeeps ==
    ASSUME RelayInv, NEW p \in Peers, FinalizeNode(p)
    PROVE  RelayInv'
<1>. DEFINE kept == {t \in Orphans : orphans[t].from # p}
<1>1. Types /\ Tracked /\ Untracked /\ OrphanQueued BY DEF RelayInv
<1>2. /\ orphans' = KeepOrphans(kept) /\ work' = [work EXCEPT ![p] = {}]
      /\ req' = [h \in Hashes |-> DisconnectedPeer(h, req[h], p)]
      /\ connected' = connected \ {p}
      /\ UNCHANGED <<rejects, tipMoved, confirmed, mempool, chain, touched, quiet, block, back, world>>
  BY DEF FinalizeNode, filterVars, poolVars, chainVars, cbVars
<1>3. ASSUME NEW h \in Hashes
      PROVE  Sane(h, req'[h]) /\ Absent(req[h], req'[h]) /\ req'[h][p] = NoAnn
  <2>1. req'[h] = DisconnectedPeer(h, req[h], p) BY <1>2
  <2>. QED BY <1>1, <2>1, DisconnectedFacts, SMT DEF Tracked
<1>4. Fewer(req, req')
  <2>1. DOMAIN req' = Hashes /\ req' = [h \in Hashes |-> req'[h]] BY <1>2
  <2>. QED BY <1>3, <2>1, RowByRow DEF Fewer
<1>5. /\ orphans' \in [Txs -> {NoOrphan} \cup [from : Peers, witness : BOOLEAN]]
      /\ \A s \in Orphans' : s \in Orphans /\ s \in kept /\ orphans'[s] = orphans[s]
  <2>1. Orphans' = {s \in Txs : orphans'[s] # NoOrphan} BY DEF Orphans
  <2>. HIDE DEF kept
  <2>. QED BY <1>1, <1>2, <2>1, KeepOrphansFacts
<1>6. \A s \in Orphans' : s \in Orphans /\ orphans'[s] = orphans[s] /\ orphans[s].from # p
  BY <1>5
<1>7. Types' BY <1>1, <1>2, <1>4, <1>5 DEF Types, Fewer, Whole
<1>8. Tracked' BY <1>1, <1>2, <1>3 DEF Tracked, Absent
<1>. HIDE DEF kept
<1>9. Untracked' BY <1>1, <1>2, <1>4, UntrackedKept
<1>10. OrphanQueued'
  <2>1. work \in [Peers -> SUBSET Txs] /\ \A c \in Orphans : orphans[c].from \in Peers
    BY <1>1 DEF Types, Orphans
  <2>2. \A q \in Peers : q # p => work'[q] = work[q] BY <1>2, <2>1
  <2>3. \A q \in Peers \ connected' : work'[q] = {} BY <1>1, <1>2, <2>1 DEF OrphanQueued
  <2>4. \A s \in Orphans' : orphans'[s].from \in connected' BY <1>1, <1>2, <1>6 DEF OrphanQueued
  <2>5. ASSUME NEW s \in Orphans', s \notin touched,
               Parents[s] \subseteq (mempool \cup chain) \ quiet
        PROVE  s \in work'[orphans'[s].from]
    <3>1. s \in work[orphans[s].from] BY <1>1, <1>6, <2>5 DEF OrphanQueued
    <3>. QED BY <1>6, <2>1, <2>2, <3>1
  <2>. QED BY <1>2, <2>3, <2>4, <2>5 DEF OrphanQueued
<1>. QED BY <1>7, <1>8, <1>9, <1>10 DEF RelayInv

-----------------------------------------------------------------------------
(* Other threads and the clock.                                              *)

\* Where the tip moves: nothing becomes available, and what the mempool gains is quiet.
LEMMA TipKeeps ==
    ASSUME RelayInv, mempool' \in SUBSET Txs, chain' \in SUBSET Txs, quiet' \in SUBSET Txs,
           mempool' \ mempool \subseteq quiet', quiet \subseteq quiet', touched \subseteq touched',
           (mempool' \cup chain') \ quiet' \subseteq (mempool \cup chain) \ quiet, tipMoved' = TRUE,
           UNCHANGED <<req, orphans, work, rejects, confirmed, block, connected, back, world>>
    PROVE  RelayInv'
<1>1. Types /\ Tracked /\ Untracked /\ OrphanQueued BY DEF RelayInv
<1>2. Orphans' = Orphans /\ Orphans \in SUBSET Txs BY DEF Orphans
<1>3. Types' BY <1>1 DEF Types
<1>4. Tracked' BY <1>1 DEF Tracked
<1>5. Untracked'
  <2>1. Rejects' = {} BY DEF Rejects
  <2>2. \A s \in Orphans' : \A h \in OrphanHashes(s)' : req'[h] = NoRow
    <3>1. \A s \in Txs : OrphanHashes(s)' = OrphanHashes(s) BY DEF OrphanHashes, WtxidOf
    <3>. QED BY <1>1, <1>2, <3>1 DEF Untracked
  <2>3. \A s \in mempool' : \A h \in TxHashes(s) : req'[h] # NoRow => s \in quiet'
    BY <1>1 DEF Untracked
  <2>. QED BY <1>1, <2>1, <2>2, <2>3 DEF Untracked
<1>6. OrphanQueued'
  <2>1. ASSUME NEW c \in Orphans \ touched', Parents[c] \subseteq (mempool' \cup chain') \ quiet'
        PROVE  c \in work[orphans[c].from]
    <3>1. c \in Orphans \ touched /\ Parents[c] \subseteq (mempool \cup chain) \ quiet BY <2>1
    <3>. QED BY <1>1, <3>1 DEF OrphanQueued
  <2>. QED BY <1>1, <1>2, <2>1 DEF OrphanQueued
<1>. QED BY <1>3, <1>4, <1>5, <1>6 DEF RelayInv

LEMMA ConnectTipKeeps ==
    ASSUME RelayInv, Chained, NEW txs \in SUBSET Txs, NEW sp \in SUBSET Txs, ConnectTip(txs, sp)
    PROVE  RelayInv' /\ Chained'
<1>1. Types BY DEF RelayInv
<1>2. /\ blocks' = Append(blocks, [txs |-> txs, spent |-> sp])
      /\ callbacks' = Append(callbacks, [kind |-> "BlockConnected", txs |-> txs, spent |-> sp])
      /\ chain' = chain \cup txs /\ spent' = spent \cup sp /\ touched' = touched \cup txs \cup sp
      /\ quiet' = quiet \cup (txs \ mempool) /\ mempool' = mempool \ (txs \cup Descendants(sp))
      /\ tipMoved' = TRUE
      /\ UNCHANGED <<req, orphans, work, rejects, confirmed, block, connected, back, world>>
  BY DEF ConnectTip, envVars
<1>3. /\ mempool' \in SUBSET Txs /\ chain' \in SUBSET Txs /\ quiet' \in SUBSET Txs
      /\ mempool' \ mempool \subseteq quiet' /\ quiet \subseteq quiet' /\ touched \subseteq touched'
  BY <1>1, <1>2 DEF Types
<1>4. (mempool' \cup chain') \ quiet' \subseteq (mempool \cup chain) \ quiet BY <1>2
<1>5. RelayInv' BY <1>2, <1>3, <1>4, TipKeeps
<1>6. blocks' \in Seq(Block) /\ callbacks' \in Seq(Callback)
  <2>1. [txs |-> txs, spent |-> sp] \in Block BY DEF Block
  <2>2. [kind |-> "BlockConnected", txs |-> txs, spent |-> sp] \in Callback BY DEF Callback
  <2>. QED BY <1>2, <2>1, <2>2, AppendProperties DEF Chained
<1>7. chain' \in SUBSET touched' /\ spent' \in SUBSET touched' /\ touched' \in SUBSET Txs
  BY <1>2 DEF Chained
<1>. QED BY <1>5, <1>6, <1>7 DEF Chained

LEMMA DisconnectTipKeeps ==
    ASSUME RelayInv, Chained, DisconnectTip
    PROVE  RelayInv' /\ Chained'
<1>. DEFINE last == blocks[Len(blocks)]
<1>1. Types BY DEF RelayInv
<1>2. /\ blocks # <<>> /\ blocks' = SubSeq(blocks, 1, Len(blocks) - 1)
      /\ callbacks' = Append(callbacks, [kind |-> "BlockDisconnected", txs |-> {}, spent |-> {}])
      /\ chain' = chain \ last.txs /\ spent' = spent \ last.spent
      /\ tipMoved' = TRUE
      /\ UNCHANGED <<req, orphans, work, rejects, confirmed, touched, block, connected, back, world>>
  BY DEF DisconnectTip, envVars
<1>3. PICK added \in SUBSET last.txs :
         /\ mempool' = (mempool \cup added) \ Descendants(last.txs \ added)
         /\ quiet' = quiet \cup added
  BY DEF DisconnectTip
<1>4. last \in Block /\ blocks' \in Seq(Block)
  <2>1. blocks \in Seq(Block) BY DEF Chained
  <2>2. Len(blocks) \in Nat /\ Len(blocks) # 0 BY <1>2, <2>1, SMT
  <2>3. Len(blocks) \in 1..Len(blocks) /\ Len(blocks) - 1 <= Len(blocks) BY <2>2, SMT
  <2>4. last \in Block BY <2>1, <2>3, SMT
  <2>5. blocks' \in Seq(Block) BY <1>2, <2>1, <2>2, SMT
  <2>. QED BY <2>4, <2>5
<1>. HIDE DEF last
<1>5. /\ mempool' \in SUBSET Txs /\ chain' \in SUBSET Txs /\ quiet' \in SUBSET Txs
      /\ mempool' \ mempool \subseteq quiet' /\ quiet \subseteq quiet' /\ touched \subseteq touched'
  BY <1>1, <1>2, <1>3, <1>4 DEF Types, Block
<1>6. (mempool' \cup chain') \ quiet' \subseteq (mempool \cup chain) \ quiet BY <1>2, <1>3
<1>7. RelayInv' BY <1>2, <1>5, <1>6, TipKeeps
<1>8. callbacks' \in Seq(Callback)
  <2>1. [kind |-> "BlockDisconnected", txs |-> {}, spent |-> {}] \in Callback BY DEF Callback
  <2>. QED BY <1>2, <2>1, AppendProperties DEF Chained
<1>9. chain' \in SUBSET touched' /\ spent' \in SUBSET touched' /\ touched' \in SUBSET Txs
  BY <1>2 DEF Chained
<1>. QED BY <1>4, <1>7, <1>8, <1>9 DEF Chained

\* The next callback is taken off the queue.
LEMMA NextCallback ==
    ASSUME Chained, callbacks # <<>>, callbacks' = Tail(callbacks), UNCHANGED chainVars
    PROVE  Head(callbacks) \in Callback /\ Chained'
<1>1. callbacks \in Seq(Callback) BY DEF Chained
<1>2. Head(callbacks) \in Callback /\ Tail(callbacks) \in Seq(Callback)
  BY <1>1, HeadTailProperties
<1>. QED BY <1>2 DEF Chained, chainVars

LEMMA EraseForBlockKeeps ==
    ASSUME RelayInv, Chained, EraseForBlock
    PROVE  RelayInv' /\ Chained'
<1>. DEFINE b == Head(callbacks)
            kept == Orphans \ (b.txs \cup b.spent)
<1>1. Types /\ Tracked /\ Untracked /\ OrphanQueued BY DEF RelayInv
<1>2. /\ block = NoBlock /\ block' = [pc |-> "erased", txs |-> b.txs]
      /\ callbacks # <<>> /\ callbacks' = Tail(callbacks) /\ UNCHANGED chainVars
      /\ orphans' = KeepOrphans(kept)
      /\ UNCHANGED <<req, work, rejects, tipMoved, confirmed, mempool, chain, touched, quiet,
                     connected, back, world>>
  BY DEF EraseForBlock, filterVars, poolVars, chainVars, envVars
<1>3. b \in Callback /\ Chained' BY <1>2, NextCallback
<1>. HIDE DEF b, kept
<1>4. block.pc = "none" /\ block' \in [pc : {"none", "erased", "noted"}, txs : SUBSET Txs]
  BY <1>2, <1>3 DEF NoBlock, Callback
<1>5. Fewer(req, req') BY <1>1, <1>2, TrackedWhole, FewerSame
<1>6. /\ orphans' \in [Txs -> {NoOrphan} \cup [from : Peers, witness : BOOLEAN]]
      /\ \A s \in Orphans' : s \in Orphans /\ orphans'[s] = orphans[s]
  <2>1. Orphans' = {s \in Txs : orphans'[s] # NoOrphan} BY DEF Orphans
  <2>. QED BY <1>1, <1>2, <2>1, KeepOrphansFacts
<1>7. Types' BY <1>1, <1>2, <1>4, <1>6 DEF Types
<1>8. Tracked' BY <1>1, <1>2 DEF Tracked
<1>9. Untracked'
  <2>1. block.pc # "noted" BY <1>4
  <2>. QED BY <1>1, <1>2, <1>5, <1>6, <2>1, UntrackedKept
<1>10. OrphanQueued' BY <1>1, <1>2, <1>6 DEF OrphanQueued
<1>. QED BY <1>3, <1>7, <1>8, <1>9, <1>10 DEF RelayInv

LEMMA BlockDisconnectedKeeps ==
    ASSUME RelayInv, Chained, BlockDisconnected
    PROVE  RelayInv' /\ Chained'
<1>1. Types /\ Tracked /\ Untracked /\ OrphanQueued BY DEF RelayInv
<1>2. /\ callbacks # <<>> /\ callbacks' = Tail(callbacks) /\ UNCHANGED chainVars /\ confirmed' = {}
      /\ UNCHANGED <<req, orphans, work, rejects, tipMoved, mempool, chain, touched, quiet, block,
                     connected, back, world>>
  BY DEF BlockDisconnected, poolVars, chainVars, envVars
<1>3. Chained' BY <1>2, NextCallback
<1>4. Types' BY <1>1, <1>2 DEF Types
<1>5. Tracked' BY <1>1, <1>2 DEF Tracked
<1>6. Untracked'
  <2>1. Rejects' = Rejects /\ Orphans' = Orphans /\ Orphans \in SUBSET Txs BY <1>2 DEF Rejects, Orphans
  <2>2. \A s \in Txs : OrphanHashes(s)' = OrphanHashes(s) BY <1>2 DEF OrphanHashes, WtxidOf
  <2>3. \A s \in Orphans' : \A h \in OrphanHashes(s)' : req'[h] = NoRow
    BY <1>1, <1>2, <2>1, <2>2 DEF Untracked
  <2>. QED BY <1>1, <1>2, <2>1, <2>3 DEF Untracked
<1>7. OrphanQueued' BY <1>1, <1>2, QueuedSame
<1>. QED BY <1>3, <1>4, <1>5, <1>6, <1>7 DEF RelayInv

LEMMA NoteConfirmedKeeps ==
    ASSUME RelayInv, NoteConfirmed
    PROVE  RelayInv'
<1>. DEFINE new == UNION {TxHashes(t) : t \in block.txs}
<1>1. Types /\ Tracked /\ Untracked /\ OrphanQueued BY DEF RelayInv
<1>2. /\ block.pc = "erased" /\ block' = [block EXCEPT !.pc = "noted"]
      /\ confirmed' = confirmed \cup new
      /\ UNCHANGED <<req, orphans, work, rejects, tipMoved, mempool, chain, touched, quiet, connected,
                     back, world>>
  BY DEF NoteConfirmed, poolVars, chainVars, cbVars, envVars
<1>3. /\ block' \in [pc : {"none", "erased", "noted"}, txs : SUBSET Txs]
      /\ block'.txs = block.txs /\ block'.pc = "noted"
      /\ block.txs \in SUBSET Txs
  BY <1>1, <1>2 DEF Types
<1>4. new \in SUBSET Hashes /\ \A h \in new : \E t \in block.txs : h \in TxHashes(t)
  BY <1>3, HashFacts, SMT
<1>. HIDE DEF new
<1>5. Types' BY <1>1, <1>2, <1>3, <1>4 DEF Types
<1>6. Tracked' BY <1>1, <1>2 DEF Tracked
<1>7. Untracked'
  <2>1. Rejects' = Rejects /\ Orphans' = Orphans /\ Orphans \in SUBSET Txs BY <1>2 DEF Rejects, Orphans
  <2>2. \A s \in Txs : OrphanHashes(s)' = OrphanHashes(s) BY <1>2 DEF OrphanHashes, WtxidOf
  <2>3. \A s \in Orphans' : \A h \in OrphanHashes(s)' : req'[h] = NoRow
    BY <1>1, <1>2, <2>1, <2>2 DEF Untracked
  <2>4. \A h \in confirmed' : req'[h] # NoRow =>
           block'.pc = "noted" /\ \E s \in block'.txs : h \in TxHashes(s)
    BY <1>1, <1>2, <1>3, <1>4 DEF Untracked
  <2>. QED BY <1>1, <1>2, <2>1, <2>3, <2>4 DEF Untracked
<1>8. OrphanQueued' BY <1>1, <1>2, <1>3, QueuedSame
<1>. QED BY <1>5, <1>6, <1>7, <1>8 DEF RelayInv

LEMMA ForgetConfirmedKeeps ==
    ASSUME RelayInv, ForgetConfirmed
    PROVE  RelayInv'
<1>. DEFINE hs == UNION {TxHashes(t) : t \in block.txs}
<1>1. Types /\ Tracked /\ Untracked /\ OrphanQueued BY DEF RelayInv
<1>2. /\ block.pc = "noted" /\ block' = NoBlock
      /\ req' = ForgetTxHash(req, hs)
      /\ UNCHANGED <<orphans, work, rejects, tipMoved, confirmed, mempool, chain, touched, quiet, connected,
                     back, world>>
  BY DEF ForgetConfirmed, filterVars, poolVars, chainVars, cbVars, envVars
<1>3. /\ block' \in [pc : {"none", "erased", "noted"}, txs : SUBSET Txs]
      /\ block.txs \in SUBSET Txs
  BY <1>1, <1>2 DEF Types, NoBlock
<1>4. \A h : (\E t \in block.txs : h \in TxHashes(t)) => h \in hs OBVIOUS
<1>. HIDE DEF hs
<1>5. Fewer(req, req') /\ \A h \in Hashes : req'[h] = IF h \in hs THEN NoRow ELSE req[h]
  BY <1>1, <1>2, TrackedWhole, ForgetFacts, SMT
<1>6. Types' BY <1>1, <1>2, <1>3, <1>5 DEF Types, Fewer, Whole
<1>7. Tracked' BY <1>1, <1>2, <1>5, TrackedFewer
<1>8. Untracked'
  <2>1. Rejects' = Rejects /\ Orphans' = Orphans /\ Orphans \in SUBSET Txs BY <1>2 DEF Rejects, Orphans
  <2>2. \A s \in Txs : OrphanHashes(s)' = OrphanHashes(s) BY <1>2 DEF OrphanHashes, WtxidOf
  <2>3. \A h \in Hashes : req[h] = NoRow => req'[h] = NoRow BY <1>5
  <2>4. Rejects \in SUBSET Hashes /\ confirmed \in SUBSET Hashes /\ mempool \in SUBSET Txs
    BY <1>1 DEF Types, Rejects
  <2>5. \A s \in Orphans' : \A h \in OrphanHashes(s)' : req'[h] = NoRow
    BY <1>1, <2>1, <2>2, <2>3, HashFacts, SMT DEF Untracked
  <2>6. \A h \in confirmed' : req'[h] = NoRow BY <1>1, <1>2, <1>4, <1>5, <2>4 DEF Untracked
  <2>7. \A s \in mempool' : \A h \in TxHashes(s) : req'[h] # NoRow => s \in quiet'
    BY <1>1, <1>2, <2>3, <2>4, HashFacts DEF Untracked
  <2>8. \A h \in Rejects' : req'[h] = NoRow BY <1>1, <2>1, <2>3, <2>4 DEF Untracked
  <2>. QED BY <2>5, <2>6, <2>7, <2>8 DEF Untracked
<1>9. OrphanQueued' BY <1>1, <1>2, <1>3, QueuedSame
<1>. QED BY <1>6, <1>7, <1>8, <1>9 DEF RelayInv

\* The mempool without a message: what is added is quiet, or something leaves.
LEMMA PoolKeeps ==
    ASSUME RelayInv, NEW t \in Txs, BroadcastTransaction(t) \/ LeaveMempool(t)
    PROVE  RelayInv'
<1>1. Types /\ Tracked /\ Untracked /\ OrphanQueued BY DEF RelayInv
<1>2. /\ UNCHANGED <<req, orphans, work, rejects, tipMoved, confirmed, chain, touched, block, connected,
                     back, world>>
      /\ mempool' \subseteq mempool \cup {t} /\ quiet' \subseteq quiet \cup {t}
      /\ quiet \subseteq quiet' /\ (t \in mempool \/ t \in quiet')
  <2>1. CASE BroadcastTransaction(t) BY <2>1 DEF BroadcastTransaction, filterVars, chainVars, cbVars, envVars
  <2>2. CASE LeaveMempool(t) BY <2>2 DEF LeaveMempool, filterVars, chainVars, cbVars, envVars
  <2>. QED BY <2>1, <2>2
<1>3. Rejects' = Rejects /\ Orphans' = Orphans BY <1>2 DEF Rejects, Orphans
<1>4. Types' BY <1>1, <1>2 DEF Types
<1>5. Tracked' BY <1>1, <1>2 DEF Tracked
<1>6. Untracked'
  <2>1. \A s \in Orphans : OrphanHashes(s)' = OrphanHashes(s) BY <1>2 DEF OrphanHashes, WtxidOf
  <2>2. \A s \in Orphans' : \A h \in OrphanHashes(s)' : req'[h] = NoRow
    BY <1>1, <1>2, <1>3, <2>1 DEF Untracked
  <2>3. \A s \in mempool' : \A h \in TxHashes(s) : req'[h] # NoRow => s \in quiet'
    BY <1>1, <1>2 DEF Untracked
  <2>. QED BY <1>1, <1>2, <1>3, <2>2, <2>3 DEF Untracked
<1>7. OrphanQueued'
  <2>1. (mempool' \cup chain) \ quiet' \subseteq (mempool \cup chain) \ quiet BY <1>2
  <2>2. ASSUME NEW c \in Orphans, c \notin touched,
               Parents[c] \subseteq (mempool' \cup chain) \ quiet'
        PROVE  c \in work[orphans[c].from]
    <3>1. Parents[c] \subseteq (mempool \cup chain) \ quiet BY <2>1, <2>2
    <3>. QED BY <1>1, <2>2, <3>1 DEF OrphanQueued
  <2>. QED BY <1>1, <1>2, <1>3, <2>2 DEF OrphanQueued
<1>. QED BY <1>4, <1>5, <1>6, <1>7 DEF RelayInv

LEMMA ClockKeeps ==
    ASSUME RelayInv, NEW by \in Int, NEW floor \in Int, Clock(by, floor), back' \in Nat
    PROVE  RelayInv'
<1>1. Types /\ Tracked /\ Untracked /\ OrphanQueued BY DEF RelayInv
<1>2. /\ req' = [h \in Hashes |-> [p \in Peers |-> Shift(req[h][p], by, floor)]]
      /\ UNCHANGED <<orphans, work, rejects, tipMoved, confirmed, mempool, chain, touched, quiet, block,
                     connected, world>>
  BY DEF Clock, filterVars, poolVars, chainVars, cbVars
<1>3. ASSUME NEW h \in Hashes PROVE Sane(h, req'[h]) /\ Absent(req[h], req'[h])
  <2>1. req'[h] = [p \in Peers |-> Shift(req[h][p], by, floor)] BY <1>2
  <2>2. Sane(h, req[h]) BY <1>1 DEF Tracked
  <2>. QED BY <2>1, <2>2, ShiftFacts, SMT
<1>4. Fewer(req, req')
  <2>1. DOMAIN req' = Hashes /\ req' = [h \in Hashes |-> req'[h]] BY <1>2
  <2>. QED BY <1>3, <2>1, RowByRow DEF Fewer
<1>5. Types' BY <1>1, <1>2, <1>4 DEF Types, Fewer, Whole
<1>6. Tracked' BY <1>1, <1>2, <1>4, TrackedFewer
<1>7. Untracked'
  <2>1. Rejects' \subseteq Rejects BY <1>2 DEF Rejects
  <2>. QED BY <1>1, <1>2, <1>4, <2>1, UntrackedFewer
<1>8. OrphanQueued' BY <1>1, <1>2, QueuedSame
<1>. QED BY <1>5, <1>6, <1>7, <1>8 DEF RelayInv

\* Only where the tip moves and where a callback starts do chain and callbacks change.
LEMMA ChainedSame ==
    ASSUME Chained, UNCHANGED <<chainVars, callbacks>>
    PROVE  Chained'
  BY DEF Chained, chainVars

LEMMA MessageChained ==
    ASSUME Chained, NEW p, Message(p) \/ ProcessOrphanTx(p) \/ SendMessages(p) \/ FinalizeNode(p)
    PROVE  Chained'
<1>1. CASE Message(p)
  <2>1. ASSUME NEW t, Inv(p, t) PROVE UNCHANGED <<chainVars, callbacks>>
    BY <2>1 DEF Inv, poolVars, cbVars
  <2>2. ASSUME NEW h, NotFound(p, h) PROVE UNCHANGED <<chainVars, callbacks>>
    BY <2>2 DEF NotFound, poolVars, cbVars
  <2>3. ASSUME NEW t, NEW witness, Tx(p, t, witness) PROVE UNCHANGED <<chainVars, callbacks>>
    <3>1. UNCHANGED callbacks BY <2>3 DEF Tx, cbVars
    <3>2. UNCHANGED chainVars
      BY <2>3 DEF Tx, TxKnown, TxValid, TxOrphan, TxRefused, poolVars
    <3>. QED BY <3>1, <3>2
  <2>. QED BY <1>1, <2>1, <2>2, <2>3, ChainedSame DEF Message
<1>2. CASE ProcessOrphanTx(p)
  <2>1. UNCHANGED <<chainVars, callbacks>>
    BY <1>2 DEF ProcessOrphanTx, OrphanAccepted, OrphanRefused, poolVars, cbVars
  <2>. QED BY <2>1, ChainedSame
<1>3. CASE SendMessages(p) BY <1>3, ChainedSame DEF SendMessages, poolVars, cbVars
<1>4. CASE FinalizeNode(p) BY <1>4, ChainedSame DEF FinalizeNode, poolVars, cbVars
<1>. QED BY <1>1, <1>2, <1>3, <1>4

LEMMA RelayStep == ASSUME RelayInv, Chained, [Next]_vars PROVE RelayInv' /\ Chained'
<1>1. Types /\ back \in Nat /\ world \in Worlds BY DEF RelayInv, Types
<1>2. world.peers \subseteq Peers /\ world.txs \subseteq Txs BY <1>1, RelayAssumption
<1>3. CASE UNCHANGED vars
  <2>1. Chained' BY <1>3, ChainedSame DEF vars, poolVars, cbVars
  <2>2. UNCHANGED <<req, orphans, work, rejects, tipMoved, confirmed, mempool, chain, touched, quiet,
                    block, connected, back, world>>
    BY <1>3 DEF vars, filterVars, poolVars, chainVars, cbVars, envVars
  <2>3. RelayInv'
    <3>1. Tracked /\ Untracked /\ OrphanQueued /\ Whole(req) BY <1>1, TrackedWhole DEF RelayInv
    <3>2. Types' BY <1>1, <2>2 DEF Types
    <3>3. Tracked' BY <2>2, <3>1 DEF Tracked
    <3>4. Rejects' \subseteq Rejects BY <2>2 DEF Rejects
    <3>5. Untracked' BY <1>1, <2>2, <3>1, <3>4, FewerSame, UntrackedFewer
    <3>6. OrphanQueued' BY <2>2, <3>1, QueuedSame
    <3>. QED BY <3>2, <3>3, <3>5, <3>6 DEF RelayInv
  <2>. QED BY <2>1, <2>3
<1>4. ASSUME NEW p \in world.peers, Message(p) \/ ProcessOrphanTx(p) \/ SendMessages(p) \/ FinalizeNode(p)
      PROVE  RelayInv' /\ Chained'
  <2>1. p \in Peers BY <1>2
  <2>2. CASE Message(p)
    <3>1. \E t \in Txs : \/ Inv(p, t) \/ \E witness \in BOOLEAN : Tx(p, t, witness)
                        \/ \E h \in TxHashes(t) : NotFound(p, h)
      BY <1>2, <2>2 DEF Message
    <3>. QED BY <2>1, <2>2, <3>1, InvKeeps, TxKeeps, NotFoundKeeps, MessageChained
  <2>3. Chained' BY <1>4, MessageChained
  <2>. QED BY <1>4, <2>1, <2>2, <2>3, ProcessOrphanTxKeeps, SendMessagesKeeps, FinalizeNodeKeeps
<1>5. ASSUME NEW txs \in SUBSET world.txs, NEW sp \in SUBSET world.txs, ConnectTip(txs, sp)
      PROVE  RelayInv' /\ Chained'
  <2>1. txs \in SUBSET Txs /\ sp \in SUBSET Txs BY <1>2
  <2>. QED BY <1>5, <2>1, ConnectTipKeeps
<1>6. CASE BlockConnected
  <2>1. CASE EraseForBlock BY <2>1, EraseForBlockKeeps
  <2>2. CASE NoteConfirmed
    BY <2>2, NoteConfirmedKeeps, ChainedSame DEF NoteConfirmed, poolVars
  <2>3. CASE ForgetConfirmed
    BY <2>3, ForgetConfirmedKeeps, ChainedSame DEF ForgetConfirmed, poolVars
  <2>. QED BY <1>6, <2>1, <2>2, <2>3 DEF BlockConnected
<1>7. ASSUME NEW t \in world.txs, BroadcastTransaction(t) \/ LeaveMempool(t)
      PROVE  RelayInv' /\ Chained'
  <2>1. t \in Txs BY <1>2
  <2>2. UNCHANGED <<chainVars, callbacks>> BY <1>7 DEF BroadcastTransaction, LeaveMempool, cbVars
  <2>. QED BY <1>7, <2>1, <2>2, PoolKeeps, ChainedSame
<1>8. CASE Tick
  <2>1. Clock(1, back) /\ back' \in Nat /\ 1 \in Int /\ back \in Int BY <1>1, <1>8, SMT DEF Tick
  <2>2. Chained' BY <2>1, ChainedSame DEF Clock, poolVars, cbVars
  <2>. QED BY <2>1, <2>2, ClockKeeps
<1>9. CASE ClockBack
  <2>1. Clock(-1, back') /\ back' \in Nat /\ -1 \in Int /\ back' \in Int BY <1>1, <1>9, SMT DEF ClockBack
  <2>2. Chained' BY <2>1, ChainedSame DEF Clock, poolVars, cbVars
  <2>. QED BY <2>1, <2>2, ClockKeeps
<1>. QED
  BY <1>3, <1>4, <1>5, <1>6, <1>7, <1>8, <1>9, DisconnectTipKeeps, BlockDisconnectedKeeps DEF Next

-----------------------------------------------------------------------------
(* Theorems.                                                                 *)

\* In every reachable state the rows of the tracker are sane, and no hash is tracked
\* that a filter, the orphanage or the mempool has, except where the code is known to
\* leave one.
THEOREM RelayInvariant == Spec => [](RelayInv /\ Chained)
<1>1. Init => RelayInv /\ Chained BY RelayInit, ChainedInit
<1>2. RelayInv /\ Chained /\ [Next]_vars => RelayInv' /\ Chained' BY RelayStep
<1>. QED BY <1>1, <1>2, PTL DEF Spec

\* Announcements, orphans, work sets and filters keep their types.
THEOREM RelayTypeOK == Spec => []TypeOK
<1>1. RelayInv /\ Chained => TypeOK
  <2>. SUFFICES ASSUME RelayInv, Chained PROVE TypeOK OBVIOUS
  <2>1. Types /\ Tracked BY DEF RelayInv
  <2>2. \A h \in Hashes : Row(req[h]) BY <2>1 DEF Tracked, Sane
  <2>. QED BY <2>1, <2>2 DEF TypeOK, Types, Row, Orphans, Chained
<1>. QED BY <1>1, RelayInvariant, PTL

\* TxRequestTracker::SanityCheck never fails, the loops of SetTimePoint compute what
\* they are for whatever is due and however the clock moved, and nothing is tracked for
\* a peer that has left: for any number of peers, transactions and announcements.
THEOREM RelayTrackerSane == Spec => []TrackerSane
<1>1. RelayInv => TrackerSane BY SanePasses, SetTimePointFacts DEF RelayInv, Tracked, TrackerSane
<1>. QED BY <1>1, RelayInvariant, PTL

\* ForgetTxHash is called whenever a transaction becomes known, by whatever way: a hash
\* that is tracked is not that of a rejected transaction, of an orphan, or of a
\* confirmed one (but between the last two sections of BlockConnected), nor that of a
\* transaction in the mempool, unless it came there by a local submission or a
\* reorganization.
THEOREM RelayKnownNotTracked == Spec => []KnownNotTracked
<1>1. RelayInv => KnownNotTracked
  <2>. SUFFICES ASSUME RelayInv, NEW t \in Txs, NEW h \in TxHashes(t), req[h] # NoRow
                PROVE  /\ h \notin Rejects
                       /\ t \in Orphans => h \notin OrphanHashes(t)
                       /\ h \in confirmed => block.pc = "noted" /\ t \in block.txs
                       /\ t \in mempool => t \in quiet
    BY DEF KnownNotTracked
  <2>1. Types /\ Untracked BY DEF RelayInv
  <2>2. ASSUME h \in confirmed PROVE block.pc = "noted" /\ t \in block.txs
    <3>1. PICK s \in block.txs : block.pc = "noted" /\ h \in TxHashes(s)
      BY <2>1, <2>2 DEF Untracked
    <3>2. block.txs \in SUBSET Txs BY <2>1 DEF Types
    <3>. QED BY <3>1, <3>2, HashFacts
  <2>. QED BY <2>1, <2>2 DEF Untracked
<1>. QED BY <1>1, RelayInvariant, PTL

\* An orphan that no block has met, whose parents all came by tx messages, waits in the
\* work set of the peer that sent it, whoever sent the parents and in whatever order; a peer that has left
\* has neither orphans nor work.
THEOREM RelayOrphanQueued == Spec => []OrphanQueued
<1>1. RelayInv => OrphanQueued BY DEF RelayInv
<1>. QED BY <1>1, RelayInvariant, PTL
=============================================================================
