------------------------------- MODULE TxRequest -------------------------------
(***************************************************************************)
(* TxRequestTracker: from which peer to request an announced transaction,  *)
(* and when.  Announcements of different hashes never interact, so the     *)
(* tracker is one function per hash, from peers to announcements, and an   *)
(* operation is an operator on such a function r.                          *)
(*                                                                         *)
(* m_time is relative to the present: an announcement is due when its time *)
(* is 0 or less.  The ByTxHash index orders announcements by state and the *)
(* READY ones by priority; its neighbours are written out as sets.         *)
(***************************************************************************)
EXTENDS Integers, FiniteSets

CONSTANTS
    Peers,
    Hashes,   \* txids and wtxids
    Rank      \* Rank[h][p]: the salted low bits of the priority

\* The salted hashes behind the priorities of a transaction's announcements differ.
ASSUME RequestAssumption ==
    /\ IsFiniteSet(Peers)
    /\ Rank \in [Hashes -> [Peers -> Int]]
    /\ \A h \in Hashes, p, q \in Peers : Rank[h][p] = Rank[h][q] => p = q

NoAnn == [state |-> "NONE", time |-> 0, preferred |-> FALSE]
Rows == [Peers -> [state : {"NONE", "DELAYED", "READY", "BEST", "REQUESTED", "COMPLETED"},
                   time : Int, preferred : BOOLEAN]]
NoRow == [p \in Peers |-> NoAnn]

Selected == {"BEST", "REQUESTED"}
Waiting == {"DELAYED", "REQUESTED"}
Selectable == {"READY", "BEST"}

InState(r, states) == {p \in Peers : r[p].state \in states}
Live(r) == InState(r, {"DELAYED", "READY", "BEST", "REQUESTED"})

\* The time of a COMPLETED announcement is never read again.
InStateNow(a, s) == [state |-> s, time |-> IF s = "COMPLETED" THEN 0 ELSE a.time,
                     preferred |-> a.preferred]
SetState(r, p, s) == [r EXCEPT ![p] = InStateNow(@, s)]

\* The preferred bit is the highest bit of a priority.
Better(h, r, p, q) == IF r[p].preferred = r[q].preferred THEN Rank[h][p] > Rank[h][q]
                      ELSE r[p].preferred
Top(h, r, set) == CHOOSE p \in set : \A q \in set \ {p} : Better(h, r, p, q)

PromoteCandidateReady(h, r, p) ==
    LET better == {q \in InState(r, {"READY"}) : Better(h, r, q, p)}
        best == InState(r, {"BEST"})
    IN  IF better # {} THEN SetState(r, p, "READY")
        ELSE IF best # {} /\ \A q \in best : Better(h, r, p, q)
        THEN [q \in Peers |-> IF q = p THEN InStateNow(r[p], "BEST")
                              ELSE IF q \in best THEN InStateNow(r[q], "READY")
                              ELSE r[q]]
        ELSE SetState(r, p, IF InState(r, Selected) = {} THEN "BEST" ELSE "READY")

\* Variant: no other announcement is selected.
ChangeOnly(h, r, p, state) == SetState(r, p, state)

ChangeAndReselect(h, r, p, state) ==
    LET ready == InState(r, {"READY"})
    IN  IF r[p].state \in Selected /\ ready # {}
        THEN SetState(SetState(r, Top(h, r, ready), "BEST"), p, state)
        ELSE SetState(r, p, state)

\* Variant: the completed announcements stay when nothing else is left.
CompleteOne(h, r, p) ==
    IF r[p].state = "COMPLETED" THEN r ELSE ChangeAndReselect(h, r, p, "COMPLETED")

MakeCompleted(h, r, p) ==
    IF r[p].state = "COMPLETED" THEN r
    ELSE IF Live(r) = {p} THEN NoRow
    ELSE ChangeAndReselect(h, r, p, "COMPLETED")

Due(r) == {p \in InState(r, Waiting) : r[p].time <= 0}
Early(r) == {p \in InState(r, Selectable) : r[p].time > 0}

\* The body of the first loop of SetTimePoint, which takes the oldest, and of the
\* second, which takes the latest: the clock went back.
PassTime(h, r) ==
    LET p == CHOOSE q \in Due(r) : \A o \in Due(r) : r[q].time <= r[o].time
    IN  IF Due(r) = {} THEN r
        ELSE IF r[p].state = "DELAYED" THEN PromoteCandidateReady(h, r, p)
        ELSE MakeCompleted(h, r, p)
TurnBack(h, r) ==
    LET p == CHOOSE q \in Early(r) : \A o \in Early(r) : r[q].time >= r[o].time
    IN  IF Early(r) = {} THEN r ELSE ChangeAndReselect(h, r, p, "DELAYED")

\* Each turn of a loop deals with one announcement for good, so that a loop has ended
\* after a turn for every announcement it starts with.
PassedTime(h, r) ==
    LET turns == Cardinality(Due(r))
        body == [s \in Rows |-> PassTime(h, s)]
        row[i \in 0..turns] == IF i = 0 THEN r ELSE body[row[i - 1]]
    IN  row[turns]
TurnedBack(h, r) ==
    LET turns == Cardinality(Early(r))
        body == [s \in Rows |-> TurnBack(h, s)]
        row[i \in 0..turns] == IF i = 0 THEN r ELSE body[row[i - 1]]
    IN  row[turns]
SetTimePoint(h, r) == TurnedBack(h, PassedTime(h, r))

DisconnectedPeer(h, r, p) ==
    IF r[p].state = "NONE" THEN r ELSE [MakeCompleted(h, r, p) EXCEPT ![p] = NoAnn]

ReceivedInv(r, p, preferred, reqtime) ==
    IF r[p].state # "NONE" THEN r
    ELSE [r EXCEPT ![p] = [state |-> "DELAYED", time |-> reqtime, preferred |-> preferred]]

RequestedTx(r, p, expiry) ==
    IF r[p].state \in {"NONE", "REQUESTED", "COMPLETED"} THEN r
    ELSE [q \in Peers |->
            IF q = p THEN [r[p] EXCEPT !.state = "REQUESTED", !.time = expiry]
            ELSE IF r[p].state = "BEST" \/ r[q].state \notin Selected THEN r[q]
            ELSE InStateNow(r[q], IF r[q].state = "BEST" THEN "READY" ELSE "COMPLETED")]

ReceivedResponse(h, r, p) == IF r[p].state = "NONE" THEN r ELSE MakeCompleted(h, r, p)

-----------------------------------------------------------------------------
\* TxRequestTracker::Impl::SanityCheck.
SanityCheck(h, r) ==
    LET ready == InState(r, {"READY"}) selected == InState(r, Selected)
    IN  /\ InState(r, {"COMPLETED"}) # {} => Live(r) # {}
        /\ Cardinality(selected) <= 1
        /\ ready # {} => selected # {}
        /\ \A p \in ready, q \in InState(r, {"BEST"}) : ~Better(h, r, p, q)

\* What SetTimePoint is for, without its loops: expired requests are completed,
\* nothing is left when only completed announcements would be, and the best of
\* the candidates whose time has come is selected unless a request is pending.
AtTimePoint(h, r) ==
    LET expired == {p \in InState(r, {"REQUESTED"}) : r[p].time <= 0}
        pending == InState(r, {"REQUESTED"}) \ expired
        cand == InState(r, {"DELAYED"} \cup Selectable)
        due == {p \in cand : r[p].time <= 0}
        state(p) == IF p \in expired THEN "COMPLETED"
                    ELSE IF p \notin cand THEN r[p].state
                    ELSE IF p \notin due THEN "DELAYED"
                    ELSE IF pending = {} /\ p = Top(h, r, due) THEN "BEST" ELSE "READY"
    IN  IF pending \cup cand = {} THEN NoRow
        ELSE [p \in Peers |-> InStateNow(r[p], state(p))]
=============================================================================
