------------------------------ MODULE CheckQueue ------------------------------
(***************************************************************************)
(* CCheckQueue and CCheckQueueControl: the script checks of a block spread *)
(* over a pool of workers which the master, ConnectBlock, joins in Wait(). *)
(*                                                                         *)
(* A critical section of m_mutex is one step; between two sections a       *)
(* thread executes the batch it took, which nobody else can see.  The      *)
(* queue is a set of checks and a batch any part of it of the right size:  *)
(* "the order of booleans doesn't matter".                                 *)
(***************************************************************************)
EXTENDS FiniteSetsExt, Integers

CONSTANTS
    Workers,     \* m_worker_threads
    Masters,     \* threads that make a CCheckQueueControl
    Checks,      \* script checks a block can have
    Valid,       \* the checks that return true
    nBatchSize,
    None,        \* no thread
    MaxRounds    \* bound on the number of controls made

VARIABLES
    queue, nIdle, nTotal, fAllOk, nTodo, m_request_stop,
    control,     \* the thread that holds m_control_mutex
    pc,          \* where each thread is
    vChecks,     \* the batch a thread took, until it reports on it
    fOk,         \* fOk of each thread
    fRet,        \* what Wait() returned to each master
    added,       \* the checks added through the current control
    dtor,        \* how far ~CCheckQueue is
    rounds       \* controls made so far

shared == <<queue, nIdle, nTotal, fAllOk, nTodo, m_request_stop>>
vars == <<shared, control, pc, vChecks, fOk, fRet, added, dtor, rounds>>

Threads == Workers \cup Masters

ASSUME CheckQueueAssumption ==
    /\ IsFiniteSet(Checks) /\ Valid \subseteq Checks
    /\ IsFiniteSet(Workers) /\ IsFiniteSet(Masters) /\ Workers \cap Masters = {}
    /\ nBatchSize \in Nat \ {0}
    /\ None \notin Threads
    /\ MaxRounds \in Nat

InLoop == {"wait", "woken", "run", "clean"}
Places == {"out", "adding", "notify_one", "notify_all", "return", "enter", "exit"} \cup InLoop

Init ==
    /\ queue = {} /\ nIdle = 0 /\ nTotal = 0 /\ nTodo = 0
    /\ fAllOk = TRUE /\ m_request_stop = FALSE
    /\ control = None
    /\ pc = [t \in Threads |-> IF t \in Workers THEN "enter" ELSE "out"]
    /\ vChecks = [t \in Threads |-> {}]
    /\ fOk = [t \in Threads |-> TRUE]
    /\ fRet = [m \in Masters |-> FALSE]
    /\ added = {} /\ dtor = "alive" /\ rounds = 0

(***************************************************************************)
(* CCheckQueueControl, held by one master at a time.                       *)
(***************************************************************************)

\* The constructor takes m_control_mutex.
Begin(m) ==
    /\ pc[m] = "out" /\ control = None /\ dtor = "alive" /\ rounds < MaxRounds
    /\ control' = m
    /\ pc' = [pc EXCEPT ![m] = "adding"]
    /\ rounds' = rounds + 1
    /\ UNCHANGED <<shared, vChecks, fOk, fRet, added, dtor>>

\* Add: the checks of one transaction, under m_mutex.
Add(m, checks) ==
    /\ pc[m] = "adding"
    /\ checks # {} /\ checks \subseteq Checks \ added
    /\ queue' = queue \cup checks
    /\ nTodo' = nTodo + Cardinality(checks)
    /\ added' = added \cup checks
    /\ pc' = [pc EXCEPT ![m] = IF Cardinality(checks) = 1 THEN "notify_one" ELSE "notify_all"]
    /\ UNCHANGED <<nIdle, nTotal, fAllOk, m_request_stop, control, vChecks, fOk, fRet, dtor, rounds>>

Waiting(S) == {t \in S : pc[t] = "wait"}

\* The threads a notification wakes: any one of those that wait, or all.
NotifyOne(S) == IF Waiting(S) = {} THEN {{}} ELSE {{t} : t \in Waiting(S)}
NotifyAll(S) == {Waiting(S)}

\* pc after t moved to l and the threads in woken were notified.
Moved(t, l, woken) ==
    [u \in Threads |-> IF u = t THEN l ELSE IF u \in woken THEN "woken" ELSE pc[u]]

\* The notification at the end of Add, after m_mutex was released.
Notify(m) ==
    /\ pc[m] \in {"notify_one", "notify_all"}
    /\ \E woken \in IF pc[m] = "notify_one" THEN NotifyOne(Workers) ELSE NotifyAll(Workers) :
          pc' = Moved(m, "adding", woken)
    /\ UNCHANGED <<shared, control, vChecks, fOk, fRet, added, dtor, rounds>>

\* Wait(), by the master or by the destructor of its control.
Wait(m) ==
    /\ pc[m] = "adding"
    /\ pc' = [pc EXCEPT ![m] = "enter"]
    /\ UNCHANGED <<shared, control, vChecks, fOk, fRet, added, dtor, rounds>>

\* The destructor releases m_control_mutex.
Leave(m) ==
    /\ pc[m] = "return"
    /\ control' = None
    /\ pc' = [pc EXCEPT ![m] = "out"]
    /\ added' = {}
    /\ UNCHANGED <<shared, vChecks, fOk, fRet, dtor, rounds>>

(***************************************************************************)
(* Loop, for a worker and for the master alike.                            *)
(***************************************************************************)

\* The clean-up of the previous run of the loop: first iteration or report.
NowTodo(t) == nTodo - Cardinality(vChecks[t])

\* Variant: fAllOk = fOk.
LastOk(t) == IF vChecks[t] # {} THEN fOk[t] ELSE fAllOk
NowOk(t) == IF vChecks[t] # {} THEN fAllOk /\ fOk[t] ELSE fAllOk

NowTotal(t) == IF pc[t] = "enter" THEN nTotal + 1 ELSE nTotal

\* Back from cond.wait.
NowIdle(t) == IF pc[t] = "woken" THEN nIdle - 1 ELSE nIdle

\* A worker that finishes the last check notifies the master.  Variant: nTodo is
\* tested before its batch is counted.
WokenBeforeCount(t) ==
    IF t \in Workers /\ vChecks[t] # {} /\ nTodo = 0 THEN NotifyOne(Masters) ELSE {{}}
WokenByReport(t) ==
    IF t \in Workers /\ vChecks[t] # {} /\ NowTodo(t) = 0 THEN NotifyOne(Masters) ELSE {{}}

Report(t, l) ==
    /\ pc[t] \in {"enter", "woken", "clean"}
    /\ nTodo' = NowTodo(t)
    /\ \E woken \in WokenByReport(t) : pc' = Moved(t, l, woken)
    /\ UNCHANGED <<m_request_stop, control, added, dtor, rounds>>

\* The master finds nothing left to do and returns the verdict.
Return(m) ==
    /\ queue = {} /\ ~m_request_stop /\ NowTodo(m) = 0
    /\ Report(m, "return")
    /\ nTotal' = NowTotal(m) - 1
    /\ nIdle' = NowIdle(m)
    /\ fRet' = [fRet EXCEPT ![m] = NowOk(m)]
    /\ fAllOk' = TRUE
    /\ vChecks' = [vChecks EXCEPT ![m] = {}]
    /\ UNCHANGED <<queue, fOk>>

\* The thread cannot return: something is left to do, or it is a worker.
\* Variant: the checks of the thread's own batch still count.
MustWaitStale(t) == t \in Masters => nTodo # 0
MustWait(t) == t \in Masters => NowTodo(t) # 0

\* Nothing is queued: wait on the condition variable.
Block(t) ==
    /\ queue = {} /\ ~m_request_stop /\ MustWait(t)
    /\ Report(t, "wait")
    /\ nTotal' = NowTotal(t)
    /\ nIdle' = NowIdle(t) + 1
    /\ fAllOk' = NowOk(t)
    /\ vChecks' = [vChecks EXCEPT ![t] = {}]
    /\ UNCHANGED <<queue, fOk, fRet>>

\* The queue is being destroyed.
Quit(t) ==
    /\ m_request_stop
    /\ Report(t, "exit")
    /\ nTotal' = NowTotal(t)
    /\ nIdle' = NowIdle(t)
    /\ fAllOk' = NowOk(t)
    /\ vChecks' = [vChecks EXCEPT ![t] = {}]
    /\ UNCHANGED <<queue, fOk, fRet>>

\* The number of checks to process now.
nNow(t) ==
    Max({1, Min({nBatchSize, Cardinality(queue) \div (NowTotal(t) + NowIdle(t) + 1)})})

\* Take a batch, and the verdict so far: after a failure nothing is executed.
Take(t) ==
    /\ queue # {} /\ ~m_request_stop
    /\ Report(t, "run")
    /\ nTotal' = NowTotal(t)
    /\ nIdle' = NowIdle(t)
    /\ fAllOk' = NowOk(t)
    /\ \E checks \in kSubset(nNow(t), queue) :
          /\ queue' = queue \ checks
          /\ vChecks' = [vChecks EXCEPT ![t] = checks]
    /\ fOk' = [fOk EXCEPT ![t] = NowOk(t)]
    /\ UNCHANGED fRet

\* Execute the batch, without the lock.
Execute(t) ==
    /\ pc[t] = "run"
    /\ fOk' = [fOk EXCEPT ![t] = @ /\ vChecks[t] \subseteq Valid]
    /\ pc' = [pc EXCEPT ![t] = "clean"]
    /\ UNCHANGED <<shared, control, vChecks, fRet, added, dtor, rounds>>

\* cond.wait may return without a notification.
Spurious(t) ==
    /\ pc[t] = "wait"
    /\ pc' = [pc EXCEPT ![t] = "woken"]
    /\ UNCHANGED <<shared, control, vChecks, fOk, fRet, added, dtor, rounds>>

(***************************************************************************)
(* ~CCheckQueue: set the flag, notify, join.                               *)
(***************************************************************************)

RequestStop ==
    /\ dtor = "alive" /\ control = None
    /\ m_request_stop' = TRUE
    /\ dtor' = "notify"
    /\ UNCHANGED <<queue, nIdle, nTotal, fAllOk, nTodo, control, pc, vChecks, fOk, fRet, added, rounds>>

\* Variant: notify_one.
NotifyStopOne ==
    /\ dtor = "notify"
    /\ \E woken \in NotifyOne(Workers) :
          pc' = [t \in Threads |-> IF t \in woken THEN "woken" ELSE pc[t]]
    /\ dtor' = "join"
    /\ UNCHANGED <<shared, control, vChecks, fOk, fRet, added, rounds>>

NotifyStop ==
    /\ dtor = "notify"
    /\ pc' = [t \in Threads |-> IF t \in Waiting(Workers) THEN "woken" ELSE pc[t]]
    /\ dtor' = "join"
    /\ UNCHANGED <<shared, control, vChecks, fOk, fRet, added, rounds>>

Join ==
    /\ dtor = "join" /\ \A w \in Workers : pc[w] = "exit"
    /\ dtor' = "done"
    /\ UNCHANGED <<shared, control, pc, vChecks, fOk, fRet, added, rounds>>

Loop(t) == Block(t) \/ Quit(t) \/ Take(t) \/ Execute(t)

Master(m) ==
    \/ Notify(m) \/ Wait(m) \/ Leave(m) \/ Return(m) \/ Loop(m)

Destroy == RequestStop \/ NotifyStop \/ Join

\* The queue is gone.
Destroyed == dtor = "done" /\ UNCHANGED vars

Next ==
    \/ \E m \in Masters : Begin(m) \/ Master(m)
    \/ \E m \in Masters, checks \in SUBSET Checks : Add(m, checks)
    \/ \E w \in Workers : Loop(w)
    \/ \E t \in Threads : Spurious(t)
    \/ Destroy
    \/ Destroyed

\* Every thread that can run is scheduled in the end and gets m_mutex in the end;
\* a master comes to Wait() in the end, because ConnectBlock does.  Nobody has to
\* start a control, to add a check, to wake without being notified, or to destroy
\* the queue; once begun, the destructor goes on.
Fairness ==
    /\ \A m \in Masters : WF_vars(Master(m))
    /\ \A w \in Workers : WF_vars(Loop(w))
    /\ WF_vars(NotifyStop) /\ WF_vars(Join)

Spec == Init /\ [][Next]_vars /\ Fairness

(***************************************************************************)
(* Properties.                                                             *)
(***************************************************************************)

\* The types of the variables; nTodo is unsigned.
TypeOK ==
    /\ queue \subseteq Checks /\ added \subseteq Checks
    /\ nIdle \in Int /\ nTotal \in Int /\ nTodo \in Nat /\ rounds \in Nat
    /\ fAllOk \in BOOLEAN /\ m_request_stop \in BOOLEAN
    /\ control \in Masters \cup {None}
    /\ pc \in [Threads -> Places]
    /\ vChecks \in [Threads -> SUBSET Checks]
    /\ fOk \in [Threads -> BOOLEAN]
    /\ fRet \in [Masters -> BOOLEAN]
    /\ dtor \in {"alive", "notify", "join", "done"}

Outstanding == queue \cup UNION {vChecks[t] : t \in Threads}

\* nTodo is the number of checks that are queued or in somebody's batch, and each
\* of them is in one place: it is unsigned, and a count that went below zero or
\* stayed above it would never let the master go.
TodoExact ==
    /\ nTodo = Cardinality(Outstanding)
    /\ \A t \in Threads : vChecks[t] \cap queue = {}
    /\ \A t, u \in Threads : t # u => vChecks[t] \cap vChecks[u] = {}

\* Wait() returns whether all checks added through this control are valid: no
\* failure is lost by skipping, none comes from the block before.
VerdictExact == \A m \in Masters : pc[m] = "return" => fRet[m] = (added \subseteq Valid)

\* Between two controls the pool holds nothing of the block before: no check in
\* the queue or in a worker's batch, and no failure in fAllOk.
CleanBetweenControls == control = None => Outstanding = {} /\ nTodo = 0 /\ fAllOk

\* A master that waits for a notification has a worker that still owes a report,
\* so somebody is left to send it.
MasterNotForgotten ==
    \A m \in Masters : pc[m] = "wait" =>
        queue = {} /\ \E w \in Workers : pc[w] \in {"run", "clean"}

\* Every control comes to an end: Wait() returns and the mutex is released.
ControlEnds == \A m \in Masters : (control = m) ~> (control = None)

\* The destructor joins all workers: none misses the request to stop.
DestructorEnds == (dtor = "notify") ~> (dtor = "done")
=============================================================================
