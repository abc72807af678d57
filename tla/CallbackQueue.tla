----------------------------- MODULE CallbackQueue -----------------------------
(***************************************************************************)
(* SingleThreadedSchedulerClient over CScheduler: the queue of the         *)
(* validation interface, the threads that fill it while they hold cs_main, *)
(* LimitValidationInterfaceQueue and BroadcastTransaction, which wait for  *)
(* it, and Shutdown, which stops the scheduler, runs what is left and      *)
(* enqueues one callback more.                                             *)
(*                                                                         *)
(* A critical section of m_callbacks_mutex or newTaskMutex is one step.    *)
(* Callbacks are numbered in the order in which they are enqueued.  A      *)
(* callback may lock cs_main, as BaseIndex's and the wallet's do, so it    *)
(* runs only while cs_main is free.                                        *)
(***************************************************************************)
EXTENDS Integers, FiniteSets, Sequences

CONSTANTS
    Schedulers,  \* threads in serviceQueue
    Main,        \* the thread that runs Shutdown
    Activators,  \* threads that call ActivateBestChain
    Loader,      \* the one of them that is m_thread_load, if any
    Submitters,  \* threads that call BroadcastTransaction
    Nobody,      \* cs_main is free, or no thread
    Limit,       \* pending callbacks that LimitValidationInterfaceQueue lets pass
    MaxPerStep,  \* bound on the callbacks of one locked step of ActivateBestChain
    MaxCalls     \* bound on the number of calls that enqueue

VARIABLES
    m_callbacks_pending, m_are_callbacks_running,
    taskQueue,   \* how many ProcessQueue tasks are scheduled
    stopRequested,
    pc,          \* where each thread is
    callback,    \* the callback a thread runs, the one it waits for, or 0
    todo,        \* callbacks a thread has still to enqueue before it unlocks cs_main;
                 \* for Main, flushes that Shutdown has still to make
    cs_main,     \* who holds cs_main
    n,           \* callbacks enqueued so far
    done,        \* callbacks completed so far
    calls        \* calls so far

client == <<m_callbacks_pending, m_are_callbacks_running>>
scheduler == <<taskQueue, stopRequested>>
counts == <<n, done, calls>>
vars == <<client, scheduler, pc, callback, todo, cs_main, counts>>

Runners == Schedulers \cup {Main}
Callers == Activators \cup Submitters
Threads == Runners \cup Callers

ASSUME CallbackAssumption ==
    /\ IsFiniteSet(Threads) /\ Main \notin Schedulers
    /\ Runners \cap Callers = {} /\ Activators \cap Submitters = {}
    /\ Nobody \notin Threads /\ Loader \in Activators \cup {Nobody}
    /\ Limit \in Nat /\ MaxPerStep \in Nat \ {0} /\ MaxCalls \in Nat

Places ==
    {"service", "wait", "exit",
     "process", "callback", "finish", "maybe", "schedule", "notify",
     "idle", "limit", "promise", "future", "lock", "add",
     "stop", "join", "flush", "empty", "done"}

Init ==
    /\ m_callbacks_pending = <<>> /\ m_are_callbacks_running = FALSE
    /\ taskQueue = 0 /\ stopRequested = FALSE
    /\ pc = [t \in Threads |-> IF t \in Schedulers THEN "service" ELSE "idle"]
    /\ callback = [t \in Threads |-> 0]
    /\ todo = [t \in Threads |-> IF t = Main THEN 2 ELSE 0]
    /\ cs_main = Nobody /\ n = 0 /\ done = 0 /\ calls = 0

Go(t, l) == pc' = [pc EXCEPT ![t] = l]

\* Where a thread goes after MaybeScheduleProcessQueue.
AfterSchedule(t) ==
    CASE t \in Schedulers -> "service"
      [] t = Main -> IF todo[Main] = 0 THEN "done" ELSE "empty"
      [] t \in Callers -> IF cs_main = t THEN "add" ELSE "future"

(***************************************************************************)
(* CScheduler.                                                             *)
(***************************************************************************)

\* newTaskScheduled.notify_one, after which t goes on at l.
NotifyOne(t, l) ==
    LET waiting == {s \in Schedulers : pc[s] = "wait"}
    IN  IF waiting = {}
        THEN Go(t, l)
        ELSE \E s \in waiting : pc' = [pc EXCEPT ![t] = l, ![s] = "service"]

HasTask == taskQueue > 0

\* One round of serviceQueue: stop, take the first task, or wait for one.
serviceQueue(s) ==
    /\ pc[s] = "service"
    /\ \/ /\ stopRequested
          /\ NotifyOne(s, "exit")
          /\ UNCHANGED taskQueue
       \/ /\ ~stopRequested /\ HasTask
          /\ taskQueue' = taskQueue - 1
          /\ Go(s, "process")
       \/ /\ ~stopRequested /\ ~HasTask
          /\ Go(s, "wait")
          /\ UNCHANGED taskQueue
    /\ UNCHANGED <<client, stopRequested, callback, todo, cs_main, counts>>

\* newTaskScheduled.wait may return without a notification.
Spurious(s) ==
    /\ pc[s] = "wait"
    /\ Go(s, "service")
    /\ UNCHANGED <<client, scheduler, callback, todo, cs_main, counts>>

\* schedule: insert the task under the lock, then notify one waiting thread.
schedule(t) ==
    /\ pc[t] = "schedule"
    /\ taskQueue' = taskQueue + 1
    /\ Go(t, "notify")
    /\ UNCHANGED <<client, stopRequested, callback, todo, cs_main, counts>>

notify_one(t) ==
    /\ pc[t] = "notify"
    /\ NotifyOne(t, AfterSchedule(t))
    /\ UNCHANGED <<client, scheduler, callback, todo, cs_main, counts>>

(***************************************************************************)
(* SingleThreadedSchedulerClient.                                          *)
(***************************************************************************)

\* MaybeScheduleProcessQueue decides under m_callbacks_mutex and schedules after it.
MaybeScheduleProcessQueue(t) ==
    /\ pc[t] = "maybe"
    /\ Go(t, IF m_are_callbacks_running \/ m_callbacks_pending = <<>>
             THEN AfterSchedule(t) ELSE "schedule")
    /\ UNCHANGED <<client, scheduler, callback, todo, cs_main, counts>>

\* ProcessQueue has nothing to do.
NothingToRun == m_are_callbacks_running \/ m_callbacks_pending = <<>>

\* ProcessQueue takes the front callback, unless one is running or there is none.
ProcessQueue(t) ==
    /\ pc[t] = "process"
    /\ IF NothingToRun
       THEN /\ Go(t, AfterSchedule(t))
            /\ UNCHANGED <<client, callback>>
       ELSE /\ m_are_callbacks_running' = TRUE
            /\ callback' = [callback EXCEPT ![t] = Head(m_callbacks_pending)]
            /\ m_callbacks_pending' = Tail(m_callbacks_pending)
            /\ Go(t, "callback")
    /\ UNCHANGED <<scheduler, todo, cs_main, counts>>

RunCallback(t) ==
    /\ pc[t] = "callback" /\ cs_main = Nobody
    /\ done' = done + 1
    /\ Go(t, "finish")
    /\ UNCHANGED <<client, scheduler, callback, todo, cs_main, n, calls>>

\* ~RAIICallbacksRunning.  Variant: it looks at the queue before it resets the flag.
CallbacksLookedAt(t) ==
    /\ pc[t] = "finish"
    /\ m_are_callbacks_running' = FALSE
    /\ callback' = [callback EXCEPT ![t] = 0]
    /\ Go(t, AfterSchedule(t))
    /\ UNCHANGED <<m_callbacks_pending, scheduler, todo, cs_main, counts>>

CallbacksNotRunning(t) ==
    /\ pc[t] = "finish"
    /\ m_are_callbacks_running' = FALSE
    /\ callback' = [callback EXCEPT ![t] = 0]
    /\ Go(t, "maybe")
    /\ UNCHANGED <<m_callbacks_pending, scheduler, todo, cs_main, counts>>

\* AddToProcessQueue, which goes on to MaybeScheduleProcessQueue.  Variant: the
\* callback is put in front.
AddInFront(t) ==
    /\ m_callbacks_pending' = <<n + 1>> \o m_callbacks_pending
    /\ n' = n + 1
    /\ Go(t, "maybe")
    /\ UNCHANGED <<m_are_callbacks_running, scheduler, cs_main, done, calls>>

AddToProcessQueue(t) ==
    /\ m_callbacks_pending' = Append(m_callbacks_pending, n + 1)
    /\ n' = n + 1
    /\ Go(t, "maybe")
    /\ UNCHANGED <<m_are_callbacks_running, scheduler, cs_main, done, calls>>

(***************************************************************************)
(* The threads that enqueue.  ActivateBestChain holds m_chainstate_mutex   *)
(* throughout, and cs_main from LimitValidationInterfaceQueue on.          *)
(***************************************************************************)

ShuttingDown == pc[Main] # "idle"

\* Only m_thread_load may still call while Shutdown has not joined it.
ActivateBestChain(a) ==
    /\ pc[a] = "idle" /\ calls < MaxCalls
    /\ ShuttingDown => a = Loader /\ pc[Main] \in {"stop", "join"}
    /\ \A b \in Activators : pc[b] = "idle"
    /\ calls' = calls + 1
    /\ Go(a, "limit")
    /\ UNCHANGED <<client, scheduler, callback, todo, cs_main, n, done>>

\* LimitValidationInterfaceQueue: go on, or wait for a promise.
LimitValidationInterfaceQueue(a) ==
    /\ pc[a] = "limit"
    /\ IF Len(m_callbacks_pending) > Limit
       THEN Go(a, "promise") ELSE Go(a, "lock")
    /\ UNCHANGED <<client, scheduler, callback, todo, cs_main, counts>>

\* Enqueue a callback that only keeps a promise: SyncWithValidationInterfaceQueue, and
\* BroadcastTransaction, which still holds cs_main.
SyncWithValidationInterfaceQueue(t) ==
    /\ pc[t] = "promise"
    /\ AddToProcessQueue(t)
    /\ callback' = [callback EXCEPT ![t] = n + 1]
    /\ UNCHANGED todo

\* promise.get_future().wait()
Future(t) ==
    /\ pc[t] = "future" /\ done >= callback[t]
    /\ callback' = [callback EXCEPT ![t] = 0]
    /\ Go(t, IF t \in Activators THEN "lock" ELSE "idle")
    /\ UNCHANGED <<client, scheduler, todo, cs_main, counts>>

\* BroadcastTransaction of a transaction that the mempool accepts: it enqueues
\* TransactionAddedToMempool and, with wait_callback, a promise.
Submit(u) ==
    /\ pc[u] = "idle" /\ ~ShuttingDown /\ calls < MaxCalls
    /\ calls' = calls + 1
    /\ Go(u, "lock")
    /\ UNCHANGED <<client, scheduler, callback, todo, cs_main, n, done>>

\* LOCK(cs_main), and how many callbacks this step will enqueue.
LockMain(t) ==
    /\ pc[t] = "lock" /\ cs_main = Nobody
    /\ \E k \in IF t \in Activators THEN 0..MaxPerStep ELSE {1} :
          todo' = [todo EXCEPT ![t] = k]
    /\ cs_main' = t
    /\ Go(t, "add")
    /\ UNCHANGED <<client, scheduler, callback, counts>>

EnqueueEvent(t) ==
    /\ pc[t] = "add" /\ todo[t] > 0
    /\ todo' = [todo EXCEPT ![t] = @ - 1]
    /\ AddToProcessQueue(t)
    /\ UNCHANGED callback

WaitCallback(u) ==
    /\ pc[u] = "add" /\ todo[u] = 0 /\ callback[u] = 0
    /\ Go(u, "promise")
    /\ UNCHANGED <<client, scheduler, callback, todo, cs_main, counts>>

\* The end of the scope of cs_main.  Variant: the promise is waited for inside it.
UnlockAfterWait(t) ==
    /\ pc[t] = "add" /\ todo[t] = 0 /\ done >= callback[t]
    /\ cs_main' = Nobody
    /\ callback' = [callback EXCEPT ![t] = 0]
    /\ Go(t, "idle")
    /\ UNCHANGED <<client, scheduler, todo, counts>>

UnlockMain(t) ==
    /\ pc[t] = "add" /\ todo[t] = 0
    /\ cs_main' = Nobody
    /\ Go(t, IF callback[t] = 0 THEN "idle" ELSE "future")
    /\ UNCHANGED <<client, scheduler, callback, todo, counts>>

Caller(t) ==
    \/ LimitValidationInterfaceQueue(t) \/ SyncWithValidationInterfaceQueue(t) \/ Future(t)
    \/ LockMain(t) \/ EnqueueEvent(t) \/ UnlockMain(t)
    \/ t \in Submitters /\ WaitCallback(t)

(***************************************************************************)
(* Shutdown: the threads of the network and of RPC are gone, m_thread_load *)
(* may be in ActivateBestChain.                                            *)
(***************************************************************************)

\* CScheduler::stop sets stopRequested ...
Stop ==
    /\ pc[Main] = "idle"
    /\ \A t \in Callers \ {Loader} : pc[t] = "idle"
    /\ stopRequested' = TRUE
    /\ Go(Main, "stop")
    /\ UNCHANGED <<client, taskQueue, callback, todo, cs_main, counts>>

\* ... and notifies all; variant: it does not;
StopUnnoticed ==
    /\ pc[Main] = "stop"
    /\ Go(Main, "join")
    /\ UNCHANGED <<client, scheduler, callback, todo, cs_main, counts>>

NotifyStop ==
    /\ pc[Main] = "stop"
    /\ pc' = [t \in Threads |-> CASE t = Main -> "join"
                                  [] t \in Schedulers /\ pc[t] = "wait" -> "service"
                                  [] OTHER -> pc[t]]
    /\ UNCHANGED <<client, scheduler, callback, todo, cs_main, counts>>

\* joins its thread, and Shutdown joins m_thread_load;
Join ==
    /\ pc[Main] = "join"
    /\ \A s \in Schedulers : pc[s] = "exit"
    /\ Loader # Nobody => pc[Loader] = "idle"
    /\ Go(Main, "flush")
    /\ UNCHANGED <<client, scheduler, callback, todo, cs_main, counts>>

\* ForceFlushStateToDisk enqueues ChainStateFlushed, before the queue is emptied and
\* again after it, when the client is then destroyed with that callback in it;
Flush ==
    /\ pc[Main] = "flush" /\ cs_main = Nobody
    /\ todo' = [todo EXCEPT ![Main] = @ - 1]
    /\ AddToProcessQueue(Main)
    /\ UNCHANGED callback

\* EmptyQueue runs ProcessQueue until nothing is pending.  Variant: off by one.
EmptyAllButOne ==
    /\ pc[Main] = "empty"
    /\ Go(Main, IF Len(m_callbacks_pending) <= 1 THEN "flush" ELSE "process")
    /\ UNCHANGED <<client, scheduler, callback, todo, cs_main, counts>>

EmptyQueue ==
    /\ pc[Main] = "empty"
    /\ Go(Main, IF m_callbacks_pending = <<>> THEN "flush" ELSE "process")
    /\ UNCHANGED <<client, scheduler, callback, todo, cs_main, counts>>

Shutdown == NotifyStop \/ Join \/ Flush \/ EmptyQueue

\* m_thread_load waits for a callback, Shutdown waits for m_thread_load, and the
\* threads that ran callbacks are gone.
Hung ==
    /\ pc[Main] = "join" /\ \A s \in Schedulers : pc[s] = "exit"
    /\ Loader # Nobody /\ pc[Loader] = "future" /\ done < callback[Loader]

Step(t) ==
    \/ schedule(t) \/ notify_one(t) \/ MaybeScheduleProcessQueue(t)
    \/ t \in Schedulers /\ serviceQueue(t)
    \/ t \in Runners /\ (ProcessQueue(t) \/ RunCallback(t) \/ CallbacksNotRunning(t))
    \/ t \in Callers /\ Caller(t)
    \/ t = Main /\ Shutdown

Next ==
    \/ \E t \in Threads : Step(t)
    \/ \E a \in Activators : ActivateBestChain(a)
    \/ \E u \in Submitters : Submit(u)
    \/ \E s \in Schedulers : Spurious(s)
    \/ Stop
    \/ (pc[Main] = "done" \/ Hung) /\ UNCHANGED vars

\* Every thread that can go on does so in the end, and gets cs_main in the end.
\* Nobody has to call or to wake without being notified, and the node need not be
\* stopped.
Spec == Init /\ [][Next]_vars /\ \A t \in Threads : WF_vars(Step(t))

(***************************************************************************)
(* Properties.                                                             *)
(***************************************************************************)

\* The types of the variables.
TypeOK ==
    /\ m_callbacks_pending \in Seq(Nat) /\ m_are_callbacks_running \in BOOLEAN
    /\ taskQueue \in Nat /\ stopRequested \in BOOLEAN
    /\ pc \in [Threads -> Places]
    /\ callback \in [Threads -> Nat] /\ todo \in [Threads -> Nat]
    /\ cs_main \in Callers \cup {Nobody}
    /\ n \in Nat /\ done \in 0..n /\ calls \in 0..MaxCalls

Running == {t \in Runners : pc[t] = "callback"}
Current == IF Running = {} THEN 0 ELSE callback[CHOOSE t \in Running : TRUE]

\* The client behaves as a serial queue: whatever the number of scheduler threads
\* and of scheduled tasks, one callback runs at a time and the next one is the
\* oldest.
Serial == INSTANCE SerialQueue WITH
    Callback <- Nat \ {0}, NoCallback <- 0, pending <- m_callbacks_pending,
    current <- Current
RefinesSerialQueue == Serial!QueueSpec

\* At most one callback runs, it is the oldest one that has not completed, and
\* nothing before it is left in the queue.
InOrder ==
    /\ \A t \in Running : callback[t] = done + 1
    /\ \A t, u \in Running : t = u

Looking == {"maybe", "schedule", "process"}

\* A pending callback is not forgotten: a callback runs, after which the queue is
\* looked at again, a task for it is scheduled, or some thread is about to look.
NotStranded ==
    m_callbacks_pending # <<>> =>
        \/ m_are_callbacks_running \/ taskQueue > 0
        \/ \E t \in Threads : pc[t] \in Looking

\* Every callback that was enqueued runs in the end (the calls being bounded, the
\* queue drains), unless Shutdown is through, or hangs with m_thread_load.
EveryCallbackRuns == (done < n) ~> (done = n \/ pc[Main] = "done" \/ Hung)

\* Shutdown comes to its end, or hangs in the one way there is: it joined the
\* scheduler's threads first, and m_thread_load waits in LimitValidationInterfaceQueue
\* for a callback that they would have run.
ShutdownEnds == stopRequested ~> (pc[Main] = "done" \/ Hung)

\* Of all the callbacks ever enqueued, Shutdown drops the last one only, the
\* ChainStateFlushed of its second flush; every other one, that of the first flush
\* included, has run.
OnlyLastDropped ==
    pc[Main] = "done" => m_callbacks_pending = <<n>> /\ done = n - 1
=============================================================================
