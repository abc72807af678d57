-------------------------- MODULE CallbackQueueProofs --------------------------
(***************************************************************************)
(* Proofs about CallbackQueue, for every number of scheduler threads and   *)
(* of threads that enqueue, and every limit.                               *)
(***************************************************************************)
EXTENDS CallbackQueue, SequenceTheorems, TLAPS

\* A leaf that names no prover is tried with Zenon.
USE Zenon

Busy == {t \in Runners : pc[t] \in {"callback", "finish"}}

\* The flag is one thread's.
Alone ==
    /\ m_are_callbacks_running <=> Busy # {}
    /\ \A t, u \in Busy : t = u

\* The queue holds the last callbacks enqueued, and what was taken from it is
\* done, but for the one that runs.
Numbered ==
    /\ \A i \in 1..Len(m_callbacks_pending) :
          m_callbacks_pending[i] = n - Len(m_callbacks_pending) + i
    /\ Running = {} => done = n - Len(m_callbacks_pending)
    /\ \A t \in Running : /\ callback[t] = done + 1
                          /\ done + 1 = n - Len(m_callbacks_pending)

\* While Shutdown goes on, the callers are gone, but for m_thread_load until it
\* is joined, and so are the scheduler's threads then.
Quiet ==
    /\ ShuttingDown => \A t \in Callers \ {Loader} : pc[t] = "idle"
    /\ ShuttingDown /\ pc[Main] \notin {"stop", "join"} =>
          /\ \A t \in Callers : pc[t] = "idle"
          /\ \A s \in Schedulers : pc[s] = "exit"

\* Shutdown flushes twice, with an empty queue the second time, and from then on
\* runs nothing.
Flushed ==
    \/ pc[Main] \in {"idle", "stop", "join", "flush"} /\ todo[Main] = 2
    \/ /\ pc[Main] \in {"maybe", "schedule", "notify", "process", "callback", "finish", "empty"}
       /\ todo[Main] = 1
    \/ pc[Main] = "flush" /\ todo[Main] = 1 /\ m_callbacks_pending = <<>>
    \/ /\ pc[Main] \in {"maybe", "schedule", "notify", "done"}
       /\ todo[Main] = 0 /\ Len(m_callbacks_pending) = 1

IInv == TypeOK /\ Alone /\ Numbered /\ Quiet /\ Flushed /\ NotStranded

-----------------------------------------------------------------------------
(* The steps that leave the queue and the callback that runs alone.          *)

\* Nobody starts or ends a callback.
Apart ==
    /\ UNCHANGED <<client, n, done>>
    /\ \A t \in Runners : /\ pc'[t] = "callback" <=> pc[t] = "callback"
                          /\ pc'[t] = "finish" <=> pc[t] = "finish"
                          /\ pc[t] \in {"callback", "finish"} => callback'[t] = callback[t]

\* Such a step keeps the order, and is invisible to the serial queue.
LEMMA ApartKeeps ==
    ASSUME IInv, Apart
    PROVE  Alone' /\ Numbered' /\ UNCHANGED <<m_callbacks_pending, Current>>
<1>1. Busy' = Busy /\ Running' = Running
  BY DEF Apart, Busy, Running
<1>2. Alone'
  BY <1>1 DEF IInv, Alone, Apart, client
<1>3. Numbered'
  BY <1>1 DEF IInv, Numbered, Apart, client, Running
<1>4. Running # {} => (CHOOSE t \in Running : TRUE) \in Running
  OBVIOUS
<1>5. Current' = Current
  BY <1>1, <1>4 DEF Current, Running, Apart
<1>. QED BY <1>2, <1>3, <1>5 DEF Apart, client

\* After MaybeScheduleProcessQueue a thread is neither in a callback nor gone.
LEMMA AfterScheduleType ==
    ASSUME TypeOK, NEW t \in Threads
    PROVE  /\ t \in Schedulers => AfterSchedule(t) = "service"
           /\ t = Main => AfterSchedule(t) = IF todo[Main] = 0 THEN "done" ELSE "empty"
           /\ t \in Callers => AfterSchedule(t) \in {"add", "future"}
           /\ AfterSchedule(t) \in Places \ {"callback", "finish"}
BY CallbackAssumption DEF AfterSchedule, Threads, Runners, Places

\* What notify_one moves: the thread itself and a scheduler thread that waits.
LEMMA NotifyOneMoves ==
    ASSUME TypeOK, NEW t \in Threads, NEW l \in Places, pc[t] # "wait", NotifyOne(t, l)
    PROVE  /\ pc' \in [Threads -> Places] /\ pc'[t] = l
           /\ \A u \in Threads \ {t} :
                 \/ pc'[u] = pc[u]
                 \/ u \in Schedulers /\ pc[u] = "wait" /\ pc'[u] = "service"
<1>1. CASE {s \in Schedulers : pc[s] = "wait"} = {}
  BY <1>1 DEF NotifyOne, Go, TypeOK
<1>2. CASE {s \in Schedulers : pc[s] = "wait"} # {}
  <2>1. PICK s \in Schedulers :
            pc[s] = "wait" /\ pc' = [pc EXCEPT ![t] = l, ![s] = "service"]
    BY <1>2 DEF NotifyOne
  <2>2. s # t /\ s \in Threads /\ "service" \in Places
    BY <2>1 DEF Threads, Runners, Places
  <2>. QED BY <2>1, <2>2 DEF TypeOK
<1>. QED BY <1>1, <1>2

\* What is left to show of a step that leaves the queue alone.
LEMMA ApartStep ==
    ASSUME IInv, TypeOK', Apart, Quiet', Flushed',
           \/ taskQueue' > 0
           \/ taskQueue' = taskQueue /\ \A t \in Threads : pc[t] \in Looking => pc'[t] \in Looking
           \/ \E t \in Threads : pc'[t] \in Looking
           \/ m_are_callbacks_running \/ m_callbacks_pending = <<>>
    PROVE  IInv' /\ UNCHANGED <<m_callbacks_pending, Current>>
<1>1. NotStranded'
  BY DEF IInv, NotStranded, Apart, client
<1>. QED BY <1>1, ApartKeeps DEF IInv

\* The scheduler's threads.
LEMMA SchedulerStep ==
    ASSUME IInv, NEW s \in Schedulers, serviceQueue(s) \/ Spurious(s)
    PROVE  IInv' /\ UNCHANGED <<m_callbacks_pending, Current>>
<1>. s \in Threads /\ s \in Runners /\ s # Main /\ s \notin Callers
  BY CallbackAssumption DEF Threads, Runners
<1>. Main \in Threads /\ Main \notin Schedulers
  BY CallbackAssumption DEF Threads, Runners
<1>1. pc[s] \in {"service", "wait"}
  BY DEF serviceQueue, Spurious
<1>2. /\ pc' \in [Threads -> Places] /\ pc'[s] \in {"exit", "process", "wait", "service"}
      /\ \A u \in Threads \ {s} :
            \/ pc'[u] = pc[u]
            \/ u \in Schedulers /\ pc[u] = "wait" /\ pc'[u] = "service"
  <2>1. CASE serviceQueue(s) /\ stopRequested /\ NotifyOne(s, "exit")
    <3>1. "exit" \in Places /\ pc[s] # "wait"
      BY <2>1 DEF Places, serviceQueue
    <3>. QED BY <2>1, <3>1, NotifyOneMoves DEF IInv
  <2>2. CASE \E l \in {"process", "wait", "service"} : Go(s, l)
    BY <2>2 DEF Go, IInv, TypeOK, Places
  <2>. QED BY <2>1, <2>2 DEF serviceQueue, Spurious
<1>3. \/ taskQueue' = taskQueue
      \/ taskQueue' = taskQueue - 1 /\ taskQueue > 0 /\ pc'[s] = "process"
  BY <1>1, <1>2 DEF serviceQueue, Spurious, scheduler, HasTask, Go, IInv, TypeOK
<1>4. UNCHANGED <<client, stopRequested, callback, todo, cs_main, counts>>
  BY DEF serviceQueue, Spurious, scheduler
<1>5. TypeOK'
  BY <1>2, <1>3, <1>4, SMT DEF IInv, TypeOK, client, counts
<1>6. Apart
  BY <1>1, <1>2, <1>4, CallbackAssumption DEF Apart, Runners, client, counts, Threads
<1>7. Quiet'
  <2>1. \A t \in Callers \cup {Main} : pc'[t] = pc[t]
    BY <1>2, CallbackAssumption DEF Threads, Runners
  <2>2. (\E u \in Schedulers : pc'[u] # "exit") => \E u \in Schedulers : pc[u] # "exit"
    BY <1>1, <1>2 DEF Threads, Runners
  <2>. QED BY <2>1, <2>2, <1>4 DEF IInv, Quiet, ShuttingDown, client
<1>8. \A t \in Threads : pc[t] \in Looking => pc'[t] \in Looking
  BY <1>1, <1>2 DEF Looking
<1>9. \/ taskQueue' = taskQueue
      \/ \E t \in Threads : pc'[t] \in Looking
  BY <1>3 DEF Looking
<1>10. Flushed'
  BY <1>2, <1>4 DEF IInv, Flushed, client
<1>. QED BY <1>5, <1>6, <1>7, <1>8, <1>9, <1>10, ApartStep

\* MaybeScheduleProcessQueue and schedule, by whichever thread.
LEMMA ScheduleStep ==
    ASSUME IInv, NEW t \in Threads,
           schedule(t) \/ notify_one(t) \/ MaybeScheduleProcessQueue(t)
    PROVE  IInv' /\ UNCHANGED <<m_callbacks_pending, Current>>
<1>. Main \in Threads /\ Main \notin Schedulers /\ Main \notin Callers
  BY CallbackAssumption DEF Threads, Runners
<1>1. pc[t] \in {"schedule", "notify", "maybe"}
  BY DEF schedule, notify_one, MaybeScheduleProcessQueue
<1>2. /\ pc' \in [Threads -> Places] /\ pc'[t] \in {"notify", "schedule", AfterSchedule(t)}
      /\ \A u \in Threads \ {t} :
            \/ pc'[u] = pc[u]
            \/ u \in Schedulers /\ pc[u] = "wait" /\ pc'[u] = "service"
  <2>1. CASE notify_one(t)
    <3>1. pc[t] # "wait" /\ NotifyOne(t, AfterSchedule(t)) /\ AfterSchedule(t) \in Places
      BY <2>1, AfterScheduleType DEF notify_one, IInv
    <3>. QED BY <3>1, NotifyOneMoves DEF IInv
  <2>2. CASE \E l \in {"notify", "schedule", AfterSchedule(t)} : Go(t, l)
    BY <2>2, AfterScheduleType, ZenonT(30) DEF Go, IInv, TypeOK, Places
  <2>. QED BY <2>1, <2>2 DEF schedule, MaybeScheduleProcessQueue
<1>3. taskQueue' = taskQueue \/ taskQueue' = taskQueue + 1
  BY DEF schedule, notify_one, MaybeScheduleProcessQueue, scheduler
<1>4. UNCHANGED <<client, stopRequested, callback, todo, cs_main, counts>>
  BY DEF schedule, notify_one, MaybeScheduleProcessQueue, scheduler
<1>5. TypeOK'
  BY <1>2, <1>3, <1>4, SMT DEF IInv, TypeOK, client, counts
<1>6. Apart
  BY <1>1, <1>2, <1>4, AfterScheduleType DEF Apart, Runners, client, counts, Threads, IInv
<1>7. Quiet'
  <2>1. t # Main => pc'[Main] = pc[Main]
    BY <1>2
  <2>2. t = Main => pc'[Main] \in {"notify", "schedule", "empty", "done"}
    BY <1>2, AfterScheduleType DEF IInv
  <2>3. \A u \in Callers : pc'[u] = pc[u] \/ u = t
    BY <1>2, CallbackAssumption DEF Threads, Runners
  <2>4. (\E u \in Schedulers : pc'[u] # "exit") => \E u \in Schedulers : pc[u] # "exit"
    BY <1>1, <1>2 DEF Threads, Runners
  <2>. QED BY <1>1, <1>4, <2>1, <2>2, <2>3, <2>4 DEF IInv, Quiet, ShuttingDown, client
<1>0. Flushed'
  <2>1. CASE t # Main
    BY <2>1, <1>2, <1>4 DEF IInv, Flushed, client
  <2>2. CASE t = Main
    <3>1. pc'[Main] \in {"notify", "schedule", IF todo[Main] = 0 THEN "done" ELSE "empty"}
      BY <2>2, <1>2, AfterScheduleType DEF IInv
    <3>2. \/ todo[Main] = 1
          \/ todo[Main] = 0 /\ Len(m_callbacks_pending) = 1
      BY <2>2, <1>1 DEF IInv, Flushed
    <3>3. CASE todo[Main] = 1
      <4>1. todo[Main] # 0
        BY <3>3, SMT
      <4>. QED BY <3>1, <3>3, <4>1, <1>4 DEF Flushed
    <3>4. CASE todo[Main] = 0 /\ Len(m_callbacks_pending) = 1
      BY <3>1, <3>4, <1>4 DEF Flushed, client
    <3>. QED BY <3>2, <3>3, <3>4
  <2>. QED BY <2>1, <2>2
<1>8. CASE schedule(t)
  <2>1. taskQueue' > 0
    BY <1>8, SMT DEF schedule, IInv, TypeOK
  <2>. QED BY <2>1, <1>5, <1>6, <1>7, <1>0, ApartStep
<1>9. CASE notify_one(t)
  <2>1. taskQueue' = taskQueue /\ \A u \in Threads : pc[u] \in Looking => pc'[u] \in Looking
    BY <1>2, <1>9 DEF notify_one, scheduler, Looking
  <2>. QED BY <2>1, <1>5, <1>6, <1>7, <1>0, ApartStep
<1>10. CASE MaybeScheduleProcessQueue(t)
  <2>1. m_are_callbacks_running \/ m_callbacks_pending = <<>> \/ pc'[t] \in Looking
    BY <1>10 DEF MaybeScheduleProcessQueue, Go, Looking, IInv, TypeOK
  <2>. QED BY <2>1, <1>5, <1>6, <1>7, <1>0, ApartStep
<1>. QED BY <1>8, <1>9, <1>10

\* A caller that neither enqueues nor runs anything.
LEMMA CallerStep ==
    ASSUME IInv, NEW t \in Callers,
           \/ LimitValidationInterfaceQueue(t) \/ Future(t) \/ LockMain(t) \/ UnlockMain(t)
           \/ ActivateBestChain(t) \/ Submit(t) \/ WaitCallback(t)
    PROVE  IInv' /\ UNCHANGED <<m_callbacks_pending, Current>>
<1>. t \in Threads /\ t # Main /\ t \notin Runners
  BY CallbackAssumption DEF Threads, Runners
<1>1. PICK l \in {"promise", "future", "lock", "add", "idle", "limit"} : pc' = [pc EXCEPT ![t] = l]
  BY DEF LimitValidationInterfaceQueue, Future, LockMain, UnlockMain, ActivateBestChain, Submit, WaitCallback, Go
<1>2. /\ pc[t] \in {"limit", "future", "lock", "add", "idle"}
      /\ pc[t] = "idle" /\ ShuttingDown => t = Loader /\ pc[Main] \in {"stop", "join"}
  BY DEF LimitValidationInterfaceQueue, Future, LockMain, UnlockMain, ActivateBestChain, Submit, WaitCallback
<1>3. UNCHANGED <<client, scheduler, n, done>>
  BY DEF LimitValidationInterfaceQueue, Future, LockMain, UnlockMain, ActivateBestChain, Submit, WaitCallback, counts
<1>4. \A u \in Threads \ {t} : pc'[u] = pc[u] /\ callback'[u] = callback[u]
  BY <1>1 DEF IInv, TypeOK, LimitValidationInterfaceQueue, Future, LockMain, UnlockMain, ActivateBestChain, Submit, WaitCallback
<1>5. /\ callback' \in [Threads -> Nat] /\ todo' \in [Threads -> Nat] /\ todo'[Main] = todo[Main]
      /\ cs_main' \in Callers \cup {Nobody} /\ calls' \in 0..MaxCalls
  <2>1. CASE LockMain(t)
    <3>1. todo' \in [Threads -> Nat] /\ todo'[Main] = todo[Main]
      BY <2>1, CallbackAssumption, SMT DEF LockMain, IInv, TypeOK
    <3>. QED BY <2>1, <3>1 DEF LockMain, counts, IInv, TypeOK
  <2>2. CASE ActivateBestChain(t) \/ Submit(t)
    BY <2>2, CallbackAssumption, SMT DEF ActivateBestChain, Submit, IInv, TypeOK
  <2>3. CASE LimitValidationInterfaceQueue(t) \/ Future(t) \/ UnlockMain(t) \/ WaitCallback(t)
    <3>1. callback' \in [Threads -> Nat]
      BY <2>3, SMT DEF LimitValidationInterfaceQueue, Future, UnlockMain, WaitCallback, IInv, TypeOK
    <3>2. UNCHANGED <<todo, calls>> /\ (cs_main' = cs_main \/ cs_main' = Nobody)
      BY <2>3 DEF LimitValidationInterfaceQueue, Future, UnlockMain, WaitCallback, counts
    <3>. QED BY <3>1, <3>2 DEF IInv, TypeOK
  <2>. QED BY <2>1, <2>2, <2>3
<1>6. TypeOK'
  BY <1>1, <1>3, <1>5 DEF IInv, TypeOK, client, scheduler, Places
<1>7. Apart
  BY <1>3, <1>4 DEF Apart, Threads
<1>8. Quiet'
  BY <1>2, <1>3, <1>4, CallbackAssumption DEF IInv, Quiet, ShuttingDown, client, Threads, Runners
<1>9. taskQueue' = taskQueue /\ \A u \in Threads : pc[u] \in Looking => pc'[u] \in Looking
  BY <1>2, <1>3, <1>4 DEF Looking, scheduler
<1>10. Flushed'
  BY <1>3, <1>4, <1>5 DEF IInv, Flushed, client, Threads, Runners
<1>. QED BY <1>6, <1>7, <1>8, <1>9, <1>10, ApartStep

\* Shutdown, but for the flush.
LEMMA ShutdownStep ==
    ASSUME IInv, Stop \/ NotifyStop \/ Join \/ EmptyQueue
    PROVE  IInv' /\ UNCHANGED <<m_callbacks_pending, Current>>
<1>. Main \in Threads /\ Main \in Runners /\ Main \notin Callers /\ Main \notin Schedulers
  BY CallbackAssumption DEF Threads, Runners
<1>1. /\ pc' \in [Threads -> Places]
      /\ pc[Main] \in {"idle", "stop", "join", "empty"}
      /\ pc'[Main] \in {"stop", "join", "flush", "process"}
      /\ \A u \in Threads \ {Main} :
            \/ pc'[u] = pc[u]
            \/ u \in Schedulers /\ pc[u] = "wait" /\ pc'[u] = "service"
  <2>1. CASE NotifyStop
    BY <2>1 DEF NotifyStop, IInv, TypeOK, Places
  <2>2. CASE Stop \/ Join \/ EmptyQueue
    BY <2>2 DEF Stop, Join, EmptyQueue, Go, IInv, TypeOK, Places
  <2>. QED BY <2>1, <2>2
<1>2. UNCHANGED <<client, taskQueue, callback, todo, cs_main, counts>> /\ stopRequested' \in BOOLEAN
  BY DEF Stop, NotifyStop, Join, EmptyQueue, scheduler, IInv, TypeOK
<1>3. TypeOK'
  BY <1>1, <1>2 DEF IInv, TypeOK, client, counts
<1>4. Apart
  BY <1>1, <1>2 DEF Apart, client, counts, Runners, Threads
<1>5. \A u \in Callers : pc'[u] = pc[u]
  BY <1>1, CallbackAssumption DEF Threads, Runners
<1>6. Quiet'
  <2>1. CASE Stop
    <3>1. pc'[Main] = "stop"
      BY <2>1 DEF Stop, Go, IInv, TypeOK
    <3>. QED BY <2>1, <3>1, <1>5 DEF Stop, Quiet, ShuttingDown
  <2>2. CASE NotifyStop
    <3>1. pc'[Main] = "join" /\ pc[Main] = "stop"
      BY <2>2 DEF NotifyStop
    <3>. QED BY <3>1, <1>5 DEF IInv, Quiet, ShuttingDown
  <2>3. CASE Join
    <3>1. pc'[Main] = "flush" /\ pc[Main] = "join"
      BY <2>3 DEF Join, Go, IInv, TypeOK
    <3>2. \A u \in Callers \ {Loader} : pc[u] = "idle"
      BY <3>1 DEF IInv, Quiet, ShuttingDown
    <3>3. \A u \in Callers : pc'[u] = "idle"
      <4>1. Nobody \notin Callers
        BY CallbackAssumption DEF Threads
      <4>. QED BY <2>3, <3>2, <4>1, <1>5 DEF Join
    <3>4. \A s \in Schedulers : pc'[s] = "exit"
      BY <2>3, <1>1 DEF Join, Threads, Runners
    <3>. QED BY <3>1, <3>3, <3>4 DEF Quiet, ShuttingDown
  <2>4. CASE EmptyQueue
    <3>1. pc[Main] = "empty" /\ pc' = [pc EXCEPT ![Main] = IF m_callbacks_pending = <<>> THEN "flush" ELSE "process"]
      BY <2>4 DEF EmptyQueue, Go
    <3>2. \A u \in Threads \ {Main} : pc'[u] = pc[u]
      BY <3>1 DEF IInv, TypeOK
    <3>. QED BY <3>1, <3>2 DEF IInv, Quiet, ShuttingDown, Threads, Runners
  <2>. QED BY <2>1, <2>2, <2>3, <2>4
<1>7. taskQueue' = taskQueue /\ \A t \in Threads : pc[t] \in Looking => pc'[t] \in Looking
  BY <1>1, <1>2 DEF Looking
<1>8. Flushed'
  <2>1. CASE Stop \/ NotifyStop \/ Join
    <3>1. pc[Main] \in {"idle", "stop", "join"} /\ pc'[Main] \in {"stop", "join", "flush"}
      BY <2>1 DEF Stop, NotifyStop, Join, Go, IInv, TypeOK
    <3>2. todo[Main] = 2
      BY <3>1 DEF IInv, Flushed
    <3>. QED BY <3>1, <3>2, <1>2 DEF Flushed
  <2>2. CASE EmptyQueue
    <3>1. /\ pc[Main] = "empty"
          /\ \/ pc'[Main] = "process"
             \/ pc'[Main] = "flush" /\ m_callbacks_pending = <<>>
      BY <2>2, SMT DEF EmptyQueue, Go, IInv, TypeOK
    <3>2. todo[Main] = 1
      BY <3>1 DEF IInv, Flushed
    <3>. QED BY <3>1, <3>2, <1>2 DEF Flushed, client
  <2>. QED BY <2>1, <2>2
<1>. QED BY <1>3, <1>4, <1>6, <1>7, <1>8, ApartStep

-----------------------------------------------------------------------------
(* The steps of a callback.                                                  *)

\* ProcessQueue that finds nothing to do.
LEMMA NothingStep ==
    ASSUME IInv, NEW t \in Runners, ProcessQueue(t), NothingToRun
    PROVE  IInv' /\ UNCHANGED <<m_callbacks_pending, Current>>
<1>. t \in Threads /\ t \notin Callers
  BY CallbackAssumption DEF Threads, Runners
<1>1. /\ pc[t] = "process" /\ pc' = [pc EXCEPT ![t] = AfterSchedule(t)]
      /\ UNCHANGED <<client, callback, scheduler, todo, cs_main, counts>>
  BY DEF ProcessQueue, Go
<1>2. /\ AfterSchedule(t) \in Places \ {"callback", "finish"}
      /\ t = Main => AfterSchedule(t) = "empty" /\ todo[Main] = 1
  <2>1. t = Main => todo[Main] = 1 /\ todo[Main] # 0
    BY <1>1, SMT DEF IInv, Flushed
  <2>. QED BY <2>1, AfterScheduleType DEF IInv
<1>3. TypeOK'
  BY <1>1, <1>2 DEF IInv, TypeOK, client, scheduler, counts
<1>4. Apart
  BY <1>1, <1>2, SMT DEF Apart, IInv, TypeOK, counts
<1>5. Quiet'
  BY <1>1, <1>2, CallbackAssumption DEF IInv, Quiet, ShuttingDown, TypeOK, client, Threads, Runners
<1>6. Flushed'
  <2>1. t = Main => pc'[Main] = "empty" /\ todo[Main] = 1
    BY <1>1, <1>2 DEF IInv, TypeOK
  <2>2. t # Main => pc'[Main] = pc[Main]
    BY <1>1 DEF IInv, TypeOK, Threads, Runners
  <2>. QED BY <1>1, <2>1, <2>2 DEF IInv, Flushed, client
<1>. QED BY <1>3, <1>4, <1>5, <1>6, ApartStep DEF NothingToRun

\* Who runs callbacks does so between the flushes.
LEMMA RunnerFlushed ==
    ASSUME IInv, NEW t \in Runners, pc[t] \in {"process", "callback", "finish"},
           NEW l \in {"callback", "finish", "maybe"}, pc' = [pc EXCEPT ![t] = l], todo' = todo
    PROVE  Flushed'
<1>. t \in Threads /\ Main \in Threads
  BY DEF Threads, Runners
<1>1. CASE t = Main
  <2>1. todo[Main] = 1
    BY <1>1 DEF IInv, Flushed
  <2>2. pc'[Main] = l
    BY <1>1 DEF IInv, TypeOK
  <2>. QED BY <2>1, <2>2 DEF Flushed
<1>2. CASE t # Main
  <2>1. t \in Schedulers /\ pc[t] # "exit"
    BY <1>2 DEF Runners
  <2>2. pc[Main] \in {"idle", "stop", "join"}
    BY <2>1 DEF IInv, Quiet, ShuttingDown
  <2>3. todo[Main] = 2
    BY <2>2 DEF IInv, Flushed
  <2>4. pc'[Main] = pc[Main]
    BY <1>2 DEF IInv, TypeOK
  <2>. QED BY <2>2, <2>3, <2>4 DEF Flushed
<1>. QED BY <1>1, <1>2

\* ProcessQueue takes the front callback: nobody has one, and it is the next.
LEMMA TakeStep ==
    ASSUME IInv, NEW t \in Runners, ProcessQueue(t), ~NothingToRun
    PROVE  IInv' /\ Serial!Start
<1>. t \in Threads /\ t \notin Callers
  BY CallbackAssumption DEF Threads, Runners
<1>1. /\ pc[t] = "process" /\ pc' = [pc EXCEPT ![t] = "callback"]
      /\ m_are_callbacks_running' = TRUE
      /\ callback' = [callback EXCEPT ![t] = Head(m_callbacks_pending)]
      /\ m_callbacks_pending' = Tail(m_callbacks_pending)
      /\ UNCHANGED <<scheduler, todo, cs_main, counts>>
  BY DEF ProcessQueue, Go
<1>2. m_callbacks_pending \in Seq(Nat) /\ m_callbacks_pending # <<>>
  BY DEF IInv, TypeOK, NothingToRun
<1>3. /\ Head(m_callbacks_pending) = m_callbacks_pending[1] /\ Head(m_callbacks_pending) \in Nat
      /\ m_callbacks_pending' \in Seq(Nat)
      /\ Len(m_callbacks_pending) \in Nat \ {0}
      /\ Len(m_callbacks_pending') = Len(m_callbacks_pending) - 1
      /\ \A i \in 1..Len(m_callbacks_pending') : m_callbacks_pending'[i] = m_callbacks_pending[i + 1]
  BY <1>1, <1>2, HeadTailProperties, SMT
<1>4. Busy = {} /\ Running = {}
  BY DEF IInv, Alone, NothingToRun, Busy, Running
<1>5. Busy' = {t} /\ Running' = {t} /\ callback'[t] = Head(m_callbacks_pending)
  BY <1>1, <1>4, SMT DEF Busy, Running, IInv, TypeOK
<1>6. n \in Nat /\ done \in Nat /\ done = n - Len(m_callbacks_pending)
  BY <1>4, SMT DEF IInv, Numbered, TypeOK
<1>7. TypeOK'
  BY <1>1, <1>3 DEF IInv, TypeOK, scheduler, counts, Places
<1>8. Alone'
  BY <1>1, <1>5 DEF Alone
<1>9. Numbered'
  <2>1. \A i \in 1..Len(m_callbacks_pending') :
            m_callbacks_pending'[i] = n - Len(m_callbacks_pending') + i
    BY <1>3, <1>6, SMT DEF IInv, Numbered
  <2>2. Head(m_callbacks_pending) = done + 1
    BY <1>3, <1>6, SMT DEF IInv, Numbered
  <2>. QED BY <1>1, <1>3, <1>5, <1>6, <2>1, <2>2, SMT DEF Numbered, counts
<1>10. Quiet'
  BY <1>1, CallbackAssumption DEF IInv, Quiet, ShuttingDown, TypeOK, Threads, Runners
<1>11. NotStranded'
  BY <1>1 DEF NotStranded
<1>12. Serial!Start
  BY <1>1, <1>2, <1>4, <1>5 DEF Serial!Start, Current
<1>13. Flushed'
  BY <1>1, RunnerFlushed
<1>. QED BY <1>7, <1>8, <1>9, <1>10, <1>11, <1>12, <1>13 DEF IInv

\* The callback runs to its end.
LEMMA RunStep ==
    ASSUME IInv, NEW t \in Runners, RunCallback(t)
    PROVE  IInv' /\ Serial!Finish
<1>. t \in Threads /\ t \notin Callers
  BY CallbackAssumption DEF Threads, Runners
<1>1. /\ pc[t] = "callback" /\ pc' = [pc EXCEPT ![t] = "finish"] /\ done' = done + 1
      /\ UNCHANGED <<client, scheduler, callback, todo, cs_main, n, calls>>
  BY DEF RunCallback, Go
<1>2. t \in Running /\ t \in Busy
  BY <1>1 DEF Running, Busy
<1>3. Busy' = Busy /\ Busy = {t} /\ Running = {t} /\ Running' = {}
  BY <1>1, <1>2, SMT DEF Busy, Running, IInv, TypeOK, Alone
<1>4. done + 1 = n - Len(m_callbacks_pending) /\ callback[t] = done + 1
  BY <1>2 DEF IInv, Numbered
<1>5. Len(m_callbacks_pending) \in Nat /\ n \in Nat /\ done \in Nat
  BY SMT DEF IInv, TypeOK
<1>6. TypeOK'
  <2>1. done' \in 0..n
    BY <1>1, <1>4, <1>5, SMT
  <2>. QED BY <1>1, <2>1 DEF IInv, TypeOK, client, scheduler, Places
<1>7. Alone'
  BY <1>1, <1>3 DEF IInv, Alone, client
<1>8. Numbered'
  BY <1>1, <1>3, <1>4 DEF IInv, Numbered, client
<1>9. Quiet'
  BY <1>1, CallbackAssumption DEF IInv, Quiet, ShuttingDown, TypeOK, client, Threads, Runners
<1>10. NotStranded'
  <2>1. m_are_callbacks_running
    BY <1>2 DEF IInv, Alone
  <2>. QED BY <1>1, <2>1 DEF NotStranded, client
<1>11. Serial!Finish
  <2>1. Current = done + 1 /\ Current' = 0
    BY <1>3, <1>4 DEF Current
  <2>. QED BY <1>1, <1>5, <2>1, SMT DEF Serial!Finish, client
<1>12. Flushed'
  BY <1>1, RunnerFlushed
<1>. QED BY <1>6, <1>7, <1>8, <1>9, <1>10, <1>11, <1>12 DEF IInv

\* The flag is reset, and the thread looks at the queue again.
LEMMA FinishStep ==
    ASSUME IInv, NEW t \in Runners, CallbacksNotRunning(t)
    PROVE  IInv' /\ UNCHANGED <<m_callbacks_pending, Current>>
<1>. t \in Threads /\ t \notin Callers
  BY CallbackAssumption DEF Threads, Runners
<1>1. /\ pc[t] = "finish" /\ pc' = [pc EXCEPT ![t] = "maybe"]
      /\ m_are_callbacks_running' = FALSE /\ callback' = [callback EXCEPT ![t] = 0]
      /\ UNCHANGED <<m_callbacks_pending, scheduler, todo, cs_main, counts>>
  BY DEF CallbacksNotRunning, Go
<1>2. Busy = {t} /\ Running = {} /\ Busy' = {} /\ Running' = {}
  BY <1>1, SMT DEF Busy, Running, IInv, TypeOK, Alone
<1>3. TypeOK'
  BY <1>1 DEF IInv, TypeOK, scheduler, counts, Places
<1>4. Alone'
  BY <1>1, <1>2 DEF Alone
<1>5. Numbered'
  BY <1>1, <1>2 DEF IInv, Numbered, counts
<1>6. Quiet'
  BY <1>1, CallbackAssumption DEF IInv, Quiet, ShuttingDown, TypeOK, Threads, Runners
<1>7. NotStranded'
  BY <1>1 DEF NotStranded, Looking, IInv, TypeOK
<1>8. Current' = Current
  BY <1>2 DEF Current
<1>9. Flushed'
  BY <1>1, RunnerFlushed
<1>. QED BY <1>1, <1>3, <1>4, <1>5, <1>6, <1>7, <1>8, <1>9 DEF IInv

\* AddToProcessQueue, by a caller or by the flush of Shutdown.
LEMMA AddStep ==
    ASSUME IInv, NEW t \in Threads,
           \/ t \in Callers /\ (SyncWithValidationInterfaceQueue(t) \/ EnqueueEvent(t))
           \/ t = Main /\ Flush
    PROVE  IInv' /\ Serial!SomeEnqueue
<1>. Main \in Threads /\ Main \in Runners /\ Main \notin Callers /\ Main \notin Schedulers
  BY CallbackAssumption DEF Threads, Runners
<1>1. /\ m_callbacks_pending' = Append(m_callbacks_pending, n + 1)
      /\ n' = n + 1 /\ pc' = [pc EXCEPT ![t] = "maybe"]
      /\ UNCHANGED <<m_are_callbacks_running, scheduler, cs_main, done, calls>>
  BY DEF SyncWithValidationInterfaceQueue, EnqueueEvent, Flush, AddToProcessQueue, Go
<1>2. /\ t \in Callers => pc[t] \in {"promise", "add"}
      /\ t = Main => pc[t] = "flush"
  BY DEF SyncWithValidationInterfaceQueue, EnqueueEvent, Flush
<1>3. \A u \in Runners : callback'[u] = callback[u]
  BY CallbackAssumption DEF SyncWithValidationInterfaceQueue, EnqueueEvent, Flush, IInv, TypeOK, Threads
<1>4. /\ m_callbacks_pending \in Seq(Nat) /\ n \in Nat /\ n + 1 \in Nat
      /\ Len(m_callbacks_pending) \in Nat /\ done \in 0..n
  BY SMT DEF IInv, TypeOK
<1>5. /\ m_callbacks_pending' \in Seq(Nat) /\ m_callbacks_pending' # <<>>
      /\ Len(m_callbacks_pending') = Len(m_callbacks_pending) + 1
      /\ \A i \in 1..Len(m_callbacks_pending) : m_callbacks_pending'[i] = m_callbacks_pending[i]
      /\ m_callbacks_pending'[Len(m_callbacks_pending')] = n + 1
  BY <1>1, <1>4, AppendProperties, SMT
<1>6. TypeOK'
  <2>1. callback' \in [Threads -> Nat]
    BY <1>4 DEF SyncWithValidationInterfaceQueue, EnqueueEvent, Flush, IInv, TypeOK
  <2>2. todo' \in [Threads -> Nat]
    <3>1. CASE todo' = [todo EXCEPT ![t] = @ - 1] /\ todo[t] > 0
      <4>1. todo[t] - 1 \in Nat
        BY <3>1, SMT DEF IInv, TypeOK
      <4>. QED BY <3>1, <4>1 DEF IInv, TypeOK
    <3>2. CASE todo' = todo
      BY <3>2 DEF IInv, TypeOK
    <3>3. t = Main /\ Flush => todo[t] > 0
      BY SMT DEF Flush, IInv, Flushed
    <3>. QED BY <3>1, <3>2, <3>3 DEF SyncWithValidationInterfaceQueue, EnqueueEvent, Flush
  <2>3. pc' \in [Threads -> Places]
    BY <1>1 DEF IInv, TypeOK, Places
  <2>4. n' \in Nat /\ done' \in 0..n'
    BY <1>1, <1>4, SMT
  <2>. QED BY <1>1, <1>5, <2>1, <2>2, <2>3, <2>4 DEF IInv, TypeOK, scheduler
<1>7. Busy' = Busy /\ Running' = Running
  BY <1>1, <1>2 DEF Busy, Running, IInv, TypeOK, Threads
<1>8. Alone'
  BY <1>1, <1>7 DEF IInv, Alone
<1>9. Numbered'
  <2>1. \A i \in 1..Len(m_callbacks_pending') :
            m_callbacks_pending'[i] = n' - Len(m_callbacks_pending') + i
    <3>. TAKE i \in 1..Len(m_callbacks_pending')
    <3>1. CASE i \in 1..Len(m_callbacks_pending)
      BY <3>1, <1>1, <1>4, <1>5, SMT DEF IInv, Numbered
    <3>2. CASE i = Len(m_callbacks_pending')
      BY <3>2, <1>1, <1>4, <1>5, SMT
    <3>. QED BY <3>1, <3>2, <1>4, <1>5, SMT
  <2>2. n' - Len(m_callbacks_pending') = n - Len(m_callbacks_pending)
    BY <1>1, <1>4, <1>5, SMT
  <2>. QED BY <1>1, <1>3, <1>7, <2>1, <2>2 DEF IInv, Numbered, Running
<1>10. Quiet'
  <2>1. t \in Callers => pc[Main] # "done" /\ pc'[Main] = pc[Main]
    BY <1>1, <1>2 DEF IInv, Quiet, ShuttingDown, TypeOK
  <2>2. t = Main => pc'[Main] = "maybe"
    BY <1>1 DEF IInv, TypeOK
  <2>3. \A u \in Threads \ {t} : pc'[u] = pc[u]
    BY <1>1 DEF IInv, TypeOK
  <2>4. t \in Callers \/ t = Main
    OBVIOUS
  <2>. QED BY <1>2, <2>1, <2>2, <2>3, <2>4, CallbackAssumption
           DEF IInv, Quiet, ShuttingDown, Threads, Runners
<1>11. NotStranded'
  BY <1>1 DEF NotStranded, Looking, IInv, TypeOK
<1>12. Serial!SomeEnqueue
  <2>1. Current' = Current
    <3>1. Running # {} => (CHOOSE u \in Running : TRUE) \in Runners
      BY DEF Running
    <3>. QED BY <1>3, <1>7, <3>1 DEF Current
  <2>. QED BY <1>1, <1>4, <1>5, <2>1, SMT DEF Serial!SomeEnqueue, Serial!Enqueue
<1>13. Flushed'
  <2>1. CASE t \in Callers
    <3>1. pc[Main] \in {"idle", "stop", "join"}
      BY <2>1, <1>2 DEF IInv, Quiet, ShuttingDown
    <3>2. todo[Main] = 2
      BY <3>1 DEF IInv, Flushed
    <3>3. pc'[Main] = pc[Main] /\ todo'[Main] = todo[Main]
      BY <2>1, <1>1 DEF SyncWithValidationInterfaceQueue, EnqueueEvent, IInv, TypeOK
    <3>. QED BY <3>1, <3>2, <3>3 DEF Flushed
  <2>2. CASE t = Main /\ Flush
    <3>1. pc'[Main] = "maybe" /\ todo'[Main] = todo[Main] - 1
      BY <2>2, <1>1 DEF Flush, IInv, TypeOK
    <3>2. \/ todo[Main] = 2
          \/ todo[Main] = 1 /\ m_callbacks_pending = <<>>
      BY <2>2, <1>2 DEF IInv, Flushed
    <3>3. CASE todo[Main] = 2
      <4>1. todo'[Main] = 1
        BY <3>1, <3>3, SMT
      <4>. QED BY <3>1, <4>1 DEF Flushed
    <3>4. CASE todo[Main] = 1 /\ m_callbacks_pending = <<>>
      <4>1. todo'[Main] = 0
        BY <3>1, <3>4, SMT
      <4>2. Len(m_callbacks_pending') = 1
        BY <3>4, <1>5, EmptySeq, SMT
      <4>. QED BY <3>1, <4>1, <4>2 DEF Flushed
    <3>. QED BY <3>2, <3>3, <3>4
  <2>. QED BY <2>1, <2>2
<1>. QED BY <1>6, <1>8, <1>9, <1>10, <1>11, <1>12, <1>13 DEF IInv

-----------------------------------------------------------------------------

\* The queue starts empty.
LEMMA InitIInv == Init => IInv /\ Serial!QueueInit
<1>. SUFFICES ASSUME Init PROVE IInv /\ Serial!QueueInit
  OBVIOUS
<1>. Main \in Threads /\ Main \notin Schedulers
  BY CallbackAssumption DEF Threads, Runners
<1>1. Busy = {} /\ Running = {}
  BY DEF Init, Busy, Running, Threads
<1>2. TypeOK
  <2>1. pc \in [Threads -> Places] /\ callback \in [Threads -> Nat]
    BY DEF Init, Places
  <2>2. todo \in [Threads -> Nat]
    BY SMT DEF Init
  <2>3. m_callbacks_pending \in Seq(Nat)
    BY SMT DEF Init
  <2>4. calls \in 0..MaxCalls /\ n \in Nat /\ done \in 0..n /\ taskQueue \in Nat
    BY CallbackAssumption, SMT DEF Init
  <2>5. m_are_callbacks_running \in BOOLEAN /\ stopRequested \in BOOLEAN
    BY DEF Init
  <2>6. cs_main \in Callers \cup {Nobody}
    BY DEF Init
  <2>. QED BY <2>1, <2>2, <2>3, <2>4, <2>5, <2>6 DEF TypeOK
<1>3. Alone /\ Numbered
  <2>1. Len(m_callbacks_pending) = 0 /\ n = 0 /\ done = 0
    BY EmptySeq DEF Init
  <2>2. Numbered
    BY <1>1, <2>1, SMT DEF Numbered
  <2>3. Alone
    BY <1>1 DEF Init, Alone
  <2>. QED BY <2>2, <2>3
<1>4. Quiet /\ NotStranded
  BY DEF Init, Quiet, NotStranded, ShuttingDown
<1>5. Serial!QueueInit
  BY <1>1 DEF Init, Serial!QueueInit, Current
<1>6. Flushed
  BY DEF Init, Flushed
<1>. QED BY <1>2, <1>3, <1>4, <1>5, <1>6 DEF IInv

\* Every step keeps the invariant and is a step of the serial queue or none.
LEMMA NextIInv == IInv /\ [Next]_vars => IInv' /\ [Serial!QueueNext]_(Serial!queueVars)
<1>. SUFFICES ASSUME IInv, [Next]_vars PROVE IInv' /\ [Serial!QueueNext]_(Serial!queueVars)
  OBVIOUS
<1>. USE DEF Serial!queueVars, Serial!QueueNext
<1>1. ASSUME NEW t \in Threads, Step(t) PROVE IInv' /\ [Serial!QueueNext]_(Serial!queueVars)
  <2>1. CASE schedule(t) \/ notify_one(t) \/ MaybeScheduleProcessQueue(t)
    BY <2>1, ScheduleStep
  <2>2. CASE t \in Schedulers /\ serviceQueue(t)
    BY <2>2, SchedulerStep
  <2>3. CASE t \in Runners /\ (ProcessQueue(t) \/ RunCallback(t) \/ CallbacksNotRunning(t))
    BY <2>3, NothingStep, TakeStep, RunStep, FinishStep
  <2>4. CASE t \in Callers /\ Caller(t)
    BY <2>4, CallerStep, AddStep DEF Caller
  <2>5. CASE t = Main /\ Shutdown
    BY <2>5, ShutdownStep, AddStep DEF Shutdown
  <2>. QED BY <1>1, <2>1, <2>2, <2>3, <2>4, <2>5 DEF Step
<1>2. ASSUME NEW a \in Activators, ActivateBestChain(a) PROVE IInv' /\ [Serial!QueueNext]_(Serial!queueVars)
  BY <1>2, CallerStep DEF Callers
<1>3. ASSUME NEW u \in Submitters, Submit(u) PROVE IInv' /\ [Serial!QueueNext]_(Serial!queueVars)
  BY <1>3, CallerStep DEF Callers
<1>4. ASSUME NEW s \in Schedulers, Spurious(s) PROVE IInv' /\ [Serial!QueueNext]_(Serial!queueVars)
  BY <1>4, SchedulerStep
<1>5. CASE Stop
  BY <1>5, ShutdownStep
<1>6. CASE UNCHANGED vars
  <2>1. TypeOK' /\ Alone' /\ Quiet' /\ Flushed'
    BY <1>6 DEF vars, client, scheduler, counts, IInv, TypeOK, Alone, Busy, Quiet, ShuttingDown, Flushed
  <2>2. Numbered' /\ NotStranded'
    BY <1>6 DEF vars, client, scheduler, counts, IInv, Numbered, Running, NotStranded
  <2>3. UNCHANGED <<m_callbacks_pending, Current>>
    BY <1>6, SMT DEF vars, client, Current, Running
  <2>. QED BY <2>1, <2>2, <2>3 DEF IInv
<1>. QED BY <1>1, <1>2, <1>3, <1>4, <1>5, <1>6 DEF Next

\* The invariant holds in every behaviour.
LEMMA InvariantHolds == Spec => []IInv
BY InitIInv, NextIInv, PTL DEF Spec

\* Every variable keeps its type.
THEOREM ClientTypeOK == Spec => []TypeOK
<1>1. IInv => TypeOK
  BY DEF IInv
<1>. QED BY <1>1, InvariantHolds, PTL

\* However many threads service the scheduler, one callback runs at a time and it
\* is the oldest that has not completed.
THEOREM ClientInOrder == Spec => []InOrder
<1>1. IInv => InOrder
  BY DEF IInv, Alone, Numbered, InOrder, Busy, Running
<1>. QED BY <1>1, InvariantHolds, PTL

\* A pending callback always has somebody who will look at the queue.
THEOREM ClientNotStranded == Spec => []NotStranded
<1>1. IInv => NotStranded
  BY DEF IInv
<1>. QED BY <1>1, InvariantHolds, PTL

\* When Shutdown is through, every callback that was ever enqueued has run but for
\* the last one, which its second flush put into the empty queue.
THEOREM ClientOnlyLastDropped == Spec => []OnlyLastDropped
<1>1. IInv => OnlyLastDropped
  <2>. SUFFICES ASSUME IInv, pc[Main] = "done"
                PROVE  m_callbacks_pending = <<n>> /\ done = n - 1
    BY DEF OnlyLastDropped
  <2>1. Len(m_callbacks_pending) = 1 /\ m_callbacks_pending \in Seq(Nat) /\ n \in Nat
    BY DEF IInv, Flushed, TypeOK
  <2>2. \A s \in Schedulers : pc[s] = "exit"
    BY DEF IInv, Quiet, ShuttingDown
  <2>3. Running = {}
    BY <2>2 DEF Running, Runners
  <2>4. done = n - 1 /\ m_callbacks_pending[1] = n
    BY <2>1, <2>3, SMT DEF IInv, Numbered
  <2>. QED BY <2>1, <2>4, SMT
<1>. QED BY <1>1, InvariantHolds, PTL

\* The client implements the serial queue.
THEOREM ClientRefines == Spec => RefinesSerialQueue
BY InitIInv, NextIInv, InvariantHolds, PTL DEF Spec, RefinesSerialQueue, Serial!QueueSpec
=============================================================================
