------------------------------ MODULE SerialQueue ------------------------------
(***************************************************************************)
(* What SingleThreadedSchedulerClient promises: "callbacks can behave as   *)
(* if they are executed in order by a single thread".                      *)
(***************************************************************************)
EXTENDS Sequences

CONSTANTS
    Callback,    \* callbacks
    NoCallback   \* nothing is running

VARIABLES
    pending,     \* callbacks that have not started, in order
    current      \* the callback that is running

queueVars == <<pending, current>>

QueueInit == pending = <<>> /\ current = NoCallback

Enqueue(c) == pending' = Append(pending, c) /\ UNCHANGED current

\* The callback that was enqueued is the last of the new queue.
SomeEnqueue ==
    /\ pending' # <<>>
    /\ LET c == pending'[Len(pending')] IN c \in Callback /\ Enqueue(c)

Start ==
    /\ current = NoCallback /\ pending # <<>>
    /\ current' = Head(pending)
    /\ pending' = Tail(pending)

Finish == current # NoCallback /\ current' = NoCallback /\ UNCHANGED pending

QueueNext == SomeEnqueue \/ Start \/ Finish

QueueSpec == QueueInit /\ [][QueueNext]_queueVars
=============================================================================
