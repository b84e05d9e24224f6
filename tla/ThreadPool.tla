----------------------------- MODULE ThreadPool ------------------------------
(***************************************************************************)
(* The thread pool of the networked build (TSS/network/threadpool) as      *)
(* keygen_listen_local_port and sign_listen_local_port use it: one idle    *)
(* thread for each connection to come, one task for each connection that   *)
(* is accepted, and then threadpool_destroy.                               *)
(*                                                                         *)
(* The pool is touched only under the mutex of pool->ready, so a step is   *)
(* what a thread does from one lock or return of a wait to the next unlock *)
(* or wait. threadpool_init counts the threads it creates without the      *)
(* mutex; the model assumes that it is through before one of them has      *)
(* waited its two seconds in vain.                                         *)
(***************************************************************************)
EXTENDS Integers, Sequences, FiniteSets

CONSTANTS
    Connections,    \* conn_numbers: idle threads at first, and connections to accept
    MaxThreads      \* max_threads

ASSUME PoolAssumption ==
    /\ Connections \in Nat \ {0}
    /\ MaxThreads \in Nat /\ MaxThreads >= Connections

Caller == 0                         \* the thread that listens
Threads == 1..2 * Connections       \* the idle ones and one for each threadpool_add_task

VARIABLES
    pc,         \* where each thread and the caller are
    timeout,    \* the local variable of thread_routine
    task,       \* the task a thread runs, 0 if it runs none
    first,      \* the list of tasks from pool->first to pool->last
    counter, idle, quit,
    conns,      \* connections the caller has yet to accept
    added,      \* tasks added so far
    started,    \* the tasks whose handler was called, in that order
    meet,       \* whether the handlers meet at a barrier before they return
    late        \* whether a wait has ever timed out

vars == <<pc, timeout, task, first, counter, idle, quit, conns, added, started, meet, late>>

Init ==
    /\ pc = [x \in {Caller} \cup Threads |->
                IF x = Caller THEN "listening"
                ELSE IF x \in 1..Connections THEN "new" ELSE "absent"]
    /\ timeout = [t \in Threads |-> FALSE]
    /\ task = [t \in Threads |-> 0]
    /\ first = <<>>
    /\ counter = Connections /\ idle = 0 /\ quit = FALSE
    /\ conns = Connections /\ added = 0
    /\ started = <<>>
    /\ meet \in BOOLEAN
    /\ late = FALSE

------------------------------------------------------------------------------
(* The condition variable, on which idle threads and the caller wait.        *)

Waiting == {x \in DOMAIN pc : pc[x] = "waiting"}

\* pthread_cond_signal, when the signaller goes on to label at.
Signal(x, at) ==
    IF Waiting = {} THEN pc' = [pc EXCEPT ![x] = at]
    ELSE \E w \in Waiting : pc' = [pc EXCEPT ![x] = at, ![w] = "woken"]

\* pthread_cond_broadcast.
Broadcast(x, at) ==
    pc' = [y \in DOMAIN pc |-> IF y = x THEN at ELSE IF y \in Waiting THEN "woken" ELSE pc[y]]

\* POSIX lets a wait return for no reason.
SpuriousWakeup(x) ==
    /\ x \in Waiting
    /\ pc' = [pc EXCEPT ![x] = "woken"]
    /\ UNCHANGED <<timeout, task, first, counter, idle, quit, conns, added, started, meet, late>>

\* The wait of an idle thread returns ETIMEDOUT: the thread waits for the mutex and
\* no signal reaches it any more, but idle still counts it.
TimeOut(t) ==
    /\ t \in Waiting
    /\ pc' = [pc EXCEPT ![t] = "woken"]
    /\ timeout' = [timeout EXCEPT ![t] = TRUE]
    /\ late' = TRUE
    /\ UNCHANGED <<task, first, counter, idle, quit, conns, added, started, meet>>

------------------------------------------------------------------------------
(* thread_routine.                                                           *)

\* Fault: the exit of a thread whose wait timed out is not counted.
LeaveUncounted(t) ==
    IF quit /\ first' = <<>>
    THEN /\ counter' = counter - 1
         /\ IF counter' = 0 THEN Signal(t, "exited") ELSE pc' = [pc EXCEPT ![t] = "exited"]
    ELSE pc' = [pc EXCEPT ![t] = IF timeout[t] THEN "exited" ELSE "new"] /\ UNCHANGED counter

\* The end of the loop's body: the thread leaves the pool if this is over or if its
\* wait timed out, otherwise it starts anew.
Leave(t) ==
    IF (quit /\ first' = <<>>) \/ timeout[t]
    THEN /\ counter' = counter - 1
         /\ IF quit /\ first' = <<>> /\ counter' = 0
            THEN Signal(t, "exited") ELSE pc' = [pc EXCEPT ![t] = "exited"]
    ELSE pc' = [pc EXCEPT ![t] = "new"] /\ UNCHANGED counter

\* What follows the waiting loop: the thread is idle no more and takes a task, if
\* there is one; n threads were idle.
TakeTask(t, n) ==
    /\ idle' = n - 1
    /\ IF first # <<>>
       THEN /\ task' = [task EXCEPT ![t] = Head(first)]
            /\ first' = Tail(first)
            /\ pc' = [pc EXCEPT ![t] = "running"]
            /\ started' = Append(started, Head(first))
            /\ UNCHANGED counter
       ELSE UNCHANGED <<task, first, started>> /\ Leave(t)

\* The loop's body up to the wait, or to the task.
Enter(t) ==
    /\ pc[t] = "new"
    /\ IF first = <<>> /\ ~quit
       THEN /\ idle' = idle + 1
            /\ pc' = [pc EXCEPT ![t] = "waiting"]
            /\ UNCHANGED <<task, first, counter, started>>
       ELSE TakeTask(t, idle + 1)
    /\ timeout' = [timeout EXCEPT ![t] = FALSE]
    /\ UNCHANGED <<quit, conns, added, meet, late>>

\* The wait returns with the mutex: a signalled thread tests the condition again.
Wake(t) ==
    /\ t \in Threads /\ pc[t] = "woken"
    /\ IF first = <<>> /\ ~quit /\ ~timeout[t]
       THEN pc' = [pc EXCEPT ![t] = "waiting"] /\ UNCHANGED <<task, first, counter, idle, started>>
       ELSE TakeTask(t, idle)
    /\ UNCHANGED <<timeout, quit, conns, added, meet, late>>

\* t->run returns. The handlers of the TTP wait for each other at a barrier first.
Run(t) ==
    /\ pc[t] = "running"
    /\ meet => Len(started) = Connections
    /\ pc' = [pc EXCEPT ![t] = "ran"]
    /\ UNCHANGED <<timeout, task, first, counter, idle, quit, conns, added, started, meet, late>>

\* The thread takes the mutex again and goes on to the end of the loop's body.
AfterRun(t) ==
    /\ pc[t] = "ran"
    /\ task' = [task EXCEPT ![t] = 0]
    /\ UNCHANGED first /\ Leave(t)
    /\ UNCHANGED <<timeout, idle, quit, conns, added, started, meet, late>>

------------------------------------------------------------------------------
(* The caller.                                                               *)

\* accept fails: the loop goes on, a connection short.
AcceptFails ==
    /\ pc[Caller] = "listening" /\ conns > 0
    /\ conns' = conns - 1
    /\ UNCHANGED <<pc, timeout, task, first, counter, idle, quit, added, started, meet, late>>

\* pthread_create.
Create(t) == pc' = [pc EXCEPT ![t] = "new"] /\ counter' = counter + 1

\* Fault: the task is put in front.
EnqueueFirst(x) == first' = <<x>> \o first

Enqueue(x) == first' = Append(first, x)

\* Fault: an idle thread is not woken.
NotifyNobody ==
    IF idle = 0 /\ counter < MaxThreads
    THEN \E t \in Threads : pc[t] = "absent" /\ Create(t)
    ELSE UNCHANGED <<pc, counter>>

\* A thread is woken if there is an idle one, else created if there may be one more.
\* Otherwise threadpool_add_task returns -1, which is ignored; the task stays.
Notify ==
    IF idle > 0 THEN Signal(Caller, "listening") /\ UNCHANGED counter
    ELSE IF counter < MaxThreads THEN \E t \in Threads : pc[t] = "absent" /\ Create(t)
    ELSE UNCHANGED <<pc, counter>>

\* accept, then threadpool_add_task.
AddTask ==
    /\ pc[Caller] = "listening" /\ conns > 0
    /\ conns' = conns - 1
    /\ added' = added + 1
    /\ Enqueue(added + 1)
    /\ Notify
    /\ UNCHANGED <<timeout, task, idle, quit, started, meet, late>>

\* Fault: only one thread is woken.
DestroySignals ==
    /\ pc[Caller] = "listening" /\ conns = 0
    /\ quit' = TRUE
    /\ IF counter > 0 /\ idle > 0 THEN Signal(Caller, "waiting")
       ELSE pc' = [pc EXCEPT ![Caller] = IF counter > 0 THEN "waiting" ELSE "returned"]
    /\ UNCHANGED <<timeout, task, first, counter, idle, conns, added, started, meet, late>>

\* threadpool_destroy up to its first wait, or to its end.
Destroy ==
    /\ pc[Caller] = "listening" /\ conns = 0
    /\ quit' = TRUE
    /\ IF counter > 0 /\ idle > 0 THEN Broadcast(Caller, "waiting")
       ELSE pc' = [pc EXCEPT ![Caller] = IF counter > 0 THEN "waiting" ELSE "returned"]
    /\ UNCHANGED <<timeout, task, first, counter, idle, conns, added, started, meet, late>>

\* Fault: the wait is not in a loop.
DestroyUntested ==
    /\ pc[Caller] = "woken"
    /\ pc' = [pc EXCEPT ![Caller] = "returned"]
    /\ UNCHANGED <<timeout, task, first, counter, idle, quit, conns, added, started, meet, late>>

\* Its wait returns.
DestroyWakes ==
    /\ pc[Caller] = "woken"
    /\ pc' = [pc EXCEPT ![Caller] = IF counter > 0 THEN "waiting" ELSE "returned"]
    /\ UNCHANGED <<timeout, task, first, counter, idle, quit, conns, added, started, meet, late>>

------------------------------------------------------------------------------
Thread(t) == Enter(t) \/ Wake(t) \/ Run(t) \/ AfterRun(t)
Listen == AcceptFails \/ AddTask \/ Destroy \/ DestroyWakes

Next ==
    \/ Listen
    \/ \E t \in Threads : Thread(t) \/ TimeOut(t)
    \/ \E x \in {Caller} \cup Threads : SpuriousWakeup(x)

SafeSpec == Init /\ [][Next]_vars

\* Threads are scheduled, handlers return and connections come or fail.
Spec == SafeSpec /\ WF_vars(Listen) /\ \A t \in Threads : WF_vars(Thread(t))

------------------------------------------------------------------------------
(* Properties.                                                               *)

Alive == {t \in Threads : pc[t] \notin {"absent", "exited"}}
InLoop == {t \in Threads : pc[t] \in {"waiting", "woken"}}

\* The counters mean what threadpool_add_task and threadpool_destroy take them to
\* mean, though threads leave in two ways (threadpool.c:76-95) and idle ones are
\* woken, time out or find the task gone.
CountersExact == counter = Cardinality(Alive) /\ idle = Cardinality(InLoop)

\* A task is run once, by one thread, in the order of the connections.
TasksInOrder ==
    /\ started \o first = [n \in 1..added |-> n]
    /\ \A t, u \in Threads : task[t] # 0 /\ task[t] = task[u] => t = u

\* The pool is a local variable of the function that destroys it: once it has
\* returned there is no thread left that could touch it.
NobodyOutlivesPool == pc[Caller] = "returned" => Alive = {}

\* A thread waits untouched beside a task only while somebody is bound to come by:
\* one that was created, woken or timed out and has not had the mutex since, or one
\* that runs a task.
NoTaskForgotten ==
    first # <<>> /\ Waiting \cap Threads # {} =>
        \E t \in Alive : pc[t] \in {"new", "woken", "running", "ran"}

\* As long as no wait times out the pool gives every task a thread of its own, even
\* if the handlers wait for each other, and threadpool_destroy returns when all are
\* done. (Handlers that meet need all the connections.)
CompletesInTime ==
    [](~late /\ ~(meet /\ conns + added < Connections))
        => <>(pc[Caller] = "returned" /\ Len(started) = added)

\* threadpool.c:81, "all tasks are finished": when threadpool_destroy returns every
\* task that was added has been run.
AllTasksDone == pc[Caller] = "returned" => first = <<>>
==============================================================================
