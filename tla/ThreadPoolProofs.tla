-------------------------- MODULE ThreadPoolProofs ---------------------------
(***************************************************************************)
(* Proofs about the thread pool, for any number of connections and any     *)
(* max_threads.                                                            *)
(***************************************************************************)
EXTENDS ThreadPool, FiniteSetTheorems, SequenceTheorems, TLAPS

CallerPC == {"listening", "waiting", "woken", "returned"}
ThreadPC == {"absent", "new", "waiting", "woken", "running", "ran", "exited"}

TypeOK ==
    /\ pc \in [{Caller} \cup Threads -> CallerPC \cup ThreadPC]
    /\ pc[Caller] \in CallerPC
    /\ \A t \in Threads : pc[t] \in ThreadPC
    /\ timeout \in [Threads -> BOOLEAN]
    /\ task \in [Threads -> Nat]
    /\ first \in Seq(Nat) /\ started \in Seq(Nat)
    /\ counter \in Int /\ idle \in Int /\ quit \in BOOLEAN
    /\ conns \in Nat /\ added \in Nat
    /\ meet \in BOOLEAN /\ late \in BOOLEAN

LEMMA CallerIsNoThread == Caller \notin Threads
  BY PoolAssumption DEF Caller, Threads

\* A thread goes on to label at and wakes those of W, who wait.
Moves(x, at, W) ==
    /\ W \subseteq Waiting
    /\ pc' = [y \in {Caller} \cup Threads |->
                 IF y = x THEN at ELSE IF y \in W THEN "woken" ELSE pc[y]]

LEMMA GotoMoves ==
  ASSUME TypeOK, NEW x \in {Caller} \cup Threads, NEW at, pc' = [pc EXCEPT ![x] = at]
  PROVE  Moves(x, at, {})
  BY DEF TypeOK, Moves

\* A signal wakes somebody if anybody waits.
LEMMA SignalMoves ==
  ASSUME TypeOK, NEW x \in {Caller} \cup Threads, NEW at, x \notin Waiting, Signal(x, at)
  PROVE  \E W : Moves(x, at, W) /\ (Waiting # {} => W # {})
<1>1. CASE Waiting = {}
  BY <1>1, GotoMoves DEF Signal
<1>2. CASE Waiting # {}
  <2>1. PICK w \in Waiting : pc' = [pc EXCEPT ![x] = at, ![w] = "woken"]
    BY <1>2 DEF Signal
  <2>2. Moves(x, at, {w})
    BY <2>1 DEF Moves, TypeOK, Waiting
  <2>. QED
    BY <2>2
<1>. QED
  BY <1>1, <1>2

LEMMA BroadcastMoves ==
  ASSUME TypeOK, NEW x \in {Caller} \cup Threads, NEW at, Broadcast(x, at)
  PROVE  Moves(x, at, Waiting)
  BY DEF Broadcast, Moves, TypeOK, Waiting

\* The end of the loop's body.
LEMMA LeaveMoves ==
  ASSUME TypeOK, NEW t \in Threads, t \notin Waiting, Leave(t)
  PROVE  /\ \E W : /\ Moves(t, IF counter' = counter THEN "new" ELSE "exited", W)
                   /\ W # {} => first' = <<>>
         /\ counter' = counter \/ counter' = counter - 1
         /\ counter' # counter => timeout[t] \/ (quit /\ first' = <<>>)
<1>. USE DEF TypeOK
<1>1. CASE (quit /\ first' = <<>>) \/ timeout[t]
  <2>1. counter' = counter - 1 /\ counter' # counter
    BY <1>1 DEF Leave
  <2>2. CASE quit /\ first' = <<>> /\ counter' = 0
    BY <1>1, <2>1, <2>2, SignalMoves DEF Leave
  <2>3. CASE ~(quit /\ first' = <<>> /\ counter' = 0)
    BY <1>1, <2>1, <2>3, GotoMoves DEF Leave
  <2>. QED
    BY <2>1, <2>2, <2>3, <1>1
<1>2. CASE ~((quit /\ first' = <<>>) \/ timeout[t])
  BY <1>2, GotoMoves DEF Leave
<1>. QED
  BY <1>1, <1>2

\* What follows the waiting loop, when t has the mutex: it has a task or leaves.
LEMMA TakeTaskMoves ==
  ASSUME TypeOK, NEW t \in Threads, t \notin Waiting, NEW n, TakeTask(t, n)
  PROVE  /\ idle' = n - 1
         /\ \/ /\ first # <<>> /\ first' = Tail(first)
               /\ task' = [task EXCEPT ![t] = Head(first)]
               /\ started' = Append(started, Head(first))
               /\ counter' = counter /\ Moves(t, "running", {})
            \/ /\ first = <<>> /\ first' = <<>> /\ task' = task /\ started' = started
               /\ Leave(t)
  BY GotoMoves DEF TakeTask, TypeOK

\* accept and threadpool_add_task.
LEMMA AddTaskMoves ==
  ASSUME TypeOK, AddTask
  PROVE  \/ /\ idle > 0 /\ counter' = counter
            /\ \E W : Moves(Caller, "listening", W) /\ (Waiting # {} => W # {})
         \/ /\ idle <= 0 /\ counter' = counter + 1
            /\ \E t \in Threads : pc[t] = "absent" /\ Moves(t, "new", {})
         \/ idle <= 0 /\ counter' = counter /\ pc' = pc
<1>. USE DEF AddTask, Notify, TypeOK
<1>1. CASE idle > 0
  BY <1>1, SignalMoves DEF Waiting
<1>2. CASE ~(idle > 0) /\ counter < MaxThreads
  <2>1. PICK t \in Threads : pc[t] = "absent" /\ Create(t)
    BY <1>2
  <2>2. Moves(t, "new", {})
    BY <2>1, GotoMoves DEF Create
  <2>. QED
    BY <1>2, <2>1, <2>2 DEF Create
<1>3. CASE ~(idle > 0) /\ ~(counter < MaxThreads)
  BY <1>3
<1>. QED
  BY <1>1, <1>2, <1>3

LEMMA MovesType ==
  ASSUME TypeOK, NEW x \in {Caller} \cup Threads, NEW at, NEW W, Moves(x, at, W),
         x \in Threads => at \in ThreadPC, x = Caller => at \in CallerPC
  PROVE  /\ pc' \in [{Caller} \cup Threads -> CallerPC \cup ThreadPC]
         /\ pc'[Caller] \in CallerPC
         /\ \A t \in Threads : pc'[t] \in ThreadPC
  BY CallerIsNoThread DEF TypeOK, Moves, CallerPC, ThreadPC

LEMMA LeaveType ==
  ASSUME TypeOK, NEW t \in Threads, t \notin Waiting, Leave(t)
  PROVE  /\ pc' \in [{Caller} \cup Threads -> CallerPC \cup ThreadPC]
         /\ pc'[Caller] \in CallerPC
         /\ \A u \in Threads : pc'[u] \in ThreadPC
         /\ counter' \in Int
<1>1. PICK W : Moves(t, IF counter' = counter THEN "new" ELSE "exited", W)
  BY LeaveMoves
<1>. QED
  <2>1. (IF counter' = counter THEN "new" ELSE "exited") \in ThreadPC
    BY DEF ThreadPC
  <2>2. /\ pc' \in [{Caller} \cup Threads -> CallerPC \cup ThreadPC]
        /\ pc'[Caller] \in CallerPC
        /\ \A u \in Threads : pc'[u] \in ThreadPC
    BY <1>1, <2>1, MovesType, CallerIsNoThread
  <2>3. counter \in Int
    BY DEF TypeOK
  <2>. QED
    BY <2>2, <2>3, LeaveMoves

LEMMA TakeTaskType ==
  ASSUME TypeOK, NEW t \in Threads, t \notin Waiting, NEW n \in Int, TakeTask(t, n)
  PROVE  /\ pc' \in [{Caller} \cup Threads -> CallerPC \cup ThreadPC]
         /\ pc'[Caller] \in CallerPC
         /\ \A u \in Threads : pc'[u] \in ThreadPC
         /\ counter' \in Int /\ idle' \in Int
         /\ task' \in [Threads -> Nat] /\ first' \in Seq(Nat) /\ started' \in Seq(Nat)
<1>1. CASE first # <<>>
  <2>1. Head(first) \in Nat /\ Tail(first) \in Seq(Nat)
    BY <1>1 DEF TypeOK
  <2>. QED
    <3>1. /\ pc' \in [{Caller} \cup Threads -> CallerPC \cup ThreadPC]
          /\ pc'[Caller] \in CallerPC
          /\ \A u \in Threads : pc'[u] \in ThreadPC
      BY <1>1, TakeTaskMoves, MovesType, CallerIsNoThread, "running" \in ThreadPC DEF ThreadPC
    <3>2. /\ counter' = counter /\ idle' = n - 1
          /\ first' = Tail(first)
          /\ task' = [task EXCEPT ![t] = Head(first)]
          /\ started' = Append(started, Head(first))
      BY <1>1, TakeTaskMoves
    <3>. QED
      BY <2>1, <3>1, <3>2 DEF TypeOK
<1>2. CASE first = <<>>
  <2>1. Leave(t) /\ idle' = n - 1 /\ first' = first /\ task' = task /\ started' = started
    BY <1>2, TakeTaskMoves
  <2>. QED
    BY <1>2, <2>1, LeaveType DEF TypeOK
<1>. QED
  BY <1>1, <1>2, TakeTaskMoves

\* The pool's variables keep their types; the caller and the threads have states of
\* their own though they share the condition variable.
THEOREM TypeCorrect == SafeSpec => []TypeOK
<1>1. Init => TypeOK
  <2>. SUFFICES ASSUME Init PROVE TypeOK
    OBVIOUS
  <2>1. pc \in [{Caller} \cup Threads -> CallerPC \cup ThreadPC]
    BY DEF Init, CallerPC, ThreadPC
  <2>2. pc[Caller] \in CallerPC /\ \A t \in Threads : pc[t] \in ThreadPC
    BY CallerIsNoThread DEF Init, CallerPC, ThreadPC
  <2>3. /\ timeout \in [Threads -> BOOLEAN] /\ task \in [Threads -> Nat]
        /\ first \in Seq(Nat) /\ started \in Seq(Nat)
    BY DEF Init
  <2>4. counter \in Int /\ idle \in Int /\ conns \in Nat /\ added \in Nat
    BY PoolAssumption DEF Init
  <2>. QED
    BY <2>1, <2>2, <2>3, <2>4 DEF Init, TypeOK
<1>2. TypeOK /\ [Next]_vars => TypeOK'
  <2>. SUFFICES ASSUME TypeOK, [Next]_vars PROVE TypeOK'
    OBVIOUS
  <2>. USE CallerIsNoThread DEF TypeOK, CallerPC, ThreadPC
  <2>1. CASE AcceptFails
    BY <2>1 DEF AcceptFails
  <2>2. CASE AddTask
    <3>1. /\ first' \in Seq(Nat) /\ added' \in Nat /\ conns' \in Nat
          /\ UNCHANGED <<timeout, task, idle, quit, started, meet, late>>
      BY <2>2 DEF AddTask, Enqueue
    <3>. QED
      BY SMTT(30), <2>2, <3>1, AddTaskMoves, MovesType
  <2>3. CASE Destroy
    <3>1. UNCHANGED <<timeout, task, first, counter, idle, conns, added, started, meet, late>>
          /\ quit' = TRUE
      BY <2>3 DEF Destroy
    <3>2. \E W : Moves(Caller, "waiting", W) \/ Moves(Caller, "returned", W)
      BY <2>3, GotoMoves, BroadcastMoves DEF Destroy
    <3>. QED
      BY <3>1, <3>2, MovesType
  <2>4. CASE DestroyWakes
    BY <2>4 DEF DestroyWakes
  <2>5. ASSUME NEW t \in Threads, Enter(t)
        PROVE  TypeOK'
    <3>1. t \notin Waiting /\ timeout' \in [Threads -> BOOLEAN]
          /\ UNCHANGED <<quit, conns, added, meet, late>>
      BY <2>5 DEF Enter, Waiting
    <3>2. CASE first = <<>> /\ ~quit
      BY <2>5, <3>1, <3>2 DEF Enter
    <3>3. CASE ~(first = <<>> /\ ~quit)
      <4>1. TakeTask(t, idle + 1) /\ idle + 1 \in Int
        BY <2>5, <3>3 DEF Enter
      <4>. QED
        BY <3>1, <4>1, TakeTaskType
    <3>. QED
      BY <3>2, <3>3
  <2>6. ASSUME NEW t \in Threads, Wake(t)
        PROVE  TypeOK'
    <3>1. t \notin Waiting /\ UNCHANGED <<timeout, quit, conns, added, meet, late>>
      BY <2>6 DEF Wake, Waiting
    <3>2. CASE first = <<>> /\ ~quit /\ ~timeout[t]
      BY <2>6, <3>1, <3>2 DEF Wake
    <3>3. CASE ~(first = <<>> /\ ~quit /\ ~timeout[t])
      BY <2>6, <3>1, <3>3, TakeTaskType DEF Wake
    <3>. QED
      BY <3>2, <3>3
  <2>7. ASSUME NEW t \in Threads, Run(t)
        PROVE  TypeOK'
    BY <2>7 DEF Run
  <2>8. ASSUME NEW t \in Threads, AfterRun(t)
        PROVE  TypeOK'
    <3>1. /\ t \notin Waiting /\ task' \in [Threads -> Nat]
          /\ UNCHANGED <<first, timeout, idle, quit, conns, added, started, meet, late>>
      BY <2>8 DEF AfterRun, Waiting
    <3>. QED
      BY <2>8, <3>1, LeaveType DEF AfterRun
  <2>9. ASSUME NEW t \in Threads, TimeOut(t)
        PROVE  TypeOK'
    BY <2>9 DEF TimeOut, Waiting
  <2>10. ASSUME NEW x \in {Caller} \cup Threads, SpuriousWakeup(x)
         PROVE  TypeOK'
    BY <2>10 DEF SpuriousWakeup, Waiting
  <2>11. CASE UNCHANGED vars
    BY <2>11 DEF vars
  <2>. QED
    BY <2>1, <2>2, <2>3, <2>4, <2>5, <2>6, <2>7, <2>8, <2>9, <2>10, <2>11
       DEF Next, Listen, Thread
<1>. QED
  BY <1>1, <1>2, PTL DEF SafeSpec

------------------------------------------------------------------------------
(* The counters.                                                             *)

LEMMA CardinalityOfThreads ==
  ASSUME NEW S \in SUBSET Threads, NEW t \in Threads
  PROVE  /\ Cardinality(S) \in Nat
         /\ Cardinality(S) = 0 <=> S = {}
         /\ Cardinality(S \cup {t}) = IF t \in S THEN Cardinality(S) ELSE Cardinality(S) + 1
         /\ Cardinality(S \ {t}) = IF t \in S THEN Cardinality(S) - 1 ELSE Cardinality(S)
<1>1. IsFiniteSet(Threads)
  BY PoolAssumption, FS_Interval DEF Threads
<1>2. IsFiniteSet(S)
  BY <1>1, FS_Subset
<1>. QED
  BY <1>2, FS_AddElement, FS_RemoveElement, FS_CardinalityType, FS_EmptySet

\* A step of the caller changes neither set, whoever is woken; a step of a thread
\* changes them by that thread.
LEMMA MovesSets ==
  ASSUME TypeOK, NEW x \in {Caller} \cup Threads, NEW at, NEW W, Moves(x, at, W)
  PROVE  /\ x = Caller => Alive' = Alive /\ InLoop' = InLoop
         /\ x \in Threads =>
               /\ Alive' = IF at \in {"absent", "exited"} THEN Alive \ {x} ELSE Alive \cup {x}
               /\ InLoop' = IF at \in {"waiting", "woken"} THEN InLoop \cup {x} ELSE InLoop \ {x}
  BY CallerIsNoThread DEF TypeOK, Moves, Alive, InLoop, Waiting

\* The two ways out are both counted.
LEMMA LeaveCounts ==
  ASSUME TypeOK, CountersExact, NEW t \in Threads, t \in Alive, t \notin Waiting, Leave(t)
  PROVE  counter' = Cardinality(Alive') /\ InLoop' = InLoop \ {t}
<1>1. PICK W : Moves(t, IF counter' = counter THEN "new" ELSE "exited", W)
  BY LeaveMoves
<1>2. CASE counter' = counter
  <2>1. Alive' = Alive \cup {t} /\ InLoop' = InLoop \ {t}
    BY <1>1, <1>2, MovesSets
  <2>2. Alive \cup {t} = Alive
    OBVIOUS
  <2>. QED
    BY <2>1, <2>2, <1>2 DEF CountersExact
<1>3. CASE counter' # counter
  <2>1. Alive' = Alive \ {t} /\ InLoop' = InLoop \ {t}
    BY <1>1, <1>3, MovesSets
  <2>2. counter' = counter - 1
    BY <1>3, LeaveMoves
  <2>. QED
    BY <2>1, <2>2, CardinalityOfThreads DEF CountersExact, Alive
<1>. QED
  BY <1>2, <1>3

\* n counts the threads in the loop and t.
LEMMA TakeTaskCounts ==
  ASSUME TypeOK, CountersExact, NEW t \in Threads, t \in Alive, t \notin Waiting,
         NEW n, n = Cardinality(InLoop \cup {t}), TakeTask(t, n)
  PROVE  CountersExact'
<1>1. counter' = Cardinality(Alive') /\ InLoop' = InLoop \ {t}
  <2>1. CASE first # <<>>
    <3>1. counter' = counter /\ Moves(t, "running", {})
      BY <2>1, TakeTaskMoves
    <3>2. Alive' = Alive \cup {t} /\ InLoop' = InLoop \ {t}
      BY <3>1, MovesSets
    <3>3. Alive \cup {t} = Alive
      OBVIOUS
    <3>. QED
      BY <3>1, <3>2, <3>3 DEF CountersExact
  <2>2. CASE first = <<>>
    BY <2>2, TakeTaskMoves, LeaveCounts
  <2>. QED
    BY <2>1, <2>2
<1>2. InLoop \ {t} = (InLoop \cup {t}) \ {t}
  OBVIOUS
<1>3. Cardinality((InLoop \cup {t}) \ {t}) = Cardinality(InLoop \cup {t}) - 1
  BY CardinalityOfThreads DEF InLoop
<1>. QED
  BY <1>1, <1>2, <1>3, TakeTaskMoves DEF CountersExact

\* counter and idle are what threadpool_add_task and threadpool_destroy take them
\* for, at every moment at which the mutex is free.
LEMMA CountersStep == TypeOK /\ CountersExact /\ [Next]_vars => CountersExact'
<1>. SUFFICES ASSUME TypeOK, CountersExact, [Next]_vars PROVE CountersExact'
  OBVIOUS
<1>1. CASE AcceptFails
  BY <1>1 DEF AcceptFails, CountersExact, Alive, InLoop
<1>2. CASE AddTask
  <2>1. idle' = idle
    BY <1>2 DEF AddTask
  <2>2. CASE counter' = counter /\ \E W : Moves(Caller, "listening", W)
    BY <2>1, <2>2, MovesSets DEF CountersExact
  <2>3. CASE counter' = counter + 1 /\ \E t \in Threads : pc[t] = "absent" /\ Moves(t, "new", {})
    <3>1. PICK t \in Threads : pc[t] = "absent" /\ Moves(t, "new", {})
      BY <2>3
    <3>2. Alive' = Alive \cup {t} /\ InLoop' = InLoop \ {t}
      BY <3>1, MovesSets
    <3>3. t \notin Alive /\ InLoop \ {t} = InLoop
      BY <3>1 DEF Alive, InLoop
    <3>4. Cardinality(Alive \cup {t}) = Cardinality(Alive) + 1
      BY <3>3, CardinalityOfThreads DEF Alive
    <3>. QED
      BY <2>1, <2>3, <3>2, <3>3, <3>4 DEF CountersExact
  <2>4. CASE counter' = counter /\ pc' = pc
    BY <2>1, <2>4 DEF CountersExact, Alive, InLoop
  <2>. QED
    BY <1>2, <2>2, <2>3, <2>4, AddTaskMoves
<1>3. CASE Destroy
  <2>1. \E at, W : Moves(Caller, at, W)
    BY <1>3, GotoMoves, BroadcastMoves DEF Destroy
  <2>2. counter' = counter /\ idle' = idle
    BY <1>3 DEF Destroy
  <2>. QED
    BY <2>1, <2>2, MovesSets DEF CountersExact
<1>4. CASE DestroyWakes
  <2>1. \E at : Moves(Caller, at, {})
    BY <1>4, GotoMoves DEF DestroyWakes
  <2>2. counter' = counter /\ idle' = idle
    BY <1>4 DEF DestroyWakes
  <2>. QED
    BY <2>1, <2>2, MovesSets DEF CountersExact
<1>5. ASSUME NEW t \in Threads, Enter(t)
      PROVE  CountersExact'
  <2>1. t \in Alive /\ t \notin InLoop /\ t \notin Waiting
    BY <1>5 DEF Enter, Alive, InLoop, Waiting
  <2>2. Cardinality(InLoop \cup {t}) = idle + 1
    BY <2>1, CardinalityOfThreads DEF CountersExact, InLoop
  <2>3. CASE first = <<>> /\ ~quit
    <3>1. idle' = idle + 1 /\ counter' = counter /\ pc' = [pc EXCEPT ![t] = "waiting"]
      BY <1>5, <2>3 DEF Enter
    <3>2. Alive' = Alive \cup {t} /\ InLoop' = InLoop \cup {t}
      BY <3>1, GotoMoves, MovesSets
    <3>3. Alive \cup {t} = Alive
      BY <2>1
    <3>. QED
      BY <2>2, <3>1, <3>2, <3>3 DEF CountersExact
  <2>4. CASE ~(first = <<>> /\ ~quit)
    BY <1>5, <2>1, <2>2, <2>4, TakeTaskCounts DEF Enter
  <2>. QED
    BY <2>3, <2>4
<1>6. ASSUME NEW t \in Threads, Wake(t)
      PROVE  CountersExact'
  <2>1. t \in Alive /\ t \in InLoop /\ t \notin Waiting /\ InLoop \cup {t} = InLoop
    BY <1>6 DEF Wake, Alive, InLoop, Waiting
  <2>2. CASE first = <<>> /\ ~quit /\ ~timeout[t]
    <3>1. idle' = idle /\ counter' = counter /\ pc' = [pc EXCEPT ![t] = "waiting"]
      BY <1>6, <2>2 DEF Wake
    <3>2. Alive' = Alive \cup {t} /\ InLoop' = InLoop \cup {t}
      BY <3>1, GotoMoves, MovesSets
    <3>3. Alive \cup {t} = Alive
      BY <2>1
    <3>. QED
      BY <2>1, <3>1, <3>2, <3>3 DEF CountersExact
  <2>3. CASE ~(first = <<>> /\ ~quit /\ ~timeout[t])
    <3>1. TakeTask(t, idle) /\ idle = Cardinality(InLoop \cup {t})
      BY <1>6, <2>1, <2>3 DEF Wake, CountersExact
    <3>. QED
      BY <2>1, <3>1, TakeTaskCounts
  <2>. QED
    BY <2>2, <2>3
<1>7. ASSUME NEW t \in Threads, Run(t)
      PROVE  CountersExact'
  <2>1. Alive' = Alive /\ InLoop' = InLoop
    BY <1>7 DEF Run, Alive, InLoop, TypeOK
  <2>. QED
    BY <1>7, <2>1 DEF Run, CountersExact
<1>8. ASSUME NEW t \in Threads, AfterRun(t)
      PROVE  CountersExact'
  <2>1. t \in Alive /\ t \notin Waiting /\ InLoop \ {t} = InLoop
    BY <1>8 DEF AfterRun, Alive, InLoop, Waiting
  <2>2. Leave(t) /\ idle' = idle
    BY <1>8 DEF AfterRun
  <2>. QED
    BY <2>1, <2>2, LeaveCounts DEF CountersExact
<1>9. ASSUME NEW t \in Threads, TimeOut(t)
      PROVE  CountersExact'
  <2>1. Alive' = Alive /\ InLoop' = InLoop
    BY <1>9 DEF TimeOut, Alive, InLoop, TypeOK, Waiting
  <2>. QED
    BY <1>9, <2>1 DEF TimeOut, CountersExact
<1>10. ASSUME NEW x \in {Caller} \cup Threads, SpuriousWakeup(x)
       PROVE  CountersExact'
  <2>1. Alive' = Alive /\ InLoop' = InLoop
    BY <1>10 DEF SpuriousWakeup, Alive, InLoop, TypeOK, Waiting
  <2>. QED
    BY <1>10, <2>1 DEF SpuriousWakeup, CountersExact
<1>11. CASE UNCHANGED vars
  BY <1>11 DEF vars, CountersExact, Alive, InLoop
<1>. QED
  BY <1>1, <1>2, <1>3, <1>4, <1>5, <1>6, <1>7, <1>8, <1>9, <1>10, <1>11 DEF Next, Listen, Thread

\* counter is the number of threads that have not ended, and idle that of the threads
\* in the waiting loop, those among them that were woken or have timed out included.
THEOREM PoolCountsItsThreads == SafeSpec => []CountersExact
<1>1. Init => CountersExact
  <2>. SUFFICES ASSUME Init PROVE CountersExact
    OBVIOUS
  <2>1. Alive = 1..Connections /\ InLoop = {}
    BY PoolAssumption DEF Init, Alive, InLoop, Threads, Caller
  <2>. QED
    BY <2>1, PoolAssumption, FS_Interval, FS_EmptySet DEF Init, CountersExact
<1>. QED
  BY <1>1, CountersStep, TypeCorrect, PTL DEF SafeSpec

------------------------------------------------------------------------------
(* The tasks.                                                                *)

\* The tasks are numbered through, from those that were started to those on the list.
NumberedThrough ==
    /\ Len(started) + Len(first) = added
    /\ \A n \in 1..Len(started) : started[n] = n
    /\ \A n \in 1..Len(first) : first[n] = Len(started) + n

LEMMA NumberedMeansInOrder ==
  ASSUME TypeOK, NumberedThrough
  PROVE  started \o first = [n \in 1..added |-> n]
<1>1. /\ started \in Seq(Nat) /\ first \in Seq(Nat) /\ added \in Nat
      /\ Len(started) \in Nat /\ Len(first) \in Nat
  BY DEF TypeOK
<1>2. Len(started \o first) = added /\ started \o first \in Seq(Nat)
  BY <1>1, ConcatProperties DEF NumberedThrough
<1>3. \A n \in 1..added : (started \o first)[n] = n
  <2>. TAKE n \in 1..added
  <2>1. CASE n <= Len(started)
    BY <1>1, <2>1 DEF NumberedThrough
  <2>2. CASE n > Len(started)
    <3>1. n - Len(started) \in 1..Len(first)
      BY <1>1, <2>2 DEF NumberedThrough
    <3>2. (started \o first)[n] = first[n - Len(started)]
      BY <1>1, <2>2, <3>1, ConcatProperties
    <3>. QED
      BY <1>1, <3>1, <3>2 DEF NumberedThrough
  <2>3. n <= Len(started) \/ n > Len(started)
    BY <1>1
  <2>. QED
    BY <2>1, <2>2, <2>3
<1>4. started \o first \in [1..added -> Nat]
  BY <1>2, LenProperties
<1>. QED
  BY <1>3, <1>4

\* TasksInOrder is not inductive: that nobody else runs the task that is taken next
\* follows from its number.
TasksInv ==
    /\ NumberedThrough
    /\ \A t \in Threads : task[t] <= Len(started)
    /\ \A t, u \in Threads : task[t] # 0 /\ task[t] = task[u] => t = u

\* A thread takes the first task of the list.
LEMMA TakingKeepsOrder ==
  ASSUME TypeOK, TasksInv, NEW t \in Threads, first # <<>>,
         task' = [task EXCEPT ![t] = Head(first)], first' = Tail(first),
         started' = Append(started, Head(first)), added' = added
  PROVE  TasksInv'
<1>1. Len(first) \in Nat \ {0} /\ Len(started) \in Nat /\ Head(first) = first[1]
  BY DEF TypeOK
<1>2. Head(first) = Len(started) + 1
  BY <1>1 DEF TasksInv, NumberedThrough
<1>3. /\ Len(first') = Len(first) - 1 /\ Len(started') = Len(started) + 1
      /\ \A n \in 1..Len(first') : first'[n] = first[n + 1]
      /\ \A n \in 1..Len(started) : started'[n] = started[n]
      /\ started'[Len(started) + 1] = Head(first)
  BY <1>1 DEF TypeOK
<1>4. NumberedThrough'
  BY <1>1, <1>2, <1>3 DEF TasksInv, NumberedThrough
<1>5. \A u \in Threads : task'[u] = IF u = t THEN Len(started) + 1 ELSE task[u]
  BY <1>2 DEF TypeOK
<1>6. \A u \in Threads : task[u] \in Nat
  BY DEF TypeOK
<1>. QED
  BY <1>1, <1>3, <1>4, <1>5, <1>6 DEF TasksInv

LEMMA TasksStep == TypeOK /\ TasksInv /\ [Next]_vars => TasksInv'
<1>. SUFFICES ASSUME TypeOK, TasksInv, [Next]_vars PROVE TasksInv'
  OBVIOUS
<1>1. ASSUME UNCHANGED <<task, first, started, added>>
      PROVE  TasksInv'
  BY <1>1 DEF TasksInv, NumberedThrough
<1>2. CASE AddTask
  <2>1. /\ UNCHANGED <<task, started>> /\ added' = added + 1
        /\ first' = Append(first, added + 1)
    BY <1>2 DEF AddTask, Enqueue
  <2>2. /\ Len(started) \in Nat /\ Len(first) \in Nat
        /\ Len(first') = Len(first) + 1
        /\ \A n \in 1..Len(first) : first'[n] = first[n]
        /\ first'[Len(first) + 1] = added + 1
    BY <2>1 DEF TypeOK
  <2>3. NumberedThrough'
    BY <2>1, <2>2 DEF TasksInv, NumberedThrough
  <2>. QED
    BY <2>1, <2>3 DEF TasksInv
<1>3. ASSUME NEW t \in Threads, t \notin Waiting, NEW n, TakeTask(t, n), added' = added
      PROVE  TasksInv'
  BY <1>1, <1>3, TakeTaskMoves, TakingKeepsOrder
<1>4. ASSUME NEW t \in Threads, Enter(t)
      PROVE  TasksInv'
  BY <1>1, <1>3, <1>4 DEF Enter, Waiting
<1>5. ASSUME NEW t \in Threads, Wake(t)
      PROVE  TasksInv'
  BY <1>1, <1>3, <1>5 DEF Wake, Waiting
<1>6. ASSUME NEW t \in Threads, AfterRun(t)
      PROVE  TasksInv'
  <2>1. task' = [task EXCEPT ![t] = 0] /\ UNCHANGED <<first, started, added>>
    BY <1>6 DEF AfterRun
  <2>. QED
    BY <2>1 DEF TasksInv, NumberedThrough, TypeOK
<1>. QED
  BY <1>1, <1>2, <1>4, <1>5, <1>6
     DEF Next, Listen, Thread, AcceptFails, Destroy, DestroyWakes, Run, TimeOut,
         SpuriousWakeup, vars

\* Every task that was added is started once, in the order of the connections, and no
\* two threads run the same one; what is not started is still on the list.
THEOREM TasksRunInOrder == SafeSpec => []TasksInOrder
<1>1. Init => TasksInv
  BY DEF Init, TasksInv, NumberedThrough
<1>2. TypeOK /\ TasksInv => TasksInOrder
  BY NumberedMeansInOrder DEF TasksInv, TasksInOrder
<1>. QED
  BY <1>1, <1>2, TasksStep, TypeCorrect, PTL DEF SafeSpec

------------------------------------------------------------------------------
(* The pool's end.                                                           *)

\* Only a thread that has not ended takes a step; all it does to others is wake them.
LEMMA ThreadMoves ==
  ASSUME TypeOK, NEW t \in Threads, Thread(t) \/ TimeOut(t) \/ SpuriousWakeup(t)
  PROVE  t \in Alive /\ \E at, W : Moves(t, at, W)
<1>1. CASE Enter(t)
  <2>1. t \in Alive /\ t \notin Waiting
    BY <1>1 DEF Enter, Alive, Waiting
  <2>. QED
    BY <1>1, <2>1, GotoMoves, TakeTaskMoves, LeaveMoves DEF Enter
<1>2. CASE Wake(t)
  <2>1. t \in Alive /\ t \notin Waiting
    BY <1>2 DEF Wake, Alive, Waiting
  <2>. QED
    BY <1>2, <2>1, GotoMoves, TakeTaskMoves, LeaveMoves DEF Wake
<1>3. CASE Run(t)
  BY <1>3, GotoMoves DEF Run, Alive
<1>4. CASE AfterRun(t)
  <2>1. t \in Alive /\ t \notin Waiting
    BY <1>4 DEF AfterRun, Alive, Waiting
  <2>. QED
    BY <1>4, <2>1, LeaveMoves DEF AfterRun
<1>5. CASE TimeOut(t) \/ SpuriousWakeup(t)
  BY <1>5, GotoMoves DEF TimeOut, SpuriousWakeup, Alive, Waiting
<1>. QED
  BY <1>1, <1>2, <1>3, <1>4, <1>5 DEF Thread

LEMMA ReturnStep == TypeOK /\ CountersExact /\ NobodyOutlivesPool /\ [Next]_vars => NobodyOutlivesPool'
<1>. SUFFICES ASSUME TypeOK, CountersExact, NobodyOutlivesPool, [Next]_vars
              PROVE  NobodyOutlivesPool'
  OBVIOUS
<1>. USE CallerIsNoThread
<1>1. CASE \E t \in Threads : Thread(t) \/ TimeOut(t) \/ SpuriousWakeup(t)
  <2>1. PICK t \in Threads : Thread(t) \/ TimeOut(t) \/ SpuriousWakeup(t)
    BY <1>1
  <2>2. pc[Caller] # "returned"
    BY <2>1, ThreadMoves DEF NobodyOutlivesPool
  <2>3. pc'[Caller] # "returned"
    BY <2>1, <2>2, ThreadMoves DEF Moves
  <2>. QED
    BY <2>3 DEF NobodyOutlivesPool
<1>2. CASE AddTask
  <2>1. pc[Caller] = "listening"
    BY <1>2 DEF AddTask
  <2>2. pc'[Caller] = "listening"
    BY <1>2, <2>1, AddTaskMoves DEF Moves, Waiting
  <2>. QED
    BY <2>2 DEF NobodyOutlivesPool
<1>3. CASE AcceptFails
  BY <1>3 DEF AcceptFails, NobodyOutlivesPool, Alive
<1>4. CASE SpuriousWakeup(Caller)
  BY <1>4 DEF SpuriousWakeup, NobodyOutlivesPool, TypeOK
<1>5. CASE Destroy \/ DestroyWakes
  <2>1. \E at, W : Moves(Caller, at, W)
    BY <1>5, GotoMoves, BroadcastMoves DEF Destroy, DestroyWakes
  <2>2. Alive' = Alive
    BY <2>1, MovesSets
  <2>3. pc'[Caller] = "returned" => ~(counter > 0)
    BY <1>5 DEF Destroy, DestroyWakes, Broadcast, TypeOK
  <2>4. Alive \in SUBSET Threads /\ 1 \in Threads
    BY PoolAssumption DEF Alive, Threads
  <2>5. Cardinality(Alive) \in Nat /\ (Cardinality(Alive) = 0 => Alive = {})
    BY <2>4, CardinalityOfThreads
  <2>. QED
    BY <2>2, <2>3, <2>5 DEF NobodyOutlivesPool, CountersExact
<1>6. CASE UNCHANGED vars
  BY <1>6 DEF vars, NobodyOutlivesPool, Alive
<1>. QED
  BY <1>1, <1>2, <1>3, <1>4, <1>5, <1>6 DEF Next, Listen

\* threadpool_destroy does not return while a thread is left that could touch the
\* pool, a local variable of its caller.
THEOREM PoolOutlivesThreads == SafeSpec => []NobodyOutlivesPool
<1>1. Init => NobodyOutlivesPool
  BY DEF Init, NobodyOutlivesPool
<1>. QED
  BY <1>1, ReturnStep, PoolCountsItsThreads, TypeCorrect, PTL DEF SafeSpec

------------------------------------------------------------------------------
(* The waiting threads and the list.                                         *)

\* Threads that will look at the list before they wait.
Coming == {t \in Threads : pc[t] \in {"new", "woken"}}

\* NoTaskForgotten is not inductive, since one thread that comes takes one task: while
\* anybody waits there have to be as many threads on their way as there are tasks.
EnoughComing == Waiting \cap Threads # {} => Len(first) <= Cardinality(Coming)

LEMMA MoreThreads ==
  ASSUME NEW S \in SUBSET Threads, NEW T \in SUBSET Threads, S \subseteq T
  PROVE  /\ Cardinality(S) \in Nat /\ Cardinality(T) \in Nat
         /\ Cardinality(S) <= Cardinality(T)
         /\ S # T => Cardinality(S) + 1 <= Cardinality(T)
<1>1. IsFiniteSet(Threads)
  BY PoolAssumption, FS_Interval DEF Threads
<1>2. IsFiniteSet(S) /\ IsFiniteSet(T)
  BY <1>1, FS_Subset
<1>3. Cardinality(S) \in Nat /\ Cardinality(T) \in Nat /\ Cardinality(S) <= Cardinality(T)
  BY <1>2, FS_Subset, FS_CardinalityType
<1>4. ASSUME S # T PROVE Cardinality(S) + 1 <= Cardinality(T)
  <2>1. Cardinality(S) # Cardinality(T)
    BY <1>2, <1>4, FS_Subset
  <2>. QED
    BY <1>3, <2>1
<1>. QED
  BY <1>3, <1>4

LEMMA MovesComing ==
  ASSUME TypeOK, NEW x \in {Caller} \cup Threads, NEW at, NEW W, Moves(x, at, W)
  PROVE  /\ Coming \in SUBSET Threads /\ Coming' \in SUBSET Threads
         /\ Coming \ {x} \subseteq Coming'
         /\ x = Caller \/ at \in {"new", "woken"} => Coming \subseteq Coming'
         /\ x = Caller => Coming' = Coming \cup (W \cap Threads)
         /\ at # "waiting" \/ x = Caller =>
               (Waiting \cap Threads)' \subseteq Waiting \cap Threads
  BY CallerIsNoThread DEF TypeOK, Moves, Coming, Waiting

\* If no task is added, more threads come and nobody begins to wait.
LEMMA ComingGrows ==
  ASSUME EnoughComing, first' = first, Coming \in SUBSET Threads, Coming' \in SUBSET Threads,
         Coming \subseteq Coming', (Waiting \cap Threads)' \subseteq Waiting \cap Threads,
         Len(first) \in Nat
  PROVE  EnoughComing'
<1>1. Cardinality(Coming) <= Cardinality(Coming') /\ Cardinality(Coming) \in Nat
        /\ Cardinality(Coming') \in Nat
  BY MoreThreads
<1>. QED
  BY <1>1 DEF EnoughComing

LEMMA NobodyComesForNothing ==
  ASSUME first' = <<>>, Coming' \in SUBSET Threads
  PROVE  EnoughComing'
<1>1. Cardinality(Coming') \in Nat
  BY MoreThreads
<1>. QED
  BY <1>1 DEF EnoughComing

\* The thread that comes takes a task with it.
LEMMA TakeTaskComing ==
  ASSUME TypeOK, EnoughComing, NEW t \in Threads, t \in Coming, t \notin Waiting,
         NEW n, TakeTask(t, n)
  PROVE  EnoughComing'
<1>1. CASE first = <<>>
  <2>1. PICK W : Moves(t, IF counter' = counter THEN "new" ELSE "exited", W)
    BY <1>1, TakeTaskMoves, LeaveMoves
  <2>. QED
    BY <1>1, <2>1, TakeTaskMoves, MovesComing, NobodyComesForNothing
<1>2. CASE first # <<>>
  <2>1. first' = Tail(first) /\ Moves(t, "running", {})
    BY <1>2, TakeTaskMoves
  <2>2. /\ Coming \in SUBSET Threads /\ Coming' \in SUBSET Threads /\ Coming \ {t} \subseteq Coming'
        /\ (Waiting \cap Threads)' \subseteq Waiting \cap Threads
    BY <2>1, MovesComing
  <2>3. Cardinality(Coming \ {t}) = Cardinality(Coming) - 1 /\ Cardinality(Coming) \in Nat
    BY <2>2, CardinalityOfThreads
  <2>4. /\ Cardinality(Coming \ {t}) <= Cardinality(Coming')
        /\ Cardinality(Coming \ {t}) \in Nat /\ Cardinality(Coming') \in Nat
    BY <2>2, MoreThreads
  <2>5. Len(first') = Len(first) - 1 /\ Len(first) \in Nat
    BY <1>2, <2>1 DEF TypeOK
  <2>. QED
    BY <2>2, <2>3, <2>4, <2>5 DEF EnoughComing
<1>. QED
  BY <1>1, <1>2

LEMMA ComingStep == TypeOK /\ CountersExact /\ EnoughComing /\ [Next]_vars => EnoughComing'
<1>. SUFFICES ASSUME TypeOK, CountersExact, EnoughComing, [Next]_vars PROVE EnoughComing'
  OBVIOUS
<1>. USE CallerIsNoThread
<1>1. Len(first) \in Nat
  BY DEF TypeOK
<1>2. ASSUME UNCHANGED <<pc, first>>
      PROVE  EnoughComing'
  BY <1>2 DEF EnoughComing, Waiting, Coming
<1>3. CASE AddTask
  <2>1. Len(first') = Len(first) + 1
    BY <1>3 DEF AddTask, Enqueue, TypeOK
  <2>2. Waiting \subseteq Threads
    BY <1>3 DEF AddTask, Waiting, TypeOK
  <2>3. ASSUME NEW W, Moves(Caller, "listening", W), Waiting # {} => W # {}
        PROVE  EnoughComing'
    <3>1. /\ Coming \in SUBSET Threads /\ Coming' \in SUBSET Threads
          /\ Coming' = Coming \cup (W \cap Threads)
          /\ (Waiting \cap Threads)' \subseteq Waiting \cap Threads
      BY <2>3, MovesComing
    <3>2. CASE Waiting = {}
      BY <3>1, <3>2 DEF EnoughComing
    <3>3. CASE Waiting # {}
      <4>1. W # {} /\ W \subseteq Threads /\ W \cap Coming = {}
        BY <2>2, <2>3, <3>3 DEF Moves, Coming, Waiting
      <4>2. Coming # Coming'
        BY <3>1, <4>1
      <4>3. /\ Cardinality(Coming) + 1 <= Cardinality(Coming')
            /\ Cardinality(Coming) \in Nat /\ Cardinality(Coming') \in Nat
        BY <3>1, <4>2, MoreThreads
      <4>. QED
        BY <1>1, <2>1, <3>1, <4>3 DEF EnoughComing
    <3>. QED
      BY <3>2, <3>3
  <2>4. ASSUME idle <= 0
        PROVE  Waiting \cap Threads = {}
    <3>1. InLoop \in SUBSET Threads /\ 1 \in Threads
      BY PoolAssumption DEF InLoop, Threads
    <3>2. Cardinality(InLoop) \in Nat /\ (Cardinality(InLoop) = 0 => InLoop = {})
      BY <3>1, CardinalityOfThreads
    <3>3. InLoop = {}
      BY <2>4, <3>2 DEF CountersExact
    <3>. QED
      BY <3>3 DEF InLoop, Waiting
  <2>5. ASSUME idle <= 0, NEW t \in Threads, Moves(t, "new", {})
        PROVE  EnoughComing'
    BY <2>4, <2>5, MovesComing DEF EnoughComing
  <2>6. ASSUME idle <= 0, pc' = pc
        PROVE  EnoughComing'
    BY <2>4, <2>6 DEF EnoughComing, Waiting
  <2>. QED
    BY <1>3, <2>3, <2>5, <2>6, AddTaskMoves
<1>4. CASE Destroy \/ DestroyWakes
  <2>1. \E at, W : Moves(Caller, at, W)
    BY <1>4, GotoMoves, BroadcastMoves DEF Destroy, DestroyWakes
  <2>2. first' = first
    BY <1>4 DEF Destroy, DestroyWakes
  <2>. QED
    BY <1>1, <2>1, <2>2, MovesComing, ComingGrows
<1>5. ASSUME NEW t \in Threads, Enter(t)
      PROVE  EnoughComing'
  <2>1. t \in Coming /\ t \notin Waiting
    BY <1>5 DEF Enter, Coming, Waiting
  <2>2. CASE first = <<>> /\ ~quit
    <3>1. first' = <<>> /\ Moves(t, "waiting", {})
      BY <1>5, <2>2, GotoMoves DEF Enter
    <3>. QED
      BY <3>1, MovesComing, NobodyComesForNothing
  <2>3. CASE ~(first = <<>> /\ ~quit)
    BY <1>5, <2>1, <2>3, TakeTaskComing DEF Enter
  <2>. QED
    BY <2>2, <2>3
<1>6. ASSUME NEW t \in Threads, Wake(t)
      PROVE  EnoughComing'
  <2>1. t \in Coming /\ t \notin Waiting
    BY <1>6 DEF Wake, Coming, Waiting
  <2>2. CASE first = <<>> /\ ~quit /\ ~timeout[t]
    <3>1. first' = <<>> /\ Moves(t, "waiting", {})
      BY <1>6, <2>2, GotoMoves DEF Wake
    <3>. QED
      BY <3>1, MovesComing, NobodyComesForNothing
  <2>3. CASE ~(first = <<>> /\ ~quit /\ ~timeout[t])
    BY <1>6, <2>1, <2>3, TakeTaskComing DEF Wake
  <2>. QED
    BY <2>2, <2>3
<1>7. ASSUME NEW t \in Threads, Run(t)
      PROVE  EnoughComing'
  <2>1. t \notin Coming /\ Moves(t, "ran", {}) /\ first' = first
    BY <1>7, GotoMoves DEF Run, Coming
  <2>2. Coming \ {t} = Coming
    BY <2>1
  <2>. QED
    BY <1>1, <2>1, <2>2, MovesComing, ComingGrows
<1>8. ASSUME NEW t \in Threads, AfterRun(t)
      PROVE  EnoughComing'
  <2>1. t \notin Coming /\ t \notin Waiting /\ first' = first /\ Leave(t)
    BY <1>8 DEF AfterRun, Coming, Waiting
  <2>2. PICK W : Moves(t, IF counter' = counter THEN "new" ELSE "exited", W)
    BY <2>1, LeaveMoves
  <2>3. Coming \ {t} = Coming
    BY <2>1
  <2>. QED
    BY <1>1, <2>1, <2>2, <2>3, MovesComing, ComingGrows
<1>9. ASSUME NEW x \in {Caller} \cup Threads, TimeOut(x) \/ SpuriousWakeup(x)
      PROVE  EnoughComing'
  <2>1. Moves(x, "woken", {}) /\ first' = first
    BY <1>9, GotoMoves DEF TimeOut, SpuriousWakeup
  <2>. QED
    BY <1>1, <2>1, MovesComing, ComingGrows
<1>. QED
  BY <1>2, <1>3, <1>4, <1>5, <1>6, <1>7, <1>8, <1>9
     DEF Next, Listen, Thread, AcceptFails, vars

\* No thread waits beside a task that nobody is bound to come for: a signal that went
\* to a thread which found the list empty, or whose wait had timed out, is not missed.
THEOREM SomebodyComes == SafeSpec => []NoTaskForgotten
<1>1. Init => EnoughComing
  <2>. SUFFICES ASSUME Init PROVE EnoughComing
    OBVIOUS
  <2>1. Waiting \cap Threads = {}
    BY DEF Init, Waiting
  <2>. QED
    BY <2>1 DEF EnoughComing
<1>2. TypeOK /\ EnoughComing => NoTaskForgotten
  <2>. SUFFICES ASSUME TypeOK, EnoughComing, first # <<>>, Waiting \cap Threads # {}
                PROVE  \E t \in Alive : pc[t] \in {"new", "woken", "running", "ran"}
    BY DEF NoTaskForgotten
  <2>1. Len(first) \in Nat \ {0} /\ Len(first) <= Cardinality(Coming)
    BY DEF TypeOK, EnoughComing
  <2>2. Coming # {}
    BY <2>1, FS_EmptySet
  <2>. QED
    BY <2>2 DEF Coming, Alive
<1>. QED
  BY <1>1, <1>2, ComingStep, PoolCountsItsThreads, TypeCorrect, PTL DEF SafeSpec

------------------------------------------------------------------------------
(* The tasks at the pool's end.                                              *)

\* Before a wait has timed out, threads end only once the pool is to end and the list
\* is empty; no task is added after that.
EndsInTime ==
    /\ quit => pc[Caller] # "listening"
    /\ pc[1] # "absent"
    /\ ~late => \A t \in Threads : ~timeout[t] /\ (pc[t] = "exited" => quit /\ first = <<>>)

\* The effect of a step that leaves the caller alone and ends no thread but t.
LEMMA ThreadEndsInTime ==
  ASSUME TypeOK, EndsInTime, NEW t \in Threads, pc[t] # "absent", NEW at, at # "absent",
         NEW W, Moves(t, at, W), quit' = quit, late' = late,
         first = <<>> => first' = <<>>,
         timeout' = timeout \/ timeout' = [timeout EXCEPT ![t] = FALSE],
         at = "exited" => timeout[t] \/ (quit /\ first' = <<>>)
  PROVE  EndsInTime'
<1>1. 1 \in Threads
  BY PoolAssumption DEF Threads
<1>2. \A u \in {Caller} \cup Threads :
          pc'[u] = IF u = t THEN at ELSE IF u \in W THEN "woken" ELSE pc[u]
  BY DEF Moves
<1>3. \A u \in Threads : timeout'[u] => timeout[u]
  BY DEF TypeOK
<1>4. pc'[Caller] = "listening" => pc[Caller] = "listening"
  BY <1>2, CallerIsNoThread
<1>5. pc'[1] # "absent"
  BY <1>1, <1>2 DEF EndsInTime
<1>6. ASSUME ~late', NEW u \in Threads
      PROVE  ~timeout'[u] /\ (pc'[u] = "exited" => quit' /\ first' = <<>>)
  <2>1. ~timeout[u] /\ ~timeout[t] /\ (pc[u] = "exited" => quit /\ first = <<>>)
    BY <1>6 DEF EndsInTime
  <2>. QED
    BY <1>2, <1>3, <2>1
<1>. QED
  BY <1>4, <1>5, <1>6 DEF EndsInTime

LEMMA TakeTaskEndsInTime ==
  ASSUME TypeOK, EndsInTime, NEW t \in Threads, t \notin Waiting, pc[t] # "absent",
         NEW n, TakeTask(t, n), quit' = quit, late' = late,
         timeout' = timeout \/ timeout' = [timeout EXCEPT ![t] = FALSE]
  PROVE  EndsInTime'
<1>1. CASE first # <<>>
  BY <1>1, TakeTaskMoves, ThreadEndsInTime
<1>2. CASE first = <<>>
  <2>1. Leave(t) /\ first' = <<>>
    BY <1>2, TakeTaskMoves
  <2>2. PICK at, W : /\ at \in {"new", "exited"} /\ Moves(t, at, W)
                     /\ at = "exited" => timeout[t] \/ (quit /\ first' = <<>>)
    BY <2>1, LeaveMoves
  <2>. QED
    BY <2>1, <2>2, ThreadEndsInTime
<1>. QED
  BY <1>1, <1>2

\* The effect of a step of the caller.
LEMMA CallerEndsInTime ==
  ASSUME TypeOK, EndsInTime, NEW at, NEW W, Moves(Caller, at, W),
         timeout' = timeout, late' = late, quit => quit',
         quit' => at # "listening" /\ first' = first
  PROVE  EndsInTime'
<1>1. 1 \in Threads
  BY PoolAssumption DEF Threads
<1>2. \A u \in {Caller} \cup Threads :
          pc'[u] = IF u = Caller THEN at ELSE IF u \in W THEN "woken" ELSE pc[u]
  BY DEF Moves
<1>. QED
  BY <1>1, <1>2, CallerIsNoThread DEF EndsInTime

LEMMA EndsInTimeStep == TypeOK /\ EndsInTime /\ [Next]_vars => EndsInTime'
<1>. SUFFICES ASSUME TypeOK, EndsInTime, [Next]_vars PROVE EndsInTime'
  OBVIOUS
<1>. USE CallerIsNoThread
<1>1. ASSUME UNCHANGED <<pc, timeout, quit, late, first>>
      PROVE  EndsInTime'
  BY <1>1 DEF EndsInTime
<1>2. CASE AddTask
  <2>1. /\ UNCHANGED <<timeout, quit, late>> /\ pc[Caller] = "listening" /\ ~quit
    BY <1>2 DEF AddTask, EndsInTime
  <2>2. ASSUME NEW t \in Threads, pc[t] = "absent", Moves(t, "new", {})
        PROVE  EndsInTime'
    <3>1. \A u \in {Caller} \cup Threads : pc'[u] = IF u = t THEN "new" ELSE pc[u]
      BY <2>2 DEF Moves
    <3>2. 1 \in Threads
      BY PoolAssumption DEF Threads
    <3>. QED
      BY <2>1, <3>1, <3>2 DEF EndsInTime
  <2>3. ASSUME pc' = pc
        PROVE  EndsInTime'
    BY <2>1, <2>3 DEF EndsInTime
  <2>. QED
    BY <1>2, <2>1, <2>2, <2>3, AddTaskMoves, CallerEndsInTime
<1>3. CASE Destroy \/ DestroyWakes
  <2>1. \E at, W : at # "listening" /\ Moves(Caller, at, W)
    BY <1>3, GotoMoves, BroadcastMoves DEF Destroy, DestroyWakes
  <2>2. UNCHANGED <<timeout, first, late>> /\ (quit => quit')
    BY <1>3 DEF Destroy, DestroyWakes
  <2>. QED
    BY <2>1, <2>2, CallerEndsInTime
<1>4. ASSUME NEW t \in Threads, Enter(t)
      PROVE  EndsInTime'
  <2>1. /\ t \notin Waiting /\ pc[t] # "absent" /\ quit' = quit /\ late' = late
        /\ timeout' = [timeout EXCEPT ![t] = FALSE]
    BY <1>4 DEF Enter, Waiting
  <2>2. CASE first = <<>> /\ ~quit
    <3>1. Moves(t, "waiting", {}) /\ first' = first
      BY <1>4, <2>2, GotoMoves DEF Enter
    <3>. QED
      BY <2>1, <3>1, ThreadEndsInTime
  <2>3. CASE ~(first = <<>> /\ ~quit)
    BY <1>4, <2>1, <2>3, TakeTaskEndsInTime DEF Enter
  <2>. QED
    BY <2>2, <2>3
<1>5. ASSUME NEW t \in Threads, Wake(t)
      PROVE  EndsInTime'
  <2>1. t \notin Waiting /\ pc[t] # "absent" /\ UNCHANGED <<quit, late, timeout>>
    BY <1>5 DEF Wake, Waiting
  <2>2. CASE first = <<>> /\ ~quit /\ ~timeout[t]
    <3>1. Moves(t, "waiting", {}) /\ first' = first
      BY <1>5, <2>2, GotoMoves DEF Wake
    <3>. QED
      BY <2>1, <3>1, ThreadEndsInTime
  <2>3. CASE ~(first = <<>> /\ ~quit /\ ~timeout[t])
    BY <1>5, <2>1, <2>3, TakeTaskEndsInTime DEF Wake
  <2>. QED
    BY <2>2, <2>3
<1>6. ASSUME NEW t \in Threads, Run(t)
      PROVE  EndsInTime'
  <2>1. /\ pc[t] # "absent" /\ Moves(t, "ran", {})
        /\ UNCHANGED <<quit, late, timeout, first>>
    BY <1>6, GotoMoves DEF Run
  <2>. QED
    BY <2>1, ThreadEndsInTime
<1>7. ASSUME NEW t \in Threads, AfterRun(t)
      PROVE  EndsInTime'
  <2>1. /\ pc[t] # "absent" /\ t \notin Waiting /\ Leave(t)
        /\ UNCHANGED <<quit, late, timeout, first>>
    BY <1>7 DEF AfterRun, Waiting
  <2>2. PICK at, W : /\ at \in {"new", "exited"} /\ Moves(t, at, W)
                     /\ at = "exited" => timeout[t] \/ (quit /\ first' = <<>>)
    BY <2>1, LeaveMoves
  <2>. QED
    BY <2>1, <2>2, ThreadEndsInTime
<1>8. ASSUME NEW t \in Threads, TimeOut(t)
      PROVE  EndsInTime'
  <2>1. \A u \in {Caller} \cup Threads : pc'[u] = IF u = t THEN "woken" ELSE pc[u]
    BY <1>8 DEF TimeOut, TypeOK
  <2>2. late' = TRUE /\ quit' = quit /\ 1 \in Threads
    BY <1>8, PoolAssumption DEF TimeOut, Threads
  <2>. QED
    BY <2>1, <2>2 DEF EndsInTime
<1>9. ASSUME NEW x \in {Caller} \cup Threads, SpuriousWakeup(x)
      PROVE  EndsInTime'
  <2>1. \A u \in {Caller} \cup Threads : pc'[u] = IF u = x THEN "woken" ELSE pc[u]
    BY <1>9 DEF SpuriousWakeup, TypeOK
  <2>2. UNCHANGED <<timeout, quit, late, first>> /\ 1 \in Threads
    BY <1>9, PoolAssumption DEF SpuriousWakeup, Threads
  <2>. QED
    BY <2>1, <2>2 DEF EndsInTime
<1>. QED
  BY <1>1, <1>2, <1>3, <1>4, <1>5, <1>6, <1>7, <1>8, <1>9
     DEF Next, Listen, Thread, AcceptFails, vars

\* What threadpool.c:81 says of the end, "all tasks are finished", is true as long as no
\* wait has timed out: the handlers that the caller counts on have been called.
THEOREM TasksDoneUnlessLate == SafeSpec => [](~late => AllTasksDone)
<1>1. Init => EndsInTime
  BY PoolAssumption DEF Init, EndsInTime, Caller, Threads
<1>2. EndsInTime /\ NobodyOutlivesPool => (~late => AllTasksDone)
  <2>. SUFFICES ASSUME EndsInTime, NobodyOutlivesPool, ~late, pc[Caller] = "returned"
                PROVE  first = <<>>
    BY DEF AllTasksDone
  <2>1. 1 \in Threads
    BY PoolAssumption DEF Threads
  <2>2. pc[1] = "exited"
    BY <2>1 DEF EndsInTime, NobodyOutlivesPool, Alive
  <2>. QED
    BY <2>1, <2>2 DEF EndsInTime
<1>. QED
  BY <1>1, <1>2, EndsInTimeStep, PoolOutlivesThreads, TypeCorrect, PTL DEF SafeSpec
==============================================================================
