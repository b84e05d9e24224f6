--------------------------- MODULE ThreadSafeQueue ---------------------------
(***************************************************************************)
(* The message queue every participant of the threaded build owns          *)
(* (TSS/src/thread/ThreadSafeQueue.c): a singly linked list of Msg nodes   *)
(* between two pointers, one mutex and one condition variable.             *)
(*                                                                         *)
(* Each read or write of the list that another thread could tell apart is  *)
(* a step of its own, so that it is the mutex, and not the grain of the    *)
(* model, that keeps two threads from corrupting the list.                 *)
(***************************************************************************)
EXTENDS Naturals, Sequences, FiniteSets

CONSTANTS
    Pushers,    \* the threads that call ThreadSafeQueue_Push
    Poppers,    \* the threads that call ThreadSafeQueue_Pop
    Nodes,      \* the addresses of Msg nodes
    NULL        \* the null pointer; also "nobody" as the holder of the mutex

Threads == Pushers \cup Poppers

ASSUME QueueAssumption ==
    /\ IsFiniteSet(Poppers)
    /\ Pushers \cap Poppers = {}
    /\ NULL \notin Nodes
    /\ NULL \notin Threads

VARIABLES
    head, tail, \* queue->head, queue->tail
    next,       \* the next field of every node
    lock,       \* the thread that holds queue->lock, or NULL
    pc,         \* where each thread is in Push or Pop
    msg,        \* each thread's newMsg (Push) or msg (Pop)
    packed,     \* the nodes Pack_Msg has already handed out
    sent,       \* history: the nodes whose Push took effect, in order
    delivered   \* history: the nodes Pop took off the list, in order

list == <<head, tail, next>>
history == <<sent, delivered>>
vars == <<head, tail, next, lock, pc, msg, packed, sent, delivered>>

PushPC == {"idle", "push_lock", "link", "set_tail", "signal", "push_unlock"}
PopPC  == {"idle", "pop_lock", "test", "asleep", "woken", "unlink", "pop_unlock"}

\* The program counters at which a thread is inside the critical section.
InsidePC == {"link", "set_tail", "signal", "push_unlock", "test", "unlink", "pop_unlock"}

Init ==
    /\ head = NULL /\ tail = NULL
    /\ next \in [Nodes -> Nodes \cup {NULL}]    \* malloc leaves it undefined
    /\ lock = NULL
    /\ pc = [t \in Threads |-> "idle"]
    /\ msg = [t \in Threads |-> NULL]
    /\ packed = {}
    /\ sent = <<>> /\ delivered = <<>>

Goto(t, from, to) == pc[t] = from /\ pc' = [pc EXCEPT ![t] = to]

Acquire(t, from, to) ==
    /\ Goto(t, from, to)
    /\ lock = NULL /\ lock' = t
    /\ UNCHANGED <<list, msg, packed, history>>

Release(t, from, to) ==
    /\ Goto(t, from, to)
    /\ lock' = NULL
    /\ UNCHANGED <<list, msg, packed, history>>

------------------------------------------------------------------------------
(* ThreadSafeQueue_Push, on a node packed by Pack_Msg.                       *)

\* Pack_Msg: a new node, its next field cleared.
PackMsg(t, m) ==
    /\ Goto(t, "idle", "push_lock")
    /\ m \notin packed /\ packed' = packed \cup {m}
    /\ next' = [next EXCEPT ![m] = NULL]
    /\ msg' = [msg EXCEPT ![t] = m]
    /\ UNCHANGED <<head, tail, lock, history>>

PushLock(t) == Acquire(t, "push_lock", "link")

\* The first write of either branch of `if (queue->tail == NULL)`.
LinkNode(t) ==
    /\ Goto(t, "link", "set_tail")
    /\ IF tail = NULL
       THEN head' = msg[t] /\ UNCHANGED next
       ELSE next' = [next EXCEPT ![tail] = msg[t]] /\ UNCHANGED head
    /\ UNCHANGED <<tail, lock, msg, packed, history>>

\* queue->tail = newMsg: from here on the node is in the queue.
SetTail(t) ==
    /\ Goto(t, "set_tail", "signal")
    /\ tail' = msg[t]
    /\ sent' = Append(sent, msg[t])
    /\ UNCHANGED <<head, next, lock, msg, packed, delivered>>

Asleep == {p \in Poppers : pc[p] = "asleep"}

\* Fault: signal only when the new node is the only one.
SignalFirstOnly(t) ==
    /\ pc[t] = "signal"
    /\ IF Asleep = {} \/ head # tail
       THEN pc' = [pc EXCEPT ![t] = "push_unlock"]
       ELSE \E p \in Asleep : pc' = [pc EXCEPT ![t] = "push_unlock", ![p] = "woken"]
    /\ UNCHANGED <<list, lock, msg, packed, history>>

\* Fault: no signal.
SignalNobody(t) ==
    /\ Goto(t, "signal", "push_unlock")
    /\ UNCHANGED <<list, lock, msg, packed, history>>

\* pthread_cond_signal: one of the sleepers, if there is any, is woken.
Signal(t) ==
    /\ pc[t] = "signal"
    /\ IF Asleep = {}
       THEN pc' = [pc EXCEPT ![t] = "push_unlock"]
       ELSE \E p \in Asleep : pc' = [pc EXCEPT ![t] = "push_unlock", ![p] = "woken"]
    /\ UNCHANGED <<list, lock, msg, packed, history>>

PushUnlock(t) == Release(t, "push_unlock", "idle")

------------------------------------------------------------------------------
(* ThreadSafeQueue_Pop.                                                      *)

CallPop(t) ==
    /\ Goto(t, "idle", "pop_lock")
    /\ UNCHANGED <<list, lock, msg, packed, history>>

\* Fault: Pop does not take the mutex.
PopWithoutLock(t) ==
    /\ Goto(t, "pop_lock", "test")
    /\ UNCHANGED <<list, lock, msg, packed, history>>

PopLock(t) == Acquire(t, "pop_lock", "test")

\* Fault: the receiver keeps the mutex while it sleeps.
WaitHoldingLock(t) ==
    /\ head = NULL
    /\ Goto(t, "test", "asleep")
    /\ UNCHANGED <<list, lock, msg, packed, history>>

\* The loop test fails to find a node: pthread_cond_wait releases the mutex
\* and goes to sleep in one step.
Wait(t) == head = NULL /\ Release(t, "test", "asleep")

\* pthread_cond_wait may return without a signal.
SpuriousWakeup(t) ==
    /\ Goto(t, "asleep", "woken")
    /\ UNCHANGED <<list, lock, msg, packed, history>>

\* pthread_cond_wait takes the mutex again before it returns to the test.
Relock(t) == Acquire(t, "woken", "test")

\* Fault: `if` in place of `while`, so that a wakeup is taken for a message.
ReadHeadUntested(t) ==
    /\ Goto(t, "test", "unlink")
    /\ msg' = [msg EXCEPT ![t] = head]
    /\ UNCHANGED <<list, lock, packed, history>>

\* The loop test finds a node: msg = queue->head.
ReadHead(t) ==
    /\ head # NULL
    /\ Goto(t, "test", "unlink")
    /\ msg' = [msg EXCEPT ![t] = head]
    /\ UNCHANGED <<list, lock, packed, history>>

\* Fault: the tail still points to the node when the last one leaves.
UnlinkKeepingTail(t) ==
    /\ Goto(t, "unlink", "pop_unlock")
    /\ head' = IF head = tail THEN NULL ELSE next[msg[t]]
    /\ delivered' = Append(delivered, msg[t])
    /\ UNCHANGED <<tail, next, lock, msg, packed, sent>>

\* `if (queue->head == queue->tail)` and the writes of its branches.
Unlink(t) ==
    /\ Goto(t, "unlink", "pop_unlock")
    /\ IF head = tail
       THEN head' = NULL /\ tail' = NULL
       ELSE head' = next[msg[t]] /\ UNCHANGED tail
    /\ delivered' = Append(delivered, msg[t])
    /\ UNCHANGED <<next, lock, msg, packed, sent>>

PopUnlock(t) == Release(t, "pop_unlock", "idle")

------------------------------------------------------------------------------
Push(t) ==
    \/ \E m \in Nodes : PackMsg(t, m)
    \/ PushLock(t) \/ LinkNode(t) \/ SetTail(t) \/ Signal(t) \/ PushUnlock(t)

Pop(t) ==
    \/ CallPop(t) \/ PopLock(t) \/ Wait(t) \/ SpuriousWakeup(t) \/ Relock(t)
    \/ ReadHead(t) \/ Unlink(t) \/ PopUnlock(t)

Next ==
    \/ \E t \in Pushers : Push(t)
    \/ \E t \in Poppers : Pop(t)

SafeSpec == Init /\ [][Next]_vars

\* A thread that is inside Push runs on, a receiver keeps calling Pop, and a
\* thread that waits for the mutex gets it in turn. No thread is obliged to
\* push, and no wakeup is obliged to be spurious.
Fairness ==
    /\ \A t \in Pushers :
         SF_vars(PushLock(t)) /\ WF_vars(LinkNode(t) \/ SetTail(t) \/ Signal(t) \/ PushUnlock(t))
    /\ \A t \in Poppers :
         /\ SF_vars(PopLock(t)) /\ SF_vars(Relock(t))
         /\ WF_vars(CallPop(t) \/ Wait(t) \/ ReadHead(t) \/ Unlink(t) \/ PopUnlock(t))

Spec == SafeSpec /\ Fairness

------------------------------------------------------------------------------
(* Properties.                                                               *)

\* A thread's msg is a node from the call of Push until the node is linked, and
\* from the read of the head in Pop until it is unlinked.
HoldsNodePC == {"push_lock", "link", "set_tail", "unlink"}

TypeOK ==
    /\ head \in Nodes \cup {NULL} /\ tail \in Nodes \cup {NULL}
    /\ next \in [Nodes -> Nodes \cup {NULL}]
    /\ lock \in Threads \cup {NULL}
    /\ pc \in [Threads -> PushPC \cup PopPC]
    /\ \A t \in Pushers : pc[t] \in PushPC
    /\ \A t \in Poppers : pc[t] \in PopPC
    /\ msg \in [Threads -> Nodes \cup {NULL}]
    /\ \A t \in Threads : pc[t] \in HoldsNodePC => msg[t] # NULL
    /\ packed \subseteq Nodes
    /\ sent \in Seq(Nodes) /\ delivered \in Seq(Nodes)

\* The thread inside a critical section of the queue is the one that holds the
\* mutex (lines 28 to 38 and 43 to 57 of ThreadSafeQueue.c).
LockHeldInside == \A t \in Threads : pc[t] \in InsidePC <=> lock = t

\* How many messages wait in the queue.
Waiting == Len(sent) - Len(delivered)

\* The nodes that wait form exactly the chain from head to tail, and the chain
\* ends: the last node has no successor.
WellLinked ==
    /\ Waiting = 0 => head = NULL /\ tail = NULL
    /\ Waiting > 0 =>
         /\ head = sent[Len(delivered) + 1]
         /\ tail = sent[Len(sent)]
         /\ next[tail] = NULL
    /\ \A i \in Len(delivered)+1 .. Len(sent)-1 : next[sent[i]] = sent[i+1]

\* Whenever no thread is half way through an update, the list holds what was
\* pushed and not yet popped, in order. Push and Pop patch the two pointers and
\* a next field in separate writes, with special cases for the empty list and
\* for the last node.
ListIntact == lock = NULL => WellLinked

\* Pop returns the messages in the order in which Push took effect, each of them
\* once: what was delivered is a prefix of what was sent.
FifoOrder ==
    /\ Len(delivered) <= Len(sent)
    /\ \A i \in 1..Len(delivered) : delivered[i] = sent[i]

\* Receivers on their way to the loop test of Pop, or past it with a node in hand
\* that is still linked.
Rousing == {p \in Poppers : pc[p] \in {"woken", "test", "unlink"}}

\* One if a sender has linked its node and not signalled yet.
SignalDue == IF \E t \in Pushers : pc[t] = "signal" THEN 1 ELSE 0

\* No wakeup is lost: while a receiver sleeps, each message that waits has a
\* receiver on its way to the loop test, or a sender about to signal. Push
\* signals once per message and only wakes one sleeper, so a receiver that
\* arrives in between must not leave another one asleep beside a message.
NoLostWakeup ==
    Asleep # {} => Waiting <= Cardinality(Rousing) + SignalDue

\* The queue is a FIFO channel that loses nothing.
Channel == INSTANCE FifoChannel WITH Messages <- Nodes
ImplementsChannel == Channel!Spec
==============================================================================
