----------------------- MODULE ThreadSafeQueueProofs -----------------------
(***************************************************************************)
(* Proofs about the queue, for any number of senders, receivers and nodes. *)
(***************************************************************************)
EXTENDS ThreadSafeQueue, FiniteSetTheorems, TLAPS

\* Every variable of the queue has its type; a thread that links or unlinks a
\* message has one, so ThreadSafeQueue_Pop never takes NULL for a message.
THEOREM TypeCorrect == SafeSpec => []TypeOK
<1>1. Init => TypeOK
  BY QueueAssumption DEF Init, TypeOK, HoldsNodePC, PushPC, PopPC, Threads
<1>2. TypeOK /\ [Next]_vars => TypeOK'
  <2>. SUFFICES ASSUME TypeOK, [Next]_vars PROVE TypeOK'
    OBVIOUS
  <2>. USE QueueAssumption DEF TypeOK, HoldsNodePC
  <2>1. ASSUME NEW t \in Pushers, NEW m \in Nodes, PackMsg(t, m)
        PROVE  TypeOK'
    BY <2>1 DEF PackMsg, Goto, PushPC, PopPC, Threads, list, history
  <2>2. ASSUME NEW t \in Pushers, PushLock(t)
        PROVE  TypeOK'
    BY <2>2 DEF PushLock, Acquire, Goto, PushPC, PopPC, Threads, list, history
  <2>3. ASSUME NEW t \in Pushers, LinkNode(t)
        PROVE  TypeOK'
    BY <2>3 DEF LinkNode, Goto, PushPC, PopPC, Threads, list, history
  <2>4. ASSUME NEW t \in Pushers, SetTail(t)
        PROVE  TypeOK'
    BY <2>4 DEF SetTail, Goto, PushPC, PopPC, Threads, list, history
  <2>5. ASSUME NEW t \in Pushers, Signal(t)
        PROVE  TypeOK'
    BY <2>5 DEF Signal, Asleep, Goto, PushPC, PopPC, Threads, list, history
  <2>6. ASSUME NEW t \in Pushers, PushUnlock(t)
        PROVE  TypeOK'
    BY <2>6 DEF PushUnlock, Release, Goto, PushPC, PopPC, Threads, list, history
  <2>7. ASSUME NEW t \in Poppers, CallPop(t)
        PROVE  TypeOK'
    BY <2>7 DEF CallPop, Goto, PushPC, PopPC, Threads, list, history
  <2>8. ASSUME NEW t \in Poppers, PopLock(t)
        PROVE  TypeOK'
    BY <2>8 DEF PopLock, Acquire, Goto, PushPC, PopPC, Threads, list, history
  <2>9. ASSUME NEW t \in Poppers, Wait(t)
        PROVE  TypeOK'
    BY <2>9 DEF Wait, Release, Goto, PushPC, PopPC, Threads, list, history
  <2>10. ASSUME NEW t \in Poppers, SpuriousWakeup(t)
        PROVE  TypeOK'
    BY <2>10 DEF SpuriousWakeup, Goto, PushPC, PopPC, Threads, list, history
  <2>11. ASSUME NEW t \in Poppers, Relock(t)
        PROVE  TypeOK'
    BY <2>11 DEF Relock, Acquire, Goto, PushPC, PopPC, Threads, list, history
  <2>12. ASSUME NEW t \in Poppers, ReadHead(t)
        PROVE  TypeOK'
    BY <2>12 DEF ReadHead, Goto, PushPC, PopPC, Threads, list, history
  <2>13. ASSUME NEW t \in Poppers, Unlink(t)
        PROVE  TypeOK'
    BY <2>13 DEF Unlink, Goto, PushPC, PopPC, Threads, list, history
  <2>14. ASSUME NEW t \in Poppers, PopUnlock(t)
        PROVE  TypeOK'
    BY <2>14 DEF PopUnlock, Release, Goto, PushPC, PopPC, Threads, list, history
  <2>15. CASE UNCHANGED vars
    BY <2>15 DEF vars, list, history, PushPC, PopPC, Threads, list, history
  <2>. QED
    BY <2>1, <2>2, <2>3, <2>4, <2>5, <2>6, <2>7, <2>8, <2>9, <2>10, <2>11, <2>12, <2>13, <2>14, <2>15 DEF Next, Push, Pop
<1>. QED
  BY <1>1, <1>2, PTL DEF SafeSpec

----------------------------------------------------------------------------
(* The mutex. *)

\* Between pthread_mutex_lock and pthread_mutex_unlock, the time in a wait left
\* out, a thread holds the mutex, and nobody else does.
THEOREM MutexHeld == SafeSpec => []LockHeldInside
<1>1. Init => LockHeldInside
  BY QueueAssumption DEF Init, LockHeldInside, InsidePC, Threads
<1>2. TypeOK /\ LockHeldInside /\ [Next]_vars => LockHeldInside'
  <2>. SUFFICES ASSUME TypeOK, LockHeldInside, [Next]_vars PROVE LockHeldInside'
    OBVIOUS
  <2>. USE QueueAssumption DEF TypeOK, LockHeldInside, InsidePC
  <2>1. ASSUME NEW t \in Pushers, NEW m \in Nodes, PackMsg(t, m)
        PROVE  LockHeldInside'
    BY <2>1 DEF PackMsg, Goto, Threads, list, history
  <2>2. ASSUME NEW t \in Pushers, PushLock(t)
        PROVE  LockHeldInside'
    BY <2>2 DEF PushLock, Acquire, Goto, Threads, list, history
  <2>3. ASSUME NEW t \in Pushers, LinkNode(t)
        PROVE  LockHeldInside'
    BY <2>3 DEF LinkNode, Goto, Threads, list, history
  <2>4. ASSUME NEW t \in Pushers, SetTail(t)
        PROVE  LockHeldInside'
    BY <2>4 DEF SetTail, Goto, Threads, list, history
  <2>5. ASSUME NEW t \in Pushers, Signal(t)
        PROVE  LockHeldInside'
    BY <2>5 DEF Signal, Asleep, Goto, Threads, list, history
  <2>6. ASSUME NEW t \in Pushers, PushUnlock(t)
        PROVE  LockHeldInside'
    BY <2>6 DEF PushUnlock, Release, Goto, Threads, list, history
  <2>7. ASSUME NEW t \in Poppers, CallPop(t)
        PROVE  LockHeldInside'
    BY <2>7 DEF CallPop, Goto, Threads, list, history
  <2>8. ASSUME NEW t \in Poppers, PopLock(t)
        PROVE  LockHeldInside'
    BY <2>8 DEF PopLock, Acquire, Goto, Threads, list, history
  <2>9. ASSUME NEW t \in Poppers, Wait(t)
        PROVE  LockHeldInside'
    BY <2>9 DEF Wait, Release, Goto, Threads, list, history
  <2>10. ASSUME NEW t \in Poppers, SpuriousWakeup(t)
        PROVE  LockHeldInside'
    BY <2>10 DEF SpuriousWakeup, Goto, Threads, list, history
  <2>11. ASSUME NEW t \in Poppers, Relock(t)
        PROVE  LockHeldInside'
    BY <2>11 DEF Relock, Acquire, Goto, Threads, list, history
  <2>12. ASSUME NEW t \in Poppers, ReadHead(t)
        PROVE  LockHeldInside'
    BY <2>12 DEF ReadHead, Goto, Threads, list, history
  <2>13. ASSUME NEW t \in Poppers, Unlink(t)
        PROVE  LockHeldInside'
    BY <2>13 DEF Unlink, Goto, Threads, list, history
  <2>14. ASSUME NEW t \in Poppers, PopUnlock(t)
        PROVE  LockHeldInside'
    BY <2>14 DEF PopUnlock, Release, Goto, Threads, list, history
  <2>15. CASE UNCHANGED vars
    BY <2>15 DEF vars, list, history, Threads, list, history
  <2>. QED
    BY <2>1, <2>2, <2>3, <2>4, <2>5, <2>6, <2>7, <2>8, <2>9, <2>10, <2>11, <2>12, <2>13, <2>14, <2>15 DEF Next, Push, Pop
<1>. QED
  BY <1>1, <1>2, TypeCorrect, PTL DEF SafeSpec

----------------------------------------------------------------------------
(* The linked list. *)

\* A node belongs to one Push from the moment it is packed, and to the queue
\* from the moment the tail points to it.
Owning(t) == pc[t] \in {"push_lock", "link", "set_tail"}

NodesInv ==
  /\ \A i, j \in 1..Len(sent) : sent[i] = sent[j] => i = j
  /\ \A i \in 1..Len(sent) : sent[i] \in packed
  /\ \A t \in Pushers : Owning(t) =>
       /\ msg[t] \in packed
       /\ next[msg[t]] = NULL
       /\ \A i \in 1..Len(sent) : sent[i] # msg[t]
  /\ \A t, u \in Pushers : t # u /\ Owning(t) /\ Owning(u) => msg[t] # msg[u]

\* Between the two writes of Push the new node m hangs off the list, but the
\* tail does not point to it yet.
HalfLinked(m) ==
  /\ Waiting = 0 => head = m /\ tail = NULL
  /\ Waiting > 0 => /\ head = sent[Len(delivered) + 1]
                    /\ tail = sent[Len(sent)]
                    /\ next[tail] = m
  /\ \A i \in Len(delivered)+1 .. Len(sent)-1 : next[sent[i]] = sent[i+1]

ListInv ==
  /\ Len(delivered) <= Len(sent)
  /\ \A t \in Pushers : pc[t] = "set_tail" => HalfLinked(msg[t])
  /\ (\A t \in Pushers : pc[t] # "set_tail") => WellLinked
  /\ \A t \in Poppers : pc[t] = "unlink" => msg[t] = head /\ head # NULL

\* Pack_Msg hands out fresh messages and every message has one owner: no step of
\* Push or Pop makes two threads, or a thread and the queue, share one.
LEMMA NodesStep ==
  ASSUME TypeOK, LockHeldInside, ListInv, NodesInv, [Next]_vars
  PROVE  NodesInv'
<1>. USE QueueAssumption DEF TypeOK, NodesInv, Owning
<1>1. ASSUME NEW t \in Pushers, NEW m \in Nodes, PackMsg(t, m)
      PROVE  NodesInv'
  BY <1>1 DEF PackMsg, Goto, Threads, list, history
<1>2. ASSUME NEW t \in Pushers, PushLock(t)
      PROVE  NodesInv'
  BY <1>2 DEF PushLock, Acquire, Goto, Threads, list, history
<1>3. ASSUME NEW t \in Pushers, LinkNode(t)
      PROVE  NodesInv'
  <2>1. WellLinked
    BY <1>3 DEF LinkNode, Goto, LockHeldInside, InsidePC, Threads, ListInv
  <2>2. tail # NULL => tail = sent[Len(sent)] /\ Len(sent) \in 1..Len(sent)
    BY <2>1 DEF WellLinked, Waiting, ListInv
  <2>3. ASSUME NEW u \in Pushers, Owning(u)
        PROVE  next'[msg[u]] = NULL
    BY <1>3, <2>2, <2>3 DEF LinkNode, Goto, Threads, HoldsNodePC
  <2>. QED
    BY <1>3, <2>3 DEF LinkNode, Goto, Threads, history
<1>4. ASSUME NEW t \in Pushers, SetTail(t)
      PROVE  NodesInv'
  BY <1>4 DEF SetTail, Goto, Threads, list, history
<1>5. ASSUME NEW t \in Pushers, Signal(t)
      PROVE  NodesInv'
  BY <1>5 DEF Signal, Asleep, Goto, Threads, list, history
<1>6. ASSUME NEW t \in Pushers, PushUnlock(t)
      PROVE  NodesInv'
  BY <1>6 DEF PushUnlock, Release, Goto, Threads, list, history
<1>7. ASSUME NEW t \in Poppers, CallPop(t)
      PROVE  NodesInv'
  BY <1>7 DEF CallPop, Goto, Threads, list, history
<1>8. ASSUME NEW t \in Poppers, PopLock(t)
      PROVE  NodesInv'
  BY <1>8 DEF PopLock, Acquire, Goto, Threads, list, history
<1>9. ASSUME NEW t \in Poppers, Wait(t)
      PROVE  NodesInv'
  BY <1>9 DEF Wait, Release, Goto, Threads, list, history
<1>10. ASSUME NEW t \in Poppers, SpuriousWakeup(t)
      PROVE  NodesInv'
  BY <1>10 DEF SpuriousWakeup, Goto, Threads, list, history
<1>11. ASSUME NEW t \in Poppers, Relock(t)
      PROVE  NodesInv'
  BY <1>11 DEF Relock, Acquire, Goto, Threads, list, history
<1>12. ASSUME NEW t \in Poppers, ReadHead(t)
      PROVE  NodesInv'
  BY <1>12 DEF ReadHead, Goto, Threads, list, history
<1>13. ASSUME NEW t \in Poppers, Unlink(t)
      PROVE  NodesInv'
  BY <1>13 DEF Unlink, Goto, Threads, list, history
<1>14. ASSUME NEW t \in Poppers, PopUnlock(t)
      PROVE  NodesInv'
  BY <1>14 DEF PopUnlock, Release, Goto, Threads, list, history
<1>15. CASE UNCHANGED vars
  BY <1>15 DEF vars, list, history, Threads, list, history
<1>. QED
  BY <1>1, <1>2, <1>3, <1>4, <1>5, <1>6, <1>7, <1>8, <1>9, <1>10, <1>11, <1>12, <1>13, <1>14, <1>15 DEF Next, Push, Pop

\* Each write of Push and Pop keeps the list what it should be at that point of the
\* critical section (ThreadSafeQueue.c:29-35, 48-55).
LEMMA ListStep ==
  ASSUME TypeOK, LockHeldInside, ListInv, NodesInv, [Next]_vars
  PROVE  ListInv'
<1>. USE QueueAssumption DEF TypeOK, ListInv, NodesInv, Owning, WellLinked, HalfLinked, Waiting
<1>1. ASSUME NEW t \in Pushers, NEW m \in Nodes, PackMsg(t, m)
      PROVE  ListInv'
  BY <1>1 DEF PackMsg, Goto, Threads, list, history
<1>2. ASSUME NEW t \in Pushers, PushLock(t)
      PROVE  ListInv'
  BY <1>2 DEF PushLock, Acquire, Goto, Threads, list, history
<1>3. ASSUME NEW t \in Pushers, LinkNode(t)
      PROVE  ListInv'
  <2>1. WellLinked /\ lock = t
    BY <1>3 DEF LinkNode, Goto, LockHeldInside, InsidePC, Threads
  <2>2. \A p \in Threads : p # t => pc[p] \notin {"set_tail", "unlink"}
    BY <2>1 DEF LockHeldInside, InsidePC
  <2>3. HalfLinked(msg[t])'
    <3>1. CASE tail = NULL
      BY <1>3, <2>1, <3>1 DEF LinkNode, Goto, Threads, history
    <3>2. CASE tail # NULL
      <4>1. Waiting > 0 /\ tail = sent[Len(sent)]
        BY <2>1, <3>2
      <4>2. \A i \in Len(delivered)+1 .. Len(sent)-1 : sent[i] # tail
        BY <4>1
      <4>. QED
        BY <1>3, <2>1, <3>2, <4>1, <4>2 DEF LinkNode, Goto, Threads, history
    <3>. QED
      BY <3>1, <3>2
  <2>4. Len(delivered') <= Len(sent')
    BY <1>3 DEF LinkNode, history
  <2>5. \A u \in Pushers : pc'[u] = "set_tail" => u = t
    BY <1>3, <2>2 DEF LinkNode, Goto, Threads
  <2>6. pc'[t] = "set_tail" /\ \A p \in Poppers : pc'[p] # "unlink"
    BY <1>3, <2>2 DEF LinkNode, Goto, Threads
  <2>. QED
    BY <2>3, <2>4, <2>5, <2>6, <1>3 DEF LinkNode
<1>4. ASSUME NEW t \in Pushers, SetTail(t)
      PROVE  ListInv'
  BY <1>4 DEF SetTail, Goto, Threads, list, history
<1>5. ASSUME NEW t \in Pushers, Signal(t)
      PROVE  ListInv'
  BY <1>5 DEF Signal, Asleep, Goto, Threads, list, history
<1>6. ASSUME NEW t \in Pushers, PushUnlock(t)
      PROVE  ListInv'
  BY <1>6 DEF PushUnlock, Release, Goto, Threads, list, history
<1>7. ASSUME NEW t \in Poppers, CallPop(t)
      PROVE  ListInv'
  BY <1>7 DEF CallPop, Goto, Threads, list, history
<1>8. ASSUME NEW t \in Poppers, PopLock(t)
      PROVE  ListInv'
  BY <1>8 DEF PopLock, Acquire, Goto, Threads, list, history
<1>9. ASSUME NEW t \in Poppers, Wait(t)
      PROVE  ListInv'
  BY <1>9 DEF Wait, Release, Goto, Threads, list, history
<1>10. ASSUME NEW t \in Poppers, SpuriousWakeup(t)
      PROVE  ListInv'
  BY <1>10 DEF SpuriousWakeup, Goto, Threads, list, history
<1>11. ASSUME NEW t \in Poppers, Relock(t)
      PROVE  ListInv'
  BY <1>11 DEF Relock, Acquire, Goto, Threads, list, history
<1>12. ASSUME NEW t \in Poppers, ReadHead(t)
      PROVE  ListInv'
  BY <1>12 DEF ReadHead, Goto, Threads, list, history
<1>13. ASSUME NEW t \in Poppers, Unlink(t)
      PROVE  ListInv'
  <2>1. \A p \in Threads : p # t => pc[p] \notin {"set_tail", "unlink"}
    BY <1>13 DEF Unlink, Goto, LockHeldInside, InsidePC, Threads
  <2>2. WellLinked /\ msg[t] = head /\ head # NULL
    BY <1>13, <2>1 DEF Unlink, Goto, Threads
  <2>3. Waiting > 0 /\ Len(delivered') = Len(delivered) + 1
    BY <1>13, <2>2 DEF Unlink, Threads, HoldsNodePC
  <2>4. head = tail <=> Waiting = 1
    BY <2>2, <2>3
  <2>5. WellLinked'
    BY <1>13, <2>2, <2>3, <2>4 DEF Unlink
  <2>6. \A p \in Threads : pc'[p] \notin {"set_tail", "unlink"}
    BY <1>13, <2>1 DEF Unlink, Goto, Threads
  <2>. QED
    BY <1>13, <2>3, <2>5, <2>6 DEF Unlink, Threads
<1>14. ASSUME NEW t \in Poppers, PopUnlock(t)
      PROVE  ListInv'
  BY <1>14 DEF PopUnlock, Release, Goto, Threads, list, history
<1>15. CASE UNCHANGED vars
  BY <1>15 DEF vars, list, history, Threads, list, history
<1>. QED
  BY <1>1, <1>2, <1>3, <1>4, <1>5, <1>6, <1>7, <1>8, <1>9, <1>10, <1>11, <1>12, <1>13, <1>14, <1>15 DEF Next, Push, Pop

\* The two together are the inductive invariant of the linked list.
LEMMA ListCorrect == SafeSpec => [](ListInv /\ NodesInv)
<1>1. Init => ListInv /\ NodesInv
  BY QueueAssumption DEF Init, ListInv, NodesInv, Owning, WellLinked, Waiting, Threads
<1>2. TypeOK /\ LockHeldInside /\ ListInv /\ NodesInv /\ [Next]_vars => (ListInv /\ NodesInv)'
  BY NodesStep, ListStep
<1>. QED
  BY <1>1, <1>2, TypeCorrect, MutexHeld, PTL DEF SafeSpec

\* Whenever the mutex is free the two pointers and the next fields hold exactly
\* the messages pushed and not yet popped (ThreadSafeQueue.c:29-35, 48-55).
THEOREM ListAlwaysIntact == SafeSpec => []ListIntact
<1>1. TypeOK /\ LockHeldInside /\ ListInv => ListIntact
  BY QueueAssumption DEF TypeOK, LockHeldInside, InsidePC, ListInv, ListIntact, Threads
<1>. QED
  BY <1>1, TypeCorrect, MutexHeld, ListCorrect, PTL

----------------------------------------------------------------------------
(* The order of delivery, and the channel the queue implements. *)

\* The node Unlink takes is the oldest one.
LEMMA UnlinkTakesOldest ==
  ASSUME TypeOK, LockHeldInside, ListInv, NEW t \in Poppers, Unlink(t)
  PROVE  /\ Len(delivered) < Len(sent)
         /\ delivered' = Append(delivered, sent[Len(delivered) + 1])
         /\ sent' = sent
<1>. USE QueueAssumption DEF TypeOK
<1>1. \A p \in Pushers : pc[p] # "set_tail"
  BY DEF Unlink, Goto, LockHeldInside, InsidePC, Threads
<1>2. WellLinked /\ msg[t] = head /\ head # NULL
  BY <1>1 DEF ListInv, Unlink, Goto, Threads
<1>. QED
  BY <1>2 DEF WellLinked, Waiting, ListInv, Unlink

\* Apart from Unlink and SetTail, no step touches the two histories.
LEMMA OtherStepsQuiet ==
  ASSUME [Next]_vars
  PROVE  \/ \E t \in Pushers : SetTail(t)
         \/ \E t \in Poppers : Unlink(t)
         \/ UNCHANGED history
<1>1. ASSUME NEW t \in Pushers, Push(t)
      PROVE  SetTail(t) \/ UNCHANGED history
  BY <1>1 DEF Push, PackMsg, PushLock, LinkNode, Signal, PushUnlock, Acquire, Release, history
<1>2. ASSUME NEW t \in Poppers, Pop(t)
      PROVE  Unlink(t) \/ UNCHANGED history
  BY <1>2 DEF Pop, CallPop, PopLock, Wait, SpuriousWakeup, Relock, ReadHead, PopUnlock,
              Acquire, Release, history
<1>. QED
  BY <1>1, <1>2 DEF Next, vars, history

\* Pop delivers in the order of Push: nothing is lost, repeated or overtaken.
THEOREM DeliveredInOrder == SafeSpec => []FifoOrder
<1>1. Init => FifoOrder
  BY DEF Init, FifoOrder
<1>2. TypeOK /\ LockHeldInside /\ ListInv /\ FifoOrder /\ [Next]_vars => FifoOrder'
  <2>. SUFFICES ASSUME TypeOK, LockHeldInside, ListInv, FifoOrder, [Next]_vars
                PROVE  FifoOrder'
    OBVIOUS
  <2>. USE DEF FifoOrder, TypeOK
  <2>1. CASE \E t \in Pushers : SetTail(t)
    <3>. PICK t \in Pushers : SetTail(t)
      BY <2>1
    <3>. QED
      BY QueueAssumption DEF SetTail, Goto, Threads, HoldsNodePC
  <2>2. CASE \E t \in Poppers : Unlink(t)
    BY <2>2, UnlinkTakesOldest
  <2>3. CASE UNCHANGED history
    BY <2>3 DEF history
  <2>. QED
    BY <2>1, <2>2, <2>3, OtherStepsQuiet
<1>. QED
  BY <1>1, <1>2, TypeCorrect, MutexHeld, ListCorrect, PTL DEF SafeSpec

\* Every step of the queue is a step of the abstract channel, or leaves it alone:
\* the order and the integrity of the messages carry over to the protocols,
\* which use the channel in place of the list.
THEOREM QueueRefinesChannel == SafeSpec => Channel!SafeSpec
<1>1. Init => Channel!Init
  BY DEF Init, Channel!Init
<1>2. TypeOK /\ LockHeldInside /\ ListInv /\ NodesInv /\ [Next]_vars => [Channel!Next]_(Channel!vars)
  <2>. SUFFICES ASSUME TypeOK, LockHeldInside, ListInv, NodesInv, [Next]_vars
                PROVE  [Channel!Next]_(Channel!vars)
    OBVIOUS
  <2>1. CASE \E t \in Pushers : SetTail(t)
    <3>. PICK t \in Pushers : SetTail(t)
      BY <2>1
    <3>1. msg[t] \in Nodes /\ \A i \in 1..Len(sent) : sent[i] # msg[t]
      BY QueueAssumption DEF SetTail, Goto, Threads, HoldsNodePC, TypeOK, NodesInv, Owning
    <3>2. Channel!Send(msg[t])
      BY <3>1 DEF SetTail, Channel!Send
    <3>. QED
      BY <3>1, <3>2 DEF Channel!Next
  <2>2. CASE \E t \in Poppers : Unlink(t)
    BY <2>2, UnlinkTakesOldest DEF Channel!Next, Channel!Deliver
  <2>3. CASE UNCHANGED history
    BY <2>3 DEF history, Channel!vars
  <2>. QED
    BY <2>1, <2>2, <2>3, OtherStepsQuiet
<1>. QED
  BY <1>1, <1>2, TypeCorrect, MutexHeld, ListCorrect, PTL DEF SafeSpec, Channel!SafeSpec

----------------------------------------------------------------------------
(* The condition variable. *)

\* Rousing is a finite set, and a receiver that joins or leaves it counts one.
LEMMA RousingFinite == ASSUME NEW S \in SUBSET Poppers
                       PROVE  IsFiniteSet(S) /\ Cardinality(S) \in Nat
  BY QueueAssumption, FS_Subset, FS_CardinalityType

\* The counting step: one popper more or less among those that are coming.
LEMMA CardinalityJoin ==
  ASSUME NEW S \in SUBSET Poppers, NEW t \in Poppers
  PROVE  /\ t \notin S => Cardinality(S \cup {t}) = Cardinality(S) + 1
         /\ t \in S => Cardinality(S \ {t}) = Cardinality(S) - 1
  BY RousingFinite, FS_AddElement, FS_RemoveElement

\* No step of Push or Pop leaves more messages than poppers on their way while one
\* sleeps: a wakeup owed is given by Signal, and Wait starts only on an empty list.
LEMMA NoLostWakeupStep ==
  ASSUME TypeOK, LockHeldInside, ListInv, NodesInv, NoLostWakeup, [Next]_vars
  PROVE  NoLostWakeup'
<1>. USE QueueAssumption DEF TypeOK, NoLostWakeup, Waiting
<1>1. Rousing \in SUBSET Poppers /\ Rousing' \in SUBSET Poppers
  BY DEF Rousing
<1>2. Cardinality(Rousing) \in Nat /\ Cardinality(Rousing') \in Nat
  BY <1>1, RousingFinite
<1>3. SignalDue \in {0, 1} /\ SignalDue' \in {0, 1}
  BY DEF SignalDue
<1>4. ASSUME NEW t \in Pushers, NEW m \in Nodes, PackMsg(t, m)
      PROVE  NoLostWakeup'
  BY <1>4, <1>2 DEF PackMsg, Goto, Threads, history, Rousing, SignalDue, Asleep
<1>5. ASSUME NEW t \in Pushers, PushLock(t) \/ LinkNode(t) \/ PushUnlock(t)
      PROVE  NoLostWakeup'
  <2>1. Rousing' = Rousing /\ Asleep' = Asleep /\ UNCHANGED history
    BY <1>5 DEF PushLock, LinkNode, PushUnlock, Acquire, Release, Goto, Threads, history, Rousing, Asleep
  <2>2. SignalDue' = SignalDue
    BY <1>5 DEF PushLock, LinkNode, PushUnlock, Acquire, Release, Goto, Threads, SignalDue
  <2>. QED
    BY <2>1, <2>2 DEF history
<1>6. ASSUME NEW t \in Pushers, SetTail(t)
      PROVE  NoLostWakeup'
  <2>1. Rousing' = Rousing /\ Asleep' = Asleep
    BY <1>6 DEF SetTail, Goto, Threads, Rousing, Asleep
  <2>2. Len(sent') = Len(sent) + 1 /\ delivered' = delivered
    BY <1>6 DEF SetTail, Goto, Threads, HoldsNodePC
  <2>3. SignalDue = 0 /\ SignalDue' = 1
    BY <1>6 DEF SetTail, Goto, Threads, SignalDue, LockHeldInside, InsidePC
  <2>. QED
    BY <2>1, <2>2, <2>3, <1>2
<1>7. ASSUME NEW t \in Pushers, Signal(t)
      PROVE  NoLostWakeup'
  <2>1. SignalDue = 1 /\ SignalDue' = 0
    BY <1>7 DEF Signal, Asleep, Goto, Threads, SignalDue, LockHeldInside, InsidePC
  <2>2. UNCHANGED history
    BY <1>7 DEF Signal
  <2>3. CASE Asleep = {}
    BY <1>7, <2>3 DEF Signal, Asleep, Threads
  <2>4. ASSUME NEW p \in Asleep, pc' = [pc EXCEPT ![t] = "push_unlock", ![p] = "woken"]
        PROVE  NoLostWakeup'
    <3>1. p \in Poppers /\ p \notin Rousing
      BY DEF Asleep, Rousing
    <3>2. Rousing' = Rousing \cup {p}
      BY <2>4, <3>1 DEF Rousing, Threads
    <3>3. Cardinality(Rousing') = Cardinality(Rousing) + 1
      BY <3>1, <3>2, <1>1, CardinalityJoin
    <3>. QED
      BY <2>1, <2>2, <3>3, <1>2 DEF history
  <2>. QED
    BY <1>7, <2>3, <2>4 DEF Signal
<1>8. ASSUME NEW t \in Poppers, CallPop(t) \/ PopUnlock(t)
      PROVE  NoLostWakeup'
  <2>1. Rousing' = Rousing /\ Asleep' = Asleep /\ UNCHANGED history
    BY <1>8 DEF CallPop, PopUnlock, Release, Goto, Threads, history, Rousing, Asleep
  <2>2. SignalDue' = SignalDue
    BY <1>8 DEF CallPop, PopUnlock, Release, Goto, Threads, SignalDue
  <2>. QED
    BY <2>1, <2>2 DEF history
<1>9. ASSUME NEW t \in Poppers, PopLock(t) \/ SpuriousWakeup(t)
      PROVE  NoLostWakeup'
  <2>1. Rousing' = Rousing \cup {t} /\ t \notin Rousing
    BY <1>9 DEF PopLock, SpuriousWakeup, Acquire, Goto, Threads, Rousing
  <2>2. Asleep' \subseteq Asleep /\ UNCHANGED history
    BY <1>9 DEF PopLock, SpuriousWakeup, Acquire, Goto, Threads, history, Asleep
  <2>3. SignalDue' = SignalDue
    BY <1>9 DEF PopLock, SpuriousWakeup, Acquire, Goto, Threads, SignalDue
  <2>4. Cardinality(Rousing') = Cardinality(Rousing) + 1
    BY <2>1, <1>1, CardinalityJoin
  <2>. QED
    BY <2>2, <2>3, <2>4, <1>2, <1>3 DEF history
<1>10. ASSUME NEW t \in Poppers, Relock(t) \/ ReadHead(t)
      PROVE  NoLostWakeup'
  <2>1. Rousing' = Rousing /\ Asleep' = Asleep /\ UNCHANGED history
    BY <1>10 DEF Relock, ReadHead, Acquire, Goto, Threads, history, Rousing, Asleep
  <2>2. SignalDue' = SignalDue
    BY <1>10 DEF Relock, ReadHead, Acquire, Goto, Threads, SignalDue
  <2>. QED
    BY <2>1, <2>2 DEF history
<1>11. ASSUME NEW t \in Poppers, Wait(t)
      PROVE  NoLostWakeup'
  <2>1. \A p \in Pushers : pc[p] # "set_tail"
    BY <1>11 DEF Wait, Release, Goto, LockHeldInside, InsidePC, Threads
  <2>2. Len(sent') = Len(delivered')
    BY <1>11, <2>1 DEF Wait, Release, history, ListInv, WellLinked
  <2>. QED
    BY <2>2, <1>2, <1>3
<1>12. ASSUME NEW t \in Poppers, Unlink(t)
      PROVE  NoLostWakeup'
  <2>1. Rousing' = Rousing \ {t} /\ t \in Rousing
    BY <1>12 DEF Unlink, Goto, Threads, Rousing
  <2>2. Asleep' = Asleep /\ SignalDue' = SignalDue
    BY <1>12 DEF Unlink, Goto, Threads, Asleep, SignalDue
  <2>3. sent' = sent /\ Len(delivered') = Len(delivered) + 1
    BY <1>12, UnlinkTakesOldest
  <2>4. Cardinality(Rousing') = Cardinality(Rousing) - 1
    BY <2>1, <1>1, CardinalityJoin
  <2>. QED
    BY <2>2, <2>3, <2>4, <1>2, <1>3
<1>13. CASE UNCHANGED vars
  BY <1>13 DEF vars, Rousing, Asleep, SignalDue
<1>. QED
  BY <1>4, <1>5, <1>6, <1>7, <1>8, <1>9, <1>10, <1>11, <1>12, <1>13 DEF Next, Push, Pop

\* No receiver sleeps in Pop beside a message that nobody is coming for
\* (ThreadSafeQueue.c:37 and 45-47), however many senders and receivers share it.
THEOREM WakeupsSuffice == SafeSpec => []NoLostWakeup
<1>1. Init => NoLostWakeup
  BY QueueAssumption DEF Init, NoLostWakeup, Asleep, Threads
<1>2. TypeOK /\ LockHeldInside /\ ListInv /\ NodesInv /\ NoLostWakeup /\ [Next]_vars => NoLostWakeup'
  BY NoLostWakeupStep
<1>. QED
  BY <1>1, <1>2, TypeCorrect, MutexHeld, ListCorrect, PTL DEF SafeSpec
============================================================================
