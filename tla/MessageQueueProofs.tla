------------------------- MODULE MessageQueueProofs -------------------------
(***************************************************************************)
(* Proofs about MessageQueue, for any number of threads and of enqueues.   *)
(***************************************************************************)
EXTENDS MessageQueue, FiniteSetTheorems, TLAPS

\* The inductive invariant: types, mutual exclusion, which of its own statements
\* only the consumer reaches, an argument for every enqueue under way, and the
\* account of the semaphore.
IInv ==
    /\ TypeOK
    /\ DequeAccessExclusive
    /\ \A t \in Threads : pc[t] \in {"pop_lock", "pop", "pop_unlock"} => t = Consumer
    /\ \A t \in Threads : pc[t] = "push" => msg[t] \in Payload
    /\ Len(m_queue) = m_avail + Cardinality(Unposted) + Claimed

\* Unposted is finite, so its cardinality is a number.
LEMMA UnpostedFinite == IsFiniteSet(Unposted) /\ Cardinality(Unposted) \in Nat
<1>1. Unposted \subseteq Threads
  BY DEF Unposted
<1>2. IsFiniteSet(Unposted)
  BY <1>1, ThreadsAssumption, FS_Subset
<1> QED
  BY <1>2, FS_CardinalityType

\* The invariant holds initially.
LEMMA InitInv == Init => IInv
<1> SUFFICES ASSUME Init PROVE IInv
  OBVIOUS
<1> USE DEF Init
<1>1. TypeOK
  BY DEF TypeOK, PC
<1>2. DequeAccessExclusive
  BY DEF DequeAccessExclusive, Inside
<1>3. Unposted = {} /\ Claimed = 0
  BY ThreadsAssumption DEF Unposted, Claimed
<1>4. Len(m_queue) = m_avail + Cardinality(Unposted) + Claimed
  BY <1>3, FS_EmptySet
<1> QED
  BY <1>1, <1>2, <1>4 DEF IInv

\* Every step preserves the invariant.
LEMMA NextInv == ASSUME IInv, [Next]_vars PROVE IInv'
<1> USE DEF IInv
<1>t. Consumer \in Threads /\ NoThread \notin Threads
  BY ThreadsAssumption
<1>1. ASSUME NEW t \in Threads, NEW m \in Payload, enqueue_lock(t, m)
      PROVE  IInv'
  <2> USE <1>1 DEF enqueue_lock, Goto, Lock
  <2>1. TypeOK'
    BY DEF TypeOK, PC
  <2>2. DequeAccessExclusive'
    BY <1>t DEF DequeAccessExclusive, Inside, TypeOK
  <2>3. Unposted' = Unposted /\ Claimed' = Claimed
    BY <1>t DEF Unposted, Claimed, TypeOK
  <2>4. \A u \in Threads : pc'[u] = "push" => msg'[u] \in Payload
    BY DEF TypeOK
  <2>5. \A u \in Threads : pc'[u] \in {"pop_lock", "pop", "pop_unlock"} => u = Consumer
    BY DEF TypeOK
  <2> QED
    BY <2>1, <2>2, <2>3, <2>4, <2>5
<1>2. ASSUME NEW t \in Threads, enqueue_push(t)
      PROVE  IInv'
  <2> USE <1>2 DEF enqueue_push, Goto
  <2>1. TypeOK'
    BY DEF TypeOK, PC
  <2>2. DequeAccessExclusive'
    BY DEF DequeAccessExclusive, Inside, TypeOK
  <2>3. Unposted' = Unposted \cup {t} /\ t \notin Unposted /\ Claimed' = Claimed
    BY <1>t DEF Unposted, Claimed, TypeOK
  <2>4. Cardinality(Unposted') = Cardinality(Unposted) + 1
    BY <2>3, UnpostedFinite, FS_AddElement
  <2>5. Len(m_queue') = Len(m_queue) + 1
    BY DEF TypeOK
  <2>6. Claimed \in Nat /\ m_avail \in Nat /\ m_avail' = m_avail
    BY DEF Claimed, TypeOK
  <2>7. Len(m_queue') = m_avail' + Cardinality(Unposted') + Claimed'
    BY <2>3, <2>4, <2>5, <2>6, UnpostedFinite
  <2>8. \A u \in Threads : /\ pc'[u] = "push" => msg'[u] \in Payload
                           /\ pc'[u] \in {"pop_lock", "pop", "pop_unlock"} => u = Consumer
    BY DEF TypeOK
  <2> QED
    BY <2>1, <2>2, <2>7, <2>8
<1>3. ASSUME NEW t \in Threads, enqueue_unlock(t)
      PROVE  IInv'
  <2> USE <1>3 DEF enqueue_unlock, Goto, Unlock
  <2>1. TypeOK'
    BY DEF TypeOK, PC
  <2>2. DequeAccessExclusive'
    BY DEF DequeAccessExclusive, Inside, TypeOK
  <2>3. Unposted' = Unposted /\ Claimed' = Claimed
    BY <1>t DEF Unposted, Claimed, TypeOK
  <2>4. \A u \in Threads : /\ pc'[u] = "push" => msg'[u] \in Payload
                           /\ pc'[u] \in {"pop_lock", "pop", "pop_unlock"} => u = Consumer
    BY DEF TypeOK
  <2> QED
    BY <2>1, <2>2, <2>3, <2>4
<1>4. ASSUME NEW t \in Threads, enqueue_post(t)
      PROVE  IInv'
  <2> USE <1>4 DEF enqueue_post, Goto
  <2>1. TypeOK'
    BY DEF TypeOK, PC
  <2>2. DequeAccessExclusive'
    BY DEF DequeAccessExclusive, Inside, TypeOK
  <2>3. Unposted' = Unposted \ {t} /\ t \in Unposted /\ Claimed' = Claimed
    BY <1>t DEF Unposted, Claimed, TypeOK
  <2>4. Cardinality(Unposted') = Cardinality(Unposted) - 1
    BY <2>3, UnpostedFinite, FS_RemoveElement
  <2>5. Claimed \in Nat /\ m_avail \in Nat /\ m_avail' = m_avail + 1 /\ m_queue' = m_queue
    BY DEF Claimed, TypeOK
  <2>6. Len(m_queue') = m_avail' + Cardinality(Unposted') + Claimed'
    BY <2>3, <2>4, <2>5, UnpostedFinite
  <2>7. \A u \in Threads : /\ pc'[u] = "push" => msg'[u] \in Payload
                           /\ pc'[u] \in {"pop_lock", "pop", "pop_unlock"} => u = Consumer
    BY DEF TypeOK
  <2> QED
    BY <2>1, <2>2, <2>6, <2>7
<1>5. CASE dequeue_wait(Consumer)
  <2> USE <1>5 DEF dequeue_wait, Goto
  <2>1. TypeOK'
    <3>1. m_avail' \in Nat
      BY DEF TypeOK
    <3>2. pc' \in [Threads -> PC]
      BY DEF TypeOK, PC
    <3> QED
      BY <3>1, <3>2 DEF TypeOK
  <2>2. DequeAccessExclusive'
    BY DEF DequeAccessExclusive, Inside, TypeOK
  <2>3. Unposted' = Unposted /\ Claimed = 0 /\ Claimed' = 1
    BY <1>t DEF Unposted, Claimed, TypeOK
  <2>4. m_avail \in Nat /\ m_avail > 0 /\ m_avail' = m_avail - 1 /\ m_queue' = m_queue
    BY DEF TypeOK
  <2>5. Len(m_queue') = m_avail' + Cardinality(Unposted') + Claimed'
    BY <2>3, <2>4, UnpostedFinite
  <2>6. \A u \in Threads : /\ pc'[u] = "push" => msg'[u] \in Payload
                           /\ pc'[u] \in {"pop_lock", "pop", "pop_unlock"} => u = Consumer
    BY DEF TypeOK
  <2> QED
    BY <2>1, <2>2, <2>5, <2>6
<1>6. CASE dequeue_timeout(Consumer)
  BY <1>6 DEF dequeue_timeout, TypeOK, DequeAccessExclusive, Inside, Unposted, Claimed
<1>7. CASE dequeue_lock(Consumer)
  <2> USE <1>7 DEF dequeue_lock, Goto, Lock
  <2>1. TypeOK'
    BY <1>t DEF TypeOK, PC
  <2>2. DequeAccessExclusive'
    BY <1>t DEF DequeAccessExclusive, Inside, TypeOK
  <2>3. Unposted' = Unposted /\ Claimed' = Claimed
    BY <1>t DEF Unposted, Claimed, TypeOK
  <2>4. \A u \in Threads : /\ pc'[u] = "push" => msg'[u] \in Payload
                           /\ pc'[u] \in {"pop_lock", "pop", "pop_unlock"} => u = Consumer
    BY DEF TypeOK
  <2> QED
    BY <2>1, <2>2, <2>3, <2>4
<1>8. CASE dequeue_pop(Consumer)
  <2> USE <1>8 DEF dequeue_pop, Goto
  <2>1. TypeOK'
    <3>1. m_queue' \in Seq(Payload) /\ result' \in Payload
      BY DEF TypeOK
    <3>2. pc' \in [Threads -> PC]
      BY DEF TypeOK, PC
    <3> QED
      BY <3>1, <3>2 DEF TypeOK
  <2>2. DequeAccessExclusive'
    BY DEF DequeAccessExclusive, Inside, TypeOK
  <2>3. Unposted' = Unposted /\ Claimed = 1 /\ Claimed' = 0
    BY <1>t DEF Unposted, Claimed, TypeOK
  <2>4. m_avail \in Nat /\ m_avail' = m_avail /\ Len(m_queue') = Len(m_queue) - 1
    BY DEF TypeOK
  <2>5. Len(m_queue') = m_avail' + Cardinality(Unposted') + Claimed'
    BY <2>3, <2>4, UnpostedFinite
  <2>6. \A u \in Threads : /\ pc'[u] = "push" => msg'[u] \in Payload
                           /\ pc'[u] \in {"pop_lock", "pop", "pop_unlock"} => u = Consumer
    BY DEF TypeOK
  <2> QED
    BY <2>1, <2>2, <2>5, <2>6
<1>9. CASE dequeue_unlock(Consumer)
  <2> USE <1>9 DEF dequeue_unlock, Goto, Unlock
  <2>1. TypeOK'
    BY DEF TypeOK, PC
  <2>2. DequeAccessExclusive'
    BY DEF DequeAccessExclusive, Inside, TypeOK
  <2>3. Unposted' = Unposted /\ Claimed' = Claimed
    BY <1>t DEF Unposted, Claimed, TypeOK
  <2>4. \A u \in Threads : /\ pc'[u] = "push" => msg'[u] \in Payload
                           /\ pc'[u] \in {"pop_lock", "pop", "pop_unlock"} => u = Consumer
    BY DEF TypeOK
  <2> QED
    BY <2>1, <2>2, <2>3, <2>4
<1>10. CASE UNCHANGED vars
  BY <1>10 DEF vars, TypeOK, DequeAccessExclusive, Inside, Unposted, Claimed
<1> QED
  BY <1>1, <1>2, <1>3, <1>4, <1>5, <1>6, <1>7, <1>8, <1>9, <1>10
     DEF Next, EnqueueStep, DequeueStep

\* The invariant holds throughout.
LEMMA Invariance == Spec => []IInv
<1>1. IInv /\ [Next]_vars => IInv'
  BY NextInv
<1> QED
  BY <1>1, InitInv, PTL DEF Spec

\* The queue's state keeps its types; in particular the semaphore never goes below 0.
THEOREM TypeCorrect == Spec => []TypeOK
<1>1. IInv => TypeOK
  BY DEF IInv
<1> QED
  BY <1>1, Invariance, PTL

\* No two threads are ever inside the queue's critical sections together.
THEOREM MutualExclusion == Spec => []DequeAccessExclusive
<1>1. IInv => DequeAccessExclusive
  BY DEF IInv
<1> QED
  BY <1>1, Invariance, PTL

\* The semaphore always accounts for the messages in the deque, so front() and
\* pop_front() never meet an empty one.
THEOREM SemaphoreCorrect == Spec => []AvailCountsMessages
<1>1. ASSUME IInv PROVE AvailCountsMessages
  <2>1. ASSUME pc[Consumer] = "pop" PROVE m_queue # <<>>
    <3>1. Claimed = 1
      BY <2>1 DEF Claimed
    <3>2. Len(m_queue) > 0
      BY <1>1, <3>1, UnpostedFinite DEF IInv, TypeOK
    <3> QED
      BY <3>2
  <2> QED
    BY <1>1, <2>1 DEF IInv, AvailCountsMessages
<1>2. IInv => AvailCountsMessages
  BY <1>1
<1> QED
  BY <1>2, Invariance, PTL

-----------------------------------------------------------------------------
(***************************************************************************)
(* The queue implements FifoChannel.                                       *)
(***************************************************************************)

\* The channel is a prefix of the deque.
ChannelIsPrefix ==
    /\ m_avail + Claimed \in Nat
    /\ m_avail + Claimed <= Len(m_queue)
    /\ Available \in Seq(Payload)
    /\ Len(Available) = m_avail + Claimed
    /\ \A k \in 1 .. m_avail + Claimed : Available[k] = m_queue[k]

\* The account of the semaphore makes it one.
LEMMA AvailablePrefix == IInv => ChannelIsPrefix
<1> SUFFICES ASSUME IInv PROVE ChannelIsPrefix
  OBVIOUS
<1>1. m_avail \in Nat /\ Claimed \in Nat /\ m_queue \in Seq(Payload) /\ Len(m_queue) \in Nat
  BY DEF IInv, TypeOK, Claimed
<1>2. m_avail + Claimed \in Nat /\ m_avail + Claimed <= Len(m_queue)
  BY <1>1, UnpostedFinite DEF IInv
<1>3. \A k \in 1 .. m_avail + Claimed : m_queue[k] \in Payload
  BY <1>1, <1>2
<1> DEFINE n == m_avail + Claimed
<1>4. Available = [k \in 1 .. n |-> m_queue[k]]
  BY DEF Available
<1>5. n \in Nat /\ \A k \in 1 .. n : m_queue[k] \in Payload
  BY <1>2, <1>3
<1> HIDE DEF n
<1>6. Available \in Seq(Payload) /\ Len(Available) = n
  BY <1>4, <1>5
<1> QED
  BY <1>2, <1>4, <1>6 DEF n, ChannelIsPrefix

\* Every step of the queue is a step of the channel, or leaves it unchanged.
LEMMA NextRefines ==
    ASSUME IInv, [Next]_vars
    PROVE  [Channel!Next]_<<Available, result>>
<1>i. IInv'
  BY NextInv
<1>t. Consumer \in Threads /\ NoThread \notin Threads
  BY ThreadsAssumption
<1>p. pc \in [Threads -> PC] /\ m_avail \in Nat /\ m_queue \in Seq(Payload) /\ Claimed \in Nat
  BY DEF IInv, TypeOK, Claimed
<1>q. /\ Available \in Seq(Payload) /\ Len(Available) = m_avail + Claimed
      /\ m_avail + Claimed <= Len(m_queue)
      /\ \A k \in 1 .. m_avail + Claimed : Available[k] = m_queue[k]
  BY AvailablePrefix DEF ChannelIsPrefix
<1>r. /\ Available' \in Seq(Payload) /\ Len(Available') = m_avail' + Claimed'
      /\ m_avail' + Claimed' <= Len(m_queue')
      /\ \A k \in 1 .. m_avail' + Claimed' : Available'[k] = m_queue'[k]
      /\ m_avail' \in Nat /\ Claimed' \in Nat /\ m_queue' \in Seq(Payload)
  <2>1. m_avail' \in Nat /\ Claimed' \in Nat /\ m_queue' \in Seq(Payload)
    BY <1>i DEF IInv, TypeOK, Claimed
  <2>2. ChannelIsPrefix'
    BY <1>i, AvailablePrefix, PTL
  <2> QED
    BY <2>1, <2>2 DEF ChannelIsPrefix
<1>1. ASSUME NEW t \in Threads, NEW m \in Payload, enqueue_lock(t, m)
      PROVE  UNCHANGED <<Available, result>>
  BY <1>1, <1>t, <1>p DEF enqueue_lock, Goto, Available, Claimed
<1>2. ASSUME NEW t \in Threads, enqueue_push(t)
      PROVE  UNCHANGED <<Available, result>>
  <2>1. Claimed' = Claimed /\ m_avail' = m_avail /\ m_queue' = Append(m_queue, msg[t]) /\ result' = result
    BY <1>2, <1>t, <1>p DEF enqueue_push, Goto, Claimed
  <2>2. \A k \in 1 .. m_avail + Claimed : m_queue'[k] = m_queue[k]
    BY <2>1, <1>p, <1>q
  <2> QED
    BY <2>1, <2>2 DEF Available
<1>3. ASSUME NEW t \in Threads, enqueue_unlock(t)
      PROVE  UNCHANGED <<Available, result>>
  BY <1>3, <1>t, <1>p DEF enqueue_unlock, Goto, Available, Claimed
<1>4. ASSUME NEW t \in Threads, enqueue_post(t)
      PROVE  Channel!Next
  <2> DEFINE m == m_queue[m_avail + Claimed + 1]
  <2>1. Claimed' = Claimed /\ m_avail' = m_avail + 1 /\ m_queue' = m_queue /\ result' = result
    BY <1>4, <1>t, <1>p DEF enqueue_post, Goto, Claimed
  <2>2. m_avail + Claimed + 1 \in 1 .. Len(m_queue)
    BY <2>1, <1>p, <1>r
  <2>3. m \in Payload
    BY <2>2, <1>p
  <2>4. Len(Available') = Len(Available) + 1
    BY <2>1, <1>p, <1>q, <1>r
  <2>5. \A k \in 1 .. Len(Available) : Available'[k] = Available[k]
    BY <2>1, <1>p, <1>q, <1>r
  <2>6. Available'[Len(Available) + 1] = m
    BY <2>1, <2>2, <1>p, <1>q, <1>r
  <2> HIDE DEF m
  <2>7. Available' = Append(Available, m)
    BY <2>3, <2>4, <2>5, <2>6, <1>q, <1>r
  <2> QED
    BY <2>1, <2>3, <2>7 DEF Channel!Next, Channel!Enqueue
<1>5. CASE dequeue_wait(Consumer)
  <2>1. Claimed = 0 /\ Claimed' = 1 /\ m_avail' = m_avail - 1 /\ m_queue' = m_queue /\ result' = result
    BY <1>5, <1>t, <1>p DEF dequeue_wait, Goto, Claimed
  <2>2. m_avail' + Claimed' = m_avail + Claimed
    BY <2>1, <1>p
  <2> QED
    BY <2>1, <2>2 DEF Available
<1>6. CASE dequeue_timeout(Consumer)
  <2>1. /\ m_avail = 0 /\ Claimed = 0 /\ result' = NoMessage
        /\ Claimed' = Claimed /\ m_avail' = m_avail /\ m_queue' = m_queue
    BY <1>6 DEF dequeue_timeout, Claimed
  <2>2. Available = <<>> /\ Available' = Available
    BY <2>1, <1>q DEF Available
  <2> QED
    BY <2>1, <2>2 DEF Channel!Next, Channel!Timeout
<1>7. CASE dequeue_lock(Consumer)
  BY <1>7, <1>t, <1>p DEF dequeue_lock, Goto, Available, Claimed
<1>8. CASE dequeue_pop(Consumer)
  <2>1. /\ Claimed = 1 /\ Claimed' = 0 /\ m_avail' = m_avail
        /\ m_queue # <<>> /\ m_queue' = Tail(m_queue) /\ result' = Head(m_queue)
    BY <1>8, <1>t, <1>p DEF dequeue_pop, Goto, Claimed
  <2>2. Available # <<>> /\ Head(Available) = Head(m_queue)
    BY <2>1, <1>p, <1>q
  <2>3. Len(Available') = Len(Available) - 1
    BY <2>1, <1>p, <1>q, <1>r
  <2>4. \A k \in 1 .. Len(Available) - 1 : Available'[k] = Available[k + 1]
    <3> TAKE k \in 1 .. Len(Available) - 1
    <3>1. k \in 1 .. m_avail' + Claimed' /\ k + 1 \in 1 .. m_avail + Claimed
      BY <2>1, <1>p, <1>q
    <3>2. m_queue'[k] = m_queue[k + 1]
      BY <2>1, <3>1, <1>p, <1>r
    <3> QED
      BY <3>1, <3>2, <1>q, <1>r
  <2>5. Available' = Tail(Available)
    BY <2>2, <2>3, <2>4, <1>q, <1>r
  <2> QED
    BY <2>1, <2>2, <2>5 DEF Channel!Next, Channel!Dequeue
<1>9. CASE dequeue_unlock(Consumer)
  BY <1>9, <1>t, <1>p DEF dequeue_unlock, Goto, Available, Claimed
<1>10. CASE UNCHANGED vars
  BY <1>10 DEF vars, Available, Claimed
<1> QED
  BY <1>1, <1>2, <1>3, <1>4, <1>5, <1>6, <1>7, <1>8, <1>9, <1>10
     DEF Next, EnqueueStep, DequeueStep

\* MessageQueue, with its separate mutex and semaphore, implements a FIFO channel
\* that returns the null pointer only when it is empty.
THEOREM QueueIsFifo == Spec => FifoSpec
<1>1. Init => Channel!Init
  <2> SUFFICES ASSUME Init PROVE Available = <<>> /\ result = NoMessage
    BY DEF Channel!Init
  <2>1. m_avail = 0 /\ Claimed = 0 /\ result = NoMessage
    BY ThreadsAssumption DEF Init, Claimed
  <2> QED
    BY <2>1, InitInv, AvailablePrefix DEF ChannelIsPrefix
<1>2. IInv /\ [Next]_vars => [Channel!Next]_<<Available, result>>
  BY NextRefines
<1> QED
  BY <1>1, <1>2, Invariance, PTL DEF Spec, FifoSpec, Channel!Spec
=============================================================================
