------------------------ MODULE ServerThreadsProofs -------------------------
(***************************************************************************)
(* Proofs about ServerThreads, for any number of displays, updaters and    *)
(* orders: who holds which mutex when, that enqueue only ever touches live *)
(* Clients, and that the threads implement the atomic Server.              *)
(***************************************************************************)
EXTENDS ServerThreads, ServerProofs, SequenceTheorems

-----------------------------------------------------------------------------
(***************************************************************************)
(* The inductive invariant.                                                *)
(***************************************************************************)
\* A thread between Guard and ~Guard of an operation with enqueue calls.
Enqueues(t) == pc[t] \in {"enqueue", "push", "post"}

\* What kind of thread is where.
Roles ==
    /\ \A u \in Updaters : Enqueues(u) \/ pc[u] = "request"
    /\ \A c \in Clients : pc[c] # "request"

\* A Client is registered from register_display to unregister_display.
Registration ==
    \A c \in Clients :
        c \in m_display_clients <=>
            Enqueues(c) \/ pc[c] \in {"dequeue", "pop_lock", "pop", "send", "unregister"}

\* m_mutex is held by exactly the thread that enqueues.
HolderEnqueues == \A t \in Threads : m_mutex = t <=> Enqueues(t)

\* What a thread has still to enqueue, and to whom.
CallsUnderWay ==
    \A t \in Threads :
        /\ msgs[t] # <<>> => Enqueues(t)
        /\ msgs[t] = <<>> => left[t] = {}
        /\ left[t] \subseteq Audience(t, m_display_clients)
        /\ pc[t] = "push" => msgs[t] # <<>> /\ target[t] \in left[t] /\ q_mutex[target[t]] = t
        /\ pc[t] = "post" => msgs[t] # <<>> /\ target[t] \in Audience(t, m_display_clients) \ left[t]
        /\ pc[t] \notin {"push", "post"} => target[t] = NoThread

\* Who holds a queue's mutex.
QueueHolders ==
    \A c \in Clients :
        /\ pc[c] = "pop" => q_mutex[c] = c
        /\ \A t \in Threads : q_mutex[c] = t =>
              \/ pc[t] = "push" /\ target[t] = c
              \/ pc[t] = "pop" /\ t = c

\* The message at the end of c's queue has not been posted yet; the first one has been
\* claimed by sem_timedwait.
Unposted(c) == IF \E t \in Threads : pc[t] = "post" /\ target[t] = c THEN 1 ELSE 0

Claimed(c) == IF pc[c] \in {"pop_lock", "pop"} THEN 1 ELSE 0

\* The semaphore accounts for every message; a new Client has an empty queue.
SemaphoreAccount ==
    \A c \in Clients :
        /\ Len(m_queue[c]) = m_avail[c] + Unposted(c) + Claimed(c)
        /\ pc[c] \in {"none", "register"} => m_queue[c] = <<>> /\ m_avail[c] = 0

IInv ==
    /\ ThreadsTypeOK
    /\ Roles /\ Registration /\ HolderEnqueues
    /\ CallsUnderWay /\ QueueHolders /\ SemaphoreAccount

-----------------------------------------------------------------------------
(***************************************************************************)
(* The orders.                                                             *)
(***************************************************************************)
\* What TypeOK says of m_orders.
OrdersOK(map) ==
    /\ DOMAIN map \subseteq Id /\ IsFiniteSet(DOMAIN map)
    /\ \A id \in DOMAIN map : map[id] \in Order /\ map[id].id = id

\* Storing, replacing and erasing an order keeps the map well formed.
LEMMA OrdersStayOK ==
    ASSUME NEW map, OrdersOK(map), NEW id \in Id
    PROVE  /\ OrdersOK(Erase(map, id))
           /\ \A order \in Order : order.id = id =>
                 /\ OrdersOK(Put(map, id, order))
                 /\ id \in DOMAIN map => OrdersOK([map EXCEPT ![id] = order])
<1>1. IsFiniteSet(DOMAIN map) /\ IsFiniteSet(DOMAIN map \cup {id}) /\ IsFiniteSet(DOMAIN map \ {id})
  BY FS_AddElement, FS_RemoveElement DEF OrdersOK
<1>2. OrdersOK(Erase(map, id))
  BY <1>1 DEF OrdersOK, Erase
<1>3. ASSUME NEW order \in Order, order.id = id PROVE OrdersOK(Put(map, id, order))
  BY <1>1, <1>3 DEF OrdersOK, Put
<1>4. ASSUME NEW order \in Order, order.id = id, id \in DOMAIN map
      PROVE  OrdersOK([map EXCEPT ![id] = order])
  BY <1>1, <1>4 DEF OrdersOK
<1> QED
  BY <1>2, <1>3, <1>4

\* The snapshot that register_display sends is a sequence of display messages.
LEMMA SnapshotType ==
    ASSUME TypeOK, NEW ids \in MapOrder
    PROVE  [k \in DOMAIN ids |-> DISP_ORDER(m_orders[ids[k]])] \in Seq(DisplayMessage)
<1> DEFINE n == Cardinality(DOMAIN m_orders)
           snapshot == [k \in DOMAIN ids |-> DISP_ORDER(m_orders[ids[k]])]
<1>1. ids \in [1 .. n -> DOMAIN m_orders]
  BY DEF MapOrder
<1>2. \A k \in 1 .. n : DISP_ORDER(m_orders[ids[k]]) \in DisplayMessage
  BY <1>1, DisplayMessages DEF TypeOK
<1>3. snapshot \in [1 .. n -> DisplayMessage]
  BY <1>1, <1>2
<1>4. n \in Nat
  BY FS_CardinalityType DEF TypeOK
<1> QED
  BY <1>3, <1>4

-----------------------------------------------------------------------------
(***************************************************************************)
(* Each step preserves the invariant.                                      *)
(***************************************************************************)
\* Initially nobody is connected.
LEMMA InitIInv == Init => IInv
<1> SUFFICES ASSUME Init PROVE IInv
  OBVIOUS
<1>1. ThreadsTypeOK
  <2>1. TypeOK
    BY InitType DEF Init
  <2>2. pc \in [Threads -> {"none", "request"}]
    BY DEF Init
  <2> QED
    BY <2>1, <2>2 DEF Init, ThreadsTypeOK
<1>2. Roles /\ Registration /\ HolderEnqueues
  BY UpdatersAssumption DEF Init, ServerInit, Roles, Registration, HolderEnqueues, Enqueues, Threads
<1>3. CallsUnderWay /\ QueueHolders
  BY UpdatersAssumption DEF Init, CallsUnderWay, QueueHolders, Threads
<1>4. SemaphoreAccount
  <2>1. \A c \in Clients : m_queue[c] = <<>> /\ m_avail[c] = 0 /\ pc[c] = "none"
    BY UpdatersAssumption DEF Init, ServerInit, Threads
  <2>2. \A t \in Threads : pc[t] # "post"
    BY DEF Init
  <2>3. \A c \in Clients : Unposted(c) = 0 /\ Claimed(c) = 0
    BY <2>1, <2>2 DEF Unposted, Claimed
  <2> QED
    BY <2>1, <2>3 DEF SemaphoreAccount
<1> QED
  BY <1>1, <1>2, <1>3, <1>4 DEF IInv

\* An updater's thread starts to broadcast.
LEMMA BroadcastInv ==
    ASSUME IInv, NEW u \in Updaters, NEW ms \in Seq(DisplayMessage), ms # <<>>, Broadcast(u, ms),
           OrdersOK(m_orders'), m_next_order_id' \in Nat, m_next_order_id' >= FirstOrderId
    PROVE  IInv'
<1> USE UpdatersAssumption DEF Threads
<1>1. /\ pc[u] = "request" /\ pc' = [pc EXCEPT ![u] = "enqueue"]
      /\ m_mutex = NoThread /\ m_mutex' = u
      /\ msgs' = [msgs EXCEPT ![u] = ms]
      /\ left' = [left EXCEPT ![u] = m_display_clients]
      /\ UNCHANGED <<m_display_clients, m_queue, q_mutex, m_avail, target>>
  BY DEF Broadcast, Goto, Guard, StartCalls, Audience
<1>2. ThreadsTypeOK'
  BY <1>1 DEF IInv, ThreadsTypeOK, TypeOK, OrdersOK
<1>3. (Roles /\ Registration /\ HolderEnqueues)'
  BY <1>1 DEF IInv, ThreadsTypeOK, Roles, Registration, HolderEnqueues, Enqueues
<1>4. CallsUnderWay'
  BY <1>1 DEF IInv, ThreadsTypeOK, CallsUnderWay, Enqueues, Audience
<1>5. QueueHolders'
  BY <1>1 DEF IInv, ThreadsTypeOK, QueueHolders
<1>6. SemaphoreAccount'
  BY <1>1 DEF IInv, ThreadsTypeOK, SemaphoreAccount, Unposted, Claimed
<1> QED
  BY <1>2, <1>3, <1>4, <1>5, <1>6 DEF IInv

\* A display's thread registers and starts to enqueue the snapshot.
LEMMA RegisterInv ==
    ASSUME IInv, NEW c \in Clients, display_loop_register(c)
    PROVE  IInv'
<1> USE UpdatersAssumption DEF Threads
<1>1. PICK ids \in MapOrder :
          StartCalls(c, [k \in DOMAIN ids |-> DISP_ORDER(m_orders[ids[k]])], m_display_clients')
  BY DEF display_loop_register
<1> DEFINE ms == [k \in DOMAIN ids |-> DISP_ORDER(m_orders[ids[k]])]
<1>2. ms \in Seq(DisplayMessage)
  BY SnapshotType DEF IInv, ThreadsTypeOK
<1> HIDE DEF ms
<1>3. /\ pc[c] = "register" /\ pc' = [pc EXCEPT ![c] = "enqueue"]
      /\ m_mutex = NoThread /\ m_mutex' = c
      /\ m_display_clients' = m_display_clients \cup {c}
      /\ msgs' = [msgs EXCEPT ![c] = ms]
      /\ left' = [left EXCEPT ![c] = IF ms = <<>> THEN {} ELSE {c}]
      /\ UNCHANGED <<m_orders, m_next_order_id, m_queue, q_mutex, m_avail, target>>
  BY <1>1 DEF display_loop_register, Goto, Guard, StartCalls, Audience, ms
<1>4. ThreadsTypeOK'
  BY <1>2, <1>3 DEF IInv, ThreadsTypeOK, TypeOK
<1>5. (Roles /\ Registration /\ HolderEnqueues)'
  BY <1>3 DEF IInv, ThreadsTypeOK, Roles, Registration, HolderEnqueues, Enqueues
<1>6. CallsUnderWay'
  BY <1>2, <1>3 DEF IInv, ThreadsTypeOK, CallsUnderWay, Enqueues, Audience
<1>7. QueueHolders'
  BY <1>3 DEF IInv, ThreadsTypeOK, QueueHolders
<1>8. SemaphoreAccount'
  BY <1>3 DEF IInv, ThreadsTypeOK, SemaphoreAccount, Unposted, Claimed
<1> QED
  BY <1>4, <1>5, <1>6, <1>7, <1>8 DEF IInv

\* The end of a broadcast's loop.
LEMMA NextMessageInv ==
    ASSUME IInv, NEW t \in Threads, next_message(t)
    PROVE  IInv'
<1> USE UpdatersAssumption
<1>1. /\ pc[t] = "enqueue" /\ msgs[t] # <<>> /\ left[t] = {}
      /\ msgs' = [msgs EXCEPT ![t] = Tail(msgs[t])]
      /\ left' = [left EXCEPT ![t] = IF Tail(msgs[t]) = <<>> THEN {} ELSE Audience(t, m_display_clients)]
      /\ UNCHANGED <<serverVars, m_mutex, q_mutex, m_avail, pc, target>>
  BY DEF next_message, StartCalls
<1>2. Audience(t, m_display_clients) \subseteq Clients /\ Tail(msgs[t]) \in Seq(DisplayMessage)
  BY <1>1 DEF IInv, ThreadsTypeOK, TypeOK, Audience, Threads
<1>3. ThreadsTypeOK'
  BY <1>1, <1>2 DEF IInv, ThreadsTypeOK, TypeOK, serverVars
<1>4. (Roles /\ Registration /\ HolderEnqueues)'
  BY <1>1 DEF IInv, Roles, Registration, HolderEnqueues, Enqueues, serverVars
<1>5. CallsUnderWay'
  BY <1>1, <1>2 DEF IInv, ThreadsTypeOK, CallsUnderWay, Enqueues, Audience, serverVars
<1>6. (QueueHolders /\ SemaphoreAccount)'
  BY <1>1 DEF IInv, QueueHolders, SemaphoreAccount, Unposted, Claimed, serverVars
<1> QED
  BY <1>3, <1>4, <1>5, <1>6 DEF IInv

\* m_mutex is released.
LEMMA UnlockInv ==
    ASSUME IInv, NEW t \in Threads, server_unlock(t)
    PROVE  IInv'
<1> USE UpdatersAssumption DEF Threads
<1>1. /\ msgs[t] = <<>> /\ pc[t] = "enqueue"
      /\ pc' = [pc EXCEPT ![t] = IF t \in Updaters THEN "request" ELSE "dequeue"]
      /\ m_mutex' = NoThread
      /\ UNCHANGED <<serverVars, q_mutex, m_avail, msgs, left, target>>
  BY DEF server_unlock, Goto, callVars
<1>2. ThreadsTypeOK'
  BY <1>1 DEF IInv, ThreadsTypeOK, TypeOK, serverVars
<1>3. (Roles /\ Registration /\ HolderEnqueues)'
  BY <1>1 DEF IInv, ThreadsTypeOK, Roles, Registration, HolderEnqueues, Enqueues, serverVars
<1>4. (CallsUnderWay /\ QueueHolders)'
  BY <1>1 DEF IInv, ThreadsTypeOK, CallsUnderWay, QueueHolders, Enqueues, Audience, serverVars
<1>5. SemaphoreAccount'
  BY <1>1 DEF IInv, ThreadsTypeOK, SemaphoreAccount, Unposted, Claimed, serverVars
<1> QED
  BY <1>2, <1>3, <1>4, <1>5 DEF IInv

\* enqueue takes the mutex of one queue.
LEMMA EnqueueLockInv ==
    ASSUME IInv, NEW t \in Threads, NEW c \in Clients, enqueue_lock(t, c)
    PROVE  IInv'
<1> USE UpdatersAssumption DEF Threads
<1>1. /\ c \in left[t] /\ pc[t] = "enqueue" /\ pc' = [pc EXCEPT ![t] = "push"]
      /\ target' = [target EXCEPT ![t] = c]
      /\ q_mutex[c] = NoThread /\ q_mutex' = [q_mutex EXCEPT ![c] = t]
      /\ UNCHANGED <<serverVars, m_mutex, m_avail, msgs, left>>
  BY DEF enqueue_lock, Goto
<1>2. ThreadsTypeOK'
  BY <1>1 DEF IInv, ThreadsTypeOK, TypeOK, serverVars
<1>3. (Roles /\ Registration /\ HolderEnqueues)'
  BY <1>1 DEF IInv, ThreadsTypeOK, Roles, Registration, HolderEnqueues, Enqueues, serverVars
<1>4. CallsUnderWay'
  BY <1>1 DEF IInv, ThreadsTypeOK, CallsUnderWay, Enqueues, Audience, serverVars
<1>5. QueueHolders'
  BY <1>1 DEF IInv, ThreadsTypeOK, QueueHolders, serverVars
<1>6. SemaphoreAccount'
  BY <1>1 DEF IInv, ThreadsTypeOK, SemaphoreAccount, Unposted, Claimed, serverVars
<1> QED
  BY <1>2, <1>3, <1>4, <1>5, <1>6 DEF IInv

\* Only the holder of m_mutex is in enqueue.
LEMMA OneEnqueuer ==
    ASSUME IInv, NEW t \in Threads, NEW other \in Threads, Enqueues(t), Enqueues(other)
    PROVE  t = other
BY DEF IInv, HolderEnqueues

\* enqueue appends its message and releases the queue's mutex.
LEMMA EnqueuePushInv ==
    ASSUME IInv, NEW t \in Threads, enqueue_push(t)
    PROVE  IInv'
<1> USE UpdatersAssumption DEF Threads
<1> DEFINE c == target[t]
<1>1. /\ pc[t] = "push" /\ pc' = [pc EXCEPT ![t] = "post"]
      /\ m_queue' = [m_queue EXCEPT ![c] = Append(@, Head(msgs[t]))]
      /\ q_mutex' = [q_mutex EXCEPT ![c] = NoThread]
      /\ left' = [left EXCEPT ![t] = @ \ {c}]
      /\ UNCHANGED <<m_orders, m_display_clients, m_next_order_id, m_mutex, m_avail, msgs, target>>
  BY DEF enqueue_push, Goto
<1>2. c \in Clients /\ c \in left[t] /\ msgs[t] # <<>> /\ Head(msgs[t]) \in DisplayMessage
  BY <1>1 DEF IInv, ThreadsTypeOK, CallsUnderWay
<1>3. ThreadsTypeOK'
  BY <1>1, <1>2 DEF IInv, ThreadsTypeOK, TypeOK
<1>4. (Roles /\ Registration /\ HolderEnqueues)'
  BY <1>1 DEF IInv, ThreadsTypeOK, Roles, Registration, HolderEnqueues, Enqueues
<1>5. CallsUnderWay'
  BY <1>1, <1>2 DEF IInv, ThreadsTypeOK, CallsUnderWay, HolderEnqueues, Enqueues, Audience
<1>6. QueueHolders'
  BY <1>1, <1>2 DEF IInv, ThreadsTypeOK, QueueHolders, CallsUnderWay
<1>7. SemaphoreAccount'
  <2>1. \A other \in Threads : pc[other] # "post"
    BY <1>1, OneEnqueuer DEF Enqueues
  <2>2. \A d \in Clients : Unposted(d) = 0 /\ Unposted(d)' = IF d = c THEN 1 ELSE 0
    BY <1>1, <2>1 DEF Unposted, IInv, ThreadsTypeOK
  <2>3. \A d \in Clients : Claimed(d)' = Claimed(d)
    BY <1>1 DEF Claimed, IInv, ThreadsTypeOK
  <2>4. \A d \in Clients : m_queue[d] \in Seq(DisplayMessage) /\ m_avail[d] \in Nat
    BY DEF IInv, ThreadsTypeOK, TypeOK
  <2>5. \A d \in Clients : Len(m_queue'[d]) = IF d = c THEN Len(m_queue[d]) + 1 ELSE Len(m_queue[d])
    BY <1>1, <1>2, <2>4 DEF IInv, ThreadsTypeOK, TypeOK
  <2>6. pc[c] \notin {"none", "register"}
    BY <1>1, <1>2 DEF IInv, CallsUnderWay, Registration, Audience, Enqueues
  <2>7. \A d \in Clients : Claimed(d) \in Nat
    BY DEF Claimed
  <2> QED
    BY <1>1, <2>2, <2>3, <2>4, <2>5, <2>6, <2>7 DEF IInv, ThreadsTypeOK, TypeOK, SemaphoreAccount
<1> QED
  BY <1>3, <1>4, <1>5, <1>6, <1>7 DEF IInv

\* enqueue posts.
LEMMA EnqueuePostInv ==
    ASSUME IInv, NEW t \in Threads, enqueue_post(t)
    PROVE  IInv'
<1> USE UpdatersAssumption DEF Threads
<1> DEFINE c == target[t]
<1>1. /\ pc[t] = "post" /\ pc' = [pc EXCEPT ![t] = "enqueue"]
      /\ m_avail' = [m_avail EXCEPT ![c] = @ + 1]
      /\ target' = [target EXCEPT ![t] = NoThread]
      /\ UNCHANGED <<serverVars, m_mutex, q_mutex, msgs, left>>
  BY DEF enqueue_post, Goto
<1>2. c \in Clients /\ c \in Audience(t, m_display_clients)
  BY <1>1 DEF IInv, ThreadsTypeOK, TypeOK, CallsUnderWay, Audience
<1>3. ThreadsTypeOK'
  BY <1>1, <1>2 DEF IInv, ThreadsTypeOK, TypeOK, serverVars
<1>4. (Roles /\ Registration /\ HolderEnqueues)'
  BY <1>1 DEF IInv, ThreadsTypeOK, Roles, Registration, HolderEnqueues, Enqueues, serverVars
<1>5. (CallsUnderWay /\ QueueHolders)'
  BY <1>1, <1>2 DEF IInv, ThreadsTypeOK, CallsUnderWay, QueueHolders, Enqueues, Audience, serverVars
<1>6. SemaphoreAccount'
  <2>1. \A other \in Threads : pc[other] = "post" => other = t
    BY <1>1, OneEnqueuer DEF Enqueues
  <2>2. \A d \in Clients : Unposted(d)' = 0 /\ Unposted(d) = IF d = c THEN 1 ELSE 0
    BY <1>1, <2>1 DEF Unposted, IInv, ThreadsTypeOK
  <2>3. \A d \in Clients : Claimed(d)' = Claimed(d) /\ Claimed(d) \in Nat
    BY <1>1 DEF Claimed, IInv, ThreadsTypeOK
  <2>4. pc[c] \notin {"none", "register"}
    BY <1>1, <1>2 DEF IInv, CallsUnderWay, Registration, Audience, Enqueues
  <2> QED
    BY <1>1, <1>2, <2>2, <2>3, <2>4 DEF IInv, ThreadsTypeOK, TypeOK, SemaphoreAccount, serverVars
<1> QED
  BY <1>3, <1>4, <1>5, <1>6 DEF IInv

\* A display's thread moves on without touching anything shared.
LEMMA MoveInv ==
    ASSUME IInv, NEW c \in Clients, NEW from, NEW to, Goto(c, from, to),
           \/ from = "none" /\ to = "register"
           \/ from \in {"dequeue", "send"} /\ to \in {"send", "dequeue", "unregister"},
           UNCHANGED <<serverVars, m_mutex, q_mutex, m_avail, callVars>>
    PROVE  IInv'
<1> USE UpdatersAssumption DEF Threads, serverVars, callVars
<1>1. pc[c] = from /\ pc' = [pc EXCEPT ![c] = to]
  BY DEF Goto
<1>2. ThreadsTypeOK'
  BY <1>1 DEF IInv, ThreadsTypeOK, TypeOK
<1>3. (Roles /\ Registration /\ HolderEnqueues)'
  BY <1>1 DEF IInv, ThreadsTypeOK, Roles, Registration, HolderEnqueues, Enqueues
<1>4. (CallsUnderWay /\ QueueHolders)'
  BY <1>1 DEF IInv, ThreadsTypeOK, CallsUnderWay, QueueHolders, Enqueues, Audience
<1>5. SemaphoreAccount'
  <2>1. \A d \in Clients : Unposted(d)' = Unposted(d) /\ Claimed(d)' = Claimed(d)
    BY <1>1 DEF Unposted, Claimed, IInv, ThreadsTypeOK
  <2> QED
    BY <1>1, <2>1 DEF IInv, ThreadsTypeOK, SemaphoreAccount
<1> QED
  BY <1>2, <1>3, <1>4, <1>5 DEF IInv

\* sem_timedwait succeeds.
LEMMA DequeueWaitInv ==
    ASSUME IInv, NEW c \in Clients, dequeue_wait(c)
    PROVE  IInv'
<1> USE UpdatersAssumption DEF Threads, serverVars, callVars
<1>1. /\ pc[c] = "dequeue" /\ pc' = [pc EXCEPT ![c] = "pop_lock"]
      /\ m_avail[c] > 0 /\ m_avail' = [m_avail EXCEPT ![c] = @ - 1]
      /\ UNCHANGED <<serverVars, m_mutex, q_mutex, callVars>>
  BY DEF dequeue_wait, Goto
<1>2. ThreadsTypeOK'
  BY <1>1 DEF IInv, ThreadsTypeOK, TypeOK
<1>3. (Roles /\ Registration /\ HolderEnqueues)'
  BY <1>1 DEF IInv, ThreadsTypeOK, Roles, Registration, HolderEnqueues, Enqueues
<1>4. (CallsUnderWay /\ QueueHolders)'
  BY <1>1 DEF IInv, ThreadsTypeOK, CallsUnderWay, QueueHolders, Enqueues, Audience
<1>5. SemaphoreAccount'
  <2>1. \A d \in Clients : Unposted(d)' = Unposted(d) /\ Unposted(d) \in Nat
    BY <1>1 DEF Unposted, IInv, ThreadsTypeOK
  <2>2. \A d \in Clients : Claimed(d)' = IF d = c THEN Claimed(d) + 1 ELSE Claimed(d)
    BY <1>1 DEF Claimed, IInv, ThreadsTypeOK
  <2>3. \A d \in Clients : Claimed(d) \in Nat
    BY DEF Claimed
  <2> QED
    BY <1>1, <2>1, <2>2, <2>3 DEF IInv, ThreadsTypeOK, SemaphoreAccount
<1> QED
  BY <1>2, <1>3, <1>4, <1>5 DEF IInv

\* dequeue takes the queue's mutex.
LEMMA DequeueLockInv ==
    ASSUME IInv, NEW c \in Clients, dequeue_lock(c)
    PROVE  IInv'
<1> USE UpdatersAssumption DEF Threads, serverVars, callVars
<1>1. /\ pc[c] = "pop_lock" /\ pc' = [pc EXCEPT ![c] = "pop"]
      /\ q_mutex[c] = NoThread /\ q_mutex' = [q_mutex EXCEPT ![c] = c]
      /\ UNCHANGED <<serverVars, m_mutex, m_avail, callVars>>
  BY DEF dequeue_lock, Goto
<1>2. ThreadsTypeOK'
  BY <1>1 DEF IInv, ThreadsTypeOK, TypeOK
<1>3. (Roles /\ Registration /\ HolderEnqueues)'
  BY <1>1 DEF IInv, ThreadsTypeOK, Roles, Registration, HolderEnqueues, Enqueues
<1>4. (CallsUnderWay /\ QueueHolders)'
  BY <1>1 DEF IInv, ThreadsTypeOK, CallsUnderWay, QueueHolders, Enqueues, Audience
<1>5. SemaphoreAccount'
  <2>1. \A d \in Clients : Unposted(d)' = Unposted(d) /\ Claimed(d)' = Claimed(d)
    BY <1>1 DEF Unposted, Claimed, IInv, ThreadsTypeOK
  <2> QED
    BY <1>1, <2>1 DEF IInv, ThreadsTypeOK, SemaphoreAccount
<1> QED
  BY <1>2, <1>3, <1>4, <1>5 DEF IInv

\* dequeue pops and releases the queue's mutex.
LEMMA DequeuePopInv ==
    ASSUME IInv, NEW c \in Clients, dequeue_pop(c)
    PROVE  IInv'
<1> USE UpdatersAssumption DEF Threads, callVars
<1>1. /\ pc[c] = "pop" /\ pc' = [pc EXCEPT ![c] = "send"]
      /\ m_queue[c] # <<>> /\ m_queue' = [m_queue EXCEPT ![c] = Tail(@)]
      /\ q_mutex' = [q_mutex EXCEPT ![c] = NoThread]
      /\ UNCHANGED <<m_orders, m_display_clients, m_next_order_id, m_mutex, m_avail, callVars>>
  BY DEF dequeue_pop, dequeue, Goto
<1>2. ThreadsTypeOK'
  BY <1>1 DEF IInv, ThreadsTypeOK, TypeOK
<1>3. (Roles /\ Registration /\ HolderEnqueues)'
  BY <1>1 DEF IInv, ThreadsTypeOK, Roles, Registration, HolderEnqueues, Enqueues
<1>4. CallsUnderWay'
  <2>1. ASSUME NEW t \in Threads, pc[t] = "push" PROVE target[t] # c
    BY <1>1, <2>1 DEF IInv, CallsUnderWay, QueueHolders
  <2> QED
    BY <1>1, <2>1 DEF IInv, ThreadsTypeOK, CallsUnderWay, Enqueues, Audience
<1>5. QueueHolders'
  BY <1>1 DEF IInv, ThreadsTypeOK, QueueHolders
<1>6. SemaphoreAccount'
  <2>1. \A d \in Clients : Unposted(d)' = Unposted(d) /\ Unposted(d) \in Nat
    BY <1>1 DEF Unposted, IInv, ThreadsTypeOK
  <2>2. \A d \in Clients : Claimed(d) = IF d = c THEN 1 ELSE Claimed(d)'
    BY <1>1 DEF Claimed, IInv, ThreadsTypeOK
  <2>3. Claimed(c)' = 0
    BY <1>1 DEF Claimed, IInv, ThreadsTypeOK
  <2>4. \A d \in Clients : Len(m_queue'[d]) = IF d = c THEN Len(m_queue[d]) - 1 ELSE Len(m_queue[d])
    BY <1>1 DEF IInv, ThreadsTypeOK, TypeOK
  <2>5. \A d \in Clients : Len(m_queue[d]) = m_avail[d] + Unposted(d) + Claimed(d)
    BY DEF IInv, SemaphoreAccount
  <2>6. \A d \in Clients : m_avail[d] \in Nat /\ Claimed(d)' \in Nat /\ m_avail'[d] = m_avail[d]
    BY <1>1 DEF Claimed, IInv, ThreadsTypeOK
  <2>7. \A d \in Clients : Len(m_queue'[d]) = m_avail'[d] + Unposted(d)' + Claimed(d)'
    BY <2>1, <2>2, <2>3, <2>4, <2>5, <2>6
  <2>8. \A d \in Clients : pc'[d] \in {"none", "register"} => m_queue'[d] = <<>> /\ m_avail'[d] = 0
    BY <1>1 DEF IInv, ThreadsTypeOK, TypeOK, SemaphoreAccount
  <2> QED
    BY <2>7, <2>8 DEF SemaphoreAccount
<1> QED
  BY <1>2, <1>3, <1>4, <1>5, <1>6 DEF IInv

\* A display's thread leaves the set of registered Clients.
LEMMA UnregisterInv ==
    ASSUME IInv, NEW c \in Clients, display_loop_unregister(c)
    PROVE  IInv'
<1> USE UpdatersAssumption DEF Threads, callVars
<1>1. /\ pc[c] = "unregister" /\ pc' = [pc EXCEPT ![c] = "destroy"]
      /\ m_mutex = NoThread
      /\ m_display_clients' = m_display_clients \ {c}
      /\ UNCHANGED <<m_orders, m_next_order_id, m_queue, m_mutex, q_mutex, m_avail, callVars>>
  BY DEF display_loop_unregister, unregister_display, Goto
<1>2. \A t \in Threads : ~Enqueues(t)
  BY <1>1 DEF IInv, HolderEnqueues
<1>3. ThreadsTypeOK'
  BY <1>1 DEF IInv, ThreadsTypeOK, TypeOK
<1>4. (Roles /\ Registration /\ HolderEnqueues)'
  BY <1>1 DEF IInv, ThreadsTypeOK, Roles, Registration, HolderEnqueues, Enqueues
<1>5. (CallsUnderWay /\ QueueHolders)'
  BY <1>1, <1>2 DEF IInv, ThreadsTypeOK, CallsUnderWay, QueueHolders, Enqueues, Audience
<1>6. SemaphoreAccount'
  <2>1. \A d \in Clients : Unposted(d)' = Unposted(d) /\ Claimed(d)' = Claimed(d)
    BY <1>1 DEF Unposted, Claimed, IInv, ThreadsTypeOK
  <2> QED
    BY <1>1, <2>1 DEF IInv, ThreadsTypeOK, SemaphoreAccount
<1> QED
  BY <1>3, <1>4, <1>5, <1>6 DEF IInv

\* A Client that enqueue is about is registered: it is neither destroyed nor to be.
LEMMA TargetsAreRegistered ==
    ASSUME IInv, NEW t \in Threads, NEW c \in Clients, c \in left[t] \/ c = target[t]
    PROVE  c \in m_display_clients /\ pc[c] \notin {"none", "register", "destroy"}
<1> USE UpdatersAssumption DEF Threads
<1>1. Enqueues(t) /\ c \in Audience(t, m_display_clients)
  BY DEF IInv, CallsUnderWay, Enqueues
<1>2. c \in m_display_clients
  BY <1>1 DEF IInv, Registration, Audience
<1> QED
  BY <1>2 DEF IInv, Registration, Enqueues

\* ~Client, which nobody is using any more.
LEMMA ThreadEndInv ==
    ASSUME IInv, NEW c \in Clients, client_thread_end(c)
    PROVE  IInv'
<1> USE UpdatersAssumption DEF Threads, callVars
<1>1. /\ pc[c] = "destroy" /\ pc' = [pc EXCEPT ![c] = "none"]
      /\ m_queue' = [m_queue EXCEPT ![c] = <<>>]
      /\ q_mutex' = [q_mutex EXCEPT ![c] = NoThread]
      /\ m_avail' = [m_avail EXCEPT ![c] = 0]
      /\ UNCHANGED <<m_orders, m_display_clients, m_next_order_id, m_mutex, callVars>>
  BY DEF client_thread_end, destroy_client, Goto
<1>2. \A t \in Threads : c \notin left[t] /\ c # target[t]
  BY <1>1, TargetsAreRegistered
<1>3. ThreadsTypeOK'
  BY <1>1 DEF IInv, ThreadsTypeOK, TypeOK
<1>4. (Roles /\ Registration /\ HolderEnqueues)'
  BY <1>1 DEF IInv, ThreadsTypeOK, Roles, Registration, HolderEnqueues, Enqueues
<1>5. CallsUnderWay'
  BY <1>1, <1>2 DEF IInv, ThreadsTypeOK, CallsUnderWay, Enqueues, Audience
<1>6. QueueHolders'
  BY <1>1, <1>2 DEF IInv, ThreadsTypeOK, QueueHolders
<1>7. SemaphoreAccount'
  <2>1. \A d \in Clients : Unposted(d)' = Unposted(d) /\ Claimed(d)' = Claimed(d)
    BY <1>1 DEF Unposted, Claimed, IInv, ThreadsTypeOK
  <2>2. Unposted(c) = 0 /\ Claimed(c) = 0
    BY <1>1, <1>2 DEF Unposted, Claimed
  <2> QED
    BY <1>1, <2>1, <2>2 DEF IInv, ThreadsTypeOK, TypeOK, SemaphoreAccount
<1> QED
  BY <1>3, <1>4, <1>5, <1>6, <1>7 DEF IInv

\* What an accepted ORDER_NEW stores and broadcasts.
LEMMA NewOrderStarts ==
    ASSUME TypeOK, NEW u \in Updaters, NEW items \in NewOrders, new_order(u, items)
    PROVE  /\ OrdersOK(m_orders') /\ m_next_order_id' \in Nat /\ m_next_order_id' >= FirstOrderId
           /\ \E ms \in Seq(DisplayMessage) : ms # <<>> /\ Broadcast(u, ms)
<1> DEFINE order == StoredOrder(m_next_order_id, items)
<1>1. m_next_order_id \in Id /\ m_next_order_id' \in Nat /\ m_next_order_id' >= FirstOrderId
  BY OrderIdsAreIds DEF TypeOK, new_order
<1>2. order \in Order /\ order.id = m_next_order_id
  BY <1>1, StoredOrderType
<1>3. m_orders' = Put(m_orders, m_next_order_id, order) /\ Broadcast(u, <<DISP_ORDER(order)>>)
  BY DEF new_order
<1> HIDE DEF order
<1>4. <<DISP_ORDER(order)>> \in Seq(DisplayMessage) /\ <<DISP_ORDER(order)>> # <<>>
  BY <1>2, DisplayMessages
<1>5. OrdersOK(m_orders')
  BY <1>1, <1>2, <1>3, OrdersStayOK DEF TypeOK, OrdersOK
<1> QED
  BY <1>1, <1>3, <1>4, <1>5

\* What an accepted ITEM_UPDATE stores and broadcasts.
LEMMA ItemUpdateStarts ==
    ASSUME TypeOK, NEW u \in Updaters, NEW o \in DOMAIN m_orders, NEW item_id \in Id,
           NEW s \in ItemStatus, item_update(u, o, item_id, s)
    PROVE  /\ OrdersOK(m_orders') /\ m_next_order_id' = m_next_order_id
           /\ \E ms \in Seq(DisplayMessage) : ms # <<>> /\ Broadcast(u, ms)
<1>1. PICK i \in find_item(m_orders[o], item_id) :
          LET order  == set_item_status(m_orders[o], i, s)
              status == AutoStatus(order, s)
          IN  /\ m_orders' = [m_orders EXCEPT ![o] = set_status(order, status)]
              /\ Broadcast(u, ItemUpdateMessages(o, item_id, s, order.status, status))
  BY DEF item_update
<1> DEFINE order  == set_item_status(m_orders[o], i, s)
           status == AutoStatus(order, s)
           ms     == ItemUpdateMessages(o, item_id, s, order.status, status)
<1>2. m_orders[o] \in Order /\ m_orders[o].id = o /\ o \in Id
  BY DEF TypeOK
<1>3. i \in DOMAIN m_orders[o].items
  BY <1>1, FindItemIndex
<1>4. order \in Order /\ order.id = o
  BY <1>2, <1>3, SetItemStatusType
<1>5. status \in OrderStatus
  BY <1>4, AutoStatusType
<1>6. set_status(order, status) \in Order /\ set_status(order, status).id = o
  BY <1>4, <1>5, SetStatusType
<1>7. m_orders' = [m_orders EXCEPT ![o] = set_status(order, status)] /\ Broadcast(u, ms)
  BY <1>1
<1> HIDE DEF order, status
<1>8. ms \in Seq(DisplayMessage) /\ ms # <<>>
  BY <1>2, <1>5, DisplayMessages DEF ItemUpdateMessages
<1>9. OrdersOK(m_orders')
  BY <1>2, <1>6, <1>7, OrdersStayOK DEF TypeOK, OrdersOK
<1> QED
  BY <1>7, <1>8, <1>9 DEF item_update

\* What an accepted ORDER_UPDATE erases and broadcasts.
LEMMA OrderUpdateStarts ==
    ASSUME TypeOK, NEW u \in Updaters, NEW o \in DOMAIN m_orders, NEW s, order_update(u, o, s)
    PROVE  /\ OrdersOK(m_orders') /\ m_next_order_id' = m_next_order_id
           /\ \E ms \in Seq(DisplayMessage) : ms # <<>> /\ Broadcast(u, ms)
<1>1. /\ m_orders' = Erase(m_orders, o) /\ Broadcast(u, <<DISP_ORDER_UPDATE(o, "DELIVERED")>>)
      /\ m_next_order_id' = m_next_order_id
  BY DEF order_update
<1>2. o \in Id
  BY DEF TypeOK
<1>3. <<DISP_ORDER_UPDATE(o, "DELIVERED")>> \in Seq(DisplayMessage)
  BY <1>2, DisplayMessages DEF OrderStatus
<1>4. OrdersOK(m_orders')
  BY <1>1, <1>2, OrdersStayOK DEF TypeOK, OrdersOK
<1> QED
  BY <1>1, <1>3, <1>4

\* A request that is accepted preserves the invariant.
LEMMA RequestInv ==
    ASSUME IInv, NEW u \in Updaters, Request(u)
    PROVE  IInv'
<1>1. TypeOK
  BY DEF IInv, ThreadsTypeOK
<1>2. /\ OrdersOK(m_orders') /\ m_next_order_id' \in Nat /\ m_next_order_id' >= FirstOrderId
      /\ \E ms \in Seq(DisplayMessage) : ms # <<>> /\ Broadcast(u, ms)
  <2>1. CASE \E items \in NewOrders : new_order(u, items)
    BY <1>1, <2>1, NewOrderStarts
  <2>2. CASE \E o \in DOMAIN m_orders, i \in ItemIds, s \in ItemStatus : item_update(u, o, i, s)
    BY <1>1, <2>2, ItemIdsAreIds, ItemUpdateStarts DEF TypeOK
  <2>3. CASE \E o \in DOMAIN m_orders, s \in OrderStatus : order_update(u, o, s)
    BY <1>1, <2>3, OrderUpdateStarts DEF TypeOK
  <2> QED
    BY <2>1, <2>2, <2>3 DEF Request
<1> QED
  BY <1>2, BroadcastInv

\* Every step preserves the invariant.
LEMMA NextInv ==
    ASSUME IInv, [Next]_vars
    PROVE  IInv'
<1>1. ASSUME NEW t \in Threads, Enqueuing(t) PROVE IInv'
  BY <1>1, EnqueueLockInv, EnqueuePushInv, EnqueuePostInv, NextMessageInv, UnlockInv DEF Enqueuing
<1>2. ASSUME NEW c \in Clients, Dequeuing(c) PROVE IInv'
  <2>1. CASE dequeue_timeout(c)
    BY <2>1, MoveInv DEF dequeue_timeout
  <2> QED
    BY <1>2, <2>1, DequeueWaitInv, DequeueLockInv, DequeuePopInv DEF Dequeuing
<1>3. ASSUME NEW c \in Clients, Life(c) PROVE IInv'
  <2>1. CASE new_client(c)
    BY <2>1, MoveInv DEF new_client
  <2>2. ASSUME NEW ok \in BOOLEAN, display_loop_send(c, ok) PROVE IInv'
    BY <2>2, MoveInv DEF display_loop_send
  <2> QED
    BY <1>3, <2>1, <2>2, RegisterInv, UnregisterInv, ThreadEndInv DEF Life
<1>4. CASE UNCHANGED vars
  BY <1>4 DEF vars, serverVars, threadVars, callVars, IInv, ThreadsTypeOK, TypeOK, Roles, Registration,
     HolderEnqueues, CallsUnderWay, QueueHolders, SemaphoreAccount, Unposted, Claimed, Enqueues, Audience
<1> QED
  BY <1>1, <1>2, <1>3, <1>4, RequestInv DEF Next

-----------------------------------------------------------------------------
(***************************************************************************)
(* The theorems.                                                           *)
(***************************************************************************)
\* The invariant holds in every reachable state.
LEMMA Invariance == Spec => []IInv
<1>1. IInv /\ [Next]_vars => IInv'
  BY NextInv
<1> QED
  BY <1>1, InitIInv, PTL DEF Spec

\* Every variable of the threads keeps its type; in particular a semaphore is never
\* negative and a queue holds display messages only.
THEOREM ThreadsTypeCorrect == Spec => []ThreadsTypeOK
<1>1. IInv => ThreadsTypeOK
  BY DEF IInv
<1> QED
  BY <1>1, Invariance, PTL

\* However many threads there are, broadcast and register_display never touch a
\* Client that was, or may be, destroyed by the end of its own thread.
THEOREM LiveClientsOnly == Spec => []EnqueueOnlyToLiveClients
<1>1. IInv => EnqueueOnlyToLiveClients
  BY TargetsAreRegistered DEF EnqueueOnlyToLiveClients
<1> QED
  BY <1>1, Invariance, PTL

\* Whoever holds a queue's mutex waits for nothing: the server's mutex and the queues'
\* mutexes cannot deadlock.
THEOREM NoMutexCycle == Spec => []QueueMutexIsLeaf
<1>1. ASSUME IInv PROVE QueueMutexIsLeaf
  <2> SUFFICES ASSUME NEW c \in Clients, NEW t \in Threads, q_mutex[c] = t
               PROVE  \/ pc[t] = "push" /\ m_mutex = t /\ target[t] = c
                      \/ pc[t] = "pop" /\ t = c /\ m_queue[c] # <<>>
    BY DEF QueueMutexIsLeaf
  <2>1. CASE pc[t] = "push" /\ target[t] = c
    BY <1>1, <2>1 DEF IInv, HolderEnqueues, Enqueues
  <2>2. CASE pc[t] = "pop" /\ t = c
    <3>1. Claimed(c) = 1 /\ Unposted(c) \in Nat
      BY <2>2 DEF Claimed, Unposted
    <3>2. m_queue[c] \in Seq(DisplayMessage) /\ m_avail[c] \in Nat
      BY <1>1 DEF IInv, ThreadsTypeOK, TypeOK
    <3>3. Len(m_queue[c]) = m_avail[c] + Unposted(c) + Claimed(c)
      BY <1>1 DEF IInv, SemaphoreAccount
    <3>4. Len(m_queue[c]) # 0
      BY <3>1, <3>2, <3>3
    <3> QED
      BY <2>2, <3>2, <3>4
  <2> QED
    BY <1>1, <2>1, <2>2 DEF IInv, QueueHolders
<1>2. IInv => QueueMutexIsLeaf
  BY <1>1
<1> QED
  BY <1>2, Invariance, PTL

-----------------------------------------------------------------------------
(***************************************************************************)
(* The refinement of the atomic Server.                                    *)
(***************************************************************************)
\* Sequences of display messages.
LEMMA QueueFacts ==
    ASSUME NEW q \in Seq(DisplayMessage), NEW ms \in Seq(DisplayMessage)
    PROVE  /\ q \o <<>> = q
           /\ ms # <<>> => Append(q, Head(ms)) \o Tail(ms) = q \o ms
           /\ q # <<>> => q \o ms # <<>> /\ Tail(q) \o ms = Tail(q \o ms)
<1>1. q \o <<>> = q
  OBVIOUS
<1>2. ASSUME ms # <<>> PROVE Append(q, Head(ms)) \o Tail(ms) = q \o ms
  <2> DEFINE a == Append(q, Head(ms))
             b == Tail(ms)
  <2>1. a \in Seq(DisplayMessage) /\ Len(a) = Len(q) + 1 /\ b \in Seq(DisplayMessage) /\ Len(b) = Len(ms) - 1
    BY <1>2
  <2>2. Len(a \o b) = Len(q \o ms) /\ a \o b \in Seq(DisplayMessage) /\ q \o ms \in Seq(DisplayMessage)
    BY <1>2, <2>1
  <2>3. ASSUME NEW k \in 1 .. Len(q) + Len(ms) PROVE (a \o b)[k] = (q \o ms)[k]
    <3>1. CASE k <= Len(q)
      BY <1>2, <2>1, <3>1
    <3>2. CASE k = Len(q) + 1
      BY <1>2, <2>1, <3>2
    <3>3. CASE k > Len(q) + 1
      <4>1. (a \o b)[k] = b[k - Len(q) - 1] /\ (q \o ms)[k] = ms[k - Len(q)]
        BY <1>2, <2>1, <3>3
      <4>2. k - Len(q) - 1 \in 1 .. Len(b) /\ (k - Len(q) - 1) + 1 = k - Len(q)
        BY <1>2, <2>1, <3>3
      <4>3. b[k - Len(q) - 1] = ms[k - Len(q)]
        BY <1>2, <4>2, HeadTailProperties
      <4> QED
        BY <4>1, <4>3
    <3>4. k <= Len(q) \/ k = Len(q) + 1 \/ k > Len(q) + 1
      OBVIOUS
    <3> HIDE DEF a, b
    <3> QED
      BY <3>1, <3>2, <3>3, <3>4
  <2> QED
    BY <2>2, <2>3
<1>3. ASSUME q # <<>> PROVE q \o ms # <<>> /\ Tail(q) \o ms = Tail(q \o ms)
  <2>1. Tail(q) \in Seq(DisplayMessage) /\ Len(Tail(q)) = Len(q) - 1
    BY <1>3
  <2>2. q \o ms # <<>> /\ Len(Tail(q) \o ms) = Len(Tail(q \o ms)) /\ Tail(q \o ms) \in Seq(DisplayMessage)
    BY <1>3, <2>1
  <2>3. ASSUME NEW k \in 1 .. Len(q) - 1 + Len(ms) PROVE (Tail(q) \o ms)[k] = Tail(q \o ms)[k]
    BY <1>3, <2>1, <2>2
  <2> QED
    BY <2>1, <2>2, <2>3
<1> QED
  BY <1>1, <1>2, <1>3

\* Outside the operations nothing is unpushed.
LEMMA NothingUnpushed ==
    ASSUME IInv, m_mutex = NoThread
    PROVE  \A c \in Clients : Unpushed(c) = <<>> /\ CompletedQueue[c] = m_queue[c]
<1>1. \A c \in Clients : m_queue[c] \in Seq(DisplayMessage)
  BY DEF IInv, ThreadsTypeOK, TypeOK
<1>2. \A c \in Clients : Unpushed(c) = <<>>
  BY DEF Unpushed
<1> QED
  BY <1>1, <1>2, QueueFacts DEF CompletedQueue

\* What is unpushed is a sequence of messages.
LEMMA UnpushedType ==
    ASSUME IInv, NEW c \in Clients
    PROVE  Unpushed(c) \in Seq(DisplayMessage) /\ m_queue[c] \in Seq(DisplayMessage)
<1>1. ASSUME m_mutex # NoThread
      PROVE  m_mutex \in Threads /\ msgs[m_mutex] \in Seq(DisplayMessage)
  BY <1>1 DEF IInv, ThreadsTypeOK
<1>2. ASSUME m_mutex # NoThread, msgs[m_mutex] # <<>>
      PROVE  Tail(msgs[m_mutex]) \in Seq(DisplayMessage)
  BY <1>1, <1>2
<1> QED
  BY <1>1, <1>2 DEF Unpushed, IInv, ThreadsTypeOK, TypeOK

\* An operation's first step, in which it changes the orders, is the atomic broadcast.
LEMMA BroadcastRefines ==
    ASSUME IInv, NEW u \in Updaters, NEW ms \in Seq(DisplayMessage), ms # <<>>, Broadcast(u, ms)
    PROVE  Atomic!broadcast(ms) /\ UNCHANGED m_display_clients
<1> USE UpdatersAssumption DEF Threads
<1>1. /\ m_mutex = NoThread /\ m_mutex' = u
      /\ msgs' = [msgs EXCEPT ![u] = ms]
      /\ left' = [left EXCEPT ![u] = m_display_clients]
      /\ UNCHANGED <<m_display_clients, m_queue>>
  BY DEF Broadcast, Guard, StartCalls, Audience
<1>2. msgs'[u] = ms /\ left'[u] = m_display_clients /\ u # NoThread
  BY <1>1 DEF IInv, ThreadsTypeOK
<1>3. \A c \in Clients : Unpushed(c)' = IF c \in m_display_clients THEN ms ELSE <<>>
  BY <1>1, <1>2 DEF Unpushed, Audience
<1>4. \A c \in Clients : CompletedQueue[c] = m_queue[c] /\ m_queue[c] \o <<>> = m_queue[c]
  BY <1>1, NothingUnpushed, UnpushedType, QueueFacts
<1>5. CompletedQueue' = [c \in Clients |-> m_queue[c] \o Unpushed(c)']
  BY <1>1 DEF CompletedQueue
<1> HIDE DEF Threads
<1>6. CompletedQueue' = [c \in Clients |-> IF c \in m_display_clients
                                          THEN CompletedQueue[c] \o ms ELSE CompletedQueue[c]]
  BY <1>3, <1>4, <1>5
<1> QED
  BY <1>1, <1>6 DEF Atomic!broadcast

\* The first step of register_display is the atomic one.
LEMMA RegisterRefines ==
    ASSUME IInv, NEW c \in Clients, display_loop_register(c)
    PROVE  c \notin m_display_clients /\ CompletedQueue[c] = <<>> /\ Atomic!register_display(c)
<1> USE UpdatersAssumption DEF Threads
<1>1. PICK ids \in MapOrder :
          StartCalls(c, [k \in DOMAIN ids |-> DISP_ORDER(m_orders[ids[k]])], m_display_clients')
  BY DEF display_loop_register
<1> DEFINE ms == [k \in DOMAIN ids |-> DISP_ORDER(m_orders[ids[k]])]
<1>2. ms \in Seq(DisplayMessage)
  BY SnapshotType DEF IInv, ThreadsTypeOK
<1> HIDE DEF ms
<1>3. /\ pc[c] = "register"
      /\ m_mutex = NoThread /\ m_mutex' = c
      /\ m_display_clients' = m_display_clients \cup {c}
      /\ msgs' = [msgs EXCEPT ![c] = ms]
      /\ left' = [left EXCEPT ![c] = IF ms = <<>> THEN {} ELSE {c}]
      /\ UNCHANGED <<m_orders, m_next_order_id, m_queue>>
  BY <1>1 DEF display_loop_register, Goto, Guard, StartCalls, Audience, ms
<1>4. c \notin m_display_clients /\ m_queue[c] = <<>>
  BY <1>3 DEF IInv, Registration, SemaphoreAccount, Enqueues
<1>5. msgs'[c] = ms /\ (ms # <<>> => left'[c] = {c}) /\ c # NoThread
  BY <1>3 DEF IInv, ThreadsTypeOK
<1>6. \A d \in Clients : Unpushed(d)' = IF d = c THEN ms ELSE <<>>
  BY <1>3, <1>5 DEF Unpushed, Audience
<1>7. \A d \in Clients : CompletedQueue[d] = m_queue[d] /\ m_queue[d] \o <<>> = m_queue[d]
  BY <1>3, NothingUnpushed, UnpushedType, QueueFacts
<1>8. CompletedQueue' = [d \in Clients |-> m_queue[d] \o Unpushed(d)'] /\ DOMAIN CompletedQueue = Clients
  BY <1>3 DEF CompletedQueue
<1>9. CompletedQueue' = [CompletedQueue EXCEPT ![c] = @ \o ms]
  <2>1. \A d \in Clients : CompletedQueue'[d] = [CompletedQueue EXCEPT ![c] = @ \o ms][d]
    BY <1>6, <1>7, <1>8
  <2>2. DOMAIN CompletedQueue' = Clients /\ DOMAIN [CompletedQueue EXCEPT ![c] = @ \o ms] = Clients
    BY <1>8
  <2> QED
    BY <1>6, <1>7, <1>8, <2>1, <2>2
<1>10. Atomic!MapOrder = MapOrder
  BY DEF Atomic!MapOrder, MapOrder, Atomic!Ascending, Ascending, Atomic!Cardinality, Cardinality
<1>11. Atomic!register_display(c)
  BY <1>3, <1>9, <1>10 DEF Atomic!register_display, ms, Atomic!DISP_ORDER, DISP_ORDER
<1> QED
  BY <1>4, <1>7, <1>11

\* The instance of Server computes with the same operators.
LEMMA SameOperators ==
    /\ \A order : Atomic!DISP_ORDER(order) = DISP_ORDER(order)
    /\ \A o, i, s : Atomic!DISP_ITEM_UPDATE(o, i, s) = DISP_ITEM_UPDATE(o, i, s)
    /\ \A o, s : Atomic!DISP_ORDER_UPDATE(o, s) = DISP_ORDER_UPDATE(o, s)
    /\ \A id, items : Atomic!StoredOrder(id, items) = StoredOrder(id, items)
    /\ \A map, id, order : Atomic!Put(map, id, order) = Put(map, id, order)
    /\ \A map, id : Atomic!Erase(map, id) = Erase(map, id)
    /\ \A order, id : Atomic!find_item(order, id) = find_item(order, id)
    /\ \A order, i, s : Atomic!set_item_status(order, i, s) = set_item_status(order, i, s)
    /\ \A order, s : Atomic!set_status(order, s) = set_status(order, s)
    /\ \A order, s : Atomic!AutoStatus(order, s) = AutoStatus(order, s)
    /\ Atomic!ItemIds = ItemIds /\ Atomic!ItemStatus = ItemStatus /\ Atomic!OrderStatus = OrderStatus
BY DEF Atomic!DISP_ORDER, DISP_ORDER, Atomic!DISP_ITEM_UPDATE, DISP_ITEM_UPDATE,
       Atomic!DISP_ORDER_UPDATE, DISP_ORDER_UPDATE, Atomic!StoredOrder, StoredOrder, Atomic!Put, Put,
       Atomic!Erase, Erase, Atomic!find_item, find_item, Atomic!set_item_status, set_item_status,
       Atomic!set_status, set_status, Atomic!AutoStatus, AutoStatus, Atomic!AllItems, AllItems,
       Atomic!ItemIds, ItemIds, Atomic!ItemStatus, ItemStatus, Atomic!OrderStatus, OrderStatus

\* find_item finds at most one item.
LEMMA FindItemUnique ==
    ASSUME NEW order \in Order, NEW item_id,
           NEW i \in find_item(order, item_id), NEW j \in find_item(order, item_id)
    PROVE  i = j
<1>1. i \in Nat /\ j \in Nat
  BY DEF find_item, Order
<1> QED
  BY <1>1 DEF find_item

\* An accepted request is the atomic operation.
LEMMA RequestRefines ==
    ASSUME IInv, NEW u \in Updaters, Request(u)
    PROVE  Atomic!UpdaterRequest
<1>1. TypeOK
  BY DEF IInv, ThreadsTypeOK
<1>2. ASSUME NEW items \in NewOrders, new_order(u, items)
      PROVE  Atomic!process_new_order(items)
  <2> DEFINE order == StoredOrder(m_next_order_id, items)
  <2>1. /\ m_next_order_id <= MaxOrderId /\ m_next_order_id' = m_next_order_id + 1
        /\ m_orders' = Put(m_orders, m_next_order_id, order) /\ Broadcast(u, <<DISP_ORDER(order)>>)
    BY <1>2 DEF new_order
  <2>2. m_next_order_id \in Id
    BY <1>1, OrderIdsAreIds DEF TypeOK
  <2>3. order \in Order
    BY <2>2, StoredOrderType
  <2>4. Atomic!StoredOrder(m_next_order_id, items) = order
    BY SameOperators
  <2> HIDE DEF order
  <2>5. <<DISP_ORDER(order)>> \in Seq(DisplayMessage) /\ <<DISP_ORDER(order)>> # <<>>
    BY <2>3, DisplayMessages
  <2>6. Atomic!broadcast(<<DISP_ORDER(order)>>) /\ UNCHANGED m_display_clients
    BY <2>1, <2>5, BroadcastRefines
  <2> QED
    BY <2>1, <2>4, <2>6, SameOperators DEF Atomic!process_new_order
<1>3. ASSUME NEW o \in DOMAIN m_orders, NEW item_id \in Id, NEW s \in ItemStatus,
             item_update(u, o, item_id, s)
      PROVE  Atomic!process_item_update(o, item_id, s)
  <2>1. PICK i \in find_item(m_orders[o], item_id) :
            LET order  == set_item_status(m_orders[o], i, s)
                status == AutoStatus(order, s)
            IN  /\ m_orders' = [m_orders EXCEPT ![o] = set_status(order, status)]
                /\ Broadcast(u, ItemUpdateMessages(o, item_id, s, order.status, status))
    BY <1>3 DEF item_update
  <2> DEFINE order  == set_item_status(m_orders[o], i, s)
             status == AutoStatus(order, s)
             ms     == ItemUpdateMessages(o, item_id, s, order.status, status)
  <2>2. m_orders[o] \in Order /\ o \in Id
    BY <1>1 DEF TypeOK
  <2>3. ItemTransition(m_orders[o].items[i].status, s)
    <3>1. PICK j \in find_item(m_orders[o], item_id) : ItemTransition(m_orders[o].items[j].status, s)
      BY <1>3 DEF item_update, item_update_valid
    <3> QED
      BY <2>2, <3>1, FindItemUnique
  <2>4. order \in Order
    BY <2>2, FindItemIndex, SetItemStatusType
  <2>5. status \in OrderStatus
    BY <2>4, AutoStatusType
  <2>6. m_orders' = [m_orders EXCEPT ![o] = set_status(order, status)] /\ Broadcast(u, ms)
    BY <2>1
  <2>7. Atomic!ItemTransition(m_orders[o].items[i].status, s)
    BY <2>3 DEF Atomic!ItemTransition, ItemTransition
  <2>8. Atomic!ItemUpdateMessages(o, item_id, s, order.status, status) = ms
    BY SameOperators DEF Atomic!ItemUpdateMessages, ItemUpdateMessages
  <2>9. Atomic!set_item_status(m_orders[o], i, s) = order /\ Atomic!AutoStatus(order, s) = status
    BY SameOperators
  <2>10. ms \in Seq(DisplayMessage) /\ ms # <<>>
    <3> HIDE DEF order, status
    <3> QED
      BY <2>2, <2>5, DisplayMessages DEF ItemUpdateMessages
  <2> HIDE DEF order, status, ms
  <2>11. Atomic!broadcast(ms) /\ UNCHANGED m_display_clients
    BY <2>6, <2>10, BroadcastRefines
  <2>12. i \in Atomic!find_item(m_orders[o], item_id)
    BY SameOperators
  <2>13. m_orders' = [m_orders EXCEPT ![o] = Atomic!set_status(order, status)]
    BY <2>6, SameOperators
  <2> QED
    BY <1>3, <2>7, <2>8, <2>9, <2>11, <2>12, <2>13 DEF Atomic!process_item_update, item_update
<1>4. ASSUME NEW o \in DOMAIN m_orders, NEW s, order_update(u, o, s)
      PROVE  Atomic!process_order_update(o, s)
  <2>1. /\ m_orders' = Erase(m_orders, o) /\ Broadcast(u, <<DISP_ORDER_UPDATE(o, "DELIVERED")>>)
        /\ m_next_order_id' = m_next_order_id
        /\ m_orders[o].status = "DONE" /\ s = "DELIVERED"
    BY <1>4 DEF order_update, order_update_valid
  <2>2. <<DISP_ORDER_UPDATE(o, "DELIVERED")>> \in Seq(DisplayMessage)
    BY <1>1, DisplayMessages DEF TypeOK, OrderStatus
  <2>3. Atomic!broadcast(<<DISP_ORDER_UPDATE(o, "DELIVERED")>>) /\ UNCHANGED m_display_clients
    BY <2>1, <2>2, BroadcastRefines
  <2> QED
    BY <2>1, <2>3, SameOperators DEF Atomic!process_order_update
<1>5. CASE \E items \in NewOrders : new_order(u, items)
  BY <1>2, <1>5 DEF Atomic!UpdaterRequest
<1>6. CASE \E o \in DOMAIN m_orders, i \in ItemIds, s \in ItemStatus : item_update(u, o, i, s)
  BY <1>3, <1>6, ItemIdsAreIds, SameOperators DEF Atomic!UpdaterRequest
<1>7. CASE \E o \in DOMAIN m_orders, s \in OrderStatus : order_update(u, o, s)
  BY <1>4, <1>7, SameOperators DEF Atomic!UpdaterRequest
<1> QED
  BY <1>5, <1>6, <1>7 DEF Request

\* The rest of an operation, and what a display's thread does besides, leaves the
\* completed queues alone.
LEMMA InvisibleSteps ==
    ASSUME IInv
    PROVE  /\ \A t \in Threads : Enqueuing(t) => UNCHANGED Atomic!serverVars
           /\ \A c \in Clients :
                 \/ dequeue_wait(c) \/ dequeue_timeout(c) \/ dequeue_lock(c) \/ new_client(c)
                 \/ \E ok \in BOOLEAN : display_loop_send(c, ok)
                 => UNCHANGED Atomic!serverVars
<1> USE UpdatersAssumption
<1>1. ASSUME UNCHANGED <<serverVars, m_mutex, msgs, left>>
      PROVE  UNCHANGED Atomic!serverVars
  BY <1>1 DEF Atomic!serverVars, serverVars, CompletedQueue, Unpushed
<1>h. ASSUME NEW t \in Threads, Enqueues(t) PROVE m_mutex = t /\ t # NoThread
  BY <1>h DEF IInv, HolderEnqueues, Threads
<1>2. ASSUME NEW t \in Threads, next_message(t)
      PROVE  UNCHANGED Atomic!serverVars
  <2>1. /\ pc[t] = "enqueue" /\ msgs[t] # <<>> /\ left[t] = {}
        /\ msgs' = [msgs EXCEPT ![t] = Tail(msgs[t])]
        /\ left' = [left EXCEPT ![t] = IF Tail(msgs[t]) = <<>> THEN {} ELSE Audience(t, m_display_clients)]
        /\ UNCHANGED <<serverVars, m_mutex>>
    BY <1>2 DEF next_message, StartCalls
  <2>2. m_mutex = t /\ t # NoThread
    BY <1>h, <2>1 DEF Enqueues
  <2>3. /\ msgs'[t] = Tail(msgs[t])
        /\ left'[t] = IF Tail(msgs[t]) = <<>> THEN {} ELSE Audience(t, m_display_clients)
    BY <2>1 DEF IInv, ThreadsTypeOK
  <2>4. \A c \in Clients : Unpushed(c)' = Unpushed(c)
    BY <2>1, <2>2, <2>3 DEF Unpushed, serverVars, Audience
  <2> QED
    BY <2>1, <2>4 DEF Atomic!serverVars, serverVars, CompletedQueue
<1>3. ASSUME NEW t \in Threads, server_unlock(t)
      PROVE  UNCHANGED Atomic!serverVars
  <2>1. /\ pc[t] = "enqueue" /\ msgs[t] = <<>> /\ m_mutex' = NoThread
        /\ UNCHANGED <<serverVars, msgs, left>>
    BY <1>3 DEF server_unlock, Goto, callVars
  <2>2. m_mutex = t
    BY <1>h, <2>1 DEF Enqueues
  <2>3. \A c \in Clients : Unpushed(c)' = Unpushed(c)
    BY <2>1, <2>2 DEF Unpushed
  <2> QED
    BY <2>1, <2>3 DEF Atomic!serverVars, serverVars, CompletedQueue
<1>4. ASSUME NEW t \in Threads, enqueue_push(t)
      PROVE  UNCHANGED Atomic!serverVars
  <2>0. PICK d \in Clients : d = target[t]
    BY <1>4 DEF enqueue_push, Goto, IInv, ThreadsTypeOK, CallsUnderWay
  <2>1. /\ pc[t] = "push"
        /\ m_queue' = [m_queue EXCEPT ![d] = Append(@, Head(msgs[t]))]
        /\ left' = [left EXCEPT ![t] = @ \ {d}]
        /\ UNCHANGED <<m_orders, m_display_clients, m_next_order_id, m_mutex, msgs>>
    BY <1>4, <2>0 DEF enqueue_push, Goto
  <2>2. d \in left[t] /\ d \in Audience(t, m_display_clients) /\ msgs[t] # <<>>
    BY <2>0, <2>1 DEF IInv, ThreadsTypeOK, CallsUnderWay
  <2>3. m_mutex = t /\ t # NoThread
    BY <1>h, <2>1 DEF Enqueues
  <2>4. Unpushed(d) = msgs[t] /\ Unpushed(d)' = Tail(msgs[t])
    BY <2>1, <2>2, <2>3 DEF Unpushed, IInv, ThreadsTypeOK, Audience
  <2>5. m_queue'[d] \o Unpushed(d)' = m_queue[d] \o Unpushed(d)
    <3>1. m_queue[d] \in Seq(DisplayMessage) /\ msgs[t] \in Seq(DisplayMessage)
      BY <2>2 DEF IInv, ThreadsTypeOK, TypeOK
    <3>2. m_queue'[d] = Append(m_queue[d], Head(msgs[t]))
      BY <2>1, <2>2 DEF IInv, ThreadsTypeOK, TypeOK
    <3>3. Append(m_queue[d], Head(msgs[t])) \o Tail(msgs[t]) = m_queue[d] \o msgs[t]
      BY <2>2, <3>1, QueueFacts
    <3> QED
      BY <2>4, <3>2, <3>3
  <2>6. \A c \in Clients : c # d => Unpushed(c)' = Unpushed(c) /\ m_queue'[c] = m_queue[c]
    BY <2>1, <2>2, <2>3 DEF Unpushed, IInv, ThreadsTypeOK, TypeOK, Audience
  <2>7. CompletedQueue' = CompletedQueue
    BY <2>5, <2>6 DEF CompletedQueue
  <2> QED
    BY <2>1, <2>7 DEF Atomic!serverVars
<1>5. ASSUME NEW t \in Threads, (\E c \in Clients : enqueue_lock(t, c)) \/ enqueue_post(t)
      PROVE  UNCHANGED Atomic!serverVars
  BY <1>1, <1>5 DEF enqueue_lock, enqueue_post
<1>6. ASSUME NEW c \in Clients,
             \/ dequeue_wait(c) \/ dequeue_timeout(c) \/ dequeue_lock(c) \/ new_client(c)
             \/ \E ok \in BOOLEAN : display_loop_send(c, ok)
      PROVE  UNCHANGED Atomic!serverVars
  BY <1>1, <1>6 DEF dequeue_wait, dequeue_timeout, dequeue_lock, new_client, display_loop_send, callVars
<1> QED
  BY <1>2, <1>3, <1>4, <1>5, <1>6 DEF Enqueuing

\* dequeue's pop, seen through the completed queue.
LEMMA PopRefines ==
    ASSUME IInv, NEW c \in Clients, dequeue_pop(c)
    PROVE  c \in m_display_clients /\ Atomic!dequeue(c)
<1>1. /\ pc[c] = "pop" /\ m_queue[c] # <<>> /\ m_queue' = [m_queue EXCEPT ![c] = Tail(@)]
      /\ UNCHANGED <<m_orders, m_display_clients, m_next_order_id, m_mutex, msgs, left>>
  BY DEF dequeue_pop, dequeue, Goto, callVars
<1>2. c \in m_display_clients
  BY <1>1 DEF IInv, Registration
<1>3. \A d \in Clients : Unpushed(d)' = Unpushed(d)
  BY <1>1 DEF Unpushed
<1>4. \A d \in Clients : m_queue'[d] = IF d = c THEN Tail(m_queue[d]) ELSE m_queue[d]
  BY <1>1 DEF IInv, ThreadsTypeOK, TypeOK
<1>5. /\ m_queue[c] \o Unpushed(c) # <<>>
      /\ Tail(m_queue[c]) \o Unpushed(c) = Tail(m_queue[c] \o Unpushed(c))
  BY <1>1, UnpushedType, QueueFacts
<1>6. CompletedQueue[c] # <<>> /\ CompletedQueue' = [CompletedQueue EXCEPT ![c] = Tail(@)]
  BY <1>3, <1>4, <1>5 DEF CompletedQueue
<1> QED
  BY <1>1, <1>2, <1>6 DEF Atomic!dequeue

\* unregister_display, which runs while nobody enqueues.
LEMMA UnregisterRefines ==
    ASSUME IInv, NEW c \in Clients, display_loop_unregister(c)
    PROVE  c \in m_display_clients /\ Atomic!unregister_display(c)
<1>1. /\ pc[c] = "unregister" /\ m_mutex = NoThread /\ m_display_clients' = m_display_clients \ {c}
      /\ UNCHANGED <<m_orders, m_next_order_id, m_queue, m_mutex>>
  BY DEF display_loop_unregister, unregister_display, Goto
<1>2. c \in m_display_clients
  BY <1>1 DEF IInv, Registration
<1>3. CompletedQueue' = CompletedQueue
  BY <1>1 DEF CompletedQueue, Unpushed
<1> QED
  BY <1>1, <1>2, <1>3 DEF Atomic!unregister_display

\* ~Client: nothing is on its way to the destroyed queue.
LEMMA ThreadEndRefines ==
    ASSUME IInv, NEW c \in Clients, client_thread_end(c)
    PROVE  c \notin m_display_clients /\ Atomic!destroy_client(c)
<1> USE UpdatersAssumption DEF Threads
<1>1. /\ pc[c] = "destroy" /\ m_queue' = [m_queue EXCEPT ![c] = <<>>]
      /\ UNCHANGED <<m_orders, m_display_clients, m_next_order_id, m_mutex, msgs, left>>
  BY DEF client_thread_end, destroy_client, Goto, callVars
<1>2. c \notin m_display_clients
  BY <1>1 DEF IInv, Registration, Enqueues
<1>3. \A d \in Clients : Unpushed(d)' = Unpushed(d)
  BY <1>1 DEF Unpushed
<1>4. Unpushed(c) = <<>>
  <2>1. ASSUME m_mutex # NoThread PROVE m_mutex \in Threads /\ Enqueues(m_mutex)
    BY <2>1 DEF IInv, HolderEnqueues, ThreadsTypeOK
  <2>2. ASSUME m_mutex # NoThread PROVE c \notin Audience(m_mutex, m_display_clients)
    BY <1>1, <1>2, <2>1, <2>2 DEF Audience, Enqueues
  <2> QED
    BY <2>2 DEF Unpushed
<1>5. \A d \in Clients : m_queue'[d] = IF d = c THEN <<>> ELSE m_queue[d]
  BY <1>1 DEF IInv, ThreadsTypeOK, TypeOK
<1>6. <<>> \o <<>> = <<>>
  OBVIOUS
<1>7. CompletedQueue' = [CompletedQueue EXCEPT ![c] = <<>>]
  BY <1>3, <1>4, <1>5, <1>6 DEF CompletedQueue
<1> QED
  BY <1>1, <1>2, <1>7 DEF Atomic!destroy_client

\* Every step of the threads is a step of the atomic Server or none of its steps.
LEMMA StepRefines ==
    ASSUME IInv, [Next]_vars
    PROVE  [Atomic!ServerNext]_(Atomic!serverVars)
<1>1. ASSUME NEW c \in Clients, Dequeuing(c) PROVE [Atomic!ServerNext]_(Atomic!serverVars)
  BY <1>1, InvisibleSteps, PopRefines DEF Dequeuing, Atomic!ServerNext
<1>2. ASSUME NEW c \in Clients, Life(c) PROVE [Atomic!ServerNext]_(Atomic!serverVars)
  <2>1. CASE display_loop_register(c)
    BY <2>1, RegisterRefines DEF Atomic!ServerNext
  <2>2. CASE display_loop_unregister(c)
    BY <2>2, UnregisterRefines DEF Atomic!ServerNext
  <2>3. CASE client_thread_end(c)
    <3>1. CASE CompletedQueue[c] = <<>>
      <4>1. [CompletedQueue EXCEPT ![c] = <<>>] = CompletedQueue
        BY <3>1 DEF CompletedQueue
      <4> QED
        BY <2>3, <4>1, ThreadEndRefines DEF Atomic!destroy_client, Atomic!serverVars
    <3>2. CASE CompletedQueue[c] # <<>>
      BY <2>3, <3>2, ThreadEndRefines DEF Atomic!ServerNext
    <3> QED
      BY <3>1, <3>2
  <2> QED
    BY <1>2, <2>1, <2>2, <2>3, InvisibleSteps DEF Life
<1>3. CASE UNCHANGED vars
  BY <1>3 DEF vars, serverVars, threadVars, callVars, Atomic!serverVars, CompletedQueue, Unpushed
<1> QED
  BY <1>1, <1>2, <1>3, InvisibleSteps, RequestRefines DEF Next, Atomic!ServerNext

\* The two kinds of mutex make the Server's operations atomic, for any number of
\* displays and updaters: the threads implement module Server, so that every theorem
\* about Server is one about the threads with their completed queues.
THEOREM ThreadsImplementServer == Spec => ImplementsServer
<1>1. Init => Atomic!ServerInit
  <2> SUFFICES ASSUME Init PROVE Atomic!ServerInit
    OBVIOUS
  <2>1. CompletedQueue = [c \in Clients |-> <<>>]
    <3>1. \A c \in Clients : m_queue[c] \o Unpushed(c) = <<>> \o <<>>
      BY DEF Init, ServerInit, Unpushed
    <3>2. <<>> \o <<>> = <<>>
      OBVIOUS
    <3> QED
      BY <3>1, <3>2 DEF CompletedQueue
  <2> QED
    BY <2>1 DEF Init, ServerInit, Atomic!ServerInit, Atomic!EmptyMap, EmptyMap,
                Atomic!FirstOrderId, FirstOrderId
<1>2. IInv /\ [Next]_vars => [Atomic!ServerNext]_(Atomic!serverVars)
  BY StepRefines
<1> QED
  BY <1>1, <1>2, Invariance, PTL DEF Spec, ImplementsServer, Atomic!ServerSpec

-----------------------------------------------------------------------------
(***************************************************************************)
(* The orders under the threads.                                           *)
(***************************************************************************)
\* An accepted update of the item with index i of order o to status s.
ItemUpdated(o, s, i) ==
    LET order == set_item_status(m_orders[o], i, s)
    IN  /\ ItemTransition(m_orders[o].items[i].status, s)
        /\ m_orders' = [m_orders EXCEPT ![o] = set_status(order, AutoStatus(order, s))]

\* Only the three requests of updaters touch m_orders, each while it takes m_mutex; the
\* many steps of enqueue calls, of dequeue and of displays that come and go do not.
LEMMA OrdersStep ==
    ASSUME IInv, [Next]_vars
    PROVE  \/ m_orders' = m_orders
           \/ \E items \in NewOrders :
                 /\ m_next_order_id \in Id
                 /\ m_orders' = Put(m_orders, m_next_order_id, StoredOrder(m_next_order_id, items))
           \/ \E o \in DOMAIN m_orders, s \in ItemStatus : \E i \in DOMAIN m_orders[o].items : ItemUpdated(o, s, i)
           \/ \E o \in DOMAIN m_orders : m_orders[o].status = "DONE" /\ m_orders' = Erase(m_orders, o)
<1>1. TypeOK
  BY DEF IInv, ThreadsTypeOK
<1>2. ASSUME NEW u \in Updaters, NEW items \in NewOrders, new_order(u, items)
      PROVE  /\ m_next_order_id \in Id
             /\ m_orders' = Put(m_orders, m_next_order_id, StoredOrder(m_next_order_id, items))
  <2>1. m_next_order_id \in Id
    BY <1>1, OrderIdsAreIds DEF TypeOK
  <2> QED
    BY <1>2, <2>1 DEF new_order
<1>3. ASSUME NEW u \in Updaters, NEW o \in DOMAIN m_orders, NEW item_id \in ItemIds, NEW s \in ItemStatus,
             item_update(u, o, item_id, s)
      PROVE  \E i \in DOMAIN m_orders[o].items : ItemUpdated(o, s, i)
  <2>1. PICK i \in find_item(m_orders[o], item_id) :
            LET order == set_item_status(m_orders[o], i, s)
            IN  m_orders' = [m_orders EXCEPT ![o] = set_status(order, AutoStatus(order, s))]
    BY <1>3 DEF item_update
  <2>2. PICK j \in find_item(m_orders[o], item_id) : ItemTransition(m_orders[o].items[j].status, s)
    BY <1>3 DEF item_update, item_update_valid
  <2>3. m_orders[o] \in Order
    BY <1>1 DEF TypeOK
  <2>4. i = j
    BY <2>3, FindItemUnique
  <2>5. i \in DOMAIN m_orders[o].items
    BY FindItemIndex
  <2> QED
    BY <2>1, <2>2, <2>4, <2>5 DEF ItemUpdated
<1>4. ASSUME NEW u \in Updaters, NEW o \in DOMAIN m_orders, NEW s \in OrderStatus, order_update(u, o, s)
      PROVE  m_orders[o].status = "DONE" /\ m_orders' = Erase(m_orders, o)
  BY <1>4 DEF order_update, order_update_valid
<1>5. ASSUME NEW t \in Threads, Enqueuing(t) PROVE m_orders' = m_orders
  BY <1>5 DEF Enqueuing, enqueue_lock, enqueue_push, enqueue_post, next_message, server_unlock, serverVars
<1>6. ASSUME NEW c \in Clients, Dequeuing(c) \/ Life(c) PROVE m_orders' = m_orders
  <2>1. CASE Dequeuing(c)
    BY <2>1 DEF Dequeuing, dequeue_wait, dequeue_timeout, dequeue_lock, dequeue_pop, dequeue, serverVars
  <2>2. CASE Life(c)
    BY <2>2 DEF Life, new_client, display_loop_register, display_loop_send, display_loop_unregister,
                client_thread_end, unregister_display, destroy_client, serverVars
  <2> QED
    BY <1>6, <2>1, <2>2
<1>7. CASE UNCHANGED vars
  BY <1>7 DEF vars, serverVars
<1>8. CASE \E u \in Updaters : Request(u)
  <2>1. PICK u \in Updaters : Request(u)
    BY <1>8
  <2>2. CASE \E items \in NewOrders : new_order(u, items)
    BY <1>2, <2>2, Zenon
  <2>3. CASE \E o \in DOMAIN m_orders, item_id \in ItemIds, s \in ItemStatus : item_update(u, o, item_id, s)
    <3>1. PICK o \in DOMAIN m_orders, item_id \in ItemIds, s \in ItemStatus : item_update(u, o, item_id, s)
      BY <2>3
    <3> QED
      BY <1>3, <3>1, Zenon
  <2>4. CASE \E o \in DOMAIN m_orders, s \in OrderStatus : order_update(u, o, s)
    BY <1>4, <2>4, Zenon
  <2> QED
    BY <2>1, <2>2, <2>3, <2>4, Zenon DEF Request
<1> QED
  BY <1>5, <1>6, <1>7, <1>8 DEF Next

\* Whatever the threads do, the orders' statuses stay in agreement with their items.
LEMMA ThreadsTrack ==
    ASSUME ItemsArriveNew, IInv, OrderStatusTracksItems, [Next]_vars
    PROVE  OrderStatusTracksItems'
<1>1. \A id \in DOMAIN m_orders : Tracks(m_orders[id])
  BY DEF Tracks, OrderStatusTracksItems
<1>2. SUFFICES \A id \in DOMAIN m_orders' : Tracks(m_orders'[id])
  BY DEF Tracks, AllItems, OrderStatusTracksItems
<1>3. CASE m_orders' = m_orders
  BY <1>1, <1>3
<1>4. ASSUME NEW items \in NewOrders, m_next_order_id \in Id,
             m_orders' = Put(m_orders, m_next_order_id, StoredOrder(m_next_order_id, items))
      PROVE  \A id \in DOMAIN m_orders' : Tracks(m_orders'[id])
  <2> DEFINE order == StoredOrder(m_next_order_id, items)
  <2>1. order \in Order /\ order.status = "NEW" /\ AllItems(order, "NEW")
    BY <1>4, StoredOrderType DEF ItemsArriveNew, AllItems
  <2>2. \E i : i \in DOMAIN order.items
    <3>1. order.items \in Seq(Item) /\ order.items # <<>>
      BY <2>1 DEF Order
    <3> HIDE DEF order
    <3>2. 1 \in DOMAIN order.items
      BY <3>1
    <3> QED
      BY <3>2
  <2>3. m_orders' = Put(m_orders, m_next_order_id, order)
    BY <1>4
  <2> HIDE DEF order
  <2>4. Tracks(order)
    BY <2>1, <2>2 DEF Tracks, AllItems
  <2> QED
    BY <1>1, <2>3, <2>4 DEF Put
<1>5. ASSUME NEW o \in DOMAIN m_orders, NEW s \in ItemStatus, NEW i \in DOMAIN m_orders[o].items,
             ItemUpdated(o, s, i)
      PROVE  \A id \in DOMAIN m_orders' : Tracks(m_orders'[id])
  <2> DEFINE order == set_item_status(m_orders[o], i, s)
             final == set_status(order, AutoStatus(order, s))
  <2>1. m_orders[o] \in Order
    BY DEF IInv, ThreadsTypeOK, TypeOK
  <2>2. Tracks(final)
    BY <1>1, <1>5, <2>1, AutoStatusTracks DEF ItemUpdated
  <2>3. m_orders' = [m_orders EXCEPT ![o] = final]
    BY <1>5 DEF ItemUpdated
  <2> HIDE DEF final
  <2> QED
    BY <1>1, <2>2, <2>3
<1>6. ASSUME NEW o \in DOMAIN m_orders, m_orders' = Erase(m_orders, o)
      PROVE  \A id \in DOMAIN m_orders' : Tracks(m_orders'[id])
  BY <1>1, <1>6 DEF Erase
<1> QED
  BY <1>3, <1>4, <1>5, <1>6, OrdersStep, Zenon

\* The incrementally kept status of an order agrees with its items at every moment, also
\* while a thread is in the middle of its enqueue calls and others wait, leave or register.
THEOREM ThreadsKeepStatuses ==
    ASSUME ItemsArriveNew
    PROVE  Spec => []OrderStatusTracksItems
<1>1. Init => OrderStatusTracksItems
  BY DEF Init, ServerInit, EmptyMap, OrderStatusTracksItems
<1>2. IInv /\ OrderStatusTracksItems /\ [Next]_vars => OrderStatusTracksItems'
  BY ThreadsTrack
<1> QED
  BY <1>1, <1>2, Invariance, PTL DEF Spec

\* Of all steps of all threads, only one that delivers an order takes it out of m_orders,
\* and then every item of it is DONE.
THEOREM ThreadsDeliverFinished ==
    ASSUME ItemsArriveNew
    PROVE  Spec => OnlyFinishedOrdersLeave
<1>1. ASSUME IInv, OrderStatusTracksItems, [Next]_vars
      PROVE  [\A id \in DOMAIN m_orders \ DOMAIN m_orders' : AllItems(m_orders[id], "DONE")]_serverVars
  <2>1. ASSUME NEW o \in DOMAIN m_orders, m_orders[o].status = "DONE", m_orders' = Erase(m_orders, o)
        PROVE  \A id \in DOMAIN m_orders \ DOMAIN m_orders' : AllItems(m_orders[id], "DONE")
    BY <1>1, <2>1 DEF Erase, OrderStatusTracksItems
  <2>2. CASE DOMAIN m_orders \subseteq DOMAIN m_orders'
    BY <2>2
  <2>3. ASSUME NEW items \in NewOrders,
               m_orders' = Put(m_orders, m_next_order_id, StoredOrder(m_next_order_id, items))
        PROVE  DOMAIN m_orders \subseteq DOMAIN m_orders'
    BY <2>3 DEF Put
  <2>4. ASSUME NEW o, NEW s, NEW i, ItemUpdated(o, s, i) PROVE DOMAIN m_orders \subseteq DOMAIN m_orders'
    BY <2>4 DEF ItemUpdated
  <2>5. m_orders' = m_orders => DOMAIN m_orders \subseteq DOMAIN m_orders'
    OBVIOUS
  <2> QED
    BY <1>1, <2>1, <2>2, <2>3, <2>4, <2>5, OrdersStep, Zenon
<1> QED
  BY <1>1, ThreadsKeepStatuses, Invariance, PTL DEF Spec, OnlyFinishedOrdersLeave
=============================================================================
