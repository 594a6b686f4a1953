--------------------------- MODULE ServerThreads ----------------------------
(***************************************************************************)
(* The Server again, now with its threads, its mutex and the mutex and     *)
(* semaphore of every Client's MessageQueue.  An operation takes m_mutex   *)
(* (Guard), changes the server's state, and makes its enqueue calls one    *)
(* after the other, each of which takes the mutex of one queue, while      *)
(* Clients come and go and empty their queues.                             *)
(*                                                                         *)
(* Taking a mutex and the statements after it that touch only what the     *)
(* mutex protects are one action, as are such statements and the unlock    *)
(* that follows.  SemanticError releases m_mutex with nothing changed: no  *)
(* step.  Module MessageQueue has the queue in single statements, module   *)
(* KitchenDisplay what comes before display_loop.                          *)
(***************************************************************************)
EXTENDS Server

CONSTANTS
    Updaters,       \* threads of updater connections
    NoThread        \* a mutex nobody holds

Threads == Clients \cup Updaters

ASSUME UpdatersAssumption == Clients \cap Updaters = {} /\ NoThread \notin Clients \cup Updaters

VARIABLES
    m_mutex,     \* holder of the Server's mutex
    q_mutex,     \* q_mutex[c] : holder of the mutex of c's queue
    m_avail,     \* m_avail[c] : the semaphore of c's queue
    pc,          \* next step of each thread
    msgs,        \* msgs[t] : messages t has still to enqueue, the first of them ...
    left,        \* ... only to the Clients in left[t]
    target       \* target[t] : the Client whose enqueue t is in, or NoThread

callVars == <<msgs, left, target>>

threadVars == <<m_mutex, q_mutex, m_avail, pc, callVars>>

vars == <<serverVars, threadVars>>

ThreadsTypeOK ==
    /\ TypeOK
    /\ m_mutex \in Threads \cup {NoThread}
    /\ q_mutex \in [Clients -> Threads \cup {NoThread}]
    /\ m_avail \in [Clients -> Nat]
    /\ pc \in [Threads -> {"none", "register", "enqueue", "push", "post", "dequeue", "pop_lock",
                           "pop", "send", "unregister", "destroy", "request"}]
    /\ msgs \in [Threads -> Seq(DisplayMessage)]
    /\ left \in [Threads -> SUBSET Clients]
    /\ target \in [Threads -> Clients \cup {NoThread}]

Init ==
    /\ ServerInit
    /\ m_mutex = NoThread
    /\ q_mutex = [c \in Clients |-> NoThread]
    /\ m_avail = [c \in Clients |-> 0]
    /\ pc = [t \in Threads |-> IF t \in Updaters THEN "request" ELSE "none"]
    /\ msgs = [t \in Threads |-> <<>>]
    /\ left = [t \in Threads |-> {}]
    /\ target = [t \in Threads |-> NoThread]

Goto(t, from, to) == pc[t] = from /\ pc' = [pc EXCEPT ![t] = to]

-----------------------------------------------------------------------------
(***************************************************************************)
(* The Server's operations, up to their enqueue calls.                     *)
(***************************************************************************)
\* Faulty variant for mutation testing: m_mutex is not waited for.
Guard_unchecked(t) == m_mutex' = t

Guard(t) == m_mutex = NoThread /\ m_mutex' = t

\* Where each message goes: broadcast iterates over m_display_clients, in an order a
\* std::unordered_set does not tell; register_display sends its snapshot to one Client.
Audience(t, clients) == IF t \in Updaters THEN clients ELSE {t}

\* The enqueue calls for ms lie ahead; the set of registered Clients is then `clients'.
StartCalls(t, ms, clients) ==
    /\ msgs' = [msgs EXCEPT ![t] = ms]
    /\ left' = [left EXCEPT ![t] = IF ms = <<>> THEN {} ELSE Audience(t, clients)]
    /\ UNCHANGED target

\* An updater's thread has changed the orders and broadcasts ms.
Broadcast(u, ms) ==
    /\ Goto(u, "request", "enqueue")
    /\ Guard(u)
    /\ StartCalls(u, ms, m_display_clients)
    /\ UNCHANGED <<m_display_clients, m_queue, q_mutex, m_avail>>

new_order(u, items) ==
    /\ m_next_order_id <= MaxOrderId
    /\ m_next_order_id' = m_next_order_id + 1
    /\ LET order == StoredOrder(m_next_order_id, items)
       IN  /\ m_orders' = Put(m_orders, m_next_order_id, order)
           /\ Broadcast(u, <<DISP_ORDER(order)>>)

item_update(u, order_id, item_id, item_status) ==
    /\ item_update_valid(order_id, item_id, item_status)
    /\ \E i \in find_item(m_orders[order_id], item_id) :
          LET order  == set_item_status(m_orders[order_id], i, item_status)
              status == AutoStatus(order, item_status)
          IN  /\ m_orders' = [m_orders EXCEPT ![order_id] = set_status(order, status)]
              /\ Broadcast(u, ItemUpdateMessages(order_id, item_id, item_status, order.status, status))
    /\ UNCHANGED m_next_order_id

order_update(u, order_id, order_status) ==
    /\ order_update_valid(order_id, order_status)
    /\ m_orders' = Erase(m_orders, order_id)
    /\ Broadcast(u, <<DISP_ORDER_UPDATE(order_id, "DELIVERED")>>)
    /\ UNCHANGED m_next_order_id

display_loop_register(c) ==
    /\ Goto(c, "register", "enqueue")
    /\ Guard(c)
    /\ m_display_clients' = m_display_clients \cup {c}
    /\ \E ids \in MapOrder :
          StartCalls(c, [k \in DOMAIN ids |-> DISP_ORDER(m_orders[ids[k]])], m_display_clients')
    /\ UNCHANGED <<m_orders, m_next_order_id, m_queue, q_mutex, m_avail>>

\* The loop of one broadcast ends, or the snapshot's loop goes on to the next order.
next_message(t) ==
    /\ pc[t] = "enqueue" /\ msgs[t] # <<>> /\ left[t] = {}
    /\ StartCalls(t, Tail(msgs[t]), m_display_clients)
    /\ UNCHANGED <<serverVars, m_mutex, q_mutex, m_avail, pc>>

\* ~Guard at the end of these operations.
server_unlock(t) ==
    /\ msgs[t] = <<>>
    /\ Goto(t, "enqueue", IF t \in Updaters THEN "request" ELSE "dequeue")
    /\ m_mutex' = NoThread
    /\ UNCHANGED <<serverVars, q_mutex, m_avail, callVars>>

\* Faulty variant for mutation testing: unregister_display without Guard.
display_loop_unregister_unguarded(c) ==
    /\ Goto(c, "unregister", "destroy")
    /\ unregister_display(c)
    /\ UNCHANGED <<m_mutex, q_mutex, m_avail, callVars>>

\* unregister_display from Guard to ~Guard.
display_loop_unregister(c) ==
    /\ Goto(c, "unregister", "destroy")
    /\ m_mutex = NoThread
    /\ unregister_display(c)
    /\ UNCHANGED <<m_mutex, q_mutex, m_avail, callVars>>

-----------------------------------------------------------------------------
(***************************************************************************)
(* MessageQueue::enqueue and dequeue.                                      *)
(***************************************************************************)
enqueue_lock(t, c) ==
    /\ c \in left[t]
    /\ Goto(t, "enqueue", "push")
    /\ target' = [target EXCEPT ![t] = c]
    /\ q_mutex[c] = NoThread
    /\ q_mutex' = [q_mutex EXCEPT ![c] = t]
    /\ UNCHANGED <<serverVars, m_mutex, m_avail, msgs, left>>

\* Faulty variant for mutation testing: push_front for push_back.
enqueue_push_front(t) ==
    /\ Goto(t, "push", "post")
    /\ m_queue' = [m_queue EXCEPT ![target[t]] = <<Head(msgs[t])>> \o @]
    /\ q_mutex' = [q_mutex EXCEPT ![target[t]] = NoThread]
    /\ left' = [left EXCEPT ![t] = @ \ {target[t]}]
    /\ UNCHANGED <<m_orders, m_display_clients, m_next_order_id, m_mutex, m_avail, msgs, target>>

enqueue_push(t) ==
    /\ Goto(t, "push", "post")
    /\ m_queue' = [m_queue EXCEPT ![target[t]] = Append(@, Head(msgs[t]))]
    /\ q_mutex' = [q_mutex EXCEPT ![target[t]] = NoThread]
    /\ left' = [left EXCEPT ![t] = @ \ {target[t]}]
    /\ UNCHANGED <<m_orders, m_display_clients, m_next_order_id, m_mutex, m_avail, msgs, target>>

enqueue_post(t) ==
    /\ Goto(t, "post", "enqueue")
    /\ m_avail' = [m_avail EXCEPT ![target[t]] = @ + 1]
    /\ target' = [target EXCEPT ![t] = NoThread]
    /\ UNCHANGED <<serverVars, m_mutex, q_mutex, msgs, left>>

\* Faulty variant for mutation testing: the semaphore is not waited for.
dequeue_wait_unchecked(c) ==
    /\ Goto(c, "dequeue", "pop_lock")
    /\ m_avail' = [m_avail EXCEPT ![c] = @ - 1]
    /\ UNCHANGED <<serverVars, m_mutex, q_mutex, callVars>>

dequeue_wait(c) ==
    /\ Goto(c, "dequeue", "pop_lock")
    /\ m_avail[c] > 0
    /\ m_avail' = [m_avail EXCEPT ![c] = @ - 1]
    /\ UNCHANGED <<serverVars, m_mutex, q_mutex, callVars>>

dequeue_timeout(c) ==
    /\ Goto(c, "dequeue", "send")
    /\ m_avail[c] = 0
    /\ UNCHANGED <<serverVars, m_mutex, q_mutex, m_avail, callVars>>

dequeue_lock(c) ==
    /\ Goto(c, "pop_lock", "pop")
    /\ q_mutex[c] = NoThread
    /\ q_mutex' = [q_mutex EXCEPT ![c] = c]
    /\ UNCHANGED <<serverVars, m_mutex, m_avail, callVars>>

\* Faulty variant for mutation testing: the queue stays locked while its message is sent.
dequeue_pop_keeps_lock(c) ==
    /\ Goto(c, "pop", "send")
    /\ dequeue(c)
    /\ UNCHANGED <<m_mutex, q_mutex, m_avail, callVars>>

dequeue_pop(c) ==
    /\ Goto(c, "pop", "send")
    /\ dequeue(c)
    /\ q_mutex' = [q_mutex EXCEPT ![c] = NoThread]
    /\ UNCHANGED <<m_mutex, m_avail, callVars>>

-----------------------------------------------------------------------------
(***************************************************************************)
(* The life of a display's Client around its queue.                        *)
(***************************************************************************)
new_client(c) ==
    /\ Goto(c, "none", "register")
    /\ UNCHANGED <<serverVars, m_mutex, q_mutex, m_avail, callVars>>

\* send_message; a display that does not read may block it for ever.
display_loop_send(c, ok) ==
    /\ Goto(c, "send", IF ok THEN "dequeue" ELSE "unregister")
    /\ UNCHANGED <<serverVars, m_mutex, q_mutex, m_avail, callVars>>

\* ~Client, with ~MessageQueue; the slot's next Client begins with a new queue.
client_thread_end(c) ==
    /\ Goto(c, "destroy", "none")
    /\ destroy_client(c)
    /\ q_mutex' = [q_mutex EXCEPT ![c] = NoThread]
    /\ m_avail' = [m_avail EXCEPT ![c] = 0]
    /\ UNCHANGED <<m_mutex, callVars>>

-----------------------------------------------------------------------------
Enqueuing(t) ==
    \/ \E c \in Clients : enqueue_lock(t, c)
    \/ enqueue_push(t) \/ enqueue_post(t) \/ next_message(t) \/ server_unlock(t)

Dequeuing(c) == dequeue_wait(c) \/ dequeue_timeout(c) \/ dequeue_lock(c) \/ dequeue_pop(c)

Request(u) ==
    \/ \E items \in NewOrders : new_order(u, items)
    \/ \E order_id \in DOMAIN m_orders, item_id \in ItemIds, item_status \in ItemStatus :
          item_update(u, order_id, item_id, item_status)
    \/ \E order_id \in DOMAIN m_orders, order_status \in OrderStatus :
          order_update(u, order_id, order_status)

Life(c) ==
    \/ new_client(c) \/ display_loop_register(c)
    \/ \E ok \in BOOLEAN : display_loop_send(c, ok)
    \/ display_loop_unregister(c) \/ client_thread_end(c)

Next ==
    \/ \E t \in Threads : Enqueuing(t)
    \/ \E c \in Clients : Dequeuing(c) \/ Life(c)
    \/ \E u \in Updaters : Request(u)

\* A thread inside enqueue or dequeue runs on.  Nothing is assumed of send_message,
\* of connections or of requests.
Fairness ==
    /\ \A t \in Threads : WF_vars(Enqueuing(t))
    /\ \A c \in Clients : WF_vars(Dequeuing(c))

Spec == Init /\ [][Next]_vars /\ Fairness

-----------------------------------------------------------------------------
(***************************************************************************)
(* Properties.                                                             *)
(***************************************************************************)
\* Inside enqueue a thread uses the mutex, the deque and last, after the unlock, the
\* semaphore of another thread's Client.  Through all of these steps that Client is
\* still alive, also when its own thread has popped the message and, after a failed
\* send, wants to leave: unregister_display waits for m_mutex.
EnqueueOnlyToLiveClients ==
    \A t \in Threads : \A c \in Clients :
        c \in left[t] \/ c = target[t] => pc[c] \notin {"destroy", "none"}

\* Nobody waits for ever: whoever holds a queue's mutex is at a statement that needs
\* nothing more, the push of its own enqueue or the pop of its own, non-empty queue.
\* So the server's mutex is only ever kept waiting by such a holder.  (README.txt says
\* that the two kinds of mutex are never held together; broadcast and register_display
\* hold both.  That there is no deadlock is because the queues' mutexes are leaves.)
QueueMutexIsLeaf ==
    \A c \in Clients, t \in Threads : q_mutex[c] = t =>
        \/ pc[t] = "push" /\ m_mutex = t /\ target[t] = c
        \/ pc[t] = "pop" /\ t = c /\ m_queue[c] # <<>>

\* The server is never stuck: whoever holds m_mutex releases it, although it waits
\* for queue mutexes meanwhile, and even if displays stop reading and their threads
\* hang in send_message for ever.
ServerMutexIsReleased == \A t \in Threads : (m_mutex = t) ~> (m_mutex # t)

\* What the holder of m_mutex has still to push into c's queue.
Unpushed(c) ==
    IF m_mutex = NoThread THEN <<>>
    ELSE IF msgs[m_mutex] = <<>> \/ c \notin Audience(m_mutex, m_display_clients) THEN <<>>
    ELSE IF c \in left[m_mutex] THEN msgs[m_mutex] ELSE Tail(msgs[m_mutex])

CompletedQueue == [c \in Clients |-> m_queue[c] \o Unpushed(c)]

Atomic == INSTANCE Server WITH m_queue <- CompletedQueue

\* The two kinds of mutex make every operation of the Server atomic: the threads
\* implement module Server, in which an operation and all its enqueue calls are one step.
ImplementsServer == Atomic!ServerSpec
=============================================================================
