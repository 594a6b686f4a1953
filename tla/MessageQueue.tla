---------------------------- MODULE MessageQueue ----------------------------
(***************************************************************************)
(* MessageQueue (message_queue.h, message_queue.cpp), one action per       *)
(* statement that another thread can observe: the mutex and the semaphore  *)
(* are taken and released separately, and sem_post comes after the unlock. *)
(*                                                                         *)
(* Every thread may enqueue: updater threads broadcast into the queue, and *)
(* the display's own thread fills it in register_display.  Only the        *)
(* display's thread, Consumer, dequeues (Client::display_loop).            *)
(***************************************************************************)
EXTENDS Integers, Sequences, FiniteSets

CONSTANTS
    Threads, Consumer,
    Payload,         \* messages
    NoMessage,       \* the null pointer
    NoThread,        \* m_mutex when nobody holds it
    MaxEnqueues      \* bound on the number of enqueue calls

ASSUME ThreadsAssumption == IsFiniteSet(Threads) /\ Consumer \in Threads /\ NoThread \notin Threads

ASSUME MaxEnqueuesAssumption == MaxEnqueues \in Nat

VARIABLES
    m_queue,      \* std::deque
    m_avail,      \* semaphore
    m_mutex,      \* its holder, or NoThread
    pc,           \* next statement of each thread, "idle" outside of the two operations
    msg,          \* msg[t] : argument of enqueue
    result,       \* what the last dequeue returned
    calls,        \* number of enqueue calls so far
    received      \* number of messages dequeue has returned

vars == <<m_queue, m_avail, m_mutex, pc, msg, result, calls, received>>

PC == {"idle", "push", "push_unlock", "post", "pop_lock", "pop", "pop_unlock"}

Init ==
    /\ m_queue = <<>>
    /\ m_avail = 0
    /\ m_mutex = NoThread
    /\ pc = [t \in Threads |-> "idle"]
    /\ msg = [t \in Threads |-> NoMessage]
    /\ result = NoMessage
    /\ calls = 0
    /\ received = 0

Goto(t, from, to) == pc[t] = from /\ pc' = [pc EXCEPT ![t] = to]

\* Faulty variant for mutation testing: the mutex is not waited for.
Lock_unchecked(t) == m_mutex' = t

Lock(t) == m_mutex = NoThread /\ m_mutex' = t

Unlock(t) == m_mutex = t /\ m_mutex' = NoThread

-----------------------------------------------------------------------------
(***************************************************************************)
(* enqueue(m)                                                              *)
(***************************************************************************)
\* Faulty variant for mutation testing: sem_post before the push.
enqueue_lock_posting(t, m) ==
    /\ Goto(t, "idle", "push")
    /\ calls < MaxEnqueues /\ calls' = calls + 1
    /\ Lock(t)
    /\ msg' = [msg EXCEPT ![t] = m]
    /\ m_avail' = m_avail + 1
    /\ UNCHANGED <<m_queue, result, received>>

enqueue_lock(t, m) ==
    /\ Goto(t, "idle", "push")
    /\ calls < MaxEnqueues /\ calls' = calls + 1
    /\ Lock(t)
    /\ msg' = [msg EXCEPT ![t] = m]
    /\ UNCHANGED <<m_queue, m_avail, result, received>>

\* Faulty variant for mutation testing: push_front for push_back.
enqueue_push_front(t) ==
    /\ Goto(t, "push", "push_unlock")
    /\ m_queue' = <<msg[t]>> \o m_queue
    /\ UNCHANGED <<m_avail, m_mutex, msg, result, calls, received>>

enqueue_push(t) ==
    /\ Goto(t, "push", "push_unlock")
    /\ m_queue' = Append(m_queue, msg[t])
    /\ UNCHANGED <<m_avail, m_mutex, msg, result, calls, received>>

enqueue_unlock(t) ==
    /\ Goto(t, "push_unlock", "post")
    /\ Unlock(t)
    /\ UNCHANGED <<m_queue, m_avail, msg, result, calls, received>>

\* Faulty variant for mutation testing: a post that is lost when one is pending.
enqueue_post_lost(t) ==
    /\ Goto(t, "post", "idle")
    /\ m_avail' = 1
    /\ UNCHANGED <<m_queue, m_mutex, msg, result, calls, received>>

enqueue_post(t) ==
    /\ Goto(t, "post", "idle")
    /\ m_avail' = m_avail + 1
    /\ UNCHANGED <<m_queue, m_mutex, msg, result, calls, received>>

-----------------------------------------------------------------------------
(***************************************************************************)
(* dequeue()                                                               *)
(***************************************************************************)
\* Faulty variant for mutation testing: the result of sem_timedwait is ignored.
dequeue_wait_unchecked(t) ==
    /\ Goto(t, "idle", "pop_lock")
    /\ m_avail' = m_avail - 1
    /\ UNCHANGED <<m_queue, m_mutex, msg, result, calls, received>>

\* sem_timedwait succeeds.
dequeue_wait(t) ==
    /\ Goto(t, "idle", "pop_lock")
    /\ m_avail > 0 /\ m_avail' = m_avail - 1
    /\ UNCHANGED <<m_queue, m_mutex, msg, result, calls, received>>

\* sem_timedwait gives up after a second of m_avail = 0.
dequeue_timeout(t) ==
    /\ pc[t] = "idle"
    /\ m_avail = 0
    /\ result' = NoMessage
    /\ UNCHANGED <<m_queue, m_avail, m_mutex, pc, msg, calls, received>>

dequeue_lock(t) ==
    /\ Goto(t, "pop_lock", "pop")
    /\ Lock(t)
    /\ UNCHANGED <<m_queue, m_avail, msg, result, calls, received>>

\* front() and pop_front(), undefined on an empty deque.
dequeue_pop(t) ==
    /\ Goto(t, "pop", "pop_unlock")
    /\ m_queue # <<>>
    /\ result' = Head(m_queue)
    /\ m_queue' = Tail(m_queue)
    /\ received' = received + 1
    /\ UNCHANGED <<m_avail, m_mutex, msg, calls>>

dequeue_unlock(t) ==
    /\ Goto(t, "pop_unlock", "idle")
    /\ Unlock(t)
    /\ UNCHANGED <<m_queue, m_avail, msg, result, calls, received>>

-----------------------------------------------------------------------------
EnqueueStep(t) == enqueue_push(t) \/ enqueue_unlock(t) \/ enqueue_post(t)

DequeueStep ==
    \/ dequeue_wait(Consumer) \/ dequeue_timeout(Consumer)
    \/ dequeue_lock(Consumer) \/ dequeue_pop(Consumer) \/ dequeue_unlock(Consumer)

Next ==
    \/ \E t \in Threads : (\E m \in Payload : enqueue_lock(t, m)) \/ EnqueueStep(t)
    \/ DequeueStep

\* A started enqueue runs on, and display_loop calls dequeue again and again.
Fairness ==
    /\ \A t \in Threads : WF_vars(EnqueueStep(t))
    /\ WF_vars(DequeueStep)

Spec == Init /\ [][Next]_vars /\ Fairness

-----------------------------------------------------------------------------
TypeOK ==
    /\ m_queue \in Seq(Payload)
    /\ m_avail \in Nat
    /\ m_mutex \in Threads \cup {NoThread}
    /\ pc \in [Threads -> PC]
    /\ msg \in [Threads -> Payload \cup {NoMessage}]
    /\ result \in Payload \cup {NoMessage}
    /\ calls \in Nat /\ received \in Nat

\* Threads inside a critical section.
Inside == {t \in Threads : pc[t] \in {"push", "push_unlock", "pop", "pop_unlock"}}

\* The thread inside a critical section is the one that holds m_mutex, so no
\* two threads ever touch the std::deque at the same time.
DequeAccessExclusive == \A t \in Inside : m_mutex = t

\* Messages pushed whose sem_post is still to come.
Unposted == {t \in Threads : pc[t] \in {"push_unlock", "post"}}

\* Semaphore units taken whose message is still in the deque.
Claimed == IF pc[Consumer] \in {"pop_lock", "pop"} THEN 1 ELSE 0

\* Every message in the deque is accounted for by exactly one semaphore unit, one
\* pending sem_post or the unit the consumer has taken.  So a thread past
\* sem_timedwait always finds a message: front() is never called on an empty deque.
AvailCountsMessages ==
    /\ Len(m_queue) = m_avail + Cardinality(Unposted) + Claimed
    /\ pc[Consumer] = "pop" => m_queue # <<>>

\* The queue is a FIFO channel of the messages that have been posted: a message
\* becomes available at its sem_post, is taken at pop_front, and a null pointer is
\* returned only while nothing is available.
Available == [k \in 1 .. m_avail + Claimed |-> m_queue[k]]

Channel == INSTANCE FifoChannel WITH chan <- Available

FifoSpec == Channel!Spec

\* No wakeup is lost: as long as the display's thread keeps calling dequeue, every
\* message whose enqueue has begun is returned by some dequeue.
EveryMessageIsReturned ==
    \A n \in 1 .. MaxEnqueues : (calls >= n) ~> (received >= n)
=============================================================================
