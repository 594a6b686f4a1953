------------------------- MODULE ServerOutOfMemory --------------------------
(***************************************************************************)
(* ServerThreads with one more step of an updater's thread: push_back      *)
(* throws std::bad_alloc.  enqueue locks its queue without a Guard, so the *)
(* queue's mutex stays locked; the Guard of process_new_order releases     *)
(* m_mutex.  Nothing catches the exception before chat, whose return ends  *)
(* the thread and its Client; the slot waits for the next connection.      *)
(*                                                                         *)
(* Only for DISP_ORDER: its broadcast comes after all other statements of  *)
(* process_new_order, so the order has been stored.                        *)
(***************************************************************************)
EXTENDS MCServerThreads

enqueue_push_throws(u) ==
    /\ Goto(u, "push", "request") /\ Head(msgs[u]).type = "DISP_ORDER"
    /\ m_mutex' = NoThread
    /\ msgs' = [msgs EXCEPT ![u] = <<>>]
    /\ left' = [left EXCEPT ![u] = {}]
    /\ target' = [target EXCEPT ![u] = NoThread]
    /\ UNCHANGED <<serverVars, q_mutex, m_avail>>

OomNext == Next \/ \E u \in Updaters : enqueue_push_throws(u)

OomSpec == Init /\ [][OomNext]_vars /\ Fairness
=============================================================================
