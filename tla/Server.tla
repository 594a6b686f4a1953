------------------------------- MODULE Server -------------------------------
(***************************************************************************)
(* The Server object (server.h, server.cpp).  Every public operation runs  *)
(* from first to last statement under Guard g(m_mutex), so each one is a   *)
(* single action here; the messages it enqueues are appended to the        *)
(* queues in the order of its enqueue calls.  An operation whose checks    *)
(* fail throws SemanticError before it has changed anything: a disabled    *)
(* action.                                                                 *)
(*                                                                         *)
(* m_queue[c] is the MessageQueue inside Client c, here an atomic FIFO:    *)
(* module MessageQueue justifies that.                                     *)
(***************************************************************************)
EXTENDS Messages, FiniteSets

CONSTANTS
    Clients,        \* Client objects of display connections
    NewOrders,      \* item lists <<[id, status], ...>> an ORDER_NEW may carry
    MaxOrderId      \* bound: no order gets an id above it

FirstOrderId == 1000

ReceivedItem == [id : Id, status : ItemStatus]

ASSUME NewOrdersAssumption == NewOrders \subseteq Seq(ReceivedItem) \ {<<>>}

ASSUME MaxOrderIdAssumption == MaxOrderId \in Nat

VARIABLES
    m_orders,            \* std::map order id -> order
    m_display_clients,   \* std::unordered_set of registered Clients
    m_next_order_id,
    m_queue              \* m_queue[c] : Client c's MessageQueue

serverVars == <<m_orders, m_display_clients, m_next_order_id, m_queue>>

TypeOK ==
    /\ DOMAIN m_orders \subseteq Id /\ IsFiniteSet(DOMAIN m_orders)
    /\ \A id \in DOMAIN m_orders : m_orders[id] \in Order /\ m_orders[id].id = id
    /\ m_display_clients \subseteq Clients
    /\ m_next_order_id \in Nat
    /\ m_next_order_id >= FirstOrderId
    /\ m_queue \in [Clients -> Seq(DisplayMessage)]

ServerInit ==
    /\ m_orders = EmptyMap
    /\ m_display_clients = {}
    /\ m_next_order_id = FirstOrderId
    /\ m_queue = [c \in Clients |-> <<>>]

-----------------------------------------------------------------------------
\* Faulty variant for mutation testing: a client whose queue is not
\* empty is skipped.
broadcast_skips_busy(msgs) ==
    m_queue' = [c \in Clients |-> IF c \in m_display_clients /\ m_queue[c] = <<>>
                                  THEN m_queue[c] \o msgs ELSE m_queue[c]]

\* The broadcast calls of one operation, in program order.
broadcast(msgs) ==
    m_queue' = [c \in Clients |-> IF c \in m_display_clients
                                  THEN m_queue[c] \o msgs ELSE m_queue[c]]

\* std::map iterates in ascending order of its keys.
Ascending(ids) == \A j, k \in DOMAIN ids : j < k => ids[j] < ids[k]

MapOrder == {ids \in [1 .. Cardinality(DOMAIN m_orders) -> DOMAIN m_orders] : Ascending(ids)}

\* Faulty variant for mutation testing: no snapshot on registration.
register_display_no_snapshot(c) ==
    /\ m_display_clients' = m_display_clients \cup {c}
    /\ UNCHANGED <<m_orders, m_next_order_id, m_queue>>

register_display(c) ==
    /\ m_display_clients' = m_display_clients \cup {c}
    /\ \E ids \in MapOrder :
          m_queue' = [m_queue EXCEPT ![c] = @ \o [k \in DOMAIN ids |-> DISP_ORDER(m_orders[ids[k]])]]
    /\ UNCHANGED <<m_orders, m_next_order_id>>

\* Faulty variant for mutation testing: the client stays registered.
unregister_display_forgotten(c) == UNCHANGED serverVars

unregister_display(c) ==
    /\ m_display_clients' = m_display_clients \ {c}
    /\ UNCHANGED <<m_orders, m_next_order_id, m_queue>>

\* MessageQueue::dequeue by the Client's own thread, when a message is there.
dequeue(c) ==
    /\ m_queue[c] # <<>>
    /\ m_queue' = [m_queue EXCEPT ![c] = Tail(@)]
    /\ UNCHANGED <<m_orders, m_display_clients, m_next_order_id>>

\* ~Client destroys the queue with whatever is still in it.
destroy_client(c) ==
    /\ m_queue' = [m_queue EXCEPT ![c] = <<>>]
    /\ UNCHANGED <<m_orders, m_display_clients, m_next_order_id>>

-----------------------------------------------------------------------------
\* Faulty variant for mutation testing: set_id is forgotten, updater_main's id 1 stays.
StoredOrder_keeps_id(id, items) ==
    [id |-> 1, status |-> "NEW",
     items |-> [i \in DOMAIN items |->
                   [order_id |-> id, id |-> items[i].id, status |-> items[i].status]]]

\* The order the server stores for the received item list.
StoredOrder(id, items) ==
    [id |-> id, status |-> "NEW",
     items |-> [i \in DOMAIN items |->
                   [order_id |-> id, id |-> items[i].id, status |-> items[i].status]]]

\* Faulty variant for mutation testing: the counter is not advanced.
process_new_order_same_id(items) ==
    /\ m_next_order_id <= MaxOrderId
    /\ LET order == StoredOrder(m_next_order_id, items)
       IN  /\ m_orders' = Put(m_orders, m_next_order_id, order)
           /\ broadcast(<<DISP_ORDER(order)>>)
    /\ UNCHANGED <<m_display_clients, m_next_order_id>>

process_new_order(items) ==
    /\ m_next_order_id <= MaxOrderId
    /\ m_next_order_id' = m_next_order_id + 1
    /\ LET order == StoredOrder(m_next_order_id, items)
       IN  /\ m_orders' = Put(m_orders, m_next_order_id, order)
           /\ broadcast(<<DISP_ORDER(order)>>)
    /\ UNCHANGED m_display_clients

\* Strictly forward, one status at a time.
ItemTransition(from, to) ==
    \/ from = "NEW" /\ to = "IN_PROGRESS"
    \/ from = "IN_PROGRESS" /\ to = "DONE"

\* Faulty variant for mutation testing: the check of the other items is dropped.
AutoStatus_no_scan(order, item_status) ==
    IF item_status = "IN_PROGRESS" /\ order.status = "NEW" THEN "IN_PROGRESS"
    ELSE IF item_status = "DONE" /\ order.status = "IN_PROGRESS" THEN "DONE"
    ELSE order.status

\* The order's status after one of its items (already set) got item_status.
AutoStatus(order, item_status) ==
    IF item_status = "IN_PROGRESS" /\ order.status = "NEW" THEN "IN_PROGRESS"
    ELSE IF item_status = "DONE" /\ order.status = "IN_PROGRESS" /\ AllItems(order, "DONE")
    THEN "DONE"
    ELSE order.status

\* Faulty variant for mutation testing: the order's update goes out first.
ItemUpdateMessages_swapped(order_id, item_id, item_status, from, to) ==
    IF from = to THEN <<DISP_ITEM_UPDATE(order_id, item_id, item_status)>>
    ELSE <<DISP_ORDER_UPDATE(order_id, to), DISP_ITEM_UPDATE(order_id, item_id, item_status)>>

\* What process_item_update broadcasts when the order's status goes from `from' to `to'.
ItemUpdateMessages(order_id, item_id, item_status, from, to) ==
    IF from = to THEN <<DISP_ITEM_UPDATE(order_id, item_id, item_status)>>
    ELSE <<DISP_ITEM_UPDATE(order_id, item_id, item_status), DISP_ORDER_UPDATE(order_id, to)>>

process_item_update(order_id, item_id, item_status) ==
    /\ order_id \in DOMAIN m_orders
    /\ \E i \in find_item(m_orders[order_id], item_id) :
          /\ ItemTransition(m_orders[order_id].items[i].status, item_status)
          /\ LET order  == set_item_status(m_orders[order_id], i, item_status)
                 status == AutoStatus(order, item_status)
             IN  /\ m_orders' = [m_orders EXCEPT ![order_id] = set_status(order, status)]
                 /\ broadcast(ItemUpdateMessages(order_id, item_id, item_status, order.status, status))
    /\ UNCHANGED <<m_display_clients, m_next_order_id>>

\* Faulty variants for mutation testing: delivery of an order that is only
\* in progress; the erased order is not announced.
process_order_update_early(order_id, order_status) ==
    /\ order_id \in DOMAIN m_orders
    /\ m_orders[order_id].status # "NEW" /\ order_status = "DELIVERED"
    /\ broadcast(<<DISP_ORDER_UPDATE(order_id, "DELIVERED")>>)
    /\ m_orders' = Erase(m_orders, order_id)
    /\ UNCHANGED <<m_display_clients, m_next_order_id>>

process_order_update_silent(order_id, order_status) ==
    /\ order_id \in DOMAIN m_orders
    /\ m_orders[order_id].status = "DONE" /\ order_status = "DELIVERED"
    /\ m_orders' = Erase(m_orders, order_id)
    /\ UNCHANGED <<m_display_clients, m_next_order_id, m_queue>>

process_order_update(order_id, order_status) ==
    /\ order_id \in DOMAIN m_orders
    /\ m_orders[order_id].status = "DONE" /\ order_status = "DELIVERED"
    /\ broadcast(<<DISP_ORDER_UPDATE(order_id, "DELIVERED")>>)
    /\ m_orders' = Erase(m_orders, order_id)
    /\ UNCHANGED <<m_display_clients, m_next_order_id>>

\* The checks of the two update operations: when they fail, SemanticError is thrown.
item_update_valid(order_id, item_id, item_status) ==
    /\ order_id \in DOMAIN m_orders
    /\ \E i \in find_item(m_orders[order_id], item_id) :
          ItemTransition(m_orders[order_id].items[i].status, item_status)

order_update_valid(order_id, order_status) ==
    /\ order_id \in DOMAIN m_orders
    /\ m_orders[order_id].status = "DONE" /\ order_status = "DELIVERED"

\* The three operations an updater's requests reach, with any argument.
ItemIds == UNION {{items[i].id : i \in DOMAIN items} : items \in NewOrders}

UpdaterRequest ==
    \/ \E items \in NewOrders : process_new_order(items)
    \/ \E order_id \in DOMAIN m_orders, item_id \in ItemIds, item_status \in ItemStatus :
          process_item_update(order_id, item_id, item_status)
    \/ \E order_id \in DOMAIN m_orders, order_status \in OrderStatus :
          process_order_update(order_id, order_status)

-----------------------------------------------------------------------------
(***************************************************************************)
(* The server by itself.  A Client registers once in its life, with the    *)
(* empty queue it was born with; KitchenDisplay models that life.          *)
(***************************************************************************)
ServerNext ==
    \/ UpdaterRequest
    \/ \E c \in Clients :
          \/ c \notin m_display_clients /\ m_queue[c] = <<>> /\ register_display(c)
          \/ c \in m_display_clients /\ unregister_display(c)
          \/ c \in m_display_clients /\ dequeue(c)
          \/ c \notin m_display_clients /\ m_queue[c] # <<>> /\ destroy_client(c)

ServerSpec == ServerInit /\ [][ServerNext]_serverVars

-----------------------------------------------------------------------------
(***************************************************************************)
(* Properties of the orders.                                               *)
(***************************************************************************)
\* What updater_main always sends: all items NEW.
ItemsArriveNew == \A items \in NewOrders : \A i \in DOMAIN items : items[i].status = "NEW"

\* The status process_item_update keeps in an order always agrees with the
\* statuses of its items, although it looks only at the one item that changed
\* and at the order's previous status: NEW exactly while no item was started,
\* DONE exactly when all are done, and a DELIVERED order is never kept.
\* Holds when items arrive NEW.
OrderStatusTracksItems ==
    \A id \in DOMAIN m_orders :
        /\ m_orders[id].status = "NEW" <=> AllItems(m_orders[id], "NEW")
        /\ m_orders[id].status = "DONE" <=> AllItems(m_orders[id], "DONE")
        /\ m_orders[id].status # "DELIVERED"

\* The items that come after another one with the same id.
Shadowed(order) ==
    {i \in DOMAIN order.items : \E j \in DOMAIN order.items : j < i /\ order.items[j].id = order.items[i].id}

\* Repeated item ids, which nobody refuses, and only these block an order.  With distinct
\* ids, an order that is not DONE has an item update that process_item_update accepts;
\* an item shadowed by another one stays NEW whatever is asked for, so that its order
\* never becomes DONE.  Holds when items arrive NEW.
OnlyRepeatedIdsBlock ==
    \A id \in DOMAIN m_orders :
        LET order == m_orders[id]
        IN  /\ Shadowed(order) = {} =>
                  \/ order.status = "DONE"
                  \/ \E i \in DOMAIN order.items, to \in ItemStatus : item_update_valid(id, order.items[i].id, to)
            /\ Shadowed(order) # {} =>
                  order.status # "DONE" /\ \A i \in Shadowed(order) : order.items[i].status = "NEW"

\* process_order_update tests only the order's own status before it erases the
\* order: still, an order leaves m_orders only when every item of it is DONE.
OnlyFinishedOrdersLeave ==
    [][\A id \in DOMAIN m_orders \ DOMAIN m_orders' : AllItems(m_orders[id], "DONE")]_serverVars

\* The assignment text on process_item_update: "When all of the Items in an Order
\* have the status ItemStatus::DONE, their Order should change status to
\* OrderStatus::DONE".
AllDoneOrdersAreDone ==
    \A id \in DOMAIN m_orders :
        AllItems(m_orders[id], "DONE") => m_orders[id].status = "DONE"
=============================================================================
