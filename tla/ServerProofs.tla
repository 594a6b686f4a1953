---------------------------- MODULE ServerProofs ----------------------------
(***************************************************************************)
(* Proofs about Server, for every set of clients, every set of item lists  *)
(* and every bound.                                                        *)
(***************************************************************************)
EXTENDS Server, FiniteSetTheorems, TLAPS

-----------------------------------------------------------------------------
(***************************************************************************)
(* Facts about the operators.                                              *)
(***************************************************************************)

\* find_item returns indices of the order's items.
LEMMA FindItemIndex ==
    ASSUME NEW order, NEW item_id, NEW i \in find_item(order, item_id)
    PROVE  i \in DOMAIN order.items /\ order.items[i].id = item_id
BY DEF find_item

\* set_item_status keeps an order an order, its id, its status and its item ids.
LEMMA SetItemStatusType ==
    ASSUME NEW order \in Order, NEW i \in DOMAIN order.items, NEW s \in ItemStatus
    PROVE  LET o == set_item_status(order, i, s)
           IN  /\ o \in Order
               /\ o.id = order.id
               /\ o.status = order.status
               /\ DOMAIN o.items = DOMAIN order.items
               /\ o.items[i].status = s
               /\ \A j \in DOMAIN order.items : o.items[j].id = order.items[j].id
               /\ \A j \in DOMAIN order.items :
                     j # i => o.items[j].status = order.items[j].status
<1> DEFINE items == [order.items EXCEPT ![i].status = s]
<1>1. order.items \in Seq(Item) /\ order.items # <<>>
  BY DEF Order
<1>2. order.items[i] \in Item
  BY <1>1
<1>3. [order.items[i] EXCEPT !.status = s] \in Item
  BY <1>2 DEF Item
<1>4. items \in Seq(Item) /\ Len(items) = Len(order.items) /\ DOMAIN items = DOMAIN order.items
  BY <1>1, <1>3
<1>5. items # <<>>
  BY <1>1, <1>4
<1>6. set_item_status(order, i, s) = [order EXCEPT !.items = items]
  BY DEF set_item_status
<1>7. [order EXCEPT !.items = items] \in Order /\ [order EXCEPT !.items = items].items = items
  BY <1>4, <1>5 DEF Order
<1>8. \A j \in DOMAIN order.items : items[j].id = order.items[j].id
  BY <1>1, <1>2 DEF Item
<1>9. items[i].status = s /\ \A j \in DOMAIN order.items : j # i => items[j] = order.items[j]
  BY <1>1, <1>2 DEF Item
<1> HIDE DEF items
<1>10. [order EXCEPT !.items = items].id = order.id /\ [order EXCEPT !.items = items].status = order.status
  BY DEF Order
<1> QED
  BY <1>4, <1>6, <1>7, <1>8, <1>9, <1>10

\* set_status keeps an order an order, its id and its items.
LEMMA SetStatusType ==
    ASSUME NEW order \in Order, NEW s \in OrderStatus
    PROVE  /\ set_status(order, s) \in Order
           /\ set_status(order, s).id = order.id
           /\ set_status(order, s).status = s
           /\ set_status(order, s).items = order.items
BY DEF set_status, Order

\* The stored order of an ORDER_NEW is an order with the assigned id.
LEMMA StoredOrderType ==
    ASSUME NEW id \in Id, NEW items \in NewOrders
    PROVE  /\ StoredOrder(id, items) \in Order
           /\ StoredOrder(id, items).id = id
           /\ StoredOrder(id, items).status = "NEW"
           /\ DOMAIN StoredOrder(id, items).items = DOMAIN items
           /\ \A i \in DOMAIN items :
                 /\ StoredOrder(id, items).items[i].id = items[i].id
                 /\ StoredOrder(id, items).items[i].status = items[i].status
<1> DEFINE stored == [i \in DOMAIN items |->
                         [order_id |-> id, id |-> items[i].id, status |-> items[i].status]]
<1>1. items \in Seq(ReceivedItem) /\ items # <<>>
  BY NewOrdersAssumption
<1>2. DOMAIN items = 1 .. Len(items) /\ Len(items) \in Nat
  BY <1>1
<1>3. \A i \in DOMAIN items : items[i] \in ReceivedItem
  BY <1>1
<1>4. \A i \in DOMAIN items : stored[i] \in Item
  BY <1>3 DEF Item, ReceivedItem
<1>5. stored \in Seq(Item) /\ Len(stored) = Len(items)
  BY <1>2, <1>4
<1>6. stored # <<>>
  BY <1>1, <1>5
<1>7. StoredOrder(id, items) = [id |-> id, status |-> "NEW", items |-> stored]
  BY DEF StoredOrder
<1> QED
  BY <1>5, <1>6, <1>7 DEF Order, OrderStatus

\* AutoStatus is a status.
LEMMA AutoStatusType ==
    ASSUME NEW order \in Order, NEW s
    PROVE  AutoStatus(order, s) \in OrderStatus
BY DEF AutoStatus, Order, OrderStatus

\* FirstOrderId and everything above it are ids.
LEMMA OrderIdsAreIds ==
    ASSUME NEW n \in Nat, n >= FirstOrderId
    PROVE  n \in Id /\ n + 1 \in Nat /\ n + 1 >= FirstOrderId
BY DEF FirstOrderId, Id

\* The item ids that updates may name are ids.
LEMMA ItemIdsAreIds == ItemIds \subseteq Id
<1>1. ASSUME NEW items \in NewOrders, NEW i \in DOMAIN items PROVE items[i].id \in Id
  <2>1. items \in Seq(ReceivedItem)
    BY NewOrdersAssumption
  <2>2. items[i] \in ReceivedItem
    BY <2>1
  <2> QED
    BY <2>2 DEF ReceivedItem
<1> QED
  BY <1>1 DEF ItemIds

\* Broadcasting display messages keeps every queue a sequence of display messages.
LEMMA BroadcastType ==
    ASSUME m_queue \in [Clients -> Seq(DisplayMessage)],
           NEW msgs \in Seq(DisplayMessage),
           broadcast(msgs)
    PROVE  m_queue' \in [Clients -> Seq(DisplayMessage)]
BY DEF broadcast

\* The constructors make display messages.
LEMMA DisplayMessages ==
    /\ \A order \in Order : DISP_ORDER(order) \in DisplayMessage
    /\ \A o, i \in Id, s \in ItemStatus : DISP_ITEM_UPDATE(o, i, s) \in DisplayMessage
    /\ \A o \in Id, s \in OrderStatus : DISP_ORDER_UPDATE(o, s) \in DisplayMessage
BY DEF DISP_ORDER, DISP_ITEM_UPDATE, DISP_ORDER_UPDATE, DisplayMessage

-----------------------------------------------------------------------------
(***************************************************************************)
(* What each operation does to the orders, once and for all: the other     *)
(* theorems use these lemmas and not the definitions of the actions.       *)
(***************************************************************************)

\* An accepted ORDER_NEW adds one order under an id that is not in use.
LEMMA NewOrderStep ==
    ASSUME TypeOK, NEW items \in NewOrders, process_new_order(items)
    PROVE  LET order == StoredOrder(m_next_order_id, items)
           IN  /\ m_next_order_id \in Id
               /\ m_orders' = Put(m_orders, m_next_order_id, order)
               /\ order \in Order /\ order.id = m_next_order_id
               /\ TypeOK'
<1> DEFINE order == StoredOrder(m_next_order_id, items)
<1>1. m_next_order_id \in Id /\ m_next_order_id' \in Nat /\ m_next_order_id' >= FirstOrderId
  BY OrderIdsAreIds DEF TypeOK, process_new_order
<1>2. order \in Order /\ order.id = m_next_order_id
  BY <1>1, StoredOrderType
<1>3. /\ m_orders' = Put(m_orders, m_next_order_id, order)
      /\ broadcast(<<DISP_ORDER(order)>>)
      /\ m_display_clients' = m_display_clients
  BY DEF process_new_order
<1> HIDE DEF order
<1>4. <<DISP_ORDER(order)>> \in Seq(DisplayMessage)
  BY <1>2, DisplayMessages
<1>5. m_queue' \in [Clients -> Seq(DisplayMessage)]
  BY <1>3, <1>4, BroadcastType DEF TypeOK
<1>6. /\ DOMAIN m_orders' \subseteq Id
      /\ \A id \in DOMAIN m_orders' : m_orders'[id] \in Order /\ m_orders'[id].id = id
  BY <1>1, <1>2, <1>3 DEF TypeOK, Put
<1>7. IsFiniteSet(DOMAIN m_orders')
  <2>1. DOMAIN m_orders' = DOMAIN m_orders \cup {m_next_order_id}
    BY <1>3 DEF Put
  <2>2. IsFiniteSet(DOMAIN m_orders)
    BY DEF TypeOK
  <2> QED
    BY <2>1, <2>2, FS_AddElement
<1>8. TypeOK'
  BY <1>1, <1>3, <1>5, <1>6, <1>7 DEF TypeOK
<1> QED
  BY <1>1, <1>2, <1>3, <1>8 DEF order

\* An accepted ITEM_UPDATE changes one item of one order by one transition and
\* sets the order's status with AutoStatus.
LEMMA ItemUpdateStep ==
    ASSUME TypeOK, NEW o \in DOMAIN m_orders, NEW item_id \in Id, NEW s \in ItemStatus,
           process_item_update(o, item_id, s)
    PROVE  /\ TypeOK'
           /\ DOMAIN m_orders' = DOMAIN m_orders
           /\ \A id \in DOMAIN m_orders : id # o => m_orders'[id] = m_orders[id]
           /\ \E i \in DOMAIN m_orders[o].items :
                 LET order == set_item_status(m_orders[o], i, s)
                 IN  /\ i \in find_item(m_orders[o], item_id)
                     /\ ItemTransition(m_orders[o].items[i].status, s)
                     /\ m_orders'[o] = set_status(order, AutoStatus(order, s))
<1>1. PICK i \in find_item(m_orders[o], item_id) :
        /\ ItemTransition(m_orders[o].items[i].status, s)
        /\ LET order  == set_item_status(m_orders[o], i, s)
               status == AutoStatus(order, s)
           IN  /\ m_orders' = [m_orders EXCEPT ![o] = set_status(order, status)]
               /\ broadcast(ItemUpdateMessages(o, item_id, s, order.status, status))
  BY DEF process_item_update
<1> DEFINE order  == set_item_status(m_orders[o], i, s)
           status == AutoStatus(order, s)
           msgs   == ItemUpdateMessages(o, item_id, s, order.status, status)
<1>2. m_orders[o] \in Order /\ m_orders[o].id = o /\ o \in Id
  BY DEF TypeOK
<1>3. i \in DOMAIN m_orders[o].items
  BY <1>1, FindItemIndex
<1>4. order \in Order /\ order.id = o
  BY <1>2, <1>3, SetItemStatusType
<1>5. status \in OrderStatus
  BY <1>4, AutoStatusType
<1>6. set_status(order, status) \in Order /\ set_status(order, status).id = o
  BY <1>4, <1>5, SetStatusType
<1>7. m_orders' = [m_orders EXCEPT ![o] = set_status(order, status)] /\ broadcast(msgs)
  BY <1>1
<1>8. UNCHANGED <<m_display_clients, m_next_order_id>>
  BY DEF process_item_update
<1> HIDE DEF order, status
<1>9. msgs \in Seq(DisplayMessage)
  BY <1>2, <1>5, DisplayMessages DEF ItemUpdateMessages
<1> HIDE DEF msgs
<1>10. m_queue' \in [Clients -> Seq(DisplayMessage)]
  BY <1>7, <1>9, BroadcastType DEF TypeOK
<1>11. /\ DOMAIN m_orders' = DOMAIN m_orders
       /\ m_orders'[o] = set_status(order, status)
       /\ \A id \in DOMAIN m_orders : id # o => m_orders'[id] = m_orders[id]
  BY <1>7
<1>12. TypeOK'
  BY <1>6, <1>8, <1>10, <1>11 DEF TypeOK
<1> QED
  BY <1>1, <1>3, <1>11, <1>12 DEF order, status

\* An accepted ORDER_UPDATE erases one order, which was DONE.
LEMMA OrderUpdateStep ==
    ASSUME TypeOK, NEW o \in DOMAIN m_orders, NEW s, process_order_update(o, s)
    PROVE  TypeOK' /\ m_orders[o].status = "DONE" /\ m_orders' = Erase(m_orders, o)
<1>1. /\ m_orders[o].status = "DONE" /\ m_orders' = Erase(m_orders, o)
      /\ broadcast(<<DISP_ORDER_UPDATE(o, "DELIVERED")>>)
      /\ UNCHANGED <<m_display_clients, m_next_order_id>>
  BY DEF process_order_update
<1>2. <<DISP_ORDER_UPDATE(o, "DELIVERED")>> \in Seq(DisplayMessage)
  BY DisplayMessages DEF TypeOK, OrderStatus
<1>3. m_queue' \in [Clients -> Seq(DisplayMessage)]
  BY <1>1, <1>2, BroadcastType DEF TypeOK
<1>4. /\ DOMAIN m_orders' \subseteq Id
      /\ \A id \in DOMAIN m_orders' : m_orders'[id] \in Order /\ m_orders'[id].id = id
  BY <1>1 DEF TypeOK, Erase
<1>5. IsFiniteSet(DOMAIN m_orders')
  <2>1. DOMAIN m_orders' = DOMAIN m_orders \ {o}
    BY <1>1 DEF Erase
  <2> QED
    BY <2>1, FS_RemoveElement DEF TypeOK
<1> QED
  BY <1>1, <1>3, <1>4, <1>5 DEF TypeOK

\* A display's registration, departure or progress leaves the orders alone.
LEMMA DisplayStep ==
    ASSUME TypeOK, NEW c \in Clients,
           register_display(c) \/ unregister_display(c) \/ dequeue(c) \/ destroy_client(c)
    PROVE  TypeOK' /\ m_orders' = m_orders
<1>1. CASE register_display(c)
  <2>1. PICK ids \in MapOrder :
          m_queue' = [m_queue EXCEPT ![c] = @ \o [k \in DOMAIN ids |-> DISP_ORDER(m_orders[ids[k]])]]
    BY <1>1 DEF register_display
  <2> DEFINE n == Cardinality(DOMAIN m_orders)
             snapshot == [k \in DOMAIN ids |-> DISP_ORDER(m_orders[ids[k]])]
  <2>2. ids \in [1 .. n -> DOMAIN m_orders]
    BY DEF MapOrder
  <2>3. \A k \in 1 .. n : DISP_ORDER(m_orders[ids[k]]) \in DisplayMessage
    BY <2>2, DisplayMessages DEF TypeOK
  <2>4. snapshot \in [1 .. n -> DisplayMessage]
    BY <2>2, <2>3
  <2>5. n \in Nat
    BY FS_CardinalityType DEF TypeOK
  <2>6. snapshot \in Seq(DisplayMessage)
    BY <2>4, <2>5
  <2> HIDE DEF snapshot
  <2>7. m_queue' \in [Clients -> Seq(DisplayMessage)]
    BY <2>1, <2>6 DEF TypeOK, snapshot
  <2> QED
    BY <1>1, <2>7 DEF register_display, TypeOK
<1>2. CASE unregister_display(c)
  BY <1>2 DEF unregister_display, TypeOK
<1>3. CASE dequeue(c)
  BY <1>3 DEF dequeue, TypeOK
<1>4. CASE destroy_client(c)
  BY <1>4 DEF destroy_client, TypeOK
<1> QED
  BY <1>1, <1>2, <1>3, <1>4

-----------------------------------------------------------------------------
(***************************************************************************)
(* The theorems.                                                           *)
(***************************************************************************)

\* Every step of the server is one of the operations above.
LEMMA NextCases ==
    ASSUME TypeOK, [ServerNext]_serverVars
    PROVE  \/ \E items \in NewOrders : process_new_order(items)
           \/ \E o \in DOMAIN m_orders, i \in Id, s \in ItemStatus : process_item_update(o, i, s)
           \/ \E o \in DOMAIN m_orders, s \in OrderStatus : process_order_update(o, s)
           \/ \E c \in Clients : \/ register_display(c) \/ unregister_display(c)
                                 \/ dequeue(c) \/ destroy_client(c)
           \/ UNCHANGED serverVars
<1>1. CASE UpdaterRequest
  BY <1>1, ItemIdsAreIds DEF UpdaterRequest
<1>2. CASE \E c \in Clients :
          \/ c \notin m_display_clients /\ m_queue[c] = <<>> /\ register_display(c)
          \/ c \in m_display_clients /\ unregister_display(c)
          \/ c \in m_display_clients /\ dequeue(c)
          \/ c \notin m_display_clients /\ m_queue[c] # <<>> /\ destroy_client(c)
  BY <1>2
<1>3. CASE UNCHANGED serverVars
  BY <1>3
<1> QED
  BY <1>1, <1>2, <1>3 DEF ServerNext

\* The initial state is well typed.
LEMMA InitType == ServerInit => TypeOK
<1>1. DOMAIN EmptyMap = {}
  BY DEF EmptyMap
<1> QED
  BY <1>1, FS_EmptySet DEF ServerInit, TypeOK, FirstOrderId

\* Every step keeps the state well typed.
LEMMA NextType ==
    ASSUME TypeOK, [ServerNext]_serverVars
    PROVE  TypeOK'
<1>1. CASE UNCHANGED serverVars
  BY <1>1 DEF serverVars, TypeOK
<1> QED
  BY <1>1, NextCases, NewOrderStep, ItemUpdateStep, OrderUpdateStep, DisplayStep

\* The server's maps, sets and queues always hold well-formed orders and
\* messages: every order is stored under its own id with at least one item.
THEOREM TypeCorrect == ServerSpec => []TypeOK
<1>1. TypeOK /\ [ServerNext]_serverVars => TypeOK'
  BY NextType
<1> QED
  BY <1>1, InitType, PTL DEF ServerSpec

\* One order's status agrees with its items.
Tracks(order) ==
    /\ order.status = "NEW" <=> AllItems(order, "NEW")
    /\ order.status = "DONE" <=> AllItems(order, "DONE")
    /\ order.status # "DELIVERED"

\* The heart of process_item_update: one item transition followed by AutoStatus
\* keeps an order's status in agreement with its items.
LEMMA AutoStatusTracks ==
    ASSUME NEW order \in Order, Tracks(order),
           NEW i \in DOMAIN order.items, NEW s \in ItemStatus,
           ItemTransition(order.items[i].status, s)
    PROVE  LET new == set_item_status(order, i, s)
           IN  Tracks(set_status(new, AutoStatus(new, s)))
<1> DEFINE new == set_item_status(order, i, s)
           final == set_status(new, AutoStatus(new, s))
<1> SUFFICES Tracks(final)
  OBVIOUS
<1>1. /\ new \in Order
      /\ new.status = order.status
      /\ DOMAIN new.items = DOMAIN order.items
      /\ new.items[i].status = s
      /\ \A j \in DOMAIN order.items : j # i => new.items[j].status = order.items[j].status
  BY SetItemStatusType
<1>2. AutoStatus(new, s) \in OrderStatus
  BY <1>1, AutoStatusType
<1>3. final.items = new.items /\ final.status = AutoStatus(new, s)
  BY <1>1, <1>2, SetStatusType
<1> HIDE DEF new, final
<1>4. CASE order.items[i].status = "NEW" /\ s = "IN_PROGRESS"
  <2>1. order.status # "DONE" /\ order.status # "DELIVERED"
    BY <1>4 DEF Tracks, AllItems
  <2>2. AutoStatus(new, s) = "IN_PROGRESS"
    BY <1>1, <1>4, <2>1 DEF AutoStatus, Order, OrderStatus
  <2> QED
    BY <1>1, <1>3, <1>4, <2>2 DEF Tracks, AllItems
<1>5. CASE order.items[i].status = "IN_PROGRESS" /\ s = "DONE"
  <2>1. order.status = "IN_PROGRESS"
    BY <1>5 DEF Tracks, AllItems, Order, OrderStatus
  <2>2. AutoStatus(new, s) = IF AllItems(new, "DONE") THEN "DONE" ELSE "IN_PROGRESS"
    BY <1>1, <1>5, <2>1 DEF AutoStatus
  <2> QED
    BY <1>1, <1>3, <1>5, <2>2 DEF Tracks, AllItems
<1> QED
  BY <1>4, <1>5 DEF ItemTransition

\* Every step keeps all orders' statuses in agreement with their items.
LEMMA NextTracks ==
    ASSUME ItemsArriveNew, TypeOK, OrderStatusTracksItems, [ServerNext]_serverVars
    PROVE  OrderStatusTracksItems'
<1> USE DEF OrderStatusTracksItems
<1>0. \A id \in DOMAIN m_orders : Tracks(m_orders[id])
  BY DEF Tracks
<1> SUFFICES \A id \in DOMAIN m_orders' : Tracks(m_orders'[id])
  BY DEF Tracks, AllItems
<1>1. ASSUME NEW items \in NewOrders, process_new_order(items)
      PROVE  \A id \in DOMAIN m_orders' : Tracks(m_orders'[id])
  <2> DEFINE order == StoredOrder(m_next_order_id, items)
  <2>1. m_next_order_id \in Id /\ m_orders' = Put(m_orders, m_next_order_id, order) /\ order \in Order
    BY <1>1, NewOrderStep
  <2>2. order.status = "NEW" /\ AllItems(order, "NEW")
    BY <2>1, StoredOrderType DEF ItemsArriveNew, AllItems
  <2>3. \E i : i \in DOMAIN order.items
    <3>1. order.items \in Seq(Item) /\ order.items # <<>>
      BY <2>1 DEF Order
    <3> HIDE DEF order
    <3>2. 1 \in DOMAIN order.items
      BY <3>1
    <3> QED
      BY <3>2
  <2> HIDE DEF order
  <2>4. Tracks(order)
    BY <2>2, <2>3 DEF Tracks, AllItems
  <2> QED
    BY <1>0, <2>1, <2>4 DEF Put
<1>2. ASSUME NEW o \in DOMAIN m_orders, NEW i \in Id, NEW s \in ItemStatus, process_item_update(o, i, s)
      PROVE  \A id \in DOMAIN m_orders' : Tracks(m_orders'[id])
  <2>1. m_orders[o] \in Order
    BY DEF TypeOK
  <2>2. Tracks(m_orders'[o])
    BY <1>0, <1>2, <2>1, ItemUpdateStep, AutoStatusTracks
  <2> QED
    BY <1>0, <1>2, <2>2, ItemUpdateStep
<1>3. ASSUME NEW o \in DOMAIN m_orders, NEW s \in OrderStatus, process_order_update(o, s)
      PROVE  \A id \in DOMAIN m_orders' : Tracks(m_orders'[id])
  BY <1>0, <1>3, OrderUpdateStep DEF Erase
<1>4. ASSUME NEW c \in Clients,
             register_display(c) \/ unregister_display(c) \/ dequeue(c) \/ destroy_client(c)
      PROVE  \A id \in DOMAIN m_orders' : Tracks(m_orders'[id])
  BY <1>0, <1>4, DisplayStep
<1>5. CASE UNCHANGED serverVars
  BY <1>0, <1>5 DEF serverVars
<1> QED
  BY <1>1, <1>2, <1>3, <1>4, <1>5, NextCases

\* When items arrive NEW, as updater_main sends them, an order's status always
\* agrees with the statuses of its items.
THEOREM OrderStatusCorrect ==
    ASSUME ItemsArriveNew
    PROVE  ServerSpec => []OrderStatusTracksItems
<1>1. ServerInit => OrderStatusTracksItems
  BY DEF ServerInit, EmptyMap, OrderStatusTracksItems
<1>2. TypeOK /\ OrderStatusTracksItems /\ [ServerNext]_serverVars => OrderStatusTracksItems'
  BY NextTracks
<1> QED
  BY <1>1, <1>2, TypeCorrect, PTL DEF ServerSpec

\* ... and an order leaves m_orders only when all its items are DONE.
THEOREM DeliveryCorrect ==
    ASSUME ItemsArriveNew
    PROVE  ServerSpec => OnlyFinishedOrdersLeave
<1>1. ASSUME TypeOK, OrderStatusTracksItems, [ServerNext]_serverVars
      PROVE  [\A id \in DOMAIN m_orders \ DOMAIN m_orders' : AllItems(m_orders[id], "DONE")]_serverVars
  <2>1. CASE \E o \in DOMAIN m_orders, s \in OrderStatus : process_order_update(o, s)
    BY <1>1, <2>1, OrderUpdateStep DEF Erase, OrderStatusTracksItems
  <2>2. CASE \E items \in NewOrders : process_new_order(items)
    BY <1>1, <2>2, NewOrderStep DEF Put
  <2>3. CASE \E o \in DOMAIN m_orders, i \in Id, s \in ItemStatus : process_item_update(o, i, s)
    BY <1>1, <2>3, ItemUpdateStep
  <2>4. CASE \E c \in Clients : \/ register_display(c) \/ unregister_display(c)
                                \/ dequeue(c) \/ destroy_client(c)
    BY <1>1, <2>4, DisplayStep
  <2> QED
    BY <1>1, <2>1, <2>2, <2>3, <2>4, NextCases
<1> QED
  BY <1>1, TypeCorrect, OrderStatusCorrect, PTL DEF ServerSpec, OnlyFinishedOrdersLeave

\* An item that find_item returns is not shadowed by another one.
LEMMA FoundNotShadowed ==
    ASSUME NEW order, NEW item_id, NEW i \in find_item(order, item_id)
    PROVE  i \notin Shadowed(order)
BY DEF find_item, Shadowed

\* Of items that are not shadowed, find_item returns the one with the id.
LEMMA NotShadowedFound ==
    ASSUME NEW order, NEW i \in DOMAIN order.items, i \notin Shadowed(order)
    PROVE  i \in find_item(order, order.items[i].id)
BY DEF find_item, Shadowed

ShadowedStayNew ==
    \A id \in DOMAIN m_orders : \A i \in Shadowed(m_orders[id]) : m_orders[id].items[i].status = "NEW"

\* Every step leaves shadowed items as they are.
LEMMA NextShadowed ==
    ASSUME ItemsArriveNew, TypeOK, ShadowedStayNew, [ServerNext]_serverVars
    PROVE  ShadowedStayNew'
<1>1. ASSUME NEW items \in NewOrders, process_new_order(items)
      PROVE  ShadowedStayNew'
  <2> DEFINE order == StoredOrder(m_next_order_id, items)
  <2>1. m_next_order_id \in Id /\ m_orders' = Put(m_orders, m_next_order_id, order)
    BY <1>1, NewOrderStep
  <2>2. \A i \in DOMAIN order.items : order.items[i].status = "NEW"
    BY <2>1, StoredOrderType DEF ItemsArriveNew
  <2> HIDE DEF order
  <2>3. \A id \in DOMAIN m_orders' : m_orders'[id] = order \/ (id \in DOMAIN m_orders /\ m_orders'[id] = m_orders[id])
    BY <2>1 DEF Put
  <2>4. Shadowed(order) \subseteq DOMAIN order.items
    BY DEF Shadowed
  <2> QED
    BY <2>2, <2>3, <2>4 DEF ShadowedStayNew
<1>2. ASSUME NEW o \in DOMAIN m_orders, NEW item_id \in Id, NEW s \in ItemStatus,
             process_item_update(o, item_id, s)
      PROVE  ShadowedStayNew'
  <2>1. PICK i \in DOMAIN m_orders[o].items :
          LET order == set_item_status(m_orders[o], i, s)
          IN  /\ i \in find_item(m_orders[o], item_id)
              /\ m_orders'[o] = set_status(order, AutoStatus(order, s))
    BY <1>2, ItemUpdateStep
  <2> DEFINE order == set_item_status(m_orders[o], i, s)
  <2>2. m_orders[o] \in Order
    BY DEF TypeOK
  <2>3. /\ order \in Order
        /\ DOMAIN order.items = DOMAIN m_orders[o].items
        /\ \A j \in DOMAIN m_orders[o].items : order.items[j].id = m_orders[o].items[j].id
        /\ \A j \in DOMAIN m_orders[o].items : j # i => order.items[j].status = m_orders[o].items[j].status
    BY <2>2, SetItemStatusType
  <2>4. m_orders'[o].items = order.items
    BY <2>1, <2>3, AutoStatusType, SetStatusType
  <2> HIDE DEF order
  <2>5. Shadowed(m_orders'[o]) = Shadowed(m_orders[o]) /\ Shadowed(m_orders[o]) \subseteq DOMAIN m_orders[o].items
    BY <2>3, <2>4 DEF Shadowed
  <2>6. i \notin Shadowed(m_orders[o])
    BY <2>1, FoundNotShadowed
  <2>7. \A j \in Shadowed(m_orders'[o]) : m_orders'[o].items[j].status = "NEW"
    BY <2>3, <2>4, <2>5, <2>6 DEF ShadowedStayNew
  <2>8. DOMAIN m_orders' = DOMAIN m_orders /\ \A id \in DOMAIN m_orders : id # o => m_orders'[id] = m_orders[id]
    BY <1>2, ItemUpdateStep
  <2> QED
    BY <2>7, <2>8 DEF ShadowedStayNew
<1>3. ASSUME NEW o \in DOMAIN m_orders, NEW s \in OrderStatus, process_order_update(o, s)
      PROVE  ShadowedStayNew'
  <2>1. m_orders' = Erase(m_orders, o)
    BY <1>3, OrderUpdateStep
  <2>2. DOMAIN m_orders' \subseteq DOMAIN m_orders /\ \A id \in DOMAIN m_orders' : m_orders'[id] = m_orders[id]
    BY <2>1 DEF Erase
  <2> QED
    BY <2>2 DEF ShadowedStayNew
<1>4. ASSUME NEW c \in Clients,
             register_display(c) \/ unregister_display(c) \/ dequeue(c) \/ destroy_client(c)
      PROVE  ShadowedStayNew'
  BY <1>4, DisplayStep DEF ShadowedStayNew
<1>5. CASE UNCHANGED serverVars
  BY <1>5 DEF serverVars, ShadowedStayNew
<1> QED
  BY <1>1, <1>2, <1>3, <1>4, <1>5, NextCases

\* Agreeing statuses leave every unfinished order without shadowed items an item update
\* that process_item_update accepts; one with shadowed items is not DONE.
LEMMA UnfinishedCanProgress ==
    ASSUME TypeOK, OrderStatusTracksItems, ShadowedStayNew
    PROVE  OnlyRepeatedIdsBlock
<1> SUFFICES ASSUME NEW id \in DOMAIN m_orders
             PROVE  LET order == m_orders[id]
                    IN  /\ Shadowed(order) = {} =>
                              \/ order.status = "DONE"
                              \/ \E i \in DOMAIN order.items, to \in ItemStatus :
                                    item_update_valid(id, order.items[i].id, to)
                        /\ Shadowed(order) # {} =>
                              order.status # "DONE" /\ \A i \in Shadowed(order) : order.items[i].status = "NEW"
  BY DEF OnlyRepeatedIdsBlock
<1>1. ASSUME Shadowed(m_orders[id]) = {}, m_orders[id].status # "DONE"
      PROVE  \E i \in DOMAIN m_orders[id].items, to \in ItemStatus :
                item_update_valid(id, m_orders[id].items[i].id, to)
  <2>1. PICK i \in DOMAIN m_orders[id].items : m_orders[id].items[i].status # "DONE"
    BY <1>1 DEF OrderStatusTracksItems, AllItems
  <2>2. i \in find_item(m_orders[id], m_orders[id].items[i].id)
    BY <1>1, NotShadowedFound
  <2>3. m_orders[id].items[i].status \in ItemStatus
    <3>1. m_orders[id].items \in Seq(Item)
      BY DEF TypeOK, Order
    <3>2. m_orders[id].items[i] \in Item
      BY <3>1
    <3> QED
      BY <3>2 DEF Item
  <2>4. PICK to \in ItemStatus : ItemTransition(m_orders[id].items[i].status, to)
    BY <2>1, <2>3 DEF ItemStatus, ItemTransition
  <2> QED
    BY <2>2, <2>4 DEF item_update_valid
<1>2. ASSUME Shadowed(m_orders[id]) # {}
      PROVE  m_orders[id].status # "DONE" /\ \A i \in Shadowed(m_orders[id]) : m_orders[id].items[i].status = "NEW"
  <2>1. PICK i \in DOMAIN m_orders[id].items : i \in Shadowed(m_orders[id])
    BY <1>2 DEF Shadowed
  <2>2. m_orders[id].items[i].status = "NEW"
    BY <2>1 DEF ShadowedStayNew
  <2> QED
    BY <2>2 DEF ShadowedStayNew, OrderStatusTracksItems, AllItems
<1> QED
  BY <1>1, <1>2

\* When every ORDER_NEW carries NEW items, an order with distinct item ids is never stuck:
\* it can be taken to DONE, and then delivered.  An order with repeated ones never can.
THEOREM Progress ==
    ASSUME ItemsArriveNew
    PROVE  ServerSpec => []OnlyRepeatedIdsBlock
<1>1. ServerInit => ShadowedStayNew
  BY DEF ServerInit, EmptyMap, ShadowedStayNew
<1>2. TypeOK /\ ShadowedStayNew /\ [ServerNext]_serverVars => ShadowedStayNew'
  BY NextShadowed
<1>3. TypeOK /\ OrderStatusTracksItems /\ ShadowedStayNew => OnlyRepeatedIdsBlock
  BY UnfinishedCanProgress
<1> QED
  BY <1>1, <1>2, <1>3, TypeCorrect, OrderStatusCorrect, PTL DEF ServerSpec
=============================================================================
