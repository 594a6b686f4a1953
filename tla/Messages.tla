------------------------------ MODULE Messages ------------------------------
(***************************************************************************)
(* The messages of message.h.  A message is a record holding its type and  *)
(* just the fields its constructor sets.  The orders inside messages are   *)
(* values: Message's copy constructor and Order::duplicate copy deeply, so *)
(* a queued message never sees a later change of the server's order.       *)
(***************************************************************************)
EXTENDS OrderModel

DISP_ORDER(order) == [type |-> "DISP_ORDER", order |-> order]

DISP_ITEM_UPDATE(order_id, item_id, item_status) ==
    [type |-> "DISP_ITEM_UPDATE", order_id |-> order_id,
     item_id |-> item_id, item_status |-> item_status]

DISP_ORDER_UPDATE(order_id, order_status) ==
    [type |-> "DISP_ORDER_UPDATE", order_id |-> order_id, order_status |-> order_status]

DISP_HEARTBEAT == [type |-> "DISP_HEARTBEAT"]

\* Requests of an updater.  An ORDER_NEW is represented by its item list: the
\* server overwrites the order id, the items' order ids and the order's status.
ORDER_NEW(items) == [type |-> "ORDER_NEW", items |-> items]

ITEM_UPDATE(order_id, item_id, item_status) ==
    [type |-> "ITEM_UPDATE", order_id |-> order_id,
     item_id |-> item_id, item_status |-> item_status]

ORDER_UPDATE(order_id, order_status) ==
    [type |-> "ORDER_UPDATE", order_id |-> order_id, order_status |-> order_status]

QUIT == [type |-> "QUIT"]

LOGIN(credential) == [type |-> "LOGIN", credential |-> credential]

\* A request that Wire::decode refuses, such as one with a '|' in a text field.
MALFORMED == [type |-> "MALFORMED"]

\* Replies; the explanatory text is left out.
OK == [type |-> "OK"]

ERROR == [type |-> "ERROR"]

\* What the server puts into a display's queue.
DisplayMessage ==
         [type : {"DISP_ORDER"}, order : Order]
    \cup [type : {"DISP_ITEM_UPDATE"}, order_id : Id, item_id : Id, item_status : ItemStatus]
    \cup [type : {"DISP_ORDER_UPDATE"}, order_id : Id, order_status : OrderStatus]
=============================================================================
