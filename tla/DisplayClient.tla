--------------------------- MODULE DisplayClient ----------------------------
(***************************************************************************)
(* The display program's handlers (display_main.cpp).  Its `orders' map    *)
(* is the operators' argument; what refresh_display prints is exactly that *)
(* map.  A message for which `accepts' is false makes the handler throw    *)
(* ProtocolError, and the program exits.                                   *)
(***************************************************************************)
EXTENDS Messages

handle_disp_order(msg, orders) == Put(orders, msg.order.id, msg.order)

handle_disp_item_update(msg, orders) ==
    LET order == orders[msg.order_id]
        i     == CHOOSE k \in find_item(order, msg.item_id) : TRUE
    IN  Put(orders, msg.order_id, set_item_status(order, i, msg.item_status))

handle_disp_order_update(msg, orders) ==
    IF msg.order_status = "DELIVERED"
    THEN Erase(orders, msg.order_id)
    ELSE Put(orders, msg.order_id, set_status(orders[msg.order_id], msg.order_status))

\* The checks of the main loop and its handlers.
accepts(msg, orders) ==
    \/ msg.type \in {"DISP_ORDER", "DISP_HEARTBEAT"}
    \/ /\ msg.type = "DISP_ITEM_UPDATE"
       /\ msg.order_id \in DOMAIN orders
       /\ find_item(orders[msg.order_id], msg.item_id) # {}
    \/ msg.type = "DISP_ORDER_UPDATE" /\ msg.order_id \in DOMAIN orders

\* One round of the main loop for an accepted message.
handle(msg, orders) ==
    CASE msg.type = "DISP_ORDER"        -> handle_disp_order(msg, orders)
      [] msg.type = "DISP_ITEM_UPDATE"  -> handle_disp_item_update(msg, orders)
      [] msg.type = "DISP_ORDER_UPDATE" -> handle_disp_order_update(msg, orders)
      [] msg.type = "DISP_HEARTBEAT"    -> orders
=============================================================================
