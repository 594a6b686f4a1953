----------------------------- MODULE OrderModel -----------------------------
(***************************************************************************)
(* Orders and items: model.h and model.cpp.  Descriptions and quantities   *)
(* are never read by the server's logic and are left out.  The INVALID     *)
(* statuses exist only inside Wire::decode, which rejects them.            *)
(***************************************************************************)
EXTENDS Naturals, Sequences

ItemStatus == {"NEW", "IN_PROGRESS", "DONE"}

OrderStatus == {"NEW", "IN_PROGRESS", "DONE", "DELIVERED"}

\* Positive integers: what parse_positive_int lets through.
Id == Nat \ {0}

Item == [order_id : Id, id : Id, status : ItemStatus]

\* decode_order refuses an order with an empty item list.
Order == [id : Id, status : OrderStatus, items : Seq(Item) \ {<<>>}]

\* Faulty variant for mutation testing: the scan goes on to the last item with the id.
find_item_last(order, item_id) ==
    {i \in DOMAIN order.items :
        /\ order.items[i].id = item_id
        /\ \A j \in DOMAIN order.items : j > i => order.items[j].id # item_id}

(***************************************************************************)
(* find_item scans m_items from the front and stops at the first item with *)
(* the id: the set of its indices, which has at most one element and is    *)
(* empty for the null pointer.                                             *)
(***************************************************************************)
find_item(order, item_id) ==
    {i \in DOMAIN order.items :
        /\ order.items[i].id = item_id
        /\ \A j \in DOMAIN order.items : j < i => order.items[j].id # item_id}

\* Item::set_status on the i-th item.
set_item_status(order, i, status) ==
    [order EXCEPT !.items = [order.items EXCEPT ![i].status = status]]

\* Order::set_status.
set_status(order, status) == [order EXCEPT !.status = status]

AllItems(order, status) == \A i \in DOMAIN order.items : order.items[i].status = status

(***************************************************************************)
(* std::map<int, shared_ptr<Order>> as a function on the set of its keys.  *)
(***************************************************************************)
EmptyMap == [id \in {} |-> <<>>]

Put(map, id, order) == [k \in DOMAIN map \cup {id} |-> IF k = id THEN order ELSE map[k]]

Erase(map, id) == [k \in DOMAIN map \ {id} |-> map[k]]
=============================================================================
