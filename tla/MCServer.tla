------------------------------ MODULE MCServer ------------------------------
(***************************************************************************)
(* Instances of Server for TLC: the item lists that ORDER_NEW may carry.   *)
(***************************************************************************)
EXTENDS Server

Received(id, status) == [id |-> id, status |-> status]

\* One item, or two, also with an id used twice.
UntouchedOrders ==
    {<<Received(2, "NEW")>>, <<Received(1, "NEW"), Received(2, "NEW")>>, <<Received(1, "NEW"), Received(1, "NEW")>>}

\* decode_order accepts any status, such as an item that is already started.
StartedOrders == {<<Received(1, "IN_PROGRESS")>>}
=============================================================================
