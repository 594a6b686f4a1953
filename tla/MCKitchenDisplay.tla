-------------------------- MODULE MCKitchenDisplay --------------------------
(***************************************************************************)
(* Instances of KitchenDisplay for TLC.                                    *)
(***************************************************************************)
EXTENDS KitchenDisplay, TLC

Received(id, status) == [id |-> id, status |-> status]

OneItem == {<<Received(1, "NEW")>>}

\* Connections differ only in their names.
ClientSymmetry == Permutations(Clients)

\* One new item, or two: decode_order also lets through items already started or done,
\* and an id used twice.
MixedOrders == {<<Received(1, "NEW")>>,
                <<Received(1, "NEW"), Received(2, "IN_PROGRESS")>>,
                <<Received(1, "IN_PROGRESS"), Received(2, "DONE")>>,
                <<Received(1, "NEW"), Received(1, "IN_PROGRESS")>>}
=============================================================================
