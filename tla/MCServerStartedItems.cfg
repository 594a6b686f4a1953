\* An ORDER_NEW whose item arrives already started.
CONSTANTS
    Clients = {c1}
    NewOrders <- StartedOrders
    MaxOrderId = 1000
SPECIFICATION ServerSpec
CHECK_DEADLOCK TRUE
INVARIANT AllDoneOrdersAreDone
