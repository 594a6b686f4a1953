\* Two orders of one or two items, which may have the same id, and one display.
CONSTANTS
    Clients = {c1}
    NewOrders <- UntouchedOrders
    MaxOrderId = 1001
SPECIFICATION ServerSpec
CHECK_DEADLOCK TRUE
INVARIANTS
    TypeOK
    OrderStatusTracksItems
    OnlyRepeatedIdsBlock
PROPERTY
    OnlyFinishedOrdersLeave
