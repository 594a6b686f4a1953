\* One display, one updater; memory may run out while an order is queued.
CONSTANTS
    Clients = {c1}
    Updaters = {u1}
    NewOrders <- OneItem
    MaxOrderId = 1001
    NoThread = NoThread
SPECIFICATION OomSpec
CHECK_DEADLOCK FALSE
PROPERTY ServerMutexIsReleased
