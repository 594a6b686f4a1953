\* Two displays that come and go, two updaters, one order of one item.
CONSTANTS
    Clients = {c1, c2}
    Updaters = {u1, u2}
    NewOrders <- OneItem
    MaxOrderId = 1000
    NoThread = NoThread
SPECIFICATION Spec
INVARIANTS
    ThreadsTypeOK
    EnqueueOnlyToLiveClients
    QueueMutexIsLeaf
PROPERTIES
    ServerMutexIsReleased
    ImplementsServer
