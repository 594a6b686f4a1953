\* Two updaters work on one order of one item; no display.
CONSTANTS
    Clients = {}
    Updaters = {u1, u2}
    NewOrders <- OneItem
    MaxOrderId = 1000
SPECIFICATION Spec
INVARIANTS
    UpdaterTypeOK
    OneResponsePerRequest
    OneWinner
    AcknowledgedUpdatesHold
