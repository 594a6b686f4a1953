\* Two displays that come and go, one order of one new item or of two, of which some are started or share an id.
CONSTANTS
    Clients = {c1, c2}
    NewOrders <- MixedOrders
    MaxOrderId = 1000
    WireCap = 1
SPECIFICATION Spec
SYMMETRY ClientSymmetry
INVARIANTS
    KitchenTypeOK
    NoDanglingClient
    DisplayNeverRejects
    ShownStatusNeverAhead
    ViewIsConsistent
