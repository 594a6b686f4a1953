\* One display that comes and goes, two orders of one item.
CONSTANTS
    Clients = {c1}
    NewOrders <- OneItem
    MaxOrderId = 1001
    WireCap = 2
SPECIFICATION FairSpec
INVARIANTS
    ViewIsConsistent
PROPERTIES
    ShownOrdersAdvance
    DisplaysCatchUp
    DeadDisplaysLeave
    LoginIsAnswered
