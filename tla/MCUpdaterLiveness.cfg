\* One updater after another on one order of one item.
CONSTANTS
    Clients = {}
    Updaters = {u1}
    NewOrders <- OneItem
    MaxOrderId = 1000
SPECIFICATION Spec
PROPERTIES
    RequestsAreAnswered
    SessionsEnd
