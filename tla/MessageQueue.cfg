\* Two updater threads and the display's own thread, two messages, four enqueue calls.
CONSTANTS
    Threads = {u1, u2, d}
    Consumer = d
    Payload = {a, b}
    NoMessage = NoMessage
    NoThread = NoThread
    MaxEnqueues = 4
SPECIFICATION Spec
INVARIANTS
    TypeOK
    DequeAccessExclusive
    AvailCountsMessages
PROPERTIES
    FifoSpec
    EveryMessageIsReturned
