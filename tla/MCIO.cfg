\* Three messages and one that is too long, buffers smaller than a frame.
CONSTANTS
    PayloadLen <- MCPayloadLen
    BufferCap = 6
SPECIFICATION Spec
CHECK_DEADLOCK FALSE
INVARIANTS
    ReceivedIsPrefixOfSent
    FramesStayAligned
PROPERTIES
    AllArrive
