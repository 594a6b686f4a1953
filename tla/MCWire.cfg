\* All kinds of messages, descriptions with up to ten separators, and all strings one token away.
CONSTANTS
    Outgoing <- WireOutgoing
    OtherTexts <- WireOtherTexts
    Tokens <- WireTokens
    TokenLen <- WireTokenLen
    to_str <- WireToStr
    to_string <- WireToString
    stoi <- WireStoi
    NewId = 1000
SPECIFICATION Spec
INVARIANTS
    WireTypeOK
    PlainMessagesArrive
    MisreadOnlyAsMoreItems
    DisplaysDecodeTheOrder
    GrowthIsBounded
