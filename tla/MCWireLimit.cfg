\* An ORDER_NEW of framed length 9999.
CONSTANTS
    Outgoing <- LongOutgoing
    OtherTexts = {}
    Tokens <- WireTokens
    TokenLen <- LongTokenLen
    to_str <- WireToStr
    to_string <- WireToString
    stoi <- WireStoi
    NewId = 1000
SPECIFICATION Spec
INVARIANT EveryOrderCanBeDisplayed
