CONSTANTS
    Prices = {12340}
    Times = {0}
    Clocks = {300}
    CandleTimes = {1750059120}
    Epoch = 6213
    NaN = NaN
    IntMax = 100
    Values = {}
    Payloads = {}
    Texts = {}
SPECIFICATION Spec
CHECK_DEADLOCK FALSE
INVARIANT CandleTimeIsTheSent
