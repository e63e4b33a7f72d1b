\* Two prices, one of which has a digit too many for six decimals; two
\* instants and clocks, so that latencies of both signs occur.
CONSTANTS
    Prices = {12340, 57}
    Times = {0, 700}
    Clocks = {300}
    CandleTimes = {1750059120}
    Epoch = 6213
    NaN = NaN
    IntMax = 100
    Values <- MCValues
    Payloads <- MCPayloads
    Texts <- MCTexts
SPECIFICATION Spec
CHECK_DEADLOCK FALSE
INVARIANT TickIsTheSent
INVARIANT BadLinesThrow
INVARIANT DamageStaysInItsField
INVARIANT RoundTrip
INVARIANT CandleIsTheSent
INVARIANT BodyIsTheSent
INVARIANT BodyRoundTrip
INVARIANT Base64IsExact
