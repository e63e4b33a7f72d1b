\* Five ticks make up to five rolls: a buy on the first three candles, a sell
\* on the next, and trends that last.
CONSTANTS
    Prices = {1, 2, 3}
    Minutes = {0, 1}
    BuyAt = 2
    Charted <- MCCharted
    MaxTicks = 5
SPECIFICATION Spec
CHECK_DEADLOCK FALSE
INVARIANT TypeOK
INVARIANT CandlesAreRuns
PROPERTY SignalsAreTrends
