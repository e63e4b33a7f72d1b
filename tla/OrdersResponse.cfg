CONSTANTS
    Prices = {100}
    Hashes = {h1}
    MarketId = market
    QuoteId = quote
    MaxTrades = 2
SPECIFICATION Spec
CHECK_DEADLOCK FALSE
INVARIANT RejectionIsReal
