CONSTANTS
    Prices = {100, 101}
    Hashes = {h1, h2}
    MarketId = market
    QuoteId = quote
    MaxTrades = 3
SPECIFICATION Spec
CHECK_DEADLOCK FALSE
INVARIANT OrderIsTheSimulated
