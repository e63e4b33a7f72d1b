------------------------------- MODULE Orders -------------------------------
(***************************************************************************)
(* What an order says: rest_api::sim_trade and rest_api::trade             *)
(* (src/rest_api.cpp) build their bodies from the request of the           *)
(* application (examples/trade_test.cpp), and the application reads the    *)
(* trade_response.  How the three requests of a trade travel is in         *)
(* RestCalls; here they arrive, one after the other.                       *)
(*                                                                         *)
(* The exchange is external.  It reads the body as types.h:342-360         *)
(* documents it, tradeMode as "false = sell, true = buy".                  *)
(***************************************************************************)
EXTENDS Integers

CONSTANTS
    Prices,     \* prices of the ticks the application acts on,
    Hashes,     \* and their hashes
    MarketId, QuoteId,  \* of the market it trades in
    MaxTrades   \* bound: calls of trade

ASSUME PricesAssumption == Prices \subseteq Int
ASSUME MaxTradesAssumption == MaxTrades \in Nat

VARIABLES
    pc,         \* the request of the call that is next
    request,    \* the argument of td365::trade
    simulated,  \* the body the exchange simulated
    order,      \* the body it was asked to trade
    verdict,    \* what it answered
    position,   \* the stakes the exchange holds, bought less sold
    wanted,     \* the same, by the directions of the requests it accepted
    reported,   \* what the application logs of the call
    trades      \* number of calls

vars == <<pc, request, simulated, order, verdict, position, wanted, reported, trades>>

Directions == {"buy", "sell"}

\* strategy::buy and strategy::sell
BuyAt(ask, hash) ==
    [dir |-> "buy", market_id |-> MarketId, quote_id |-> QuoteId, price |-> ask, stake |-> 1,
     stop |-> ask - 10, limit |-> ask + 10, key |-> hash]
SellAt(bid, hash) ==
    [dir |-> "sell", market_id |-> MarketId, quote_id |-> QuoteId, price |-> bid, stake |-> 1,
     stop |-> bid + 10, limit |-> bid - 10, key |-> hash]

\* The body of RequestTradeSimulate. The fields that are the same for every
\* request (the type of the order, its modes, the user agent) are left out.
SimulateBody(r) ==
    [marketID |-> r.market_id, quoteID |-> r.quote_id, price |-> r.price, stake |-> r.stake,
     tradeMode |-> (r.dir = "sell"), limitOrderPrice |-> r.limit, stopOrderPrice |-> r.stop,
     key |-> r.key]

\* mistake: stop and limit are swapped in one of the two bodies
TradeBody_Swapped(r) ==
    [marketID |-> r.market_id, quoteID |-> r.quote_id, price |-> r.price, stake |-> r.stake,
     tradeMode |-> (r.dir = "sell"), limitOrderPrice |-> r.stop, stopOrderPrice |-> r.limit,
     key |-> r.key]

\* the body of RequestTrade
TradeBody(r) ==
    [marketID |-> r.market_id, quoteID |-> r.quote_id, price |-> r.price, stake |-> r.stake,
     tradeMode |-> (r.dir = "sell"), limitOrderPrice |-> r.limit, stopOrderPrice |-> r.stop,
     key |-> r.key]

NoBody == [none |-> TRUE]

\* from_json of trade_response has an empty body, and get<trade_response>
\* starts from a value-initialized one: accepted is false whatever came.
Accepted(answer) == FALSE

Init ==
    /\ pc = "idle"
    /\ \E p \in Prices, hash \in Hashes : request = BuyAt(p, hash)
    /\ simulated = NoBody /\ order = NoBody
    /\ verdict = "none" /\ reported = "none"
    /\ position = 0 /\ wanted = 0 /\ trades = 0

\* strategy::buy, strategy::sell: the application calls trade, which gets the
\* market's details first
Ask ==
    /\ pc = "idle" /\ trades < MaxTrades
    /\ trades' = trades + 1
    /\ \E p \in Prices, hash \in Hashes : request' \in {BuyAt(p, hash), SellAt(p, hash)}
    /\ pc' = "simulate"
    /\ simulated' = NoBody /\ order' = NoBody
    /\ verdict' = "none" /\ reported' = "none"
    /\ UNCHANGED <<position, wanted>>

sim_trade ==
    /\ pc = "simulate"
    /\ simulated' = SimulateBody(request)
    /\ pc' = "trade"
    /\ UNCHANGED <<request, order, verdict, position, wanted, reported, trades>>

\* a request fails: trade throws
Throws ==
    /\ pc \in {"simulate", "trade"}
    /\ pc' = "idle"
    /\ reported' = "thrown"
    /\ UNCHANGED <<request, simulated, order, verdict, position, wanted, trades>>

\* what the exchange makes of an order it accepts (types.h:351)
Bought(body) == IF body.tradeMode THEN body.stake ELSE -body.stake
Meant(r) == IF r.dir = "buy" THEN r.stake ELSE -r.stake

\* The exchange accepts or rejects, and the application reads the response.
trade ==
    /\ pc = "trade"
    /\ pc' = "idle"
    /\ order' = TradeBody(request)
    /\ verdict' \in {"accepted", "rejected"}
    /\ IF verdict' = "accepted"
         THEN position' = position + Bought(order') /\ wanted' = wanted + Meant(request)
         ELSE UNCHANGED <<position, wanted>>
    /\ reported' = IF Accepted(verdict') THEN "submitted" ELSE "rejected"
    /\ UNCHANGED <<request, simulated, trades>>

Next == Ask \/ sim_trade \/ trade \/ Throws

Spec == Init /\ [][Next]_vars

-----------------------------------------------------------------------------
(* Properties                                                               *)

\* The order the exchange is asked to place is the one it simulated: the two
\* bodies rest_api builds, each with its own list of fields, agree.
OrderIsTheSimulated == verdict # "none" => order = simulated

\* The exchange holds what the application asked for: types.h:351 says of
\* trade_mode "false = sell, true = buy" (sim_trade and trade send true for
\* a sell, rest_api.cpp:208, 233).
PositionIsWanted == position = wanted

\* An order the application reports as rejected was rejected: it logs "Buy
\* order rejected" or "Sell order rejected" (trade_test.cpp:162-165, 181-185) by
\* trade_response::accepted.
RejectionIsReal == reported = "rejected" => verdict = "rejected"

=============================================================================
