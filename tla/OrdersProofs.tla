---------------------------- MODULE OrdersProofs ----------------------------
(***************************************************************************)
(* Theorems about Orders, for all prices and numbers of trades.            *)
(***************************************************************************)
EXTENDS Orders, TLAPS

\* What the exchange has simulated and was asked to trade is what each of the
\* two functions makes of the request of the call.
Bodies ==
    /\ pc = "trade" => simulated = SimulateBody(request)
    /\ pc = "simulate" => verdict = "none"
    /\ pc = "trade" => verdict = "none"
    /\ verdict # "none" => simulated = SimulateBody(request) /\ order = TradeBody(request)

\* The two bodies rest_api builds of one request agree in every field.
LEMMA OneBody == ASSUME NEW r PROVE TradeBody(r) = SimulateBody(r)
BY DEF TradeBody, SimulateBody

\* The order the exchange is asked to place is the one it simulated, whatever
\* fails between the two requests.
THEOREM OrderAsSimulated == Spec => []OrderIsTheSimulated
<1>1. Init => Bodies
  BY DEF Init, Bodies
<1>2. Bodies /\ [Next]_vars => Bodies'
  <2> SUFFICES ASSUME Bodies, [Next]_vars PROVE Bodies'
    OBVIOUS
  <2>1. CASE Ask
    BY <2>1 DEF Ask, Bodies
  <2>2. CASE sim_trade
    BY <2>2 DEF sim_trade, Bodies
  <2>3. CASE trade
    BY <2>3 DEF trade, Bodies
  <2>4. CASE Throws
    BY <2>4 DEF Throws, Bodies
  <2>5. CASE UNCHANGED vars
    BY <2>5 DEF vars, Bodies
  <2> QED BY <2>1, <2>2, <2>3, <2>4, <2>5 DEF Next
<1>3. Bodies => OrderIsTheSimulated
  BY OneBody DEF Bodies, OrderIsTheSimulated
<1> QED BY <1>1, <1>2, <1>3, PTL DEF Spec

-----------------------------------------------------------------------------
(* How far PositionIsWanted is off                                          *)

\* What the exchange holds, by the reading of types.h:351, is the opposite of
\* what the application asked for.
PositionIsOpposite == position + wanted = 0

\* What the two books are made of.
Books ==
    /\ request.dir \in Directions /\ request.stake = 1
    /\ position \in Int /\ wanted \in Int
    /\ PositionIsOpposite

\* strategy::buy and strategy::sell ask for a stake of one.
LEMMA StakeOfOne ==
    ASSUME NEW p, NEW hash, NEW r \in {BuyAt(p, hash), SellAt(p, hash)}
    PROVE  r.dir \in Directions /\ r.stake = 1
BY DEF BuyAt, SellAt, Directions

\* The body of an order has the direction of its request the other way round.
LEMMA OrderIsInverted ==
    ASSUME NEW r, r.dir \in Directions, r.stake = 1
    PROVE  /\ Bought(TradeBody(r)) + Meant(r) = 0
           /\ {Bought(TradeBody(r)), Meant(r)} \subseteq {1, -1}
<1>1. TradeBody(r).stake = 1 /\ TradeBody(r).tradeMode = (r.dir = "sell")
  BY DEF TradeBody
<1>2. CASE r.dir = "buy"
  <2>1. Bought(TradeBody(r)) = -1 /\ Meant(r) = 1
    BY <1>1, <1>2, Zenon DEF Bought, Meant
  <2> QED BY <2>1
<1>3. CASE r.dir = "sell"
  <2>1. r.dir # "buy"
    BY <1>3
  <2>2. Bought(TradeBody(r)) = 1 /\ Meant(r) = -1
    BY <1>1, <1>3, <2>1, Zenon DEF Bought, Meant
  <2> QED BY <2>2
<1> QED BY <1>2, <1>3 DEF Directions

\* The run orders_trade_mode shows one trade that ends on the wrong side. That
\* is no corner case: after any number of trades, accepted, rejected or
\* broken off, the exchange holds exactly the opposite of what was asked for,
\* and never what was asked for unless that is nothing.
THEOREM EveryTradeIsInverted ==
    Spec => [](PositionIsOpposite /\ (PositionIsWanted => wanted = 0))
<1>1. Init => Books
  <2> SUFFICES ASSUME Init PROVE Books
    OBVIOUS
  <2>1. PICK p \in Prices, hash \in Hashes : request = BuyAt(p, hash)
    BY DEF Init
  <2>2. request.dir \in Directions /\ request.stake = 1
    BY <2>1, StakeOfOne
  <2>3. position = 0 /\ wanted = 0
    BY DEF Init
  <2>4. position \in Int /\ wanted \in Int /\ position + wanted = 0
    BY <2>3
  <2> QED BY <2>2, <2>4, Zenon DEF Books, PositionIsOpposite
<1>2. Books /\ [Next]_vars => Books'
  <2> SUFFICES ASSUME Books, [Next]_vars PROVE Books'
    OBVIOUS
  <2>1. CASE Ask
    <3>1. PICK p \in Prices, hash \in Hashes : request' \in {BuyAt(p, hash), SellAt(p, hash)}
      BY <2>1 DEF Ask
    <3>2. request'.dir \in Directions /\ request'.stake = 1
      BY <3>1, StakeOfOne
    <3> QED BY <2>1, <3>2 DEF Ask, Books, PositionIsOpposite
  <2>2. CASE sim_trade
    BY <2>2 DEF sim_trade, Books, PositionIsOpposite
  <2>3. CASE trade
    <3>1. /\ Bought(TradeBody(request)) + Meant(request) = 0
          /\ {Bought(TradeBody(request)), Meant(request)} \subseteq {1, -1}
      BY OrderIsInverted DEF Books
    <3>2. \/ position' = position + Bought(TradeBody(request)) /\ wanted' = wanted + Meant(request)
          \/ position' = position /\ wanted' = wanted
      BY <2>3, Zenon DEF trade
    <3>3. request' = request
      BY <2>3 DEF trade
    <3>4. position \in Int /\ wanted \in Int /\ position + wanted = 0
      BY DEF Books, PositionIsOpposite
    <3>5. position' \in Int /\ wanted' \in Int /\ position' + wanted' = 0
      BY <3>1, <3>2, <3>4
    <3> QED BY <3>3, <3>5 DEF Books, PositionIsOpposite
  <2>4. CASE Throws
    BY <2>4 DEF Throws, Books, PositionIsOpposite
  <2>5. CASE UNCHANGED vars
    BY <2>5 DEF vars, Books, PositionIsOpposite
  <2> QED BY <2>1, <2>2, <2>3, <2>4, <2>5 DEF Next
<1>3. Books => PositionIsOpposite /\ (PositionIsWanted => wanted = 0)
  BY DEF Books, PositionIsOpposite, PositionIsWanted
<1> QED BY <1>1, <1>2, <1>3, PTL DEF Spec

=============================================================================
