------------------------------ MODULE Candles -------------------------------
(***************************************************************************)
(* The strategy of examples/trade_test.cpp: ticks are gathered into        *)
(* candles of a minute (candle_agg), three candles make a trend, a trend   *)
(* that is news makes an order (signals, strategy::on_tick).  The three    *)
(* candles start as those of rest_api::backfill.                           *)
(*                                                                         *)
(* A candle has no time here and no volume: nobody reads them.  Ticks come *)
(* with any minute, also with one that is over.  Trading is in RestCalls   *)
(* and Orders; here a call of trade returns or throws.                     *)
(***************************************************************************)
EXTENDS Integers, Sequences, FiniteSets, SequencesExt, FiniteSetsExt

CONSTANTS
    Prices,    \* mid prices
    Minutes,   \* tick_bucket of a tick, or of the time the strategy starts
    BuyAt,     \* the tick on which it buys whatever the trend
    Charted,   \* candles the chart service may answer with
    MaxTicks   \* bound: ticks

Candle == [open : Nat, high : Nat, low : Nat, close : Nat]

ASSUME PricesAssumption == Prices \subseteq Nat \ {0}
ASSUME MinutesAssumption == Minutes \subseteq Int
ASSUME ChartedAssumption == Charted \subseteq Candle
ASSUME BoundsAssumption == BuyAt \in Nat /\ MaxTicks \in Nat

VARIABLES
    pc,              \* "starting", "running" or "stopped"
    history,         \* candle_agg: the last candles, the latest first
    current,         \* the candle that is being made
    elapsed_candles,
    current_bucket,
    last_signal,     \* signals
    n_ticks,         \* strategy
    alerts,          \* the orders made for a signal
    ticks,           \* every tick there was, and
    started          \* the minute in which the strategy started

agg == <<history, current, elapsed_candles, current_bucket>>
vars == <<pc, agg, last_signal, n_ticks, alerts, ticks, started>>

Tick == [bucket : Minutes, price : Prices]
Signals == {"none", "buy", "sell"}

Max2(x, y) == IF x > y THEN x ELSE y
Min2(x, y) == IF x < y THEN x ELSE y

Fresh(p) == [open |-> p, high |-> p, low |-> p, close |-> p]

Grown(c, p) == [c EXCEPT !.high = Max2(@, p), !.low = Min2(@, p), !.close = p]

\* mistake: the oldest is kept
Rolled_Grows(h, c) == <<c>> \o h

\* mistake: from the latest to the oldest
Rolled_Upwards(h, c) == <<c, h[1], h[1]>>

\* from the oldest to the latest, so that each is copied before it is replaced
Rolled(h, c) == <<c, h[1], h[2]>>

Init ==
    /\ pc = "starting"
    /\ history = [i \in 1..3 |-> Fresh(0)] /\ current = Fresh(0)
    /\ elapsed_candles = 0
    /\ current_bucket \in Minutes
    /\ started = current_bucket
    /\ last_signal = "none"
    /\ n_ticks = 0 /\ alerts = <<>> /\ ticks = <<>>

\* rest_api::backfill and candle_agg::backfill: the first three candles of
\* the answer, in its order.
Backfill(v) ==
    /\ pc = "starting"
    /\ history' = v
    /\ pc' = "running"
    /\ UNCHANGED <<current, elapsed_candles, current_bucket, last_signal, n_ticks, alerts,
                   ticks, started>>

\* The chart service answers badly: the parsing throws, or what is read
\* beyond the end of a short answer ends the program.
BackfillFails ==
    /\ pc = "starting"
    /\ pc' = "stopped"
    /\ UNCHANGED <<agg, last_signal, n_ticks, alerts, ticks, started>>

-----------------------------------------------------------------------------
(* A tick                                                                   *)

AggOnTick(t) ==
    IF t.bucket # current_bucket
    THEN /\ history' = Rolled(history, current)
         /\ current' = Fresh(t.price)
         /\ current_bucket' = t.bucket
         /\ elapsed_candles' = elapsed_candles + 1
    ELSE /\ current' = Grown(current, t.price)
         /\ UNCHANGED <<history, current_bucket, elapsed_candles>>

\* mistake: a candle too early
Enough_Early(n) == n > 1

Enough(n) == n > 2

trending_up(n, h) == Enough(n) /\ h[1].close > h[2].close /\ h[2].open > h[3].open
trending_down(n, h) == Enough(n) /\ h[1].close < h[2].close /\ h[2].open < h[3].open

\* mistake: the signal is not remembered
Remember_Not(v) == last_signal

Remember(v) == v

\* signals::on_tick: what there is to do, unless it was the last thing done
Alert(v) ==
    IF v = last_signal
    THEN UNCHANGED <<last_signal, alerts>>
    ELSE last_signal' = Remember(v) /\ alerts' = Append(alerts, v)

OnTick(t) ==
    /\ pc = "running" /\ Len(ticks) < MaxTicks
    /\ ticks' = Append(ticks, t)
    /\ n_ticks' = n_ticks + 1
    /\ AggOnTick(t)
    /\ CASE trending_up(elapsed_candles', history') -> Alert("buy")
         [] trending_down(elapsed_candles', history') -> Alert("sell")
         [] OTHER -> UNCHANGED <<last_signal, alerts>>
    /\ \/ pc' = pc
       \/ pc' = "stopped" /\ alerts' # alerts  \* trade throws
    /\ UNCHANGED started

\* The order that waits for no trend comes before all of this, and throws.
BuyThrows ==
    /\ pc = "running" /\ n_ticks = BuyAt
    /\ pc' = "stopped"
    /\ UNCHANGED <<agg, last_signal, n_ticks, alerts, ticks, started>>

\* The connection closes.
Closed ==
    /\ pc = "running"
    /\ pc' = "stopped"
    /\ UNCHANGED <<agg, last_signal, n_ticks, alerts, ticks, started>>

Next ==
    \/ \E v \in [1..3 -> Charted] : Backfill(v)
    \/ BackfillFails
    \/ \E t \in Tick : OnTick(t)
    \/ BuyThrows \/ Closed

Spec == Init /\ [][Next]_vars

-----------------------------------------------------------------------------
(* Properties                                                               *)

TypeOK ==
    /\ pc \in {"starting", "running", "stopped"}
    /\ history \in [1..3 -> Candle] /\ current \in Candle
    /\ elapsed_candles \in Nat /\ n_ticks \in Nat
    /\ current_bucket \in Minutes /\ started \in Minutes
    /\ last_signal \in Signals
    /\ alerts \in Seq(Signals) /\ ticks \in Seq(Tick)

\* What the candles should be: the ticks fall into runs of the same minute.
\* Run 0 is the minute in which the strategy started; nothing was known before
\* its first tick, so its candle opens at 0.
MinuteBefore(i) == IF i = 1 THEN started ELSE ticks[i - 1].bucket
RunOf(i) == Cardinality({j \in 1..i : ticks[j].bucket # MinuteBefore(j)})
TicksOf(r) == {i \in DOMAIN ticks : RunOf(i) = r}
PricesOf(r) == {ticks[i].price : i \in TicksOf(r)} \cup (IF r = 0 THEN {0} ELSE {})

CandleOf(r) ==
    [open |-> IF r = 0 THEN 0 ELSE ticks[Min(TicksOf(r))].price,
     high |-> Max(PricesOf(r)), low |-> Min(PricesOf(r)),
     close |-> IF TicksOf(r) = {} THEN 0 ELSE ticks[Max(TicksOf(r))].price]

\* The candle in the making and those in history are the open, high, low and
\* close of the latest runs of ticks, in that order.
CandlesAreRuns ==
    /\ elapsed_candles = RunOf(Len(ticks))
    /\ current = CandleOf(elapsed_candles)
    /\ \A i \in 1..3 : i <= elapsed_candles => history[i] = CandleOf(elapsed_candles - i)

\* The trend over the last three runs that are complete.
IsTrend(signal) ==
    LET r == RunOf(Len(ticks)) IN
      /\ r >= 3
      /\ LET a == CandleOf(r - 1)
             b == CandleOf(r - 2)
             c == CandleOf(r - 3)
         IN IF signal = "buy" THEN a.close > b.close /\ b.open > c.open
                              ELSE a.close < b.close /\ b.open < c.open

IsNews(signal) == alerts = <<>> \/ Last(alerts) # signal

\* Orders follow the ticks: a tick makes one for a signal exactly when it leaves
\* the last three runs in a trend its way and the last order was not for the same,
\* so that no trend is missed and one that lasts, or comes back, is not traded on
\* twice, whatever became of the order.  What the backfill has put into the
\* history is gone by then and never weighs.  Run 0 does, when it is the oldest of
\* the three, with the 0 it opens at.
SignalsAreTrends ==
    [][\A s \in {"buy", "sell"} :
         alerts' = Append(alerts, s) <=> ticks' # ticks /\ IsTrend(s)' /\ IsNews(s)]_vars

=============================================================================
