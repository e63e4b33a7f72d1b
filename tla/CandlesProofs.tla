--------------------------- MODULE CandlesProofs ----------------------------
(***************************************************************************)
(* Theorems about Candles, for all prices, minutes and numbers of ticks.   *)
(* A tick adds to one run of ticks and leaves the others alone; what the   *)
(* candles should be is followed through that.                             *)
(***************************************************************************)
EXTENDS Candles, FiniteSetTheorems, TLAPS

\* The last order made for a signal is the one that is remembered.
Remembered ==
    IF alerts = <<>> THEN last_signal = "none" ELSE last_signal = alerts[Len(alerts)]

\* What the signals have bought less what they have sold is at most one stake
\* either way.
SignalsAlternate == \A i \in 1..(Len(alerts) - 1) : alerts[i] # alerts[i + 1]

\* A price is good for every field of a candle, and a candle takes one.
LEMMA CandleTypes ==
    /\ \A p \in Prices : Fresh(p) \in Candle
    /\ \A c \in Candle, p \in Prices : Grown(c, p) \in Candle
BY PricesAssumption DEF Candle, Fresh, Grown, Max2, Min2

\* Every action but a tick leaves the signals and the orders alone.
THEOREM AlternationInvariant == Spec => [](TypeOK /\ Remembered /\ SignalsAlternate)
<1>1. Init => TypeOK /\ Remembered /\ SignalsAlternate
  <2> SUFFICES ASSUME Init PROVE TypeOK /\ Remembered /\ SignalsAlternate
    OBVIOUS
  <2>1. Fresh(0) \in Candle
    BY DEF Fresh, Candle
  <2>2. alerts = <<>> /\ alerts \in Seq(Signals) /\ ticks \in Seq(Tick)
    BY DEF Init
  <2>3. TypeOK
    BY <2>1, <2>2 DEF Init, TypeOK, Signals
  <2>4. Remembered /\ SignalsAlternate
    BY <2>2 DEF Init, Remembered, SignalsAlternate
  <2> QED BY <2>3, <2>4
<1>2. TypeOK /\ Remembered /\ SignalsAlternate /\ [Next]_vars
      => (TypeOK /\ Remembered /\ SignalsAlternate)'
  <2> SUFFICES ASSUME TypeOK, Remembered, SignalsAlternate, [Next]_vars
               PROVE (TypeOK /\ Remembered /\ SignalsAlternate)'
    OBVIOUS
  <2>1. ASSUME NEW v \in [1..3 -> Charted], Backfill(v)
        PROVE (TypeOK /\ Remembered /\ SignalsAlternate)'
    BY <2>1, ChartedAssumption DEF Candle, Backfill, TypeOK, Remembered, SignalsAlternate
  <2>2. ASSUME NEW t \in Tick, OnTick(t) PROVE (TypeOK /\ Remembered /\ SignalsAlternate)'
    <3>1. t.bucket \in Minutes /\ t.price \in Prices
      BY DEF Tick
    <3>2. /\ history' \in [1..3 -> Candle] /\ current' \in Candle
          /\ elapsed_candles' \in Nat /\ current_bucket' \in Minutes
      BY <2>2, <3>1, CandleTypes DEF OnTick, AggOnTick, TypeOK, Rolled
    <3>3. /\ last_signal' \in Signals /\ alerts' \in Seq(Signals)
          /\ Remembered' /\ SignalsAlternate'
      <4>1. ASSUME NEW s \in {"buy", "sell"}, Alert(s)
            PROVE /\ last_signal' \in Signals /\ alerts' \in Seq(Signals)
                  /\ Remembered' /\ SignalsAlternate'
        <5>1. CASE s = last_signal
          BY <4>1, <5>1 DEF Alert, TypeOK, Remembered, SignalsAlternate
        <5>2. CASE s # last_signal
          <6>1. last_signal' = s /\ alerts' = Append(alerts, s) /\ s \in Signals
            BY <4>1, <5>2 DEF Alert, Remember, Signals
          <6>2. alerts' \in Seq(Signals) /\ Remembered'
            BY <6>1 DEF TypeOK, Remembered
          <6>3. alerts = <<>> \/ alerts[Len(alerts)] # s
            BY <5>2 DEF Remembered
          <6>4. SignalsAlternate'
            BY <6>1, <6>3 DEF TypeOK, SignalsAlternate
          <6> QED BY <6>1, <6>2, <6>4
        <5> QED BY <5>1, <5>2
      <4>2. CASE UNCHANGED <<last_signal, alerts>>
        BY <4>2 DEF TypeOK, Remembered, SignalsAlternate
      <4>3. Alert("buy") \/ Alert("sell") \/ UNCHANGED <<last_signal, alerts>>
        BY <2>2 DEF OnTick
      <4> QED BY <4>1, <4>2, <4>3
    <3>4. ticks' \in Seq(Tick) /\ n_ticks' \in Nat /\ started' \in Minutes
          /\ pc' \in {"starting", "running", "stopped"}
      BY <2>2 DEF OnTick, TypeOK
    <3> QED BY <3>2, <3>3, <3>4 DEF TypeOK
  <2>3. CASE BackfillFails \/ BuyThrows \/ Closed \/ UNCHANGED vars
    BY <2>3 DEF BackfillFails, BuyThrows, Closed, vars, agg, TypeOK, Remembered, SignalsAlternate
  <2> QED BY <2>1, <2>2, <2>3 DEF Next
<1> QED BY <1>1, <1>2, PTL DEF Spec

\* The type invariant.
THEOREM CandlesTypeCorrect == Spec => []TypeOK
BY AlternationInvariant, PTL

\* A trend that lasts is traded on once.
THEOREM SignalsDoAlternate == Spec => []SignalsAlternate
BY AlternationInvariant, PTL

-----------------------------------------------------------------------------
(* Candles and runs of ticks                                                *)

LEMMA MinIs ==
    ASSUME NEW S \in SUBSET Int, NEW m \in S, \A x \in S : m <= x
    PROVE  Min(S) = m
<1>1. \A y \in S : (\A x \in S : y <= x) => y = m
  OBVIOUS
<1> QED BY <1>1 DEF Min

LEMMA MaxIs ==
    ASSUME NEW S \in SUBSET Int, NEW m \in S, \A x \in S : m >= x
    PROVE  Max(S) = m
<1>1. \A y \in S : (\A x \in S : y >= x) => y = m
  OBVIOUS
<1> QED BY <1>1 DEF Max

\* Where the minute changes, up to the i-th tick.
Changes(i) == {j \in 1..i : ticks[j].bucket # MinuteBefore(j)}

LEMMA RunsAreCounted ==
    ASSUME TypeOK
    PROVE  \A i \in 0..Len(ticks) : RunOf(i) \in Nat /\ RunOf(i) <= RunOf(Len(ticks))
<1> SUFFICES ASSUME NEW i \in 0..Len(ticks)
             PROVE  RunOf(i) \in Nat /\ RunOf(i) <= RunOf(Len(ticks))
  OBVIOUS
<1>1. Len(ticks) \in Nat
  BY DEF TypeOK
<1>2. IsFiniteSet(1..Len(ticks)) /\ Changes(Len(ticks)) \in SUBSET (1..Len(ticks))
  BY <1>1, FS_Interval DEF Changes
<1>3. IsFiniteSet(Changes(Len(ticks)))
  BY <1>2, FS_Subset
<1>4. Changes(i) \in SUBSET Changes(Len(ticks))
  BY <1>1 DEF Changes
<1>5. /\ IsFiniteSet(Changes(i)) /\ Cardinality(Changes(i)) <= Cardinality(Changes(Len(ticks)))
      /\ Cardinality(Changes(i)) \in Nat
  BY <1>3, <1>4, FS_Subset, FS_CardinalityType
<1> QED BY <1>5 DEF RunOf, Changes

\* A tick belongs to the run of the tick before it, or to the next one.
LEMMA TickAdded ==
    ASSUME TypeOK, NEW t \in Tick, ticks' = Append(ticks, t), started' = started,
           NEW n, n = Len(ticks)
    PROVE  /\ n \in Nat /\ Len(ticks)' = n + 1
           /\ ticks'[n + 1] = t /\ \A i \in 1..n : ticks'[i] = ticks[i]
           /\ \A i \in 0..n : RunOf(i)' = RunOf(i)
           /\ RunOf(n + 1)' =
                 IF t.bucket # MinuteBefore(n + 1) THEN RunOf(n) + 1 ELSE RunOf(n)
<1>1. n \in Nat /\ Len(ticks)' = n + 1
  BY DEF TypeOK
<1>2. ticks'[n + 1] = t /\ \A i \in 1..n : ticks'[i] = ticks[i]
  BY DEF TypeOK
<1>3. \A j \in 1..(n + 1) : MinuteBefore(j)' = MinuteBefore(j)
  BY <1>1, <1>2 DEF MinuteBefore
<1>4. \A i \in 0..n : Changes(i)' = Changes(i)
  BY <1>1, <1>2, <1>3 DEF Changes
<1>5. \A i \in 0..n : RunOf(i)' = RunOf(i)
  BY <1>4 DEF RunOf, Changes
<1>6. Changes(n + 1)' = Changes(n) \cup (IF t.bucket # MinuteBefore(n + 1) THEN {n + 1} ELSE {})
  <2>1. 1..(n + 1) = (1..n) \cup {n + 1}
    BY <1>1
  <2>2. Changes(n + 1)' = {j \in 1..(n + 1) : ticks'[j].bucket # MinuteBefore(j)}
    BY <1>3 DEF Changes
  <2>3. Changes(n + 1)' = {j \in 1..n : ticks[j].bucket # MinuteBefore(j)}
                           \cup {j \in {n + 1} : t.bucket # MinuteBefore(j)}
    BY <1>2, <2>1, <2>2
  <2> QED BY <2>3 DEF Changes
<1>7. IsFiniteSet(Changes(n)) /\ n + 1 \notin Changes(n)
  <2>1. Changes(n) \in SUBSET (1..n)
    BY DEF Changes
  <2>2. IsFiniteSet(1..n) /\ n + 1 \notin 1..n
    BY <1>1, FS_Interval
  <2> QED BY <2>1, <2>2, FS_Subset
<1>8. RunOf(n + 1)' = IF t.bucket # MinuteBefore(n + 1) THEN RunOf(n) + 1 ELSE RunOf(n)
  <2>1. RunOf(n + 1)' = Cardinality(Changes(n + 1)') /\ RunOf(n) = Cardinality(Changes(n))
    BY DEF RunOf, Changes
  <2>2. CASE t.bucket # MinuteBefore(n + 1)
    BY <1>6, <1>7, <2>1, <2>2, FS_AddElement
  <2>3. CASE ~(t.bucket # MinuteBefore(n + 1))
    BY <1>6, <2>1, <2>3
  <2> QED BY <2>2, <2>3
<1> QED BY <1>1, <1>2, <1>5, <1>8

\* A run has a first tick and a last one; run 0 may have none.
Ends(r) ==
    /\ r > 0 => TicksOf(r) # {}
    /\ TicksOf(r) # {} =>
         /\ \E m \in TicksOf(r) : \A i \in TicksOf(r) : m <= i
         /\ \E m \in TicksOf(r) : \A i \in TicksOf(r) : m >= i

\* The run that goes on: whose minute it is, and that its prices lie between
\* those of the candle in the making.  None is over before the start.
Runs ==
    LET e == RunOf(Len(ticks)) IN
    /\ pc = "starting" => elapsed_candles = 0
    /\ current_bucket = MinuteBefore(Len(ticks) + 1)
    /\ \A r \in 0..e : Ends(r)
    /\ current.low \in PricesOf(e) /\ current.high \in PricesOf(e)
    /\ \A p \in PricesOf(e) : current.low <= p /\ p <= current.high

LEMMA FirstAndLast ==
    ASSUME TypeOK, NEW r, Ends(r), TicksOf(r) # {}
    PROVE  /\ TicksOf(r) \in SUBSET (1..Len(ticks))
           /\ Min(TicksOf(r)) \in TicksOf(r) /\ Max(TicksOf(r)) \in TicksOf(r)
           /\ \A i \in TicksOf(r) : Min(TicksOf(r)) <= i /\ i <= Max(TicksOf(r))
<1>1. TicksOf(r) \in SUBSET (1..Len(ticks)) /\ Len(ticks) \in Nat
  BY DEF TypeOK, TicksOf
<1>2. PICK m \in TicksOf(r) : \A i \in TicksOf(r) : m <= i
  BY DEF Ends
<1>3. PICK k \in TicksOf(r) : \A i \in TicksOf(r) : k >= i
  BY DEF Ends
<1>4. Min(TicksOf(r)) = m /\ Max(TicksOf(r)) = k
  BY <1>1, <1>2, <1>3, MinIs, MaxIs
<1> QED BY <1>1, <1>2, <1>3, <1>4

\* A tick leaves all runs but its own as they are.
LEMMA OneRunGrows ==
    ASSUME TypeOK, NEW t \in Tick, ticks' = Append(ticks, t), started' = started,
           NEW n, n = Len(ticks), NEW f, f = RunOf(n + 1)', TypeOK'
    PROVE  /\ TicksOf(f)' = TicksOf(f) \cup {n + 1}
           /\ PricesOf(f)' = PricesOf(f) \cup {t.price}
           /\ \A r \in Nat : r # f =>
                /\ TicksOf(r)' = TicksOf(r) /\ PricesOf(r)' = PricesOf(r)
                /\ Ends(r) => Ends(r)' /\ CandleOf(r)' = CandleOf(r)
<1>1. /\ n \in Nat /\ Len(ticks)' = n + 1
      /\ ticks'[n + 1] = t /\ \A i \in 1..n : ticks'[i] = ticks[i]
      /\ \A i \in 0..n : RunOf(i)' = RunOf(i)
  BY TickAdded
<1>2. DOMAIN ticks = 1..n /\ DOMAIN ticks' = 1..(n + 1)
  BY <1>1 DEF TypeOK
<1>3. ASSUME NEW r PROVE TicksOf(r)' = TicksOf(r) \cup (IF r = f THEN {n + 1} ELSE {})
  <2>1. TicksOf(r)' = {i \in 1..(n + 1) : RunOf(i)' = r}
    BY <1>2 DEF TicksOf
  <2>2. TicksOf(r) = {i \in 1..n : RunOf(i) = r}
    BY <1>2 DEF TicksOf
  <2>3. \A i \in 1..n : RunOf(i)' = RunOf(i)
    BY <1>1
  <2>4. \A i : i \in 1..(n + 1) <=> i \in 1..n \/ i = n + 1
    BY <1>1
  <2> QED BY <2>1, <2>2, <2>3, <2>4
<1>4. ASSUME NEW r PROVE PricesOf(r)' = PricesOf(r) \cup (IF r = f THEN {t.price} ELSE {})
  <2>1. TicksOf(r) \in SUBSET (1..n)
    BY <1>2 DEF TicksOf
  <2>2. {ticks'[i].price : i \in TicksOf(r)} = {ticks[i].price : i \in TicksOf(r)}
    BY <1>1, <2>1
  <2>3. {ticks'[i].price : i \in TicksOf(r)'}
          = {ticks[i].price : i \in TicksOf(r)} \cup (IF r = f THEN {t.price} ELSE {})
    <3>1. CASE r = f
      <4>1. TicksOf(r)' = TicksOf(r) \cup {n + 1}
        BY <1>3, <3>1
      <4>2. {ticks'[i].price : i \in TicksOf(r) \cup {n + 1}}
              = {ticks'[i].price : i \in TicksOf(r)} \cup {ticks'[n + 1].price}
        OBVIOUS
      <4> QED BY <1>1, <2>2, <3>1, <4>1, <4>2
    <3>2. CASE r # f
      BY <1>3, <2>2, <3>2
    <3> QED BY <3>1, <3>2
  <2> QED BY <2>3 DEF PricesOf
<1>5. ASSUME NEW r \in Nat, r # f, Ends(r) PROVE Ends(r)' /\ CandleOf(r)' = CandleOf(r)
  <2>1. TicksOf(r)' = TicksOf(r) /\ PricesOf(r)' = PricesOf(r)
    BY <1>3, <1>4, <1>5
  <2>2. Ends(r)'
    BY <1>5, <2>1 DEF Ends
  <2>3. TicksOf(r) # {} => /\ ticks'[Min(TicksOf(r))] = ticks[Min(TicksOf(r))]
                           /\ ticks'[Max(TicksOf(r))] = ticks[Max(TicksOf(r))]
    BY <1>1, <1>5, FirstAndLast
  <2>4. r = 0 \/ TicksOf(r) # {}
    BY <1>5 DEF Ends
  <2> DEFINE s == TicksOf(r)
             p == PricesOf(r)
             opens == IF r = 0 THEN 0 ELSE ticks[Min(s)].price
             closes == IF s = {} THEN 0 ELSE ticks[Max(s)].price
  <2>5. s' = s /\ p' = p
    BY <2>1
  <2>6. Min(s)' = Min(s) /\ Max(s)' = Max(s) /\ Min(p)' = Min(p) /\ Max(p)' = Max(p)
    BY <2>5, Zenon
  <2>7. opens' = opens
    <3>1. CASE r = 0
      BY <3>1
    <3>2. CASE r # 0
      BY <2>3, <2>4, <2>6, <3>2, Zenon
    <3> QED BY <3>1, <3>2
  <2>8. closes' = closes
    <3>1. CASE s = {}
      BY <2>5, <3>1, Zenon
    <3>2. CASE s # {}
      BY <2>3, <2>5, <2>6, <3>2, Zenon
    <3> QED BY <3>1, <3>2
  <2>9. CandleOf(r)' = CandleOf(r)
    BY <2>6, <2>7, <2>8, Zenon DEF CandleOf
  <2> QED BY <2>2, <2>9
<1> QED BY <1>3, <1>4, <1>5

LEMMA PricesAreIntegers == \A t \in Tick : t.price \in Int
<1> SUFFICES ASSUME NEW t \in Tick PROVE t.price \in Int
  OBVIOUS
<1>1. t.price \in Prices
  BY DEF Tick
<1>2. Prices \subseteq Int
  BY PricesAssumption
<1> QED BY <1>1, <1>2

LEMMA TickGathers ==
    ASSUME TypeOK, TypeOK', Runs, CandlesAreRuns, NEW t \in Tick, AggOnTick(t),
           ticks' = Append(ticks, t), started' = started, pc' # "starting"
    PROVE  Runs' /\ CandlesAreRuns'
<1>1. PICK n : n = Len(ticks)
  OBVIOUS
<1>2. PICK e : e = RunOf(n)
  OBVIOUS
<1>3. PICK f : f = RunOf(n + 1)'
  OBVIOUS
<1>4. /\ n \in Nat /\ Len(ticks)' = n + 1
      /\ ticks'[n + 1] = t /\ \A i \in 1..n : ticks'[i] = ticks[i]
      /\ \A i \in 0..n : RunOf(i)' = RunOf(i)
      /\ f = IF t.bucket # MinuteBefore(n + 1) THEN e + 1 ELSE e
  BY <1>1, <1>2, <1>3, TickAdded
<1>5. e \in Nat /\ \A i \in 1..n : RunOf(i) <= e
  BY <1>1, <1>2, <1>4, RunsAreCounted
<1>6. /\ TicksOf(f)' = TicksOf(f) \cup {n + 1}
      /\ PricesOf(f)' = PricesOf(f) \cup {t.price}
      /\ \A r \in Nat : r # f =>
           /\ TicksOf(r)' = TicksOf(r) /\ PricesOf(r)' = PricesOf(r)
           /\ Ends(r) => Ends(r)' /\ CandleOf(r)' = CandleOf(r)
  BY <1>1, <1>3, OneRunGrows
<1>7. /\ current_bucket = MinuteBefore(n + 1)
      /\ \A r \in 0..e : Ends(r)
      /\ current.low \in PricesOf(e) /\ current.high \in PricesOf(e)
      /\ \A p \in PricesOf(e) : current.low <= p /\ p <= current.high
  BY <1>1, <1>2 DEF Runs
<1>8. /\ elapsed_candles = e /\ current = CandleOf(e)
      /\ \A i \in 1..3 : i <= e => history[i] = CandleOf(e - i)
  BY <1>1, <1>2 DEF CandlesAreRuns
<1>9. /\ TicksOf(f) \in SUBSET (1..n) /\ TicksOf(f)' \in SUBSET (1..(n + 1))
      /\ PricesOf(f)' \in SUBSET Int
  <2>1. TicksOf(f) \in SUBSET (1..n) /\ TicksOf(f)' \in SUBSET (1..(n + 1))
    BY <1>1, <1>4 DEF TypeOK, TicksOf
  <2>2. PricesOf(f) \in SUBSET Int
    <3>1. \A i \in 1..n : ticks[i].price \in Int
      BY <1>1, PricesAreIntegers DEF TypeOK
    <3> QED BY <2>1, <3>1 DEF PricesOf
  <2>3. t.price \in Int
    BY PricesAreIntegers
  <2> QED BY <1>6, <2>1, <2>2, <2>3
<1> DEFINE Fits ==
             /\ f \in Nat /\ elapsed_candles' = f
             /\ current'.open = IF f = 0 THEN 0 ELSE ticks'[Min(TicksOf(f)')].price
             /\ current'.close = t.price
             /\ current'.low \in PricesOf(f)' /\ current'.high \in PricesOf(f)'
             /\ \A p \in PricesOf(f)' : current'.low <= p /\ p <= current'.high
             /\ \E m \in TicksOf(f)' : \A i \in TicksOf(f)' : m <= i
             /\ \A r \in 0..f : r # f => Ends(r)'
             /\ \A i \in 1..3 : i <= f => history'[i] = CandleOf(f - i)'
<1>10. ASSUME t.bucket = current_bucket PROVE Fits
  <2>1. f = e
    BY <1>4, <1>7, <1>10
  <2>2. /\ current' = Grown(current, t.price) /\ history' = history /\ elapsed_candles' = e
    BY <1>8, <1>10 DEF AggOnTick
  <2>3. /\ current'.open = current.open /\ current'.close = t.price
        /\ current'.high = Max2(current.high, t.price) /\ current'.low = Min2(current.low, t.price)
        /\ current.low \in Int /\ current.high \in Int /\ t.price \in Int
    BY <2>2, PricesAssumption DEF Grown, TypeOK, Candle, Tick
  <2>4. /\ current'.low \in PricesOf(f)' /\ current'.high \in PricesOf(f)'
        /\ \A p \in PricesOf(f)' : current'.low <= p /\ p <= current'.high
    BY <1>6, <1>7, <1>9, <2>1, <2>3 DEF Max2, Min2
  <2>5. \E m \in TicksOf(f)' : /\ \A i \in TicksOf(f)' : m <= i
                               /\ f # 0 => Min(TicksOf(f)') = Min(TicksOf(f)) /\ Min(TicksOf(f)) \in 1..n
    <3>1. CASE TicksOf(f) = {}
      <4>1. f = 0
        BY <1>5, <1>7, <2>1, <3>1 DEF Ends
      <4>2. n + 1 <= n + 1 /\ TicksOf(f)' = {n + 1}
        BY <1>4, <1>6, <3>1
      <4> QED BY <4>1, <4>2, Zenon
    <3>2. CASE TicksOf(f) # {}
      <4>1. /\ Min(TicksOf(f)) \in TicksOf(f)
            /\ \A i \in TicksOf(f) : Min(TicksOf(f)) <= i
        BY <1>5, <1>7, <2>1, <3>2, FirstAndLast
      <4>2. /\ Min(TicksOf(f)) \in TicksOf(f)'
            /\ \A i \in TicksOf(f)' : Min(TicksOf(f)) <= i
        BY <1>4, <1>6, <1>9, <4>1
      <4>3. Min(TicksOf(f)') = Min(TicksOf(f))
        BY <1>9, <4>2, MinIs
      <4> QED BY <1>9, <4>1, <4>2, <4>3
    <3> QED BY <3>1, <3>2
  <2>6. current'.open = IF f = 0 THEN 0 ELSE ticks'[Min(TicksOf(f)')].price
    <3>1. current.open = IF f = 0 THEN 0 ELSE ticks[Min(TicksOf(f))].price
      BY <1>8, <2>1 DEF CandleOf
    <3> QED BY <1>4, <2>3, <2>5, <3>1
  <2>7. \A r \in 0..f : r # f => Ends(r)'
    BY <1>5, <1>6, <1>7, <2>1
  <2>8. \A i \in 1..3 : i <= f => history'[i] = CandleOf(f - i)'
    BY <1>5, <1>6, <1>7, <1>8, <2>1, <2>2
  <2> QED BY <1>5, <2>1, <2>2, <2>3, <2>4, <2>5, <2>6, <2>7, <2>8
<1>11. ASSUME t.bucket # current_bucket PROVE Fits
  <2>1. f = e + 1
    BY <1>4, <1>7, <1>11
  <2>2. TicksOf(f) = {} /\ PricesOf(f) = {}
    <3>1. \A i \in 1..n : RunOf(i) # f
      BY <1>5, <2>1
    <3>2. TicksOf(f) = {}
      BY <1>1, <1>4, <3>1 DEF TicksOf, TypeOK
    <3> QED BY <1>5, <2>1, <3>2 DEF PricesOf
  <2>3. /\ current' = Fresh(t.price) /\ history' = Rolled(history, current)
        /\ elapsed_candles' = f
    BY <1>8, <1>11, <2>1 DEF AggOnTick
  <2>4. TicksOf(f)' = {n + 1} /\ PricesOf(f)' = {t.price} /\ f \in Nat /\ f # 0
    BY <1>5, <1>6, <2>1, <2>2
  <2>5. Min(TicksOf(f)') = n + 1
    <3>1. {n + 1} \in SUBSET Int /\ n + 1 \in {n + 1} /\ \A x \in {n + 1} : n + 1 <= x
      BY <1>4
    <3>2. Min({n + 1}) = n + 1
      BY <3>1, MinIs
    <3> QED BY <2>4, <3>2
  <2>6. /\ t.price \in Int
        /\ current'.open = t.price /\ current'.close = t.price
        /\ current'.high = t.price /\ current'.low = t.price
    BY <2>3, PricesAreIntegers DEF Fresh
  <2>7. \A r \in 0..f : r # f => Ends(r)' /\ CandleOf(r)' = CandleOf(r)
    BY <1>5, <1>6, <1>7, <2>1
  <2>8. \A i \in 1..3 : i <= f => history'[i] = CandleOf(f - i)'
    <3>1. /\ history'[1] = current /\ history'[2] = history[1] /\ history'[3] = history[2]
      BY <2>3 DEF Rolled
    <3>2. current = CandleOf(f - 1) /\ (2 <= f => history[1] = CandleOf(f - 2))
          /\ (3 <= f => history[2] = CandleOf(f - 3))
      BY <1>5, <1>8, <2>1
    <3>3. \A i \in 1..3 : i <= f => CandleOf(f - i)' = CandleOf(f - i)
      BY <2>4, <2>7
    <3> QED BY <2>4, <3>1, <3>2, <3>3
  <2>9. current'.open = IF f = 0 THEN 0 ELSE ticks'[Min(TicksOf(f)')].price
    BY <1>4, <2>4, <2>5, <2>6
  <2>10. /\ current'.low \in PricesOf(f)' /\ current'.high \in PricesOf(f)'
         /\ \A p \in PricesOf(f)' : current'.low <= p /\ p <= current'.high
    BY <2>4, <2>6
  <2>11. \E m \in TicksOf(f)' : \A i \in TicksOf(f)' : m <= i
    <3>1. n + 1 <= n + 1
      BY <1>4
    <3> QED BY <2>4, <3>1, Zenon
  <2> QED BY <2>3, <2>4, <2>6, <2>7, <2>8, <2>9, <2>10, <2>11
<1>12. Fits
  BY <1>10, <1>11
<1> HIDE DEF Fits
<1>13. Max(TicksOf(f)') = n + 1 /\ \A i \in TicksOf(f)' : n + 1 >= i
  BY <1>4, <1>6, <1>9, MaxIs
<1>14. Max(PricesOf(f)') = current'.high /\ Min(PricesOf(f)') = current'.low
  <2>1. /\ current'.low \in PricesOf(f)' /\ current'.high \in PricesOf(f)'
        /\ \A p \in PricesOf(f)' : current'.low <= p /\ current'.high >= p
    BY <1>9, <1>12 DEF Fits
  <2> QED BY <1>9, <2>1, MaxIs, MinIs
<1>15. current' = CandleOf(f)'
  <2>1. CandleOf(f)' = [open |-> current'.open, high |-> current'.high,
                        low |-> current'.low, close |-> current'.close]
    <3>1. TicksOf(f)' # {} /\ ticks'[Max(TicksOf(f)')].price = t.price
      BY <1>4, <1>6, <1>13
    <3> QED BY <1>12, <1>14, <3>1 DEF CandleOf, Fits
  <2>2. current' \in Candle
    BY DEF TypeOK
  <2> QED BY <2>1, <2>2 DEF Candle
<1>16. Ends(f)'
  BY <1>6, <1>12, <1>13 DEF Ends, Fits
<1>17. RunOf(Len(ticks))' = f
  BY <1>3, <1>4
<1>18. current_bucket' = MinuteBefore(Len(ticks) + 1)'
  <2>1. current_bucket' = t.bucket
    BY DEF AggOnTick
  <2>2. MinuteBefore(Len(ticks) + 1)' = ticks'[n + 1].bucket
    BY <1>4 DEF MinuteBefore
  <2> QED BY <1>4, <2>1, <2>2
<1>19. Runs'
  BY <1>12, <1>16, <1>17, <1>18 DEF Runs, Fits
<1>20. CandlesAreRuns'
  BY <1>12, <1>15, <1>17 DEF CandlesAreRuns, Fits
<1> QED BY <1>19, <1>20

\* The inductive invariant: what the ticks of the run that goes on have made of
\* the candle, and that every run has a first and a last tick.
THEOREM RunsInvariant == Spec => [](TypeOK /\ Runs /\ CandlesAreRuns)
<1>1. Init => Runs /\ CandlesAreRuns
  <2> SUFFICES ASSUME Init PROVE Runs /\ CandlesAreRuns
    OBVIOUS
  <2>1. /\ Len(ticks) = 0 /\ DOMAIN ticks = {} /\ current = Fresh(0)
        /\ elapsed_candles = 0 /\ current_bucket = started
    BY DEF Init
  <2>2. RunOf(0) = 0
    <3>1. {j \in 1..0 : ticks[j].bucket # MinuteBefore(j)} = {}
      OBVIOUS
    <3> QED BY <3>1, FS_EmptySet DEF RunOf
  <2>3. TicksOf(0) = {} /\ PricesOf(0) = {0}
    BY <2>1 DEF TicksOf, PricesOf
  <2>4. Min({0}) = 0 /\ Max({0}) = 0
    BY MinIs, MaxIs
  <2>5. CandleOf(0) = Fresh(0)
    BY <2>3, <2>4 DEF CandleOf, Fresh
  <2>6. CandlesAreRuns
    BY <2>1, <2>2, <2>5 DEF CandlesAreRuns
  <2>7. Runs
    BY <2>1, <2>2, <2>3 DEF Runs, Ends, Fresh, MinuteBefore
  <2> QED BY <2>6, <2>7
<1>2. TypeOK /\ TypeOK' /\ Runs /\ CandlesAreRuns /\ [Next]_vars => Runs' /\ CandlesAreRuns'
  <2> SUFFICES ASSUME TypeOK, TypeOK', Runs, CandlesAreRuns, [Next]_vars
               PROVE Runs' /\ CandlesAreRuns'
    OBVIOUS
  <2>1. ASSUME NEW t \in Tick, OnTick(t) PROVE Runs' /\ CandlesAreRuns'
    <3>1. /\ AggOnTick(t) /\ ticks' = Append(ticks, t) /\ started' = started
          /\ pc' # "starting"
      BY <2>1 DEF OnTick
    <3> QED BY <3>1, TickGathers
  <2>2. ASSUME UNCHANGED <<ticks, started, current, current_bucket, elapsed_candles>>,
               elapsed_candles = 0 \/ history' = history, pc' # "starting" \/ pc' = pc
        PROVE  Runs' /\ CandlesAreRuns'
    <3>1. \A i : RunOf(i)' = RunOf(i)
      BY <2>2 DEF RunOf, MinuteBefore
    <3>2. \A r : TicksOf(r)' = TicksOf(r)
      BY <2>2, <3>1 DEF TicksOf
    <3>3. \A r : /\ Ends(r)' = Ends(r) /\ PricesOf(r)' = PricesOf(r)
                 /\ CandleOf(r)' = CandleOf(r)
      BY <2>2, <3>2 DEF Ends, PricesOf, CandleOf
    <3>4. RunOf(Len(ticks))' = RunOf(Len(ticks))
      BY <2>2 DEF RunOf, MinuteBefore
    <3>5. MinuteBefore(Len(ticks) + 1)' = MinuteBefore(Len(ticks) + 1)
      BY <2>2 DEF MinuteBefore
    <3> QED BY <2>2, <3>3, <3>4, <3>5 DEF Runs, CandlesAreRuns
  <2>3. ASSUME NEW v \in [1..3 -> Charted], Backfill(v) PROVE Runs' /\ CandlesAreRuns'
    <3>1. elapsed_candles = 0
      BY <2>3 DEF Backfill, Runs
    <3>2. /\ UNCHANGED <<ticks, started, current, current_bucket, elapsed_candles>>
          /\ pc' # "starting"
      BY <2>3 DEF Backfill
    <3> QED BY <2>2, <3>1, <3>2
  <2>4. CASE BackfillFails \/ BuyThrows \/ Closed \/ UNCHANGED vars
    BY <2>2, <2>4 DEF BackfillFails, BuyThrows, Closed, vars, agg
  <2> QED BY <2>1, <2>3, <2>4 DEF Next
<1> QED BY <1>1, <1>2, CandlesTypeCorrect, PTL DEF Spec

\* The candle in the making and those in history are the open, high, low and
\* close of the latest runs of ticks: every run, of any length, late ticks too.
THEOREM CandlesAreOfRuns == Spec => []CandlesAreRuns
BY RunsInvariant, PTL

\* A trend the candles show is one of the ticks, and the other way round.
LEMMA TrendsAgree ==
    ASSUME TypeOK, CandlesAreRuns
    PROVE  /\ trending_up(elapsed_candles, history) <=> IsTrend("buy")
           /\ trending_down(elapsed_candles, history) <=> IsTrend("sell")
<1> DEFINE r == RunOf(Len(ticks))
<1>1. r = elapsed_candles /\ r \in Nat
  BY DEF CandlesAreRuns, TypeOK
<1>2. CASE r > 2
  <2>1. /\ history[1] = CandleOf(r - 1) /\ history[2] = CandleOf(r - 2)
        /\ history[3] = CandleOf(r - 3)
    BY <1>1, <1>2 DEF CandlesAreRuns
  <2> HIDE DEF r
  <2>2. /\ IsTrend("buy") <=> history[1].close > history[2].close /\ history[2].open > history[3].open
        /\ IsTrend("sell") <=> history[1].close < history[2].close /\ history[2].open < history[3].open
    BY <1>1, <1>2, <2>1 DEF IsTrend, r
  <2> QED BY <1>1, <1>2, <2>2 DEF trending_up, trending_down, Enough
<1>3. CASE ~(r > 2)
  BY <1>1, <1>3 DEF IsTrend, trending_up, trending_down, Enough
<1> QED BY <1>2, <1>3

\* A signal is remembered exactly when the last order was made for it.
LEMMA NewsAgree ==
    ASSUME TypeOK, Remembered, NEW s \in {"buy", "sell"}
    PROVE  IsNews(s) <=> s # last_signal
BY DEF TypeOK, Remembered, IsNews, Last

\* An order is made for a signal exactly when the last three runs become a
\* trend and the order before it was not for the same.
THEOREM SignalsFollowTrends == Spec => SignalsAreTrends
<1> DEFINE Follows ==
      \A s \in {"buy", "sell"} :
        alerts' = Append(alerts, s) <=> ticks' # ticks /\ IsTrend(s)' /\ IsNews(s)
<1>1. TypeOK /\ TypeOK' /\ CandlesAreRuns' /\ Remembered /\ [Next]_vars => [Follows]_vars
  <2> SUFFICES ASSUME TypeOK, TypeOK', CandlesAreRuns', Remembered, Next,
                      NEW s \in {"buy", "sell"}
               PROVE  alerts' = Append(alerts, s) <=> ticks' # ticks /\ IsTrend(s)' /\ IsNews(s)
    BY DEF vars
  <2>1. ASSUME NEW q PROVE Append(alerts, q) # alerts
    BY DEF TypeOK
  <2>2. CASE ticks' = ticks /\ alerts' = alerts
    BY <2>1, <2>2
  <2>3. ASSUME NEW t \in Tick, OnTick(t)
        PROVE  alerts' = Append(alerts, s) <=> ticks' # ticks /\ IsTrend(s)' /\ IsNews(s)
    <3>1. ticks' # ticks
      BY <2>3 DEF OnTick, TypeOK
    <3>2. /\ trending_up(elapsed_candles, history)' <=> IsTrend("buy")'
          /\ trending_down(elapsed_candles, history)' <=> IsTrend("sell")'
      BY TrendsAgree, PTL
    <3>3. ~(IsTrend("buy")' /\ IsTrend("sell")')
      <4>1. history'[1].close \in Nat /\ history'[2].close \in Nat
        BY DEF TypeOK, Candle
      <4>2. ~(trending_up(elapsed_candles', history') /\ trending_down(elapsed_candles', history'))
        BY <4>1 DEF trending_up, trending_down
      <4> QED BY <3>2, <4>2
    <3>4. /\ IsTrend("buy")' => Alert("buy")
          /\ IsTrend("sell")' => Alert("sell")
          /\ ~IsTrend("buy")' /\ ~IsTrend("sell")' => alerts' = alerts
      BY <2>3, <3>2, <3>3, Zenon DEF OnTick
    <3>5. CASE IsTrend(s)'
      <4>1. Alert(s)
        BY <3>4, <3>5
      <4> QED BY <4>1, <3>1, <3>5, <2>1, NewsAgree DEF Alert
    <3>6. CASE ~IsTrend(s)'
      <4>1. alerts' = alerts \/ \E q \in {"buy", "sell"} \ {s} : alerts' = Append(alerts, q)
        BY <3>4, <3>6 DEF Alert
      <4>2. alerts' # Append(alerts, s)
        BY <4>1, <2>1 DEF TypeOK
      <4> QED BY <4>2, <3>6
    <3> QED BY <3>5, <3>6
  <2> QED BY <2>2, <2>3 DEF Next, Backfill, BackfillFails, BuyThrows, Closed
<1> QED BY <1>1, RunsInvariant, AlternationInvariant, PTL DEF Spec, SignalsAreTrends

=============================================================================
