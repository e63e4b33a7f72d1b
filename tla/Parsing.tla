------------------------------ MODULE Parsing -------------------------------
(***************************************************************************)
(* From text to ticks and candles and back: parse_td_tick, parse_candle    *)
(* and the lookup tables (src/parsing.cpp), operator<< and tick::parse     *)
(* (src/types.cpp), and how ws_client finds the grouping of a price.       *)
(*                                                                         *)
(* A field of a line is a number, a word or an instant; all the parsers    *)
(* use from_chars, which takes the number a field begins with and ignores  *)
(* the rest of it.  A price counts tenths of a millionth, an instant on    *)
(* the wire is a count of 100 ns after a remote epoch, one in the program  *)
(* is in nanoseconds after the clock's.                                    *)
(***************************************************************************)
EXTENDS Integers, Sequences, FiniteSets, Json, Base64

CONSTANTS
    Prices,       \* the prices a server sends
    Times,        \* when it sends them, in nanoseconds
    Clocks,       \* when they are parsed
    CandleTimes,  \* the minutes of a chart, in seconds
    Epoch,        \* WINDOWS_TICKS_TO_UNIX_EPOCH
    NaN,          \* what a double can be besides a number: nan or inf
    Values,       \* of the fields of a JSON body, one for each kind
    Payloads,     \* the bytes that are encoded
    Texts         \* what else is decoded

ASSUME PricesAssumption == Prices \subseteq Int /\ Times \subseteq Nat /\ Clocks \subseteq Nat
ASSUME CandlesAssumption == CandleTimes \subseteq Nat
ASSUME EpochAssumption == Epoch \in Nat
ASSUME NaNAssumption == NaN \notin Int
ASSUME ValuesAssumption == \A x \in Values : \A kind \in DOMAIN Takes : Fits(kind, x[kind])
ASSUME TextsAssumption == Payloads \subseteq Seq(0..255) /\ Texts \subseteq Seq(0..65)

VARIABLES
    pc,      \* what has become of the line
    sent,    \* what the server said (a tick or a candle), and
    line,    \* the fields it wrote
    tick,    \* what was parsed from them
    csv,     \* what operator<< made of it, and
    reread   \* tick::create of that

vars == <<pc, sent, line, tick, csv, reread>>

\* a number, nan included, and one with something else behind it
Number(n) == [kind |-> "number", n |-> n]
Trailed(n) == [kind |-> "trailed", n |-> n]
Word(w) == [kind |-> "word", w |-> w]
ISO(s) == [kind |-> "instant", at |-> s]

Year(s) == 1970 + s \div 31556952
TicksPerNs == 100
NsPerSecond == 1000000000

\* The wire can only say hundreds of nanoseconds.
ASSUME InstantsAssumption == \A at \in Times : at % TicksPerNs = 0

PriceNames == {"bid", "ask", "daily_change", "high", "low", "mid_price"}
Groupings == {"grouped", "sampled", "delayed", "candle_1m"}
Directions == {"up", "down", "unchanged"}
None == [none |-> TRUE]

-----------------------------------------------------------------------------
(* The lookup tables                                                        *)

\* the keys of a price message
grouping_map ==
    [gp |-> "grouped", sp |-> "sampled", dp |-> "delayed", c1m |-> "candle_1m"]

to_string ==
    [grouped |-> "Grouped", sampled |-> "Sampled", delayed |-> "Delayed",
     candle_1m |-> "Candle1Minute"]

Initial ==
    [Grouped |-> "G", Sampled |-> "S", Delayed |-> "D", Candle1Minute |-> "C",
     gp |-> "g", sp |-> "s", dp |-> "d", c1m |-> "c"]

\* faster_grouping_lookup, by the first letter; the rest of it is zero
string_to_price_type(word) ==
    LET c == Initial[word] IN
      CASE c = "S" -> "sampled" [] c = "D" -> "delayed" [] c = "C" -> "candle_1m"
        [] OTHER -> "grouped"

\* mistake: the prices of a price message are looked up by their first letter
GroupOf_Letter(said) == string_to_price_type(said)

\* A price message has the grouping in its key, a subscribe response in a word.
GroupOf(said) ==
    IF said \in DOMAIN grouping_map THEN grouping_map[said] ELSE string_to_price_type(said)

-----------------------------------------------------------------------------
(* parse_td_tick                                                            *)

\* mistake: the error code of from_chars is not looked at
HasNumber_Unchecked(f) == TRUE

\* what from_chars finds at the front of a field
HasNumber(f) == f.kind # "word"
FromChars(f) ==
    CASE f.kind \in {"number", "trailed"} -> f.n [] f.kind = "instant" -> Year(f.at) [] OTHER -> 0

\* nan is a double only, and parse_int fails on what does not fit
IsWhole(f) == HasNumber(f) /\ FromChars(f) # NaN
IsInt(f) == HasNumber(f) /\ FromChars(f) \in (-IntMax - 1)..IntMax

WireFields == 13

\* by its first letter, all there is on the wire
DirectionOf(w) == CASE w = "u" -> "up" [] w = "d" -> "down" [] OTHER -> "unchanged"

WireParses(f) ==
    /\ Len(f) >= WireFields
    /\ \A i \in {2, 3, 4, 7, 8, 11} : HasNumber(f[i])
    /\ IsInt(f[1]) /\ IsWhole(f[12]) /\ IsInt(f[13])

UnixTime(ticks) == (ticks - Epoch) * TicksPerNs

\* mistake: a flag is set unless it is 0
parse_td_tick_NotZero(f, g, now) ==
    [quote_id |-> FromChars(f[1]), bid |-> FromChars(f[2]), ask |-> FromChars(f[3]),
     daily_change |-> FromChars(f[4]), dir |-> DirectionOf(f[5].w),
     tradable |-> (f[6] # Number(0)), high |-> FromChars(f[7]), low |-> FromChars(f[8]),
     hash |-> f[9].w, call_only |-> (f[10] # Number(0)), mid_price |-> FromChars(f[11]),
     timestamp |-> UnixTime(FromChars(f[12])), field13 |-> FromChars(f[13]), group |-> g,
     latency |-> now - UnixTime(FromChars(f[12]))]

\* A flag is 1 or it is not set, whatever else it is.
parse_td_tick(f, g, now) ==
    [quote_id |-> FromChars(f[1]), bid |-> FromChars(f[2]), ask |-> FromChars(f[3]),
     daily_change |-> FromChars(f[4]), dir |-> DirectionOf(f[5].w),
     tradable |-> (f[6] = Number(1)), high |-> FromChars(f[7]), low |-> FromChars(f[8]),
     hash |-> f[9].w, call_only |-> (f[10] = Number(1)), mid_price |-> FromChars(f[11]),
     timestamp |-> UnixTime(FromChars(f[12])), field13 |-> FromChars(f[13]), group |-> g,
     latency |-> now - UnixTime(FromChars(f[12]))]

-----------------------------------------------------------------------------
(* operator<< and tick::parse                                               *)

\* fixed, with six decimals: to the nearest millionth
Fixed6(p) == Number(IF p = NaN THEN NaN ELSE 10 * ((p + 5) \div 10))

Boolalpha(b) == Word(IF b THEN "true" ELSE "false")

Written(t) ==
    <<Number(t.quote_id), Fixed6(t.bid), Fixed6(t.ask), Fixed6(t.daily_change), Word(t.dir),
      Boolalpha(t.tradable), Fixed6(t.high), Fixed6(t.low), Word(t.hash),
      Boolalpha(t.call_only), Fixed6(t.mid_price), Number(t.timestamp), Number(t.field13),
      Word(to_string[t.group]), Number(t.latency)>>

CsvFields == 15

\* mistake: the flags are read as they come on the wire
parse_bool_Wire(f) == f = Number(1)

parse_bool(f) == f = Word("true")

\* by the second letter of "up", then by the first of "down"
CsvDirection(w) ==
    CASE w = "up" -> "up" [] w = "down" -> "down" [] OTHER -> "unchanged"

CsvParses(f) ==
    /\ Len(f) >= CsvFields
    /\ \A i \in {2, 3, 4, 7, 8, 11} : HasNumber(f[i])
    /\ IsInt(f[1]) /\ IsWhole(f[12]) /\ IsInt(f[13]) /\ IsWhole(f[15])

tick_parse(f) ==
    [quote_id |-> FromChars(f[1]), bid |-> FromChars(f[2]), ask |-> FromChars(f[3]),
     daily_change |-> FromChars(f[4]), dir |-> CsvDirection(f[5].w),
     tradable |-> parse_bool(f[6]), high |-> FromChars(f[7]), low |-> FromChars(f[8]),
     hash |-> f[9].w, call_only |-> parse_bool(f[10]), mid_price |-> FromChars(f[11]),
     timestamp |-> FromChars(f[12]), field13 |-> FromChars(f[13]),
     group |-> string_to_price_type(f[14].w), latency |-> FromChars(f[15])]

-----------------------------------------------------------------------------
(* parse_candle                                                             *)

ChartFields == 6

CandleParses(f) ==
    Len(f) >= ChartFields /\ IsWhole(f[1]) /\ \A i \in 2..ChartFields : HasNumber(f[i])

\* mistake: the fields in another order
parse_candle_OHCL(f) ==
    [timestamp |-> FromChars(f[1]) \div NsPerSecond, open |-> FromChars(f[2]),
     high |-> FromChars(f[3]), low |-> FromChars(f[5]), close |-> FromChars(f[4]),
     volume |-> FromChars(f[6])]

\* string_to_timepoint takes the field for a count of nanoseconds, and the
\* cast to seconds truncates it.
parse_candle(f) ==
    [timestamp |-> FromChars(f[1]) \div NsPerSecond, open |-> FromChars(f[2]),
     high |-> FromChars(f[3]), low |-> FromChars(f[4]), close |-> FromChars(f[5]),
     volume |-> FromChars(f[6])]

-----------------------------------------------------------------------------
(* The server (external): what it means and how it writes it                *)

Codes == [up |-> "u", down |-> "d", unchanged |-> "e"]
Flag(b) == Number(IF b THEN 1 ELSE 0)

SaidOf ==
    [grouped |-> {"gp", "Grouped"}, sampled |-> {"sp", "Sampled"},
     delayed |-> {"dp", "Delayed"}, candle_1m |-> {"c1m", "Candle1Minute"}]

Wire(t) ==
    <<Number(t.quote_id), Number(t.bid), Number(t.ask), Number(t.daily_change),
      Word(Codes[t.dir]), Flag(t.tradable), Number(t.high), Number(t.low), Word(t.hash),
      Flag(t.call_only), Number(t.mid_price), Number(t.timestamp \div TicksPerNs + Epoch),
      Number(t.field13)>>

Chart(c) ==
    <<ISO(c.timestamp), Number(c.open), Number(c.high), Number(c.low), Number(c.close),
      Number(c.volume)>>

\* What is wrong with a line the program refuses: fields are missing, one of
\* them has no number where one belongs, or it has one that does not fit (ints
\* are the fields that are read as an int, wholes those read as any integer).
Damaged(f, ints, wholes) ==
    {SubSeq(f, 1, n) : n \in 1..(Len(f) - 1)}
      \cup {[f EXCEPT ![i] = Word("?")] : i \in {j \in DOMAIN f : f[j].kind # "word"} \ {6, 10}}
      \cup {[f EXCEPT ![i] = Number(IntMax + 1)] : i \in ints}
      \cup {[f EXCEPT ![i] = Number(NaN)] : i \in wholes}

WireNames ==
    <<"quote_id", "bid", "ask", "daily_change", "dir", "tradable", "high", "low", "hash",
      "call_only", "mid_price", "timestamp", "field13">>
ChartNames == <<"timestamp", "open", "high", "low", "close", "volume">>

\* What a whole number (of 0 or more) is when its last digit is lost, if
\* anything is left of it.
Shorter(n) == {k \in {n \div 10} : k > 0}

\* What is wrong with a field that the program accepts, and what it takes the
\* field for: behind a number there is something else, a price is nan, a flag or
\* a direction is unknown, the line ends within its last field. The field is the
\* one of x, m what was meant by it.
Altered(field, x, m) ==
    CASE x \in {"tradable", "call_only"} -> {Trailed(field.n), Number(2), Word("?")} \X {FALSE}
      [] x = "dir" -> {<<Word("?"), "unchanged">>}
      [] x \in {"quote_id", "timestamp"} -> {<<Trailed(field.n), m>>}
      [] x = "field13" -> {<<Trailed(field.n), m>>} \cup {<<Number(n), n>> : n \in Shorter(m)}
      [] x = "volume" ->
           {<<Trailed(field.n), m>>, <<Number(NaN), NaN>>} \cup {<<Number(n), n>> : n \in Shorter(m)}
      [] OTHER -> {<<Trailed(field.n), m>>, <<Number(NaN), NaN>>}

-----------------------------------------------------------------------------
Init == pc = "idle" /\ sent = None /\ line = None /\ tick = None /\ csv = None /\ reread = None

Thrown == pc' = "thrown" /\ tick' = None

\* A price, alone in a price message or a subscribe response.
ReceiveTick ==
    /\ pc = "idle"
    /\ \E p \in [PriceNames -> Prices], dir \in Directions, tradable, call_only \in BOOLEAN,
          g \in Groupings, at \in Times, now \in Clocks :
         \E said \in SaidOf[g] :
           LET t == [quote_id |-> 1, bid |-> p["bid"], ask |-> p["ask"],
                     daily_change |-> p["daily_change"], dir |-> dir, tradable |-> tradable,
                     high |-> p["high"], low |-> p["low"], hash |-> "hash",
                     call_only |-> call_only, mid_price |-> p["mid_price"],
                     timestamp |-> at, field13 |-> 25, group |-> g, latency |-> now - at]
           IN /\ sent' = t
              /\ line' = Wire(t)
              /\ IF WireParses(Wire(t))
                   THEN pc' = "tick" /\ tick' = parse_td_tick(Wire(t), GroupOf(said), now)
                   ELSE Thrown
    /\ UNCHANGED <<csv, reread>>

\* process_price_data: the first price of a key of the map that has any; in
\* which order an unordered_map has its keys is left open.
HasPrices(d) == {key \in DOMAIN d \cap DOMAIN grouping_map : d[key] # <<>>}

PriceTick(p, at) ==
    [quote_id |-> 1, bid |-> p, ask |-> p, daily_change |-> p, dir |-> "up", tradable |-> TRUE,
     high |-> p, low |-> p, hash |-> "hash", call_only |-> FALSE, mid_price |-> p,
     timestamp |-> at, field13 |-> 25]

\* A price message with several prices under several keys, one of them not
\* known to the client.
ReceivePrices ==
    /\ pc = "idle"
    /\ \E keys \in SUBSET (DOMAIN grouping_map \cup {"other"}), at \in Times, now \in Clocks :
         \E d \in [keys -> {<<>>} \cup {<<p>> : p \in Prices} \cup (Prices \X Prices)] :
           LET wire(key) == [i \in DOMAIN d[key] |-> Wire(PriceTick(d[key][i], at))]
           IN /\ sent' = [at |-> at, now |-> now, prices |-> d]
              /\ line' = [key \in keys |-> wire(key)]
              /\ \/ HasPrices(d) = {} /\ Thrown
                 \/ \E key \in HasPrices(d) :
                      IF WireParses(wire(key)[1])
                        THEN pc' = "prices" /\ tick' = parse_td_tick(wire(key)[1], GroupOf(key), now)
                        ELSE Thrown
    /\ UNCHANGED <<csv, reread>>

\* The same, of a line that is damaged.
ReceiveBadTick ==
    /\ pc = "idle"
    /\ \E p \in Prices, at \in Times, now \in Clocks, g \in Groupings :
         \E f \in Damaged(Wire(PriceTick(p, at)), {1, 13}, {1, 12, 13}) :
           /\ line' = f
           /\ IF WireParses(f) THEN pc' = "tick" /\ tick' = parse_td_tick(f, g, now) ELSE Thrown
    /\ sent' = None
    /\ UNCHANGED <<csv, reread>>

\* The same, of a line with a field that is not as it was meant, which the
\* program does not see.
ReceiveAlteredTick ==
    /\ pc = "idle"
    /\ \E p \in Prices, at \in Times, now \in Clocks, g \in Groupings, i \in 1..WireFields \ {9} :
         LET t == PriceTick(p, at)
             x == WireNames[i]
         IN \E b \in Altered(Wire(t)[i], x, t[x]) :
              LET f == [Wire(t) EXCEPT ![i] = b[1]] IN
              /\ sent' = [damaged |-> x, meant |-> t, left |-> b[2]]
              /\ line' = f
              /\ IF WireParses(f) THEN pc' = "tick" /\ tick' = parse_td_tick(f, g, now) ELSE Thrown
    /\ UNCHANGED <<csv, reread>>

\* os << tick
Write ==
    /\ pc = "tick"
    /\ csv' = Written(tick)
    /\ pc' = "written"
    /\ UNCHANGED <<sent, line, tick, reread>>

\* tick::create
Create ==
    /\ pc = "written"
    /\ IF CsvParses(csv)
         THEN pc' = "reread" /\ reread' = tick_parse(csv)
         ELSE pc' = "thrown" /\ reread' = None
    /\ UNCHANGED <<sent, line, tick, csv>>

\* a candle of rest_api::backfill, whole or damaged
ReceiveCandle ==
    /\ pc = "idle"
    /\ \E s \in CandleTimes, o, h, l, c, v \in Prices :
         LET k == [timestamp |-> s, open |-> o, high |-> h, low |-> l, close |-> c, volume |-> v]
         IN \/ /\ sent' = k /\ line' = Chart(k)
               /\ IF CandleParses(Chart(k)) THEN pc' = "candle" /\ tick' = parse_candle(Chart(k)) ELSE Thrown
            \/ \E f \in Damaged(Chart(k), {}, {1}) :
                 /\ sent' = None /\ line' = f
                 /\ IF CandleParses(f) THEN pc' = "candle" /\ tick' = parse_candle(f) ELSE Thrown
    /\ UNCHANGED <<csv, reread>>

\* one with a field that is not as it was meant
ReceiveAlteredCandle ==
    /\ pc = "idle"
    /\ \E s \in CandleTimes, o, h, l, c, v \in Prices, i \in 2..ChartFields :
         LET k == [timestamp |-> s, open |-> o, high |-> h, low |-> l, close |-> c, volume |-> v]
             x == ChartNames[i]
         IN \E b \in Altered(Chart(k)[i], x, k[x]) :
              LET f == [Chart(k) EXCEPT ![i] = b[1]] IN
              /\ sent' = [damaged |-> x, meant |-> k, left |-> b[2]]
              /\ line' = f
              /\ IF CandleParses(f) THEN pc' = "candle" /\ tick' = parse_candle(f) ELSE Thrown
    /\ UNCHANGED <<csv, reread>>

\* get<T> of the body of a message, an answer or a file: whole, or spoilt
ReceiveBody ==
    /\ pc = "idle"
    /\ \E type \in DOMAIN Flat, x \in Values :
         LET s == Filled(Flat[type], x)
             whole == Said(Flat[type], s)
         IN \E v \in {Object(whole)} \cup Spoilt(whole, DOMAIN whole) :
              /\ sent' = IF v = Object(whole) THEN [type |-> type, body |-> s] ELSE None
              /\ line' = v
              /\ IF Throws(type, v) THEN Thrown
                 ELSE pc' = "body" /\ tick' = [type |-> type, body |-> Read(type, v)]
    /\ UNCHANGED <<csv, reread>>

\* The same of account details, with any of their parts.
ReceiveDetails ==
    /\ pc = "idle"
    /\ \E x \in Values, given \in SUBSET DOMAIN Parts, n \in 0..1 :
         LET s == FilledDetails(x, given, n)
             whole == Object(SaidDetails(s, given))
         IN \E v \in {whole} \cup SpoiltDetails(s, given) :
              /\ sent' = IF v = whole THEN [type |-> "account_details", body |-> s] ELSE None
              /\ line' = v
              /\ IF Throws("account_details", v) THEN Thrown
                 ELSE pc' = "body" /\ tick' = [type |-> "account_details", body |-> Read("account_details", v)]
    /\ UNCHANGED <<csv, reread>>

\* to_json, and from_json of that
DumpBody ==
    /\ pc = "body"
    /\ tick.type \in Dumped
    /\ csv' = Dump(tick.type, tick.body)
    /\ reread' = IF Throws(tick.type, csv') THEN None
                 ELSE [type |-> tick.type, body |-> Read(tick.type, csv')]
    /\ pc' = "dumped"
    /\ UNCHANGED <<sent, line, tick>>

\* to_base64 and back, or any text
Decode ==
    /\ pc = "idle"
    /\ \/ \E bytes \in Payloads : sent' = [bytes |-> bytes] /\ line' = encode_into(bytes)
       \/ sent' = None /\ line' \in Texts
    /\ IF DecodeThrows(line') THEN Thrown ELSE pc' = "bytes" /\ tick' = decode_into(line')
    /\ UNCHANGED <<csv, reread>>

\* extract_jwt_payload, of a token with three parts or with two
ReadToken ==
    /\ pc = "idle"
    /\ \E bytes \in Payloads, rest \in {<<>>, <<<<0>>>>} :
         /\ bytes # <<>>
         /\ sent' = [bytes |-> bytes]
         /\ line' = PaddedUp(jwt_payload(<<<<0>>, Issued(bytes)>> \o rest))
    /\ IF DecodeThrows(line') THEN Thrown ELSE pc' = "bytes" /\ tick' = decode_into(line')
    /\ UNCHANGED <<csv, reread>>

Next ==
    \/ ReceiveTick \/ ReceivePrices \/ ReceiveBadTick \/ ReceiveAlteredTick \/ Write \/ Create
    \/ ReceiveCandle \/ ReceiveAlteredCandle
    \/ ReceiveBody \/ ReceiveDetails \/ DumpBody
    \/ Decode \/ ReadToken

Spec == Init /\ [][Next]_vars

-----------------------------------------------------------------------------
(* Properties                                                               *)

\* the line is Altered, or it is as the server wrote it
LineAltered == "damaged" \in DOMAIN sent
Unaltered == sent # None /\ ~LineAltered

\* What parse_td_tick makes of a whole line is what the server meant by it: every
\* field, the direction's code, the flags, the instant, and the grouping
\* whether it came as a key or as a word. Of a message with many prices it is
\* the first one of its key, with the grouping of that key and no other.
TickIsTheSent ==
    /\ (pc = "tick" /\ Unaltered) => tick = sent
    /\ pc = "prices" =>
         \E g \in Groupings : \E key \in SaidOf[g] \cap DOMAIN sent.prices :
           /\ sent.prices[key] # <<>>
           /\ LET first == PriceTick(Head(sent.prices[key]), sent.at)
              IN \A x \in DOMAIN first : tick[x] = first[x]
           /\ tick.group = g /\ tick.latency = sent.now - sent.at

\* What is Damaged throws: a line that is cut off between two fields, has no
\* number where one belongs, nan where an integer does, or an int that does not
\* fit. It never becomes a tick or a candle with some other value in that place.
\* (What the program accepts instead is Altered.) Nor does a JSON body with a key
\* too few or null in it become half a struct; but of platform 0 there is an
\* account summary without an account in any case.
BadLinesThrow ==
    (pc \in {"tick", "prices", "candle", "body"} /\ sent = None) =>
      pc = "body" /\ tick = [type |-> "account_summary", body |-> Empty(account_summary)]

\* An Altered line is not refused, but what is wrong with it stays where it is:
\* every other field is what the server meant, no value moves to another one. In
\* the field itself an unknown flag is not set, an unknown direction is
\* unchanged, a number is the one the field begins with, a price may be nan.
DamageStaysInItsField ==
    (pc \in {"tick", "candle"} /\ LineAltered) =>
      /\ \A x \in DOMAIN sent.meant \ {sent.damaged} :
           tick[x] = sent.meant[x] \/ (pc = "candle" /\ x = "timestamp")
      /\ tick[sent.damaged] = sent.left

\* tick::create reads what operator<< writes (the test "Format timestamp") and
\* never throws at it: the same tick, prices to six decimals, the instant to the
\* nanosecond, nan as nan.
RoundTrip ==
    /\ pc = "reread" =>
         \A x \in DOMAIN tick :
           IF x \in PriceNames /\ tick[x] # NaN
           THEN reread[x] # NaN /\ reread[x] - tick[x] \in -5..5
           ELSE reread[x] = tick[x]
    /\ pc = "thrown" => csv = None

\* A JSON body is read as it was meant: ids beyond an int, doubles written as
\* integers, the records and the absent parts of account details.
BodyIsTheSent ==
    (pc = "body" /\ sent # None) =>
      \/ tick = sent
      \/ sent.type = "account_summary" /\ sent.body.PlatformID = 0

\* What to_json writes from_json reads, with every record; save the time of a
\* candle, and what the summary of platform 0 does not have.
BodyRoundTrip == pc = "dumped" => reread = tick

\* Bytes come back from their encoding, and from a token; a text that is decoded
\* is the encoding of what comes out of it, so that no text with a padding sign
\* or another character in the wrong place yields bytes.
Base64IsExact ==
    pc = "bytes" => /\ sent # None => tick = sent.bytes
                    /\ Encodes(line, tick)

\* The prices and the volume of a candle from a whole line are those of the chart.
CandleIsTheSent ==
    (pc = "candle" /\ Unaltered) => \A x \in DOMAIN sent \ {"timestamp"} : tick[x] = sent[x]

\* The time of a candle is the one the chart gives.
CandleTimeIsTheSent == (pc = "candle" /\ Unaltered) => tick.timestamp = sent.timestamp

=============================================================================
