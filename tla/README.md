# libtd365: a TLA+ model of the client library

libtd365 is a synchronous C++ client of the TD365 trading platform. One
application thread logs in over HTTPS, opens a websocket, subscribes to quotes,
waits for events and places orders. There are no threads, no timers and no
callbacks in the library. What makes it hard is the other side: a server that
pushes messages in its own order, two connections that may end at any point of
an exchange, blocking reads that share one thread with the periodic renewal of
the session, and calls of several requests that can fail in the middle.

Paths below are relative to the repository. `tla/` holds the specifications,
`M.tla` with its model-checking module `MCM.tla`, its `.cfg` files and its theorems
in `MProofs.tla` (those of Subscriptions are in `WsClientProofs`, of Calls in
`RestCallsProofs`, of Session in `LoginProofs`, of Base64 and Json in `ParsingProofs`).

## The system

| part | state it keeps | operations |
|---|---|---|
| `td365` (src/td365.cpp) | the two clients, `last_session_update_` | `connect`, `subscribe`, `unsubscribe`, `wait`, `trade`, `backfill`, market queries |
| `ws_client` (src/ws_client.cpp) | `ws_`, `connection_id_`, `subscribed_`, login id and token | `connect`, `subscribe`, `unsubscribe`, `read_and_process_message`, one `process_*` per message type |
| `ws` (src/ws.cpp) | a Beast websocket stream, plain or TLS | `connect`, `send`, `read_message`, `close` (never called) |
| `rest_api` (src/rest_api.cpp) | the `http_client`, the account id | `connect` (redirects, `ots` cookie), market queries, `trade`, `sim_trade`, `backfill`, `update_client_session_id` |
| `http_client` (src/http_client.cpp) | one TLS stream, a cookie jar, default headers | `get`, `post`: `ensure_connected`, write, read |
| `cookiejar` (src/cookiejar.cpp) | name -> value and expiry | load from file, `update`, `apply`, `get`, `save` (never called) |
| `authenticator` (src/authenticator.cpp) | `auth_token.json` | `authenticate` with and without a user |
| parsing, types, utils, base64 | none | conversions of ticks, candles, JSON bodies and tokens |
| example strategy (examples/trade_test.cpp) | candles, last signal | the application: subscribe, wait, buy, sell |

How they interact: `td365::connect` runs `authenticator`, then
`rest_api::connect`, and hands the token to `ws_client::connect`. `td365::wait`
alternates between a POST over `http_client` and reads of the websocket.
`td365::trade` is three POSTs. `http_client::send` calls the jar before and
after each exchange. Everything runs in the caller's thread; a blocking call
of one part holds up all others.

What is hard, and the property each part stands on:

* `ws_client`: whatever the order of connects, failures and calls, the server's
  idea of the subscriptions and the client's must meet again; the handshake reads
  by position; the death of a stream is told once or never.
* `td365::wait`: a renewal every 60 s from a thread that blocks in reads.
* `http_client` and `trade`: no order without its simulation, no order twice, no
  answer mistaken for another.
* `cookiejar`: the cookies sent are those that are good now.
* `td365::connect` over `authenticator` and `rest_api::connect`: the REST client, the
  websocket and the account id are of one session whatever failed before, redirects
  are bounded, an expired token is not used.
* parsing: of what is whole comes out what was meant, of what is refused nothing, and
  what is accepted with a field spoilt is wrong in that field alone; ticks, candles, JSON
  bodies and base64.
* the strategy: candles are the ticks', and every trend is traded on, once.

`PROJECT.json` lists every component with its status, and every hazard with its
line and the properties that cover it.

## Modules

### WsClient

State: `ws` (the stream's state), `connection_id_`, `subscribed_`, `pc` (the
blocking read the thread is in), `result` (what the last call gave), and outside
the client `conn`, `srv` (the server's session: accepted or not, the quotes it
streams or has refused) and the two directions of the link, `c2s` and `s2c`.

An action is everything the code does between two blocking reads. `Connect`,
`ReadConnectResponse` and `ReadAuthenticationResponse` are `ws_client::connect`
cut at its two reads; `ReadMessage` takes a message to its `process_*` operator;
`ReadFails` maps an error code to an outcome in the order of the tests in the
code. A handler's writes are a sequence, and `Transmit(msgs, k)` lets the first
`k` succeed and the next throw, so every partial failure of a handler is a step.
`subscribe` and `unsubscribe` change `subscribed_` before they write, as in the
code.

External: the server answers one message at a time, accepts or refuses, pushes
messages of the kinds in `Pushed`, may start the session over on the same
connection (the `connect_response` case of the reading loop exists for it), and
the link ends with a close frame, a truncation or a reset, the latter two with
loss.

Message contents nobody branches on are left out, and a price message holds one
price. `ws_client::connect` on a null `ws_` after a failed one, and reading a
null `ws_`, are undefined in the code; the application is taken not to do it.

### Subscriptions

What `WsClient` promises, with nothing of streams, handshakes and failing writes: a
set of quotes that is `wanted`, a `session` or none, what is `known` to the server in it
and the `log` it has not heard yet. `Start` is the one place where it can go wrong: a
session must begin with a log that settles every quote, whatever was wanted and given
up before. `WsClient!Abstract` maps to it: there is a session while the stream is open
and the server is up, has accepted the token and no message of the handshake is under
way; the log is what is on the link to the server; a quote the server has refused counts
as known, since the client cannot tell which it was. Run `ws` checks
`ImplementsSubscriptions`, with liveness.

### WaitLoop

`td365::wait` and the deadline logic of `read_and_process_message` with time.
`LoopHead` decides on the renewal, `RenewalAnswered` and `RenewalThrows` end it,
`ReadMessage`, `HandlerThrows`, `ReadEnds` and `ReadAborts` end a read, and
`SliceEnds` is what `wait` makes of the inner `timeout_event`. The reads are
Beast's synchronous ones, on which `expires_after` has no effect: on an open stream
they return when a message arrives, and a deadline is looked at between two
messages. The model keeps time differences instead of clock readings (`age` is
`now - last_session_update_`), so the clock needs no bound. `Tick` passes one unit;
computation takes no time.

### RestCalls

`http_client::send` under `td365::trade`, the checked posts and the renewal.
`open` is what the client can see of its stream (`is_open()`); `link` is the truth.
`ConnectFails` leaves the socket closed (resolution) or open (connect, handshake).
`send` catches `beast::error_code` where Beast throws `system_error`, so
`AfterEndOfStream` changes nothing: the socket stays open on a connection that is
gone and every later call fails until `rest_api::connect` makes a new client
(`NewClient`). The exchange handles a written request at any time, also after its
connection has ended, or loses it; before it closes an idle connection it may send
a response nobody asked for. `step` counts the requests of the running call.
Responses are well-formed HTTP within the body limit.

### Calls

What `RestCalls` promises: a call asks for its requests in order, each when those
before it were answered well and none that was asked for before; what was asked for is
handled at any time, also after its call, or never; the call returns with everything
done, or throws. There is no socket in it, no connection that ends and no reply that
could be another's. `RestCalls!Abstract` maps to it: a call is running while `pc` is not
idle, and what is asked is what was `written`. Run `rest` checks `ImplementsCalls`, with
liveness.

### Orders

The two order bodies of `rest_api` with every field that depends on the trade (market,
quote, prices, stake, mode, key), the requests the example builds, the exchange as
types.h documents it and what the application makes of the answer.

### CookieJar

`apply` and `update` around an exchange, with a clock. `said` is what the server
said of each cookie, independent of how the jar stores it; `Valid` reads it. Time
0 is the epoch of the system clock, the jar's sentinel for session cookies. A
header has at most one lifetime that parses.

### Login

`td365::connect`, both of them, cut at every request: `Connect` is
`authenticator::authenticate` up to its first request (the token file is absent, cut
off, expired or good), `LoginAnswered` and `Save` are `login` and the two halves of
`auth_token::save` (`std::ios::trunc`, then a write nobody checks; a file that cannot be
opened stays as it was), `SelectAccount` and
`FetchPlatformUrl` the portal, `Redirected` and `PageArrives` the loop of
`open_client`, `WebsocketConnects` the end. `RequestFails` is every other outcome of a
request, and throws. What a call that threw leaves (`jar`, `account_id_`, `ws`) is
there when the next call comes; `Dies` leaves the file and nothing else. The expiry is
written whole and read as an int, so `ReadExpiry` wraps; `Ints` is how many ints there
are.

External: the login server, the portal, which gives a user's accounts, and the
platform, which opens session after session, names one of `CookieNames` in the page's
path and sets it in any response or never. Each call is made with the credentials of
the user whose account it asks for. There is no `.cookies` file (CookieJar has it). The
hosts and the account type are left out. A token file that was cut off makes every later
connect of a user throw; the code has no way out of that but to remove the file by hand.

### Session

What `Login` promises: a call of connect is for one account, the platform opens a session
for it, and the call returns with the REST client, the websocket and the account id all
in the last session there is, or it throws and leaves nothing that the next one would
trust. `Login!Abstract` maps to it: a call is running while `pc` is not idle, it is
granted when the platform has opened a session for this call, and `connected` is what the
application holds after a call that returned. Tokens, portals, redirects, the file and
restarts are not seen from there. Run `login` checks `ImplementsSession`, with liveness.

### Parsing

The conversions, as operators with the names of the functions they stand for, and a
state that goes through them: `ReceiveTick` writes a tick as the server does and parses
it, `Write` and `Create` are the way through `operator<<` and `tick::create`, which may throw,
`ReceiveCandle` is one line of `backfill`. Lines are spoilt in two ways. `Damaged` is what
the code refuses (`ReceiveBadTick`, `ReceiveCandle`): cut off between two fields, no number
where one belongs, `nan` for an integer, an int that does not fit. `Altered` is what it
accepts (`ReceiveAlteredTick`, `ReceiveAlteredCandle`): something behind a number, `nan` for
a price, a flag that is neither 0 nor 1, an unknown direction, a line that ends within its
last field. No one of these is refused, so the promise is another: the damage stays in
its field. `NaN` is a constant that is no number; it stands for `inf` too.
`ReceivePrices` is a price message with prices under several keys, of which
`process_price_data` returns the first of the first key an `unordered_map` comes to: the
order is left open. `ReceiveBody` and `ReceiveDetails` are `get<T>` of the other events,
answers and files, whole or with a key removed or null, `DumpBody` is `to_json` and back.
`Decode` is base64 of any text, `ReadToken` is `extract_jwt_payload`. A field is a number, a word or an instant; `FromChars` takes the number it begins with, which of a
date is the year. Prices count tenths of a millionth, so that the rounding of
`setprecision(6)` shows; a double's own precision does not. The server's side (`Wire`,
`Chart`) is external and is what the results are compared with.

### Json and Base64

`Json` has the structs of `types.h` by the kinds of their fields: all fields of a kind
are converted alike, by `get_to`, so a struct is given by one key of each kind it has
(`Flat`), and account details by their optional parts (`Parts`). `Throws` is where
`from_json` throws, `Read` what it makes of a value, `Dump` what `to_json` writes. An
`int` wraps, as nlohmann's `static_cast` does; `IntMax` is a constant, so that small
instances reach its end. `Base64` is `encode_into` and `decode_into`, group by group,
with the padding counted as the code counts it, among the last characters wherever
they stand. Both are only definitions; Parsing runs them. `Joined` stands for the
community modules' `@@`, which the provers do not know.

### Candles

`candle_agg`, `signals` and `strategy::on_tick` of the example. One action per tick;
`trade` returns or throws. The candle that is open at the start opens at 0, as in the
code, and weighs in a trend when it is the oldest of three; the candles of the backfill
never do. `CandlesAreRuns` compares the candles with the open, high, low and close computed
from all ticks, which `RunOf` numbers by their runs; because a late tick starts a candle, these are of runs of ticks in one
minute, not of minutes.

## Runs

| run | what it shows | bounds |
|---|---|---|
| ws | `TypeOK`, `NoLostSubscription`, `NoGhostSubscription`, `HandshakeInOrder`, `DeathIsReported`, `ReconnectNamesReplaced`, `Converges`, `ImplementsSubscriptions` | two quotes, three connections, three messages in flight before a new exchange starts |
| wait | `SessionKeptAlive`, `WaitOverrunBounded`, `TimeoutIsTheCallers`, `TimedWaitReturns`, `EndOfStreamEndsWait`, `TypeOK` | period 3, slice 2, renewal up to 2, silence up to 2, timeouts 0 and 2, two messages waiting |
| rest | `OrderFollowsSimulation`, `HandledOnce`, `ReturnedMeansDone`, `ImplementsCalls`, `TypeOK` | three calls |
| orders | `OrderIsTheSimulated` | three trades, two prices, two hashes |
| cookies | `OnlyValidCookiesSent`, `ValidCookiesSent`, `TypeOK` | two names, two values, two headers per response, three instants |
| login | `ConnectedTogether`, `ConnectedAsAsked`, `LiveTokenUsed`, `ConnectEnds`, `ImplementsSession`, `TypeOK` | two users with an account each and the demo, two platform sessions, two redirects, eight ints, six instants |
| parsing | `TickIsTheSent`, `BadLinesThrow`, `DamageStaysInItsField`, `RoundTrip`, `CandleIsTheSent`, `BodyIsTheSent`, `BodyRoundTrip`, `Base64IsExact` | two values for each price, two instants, every flag, direction and grouping; up to two prices under any keys; every field of a line spoilt, in each way that is refused and in each that is accepted; every struct with ints at both ends of their range and ids beyond it, each of its keys spoilt; payloads up to four bytes, texts up to eight characters |
| candles | `CandlesAreRuns`, `SignalsAreTrends`, `TypeOK` | five ticks, three prices, two minutes |
| orders_trade_mode, orders_response, cookies_epoch, parsing_candle_time | violated, see Findings | the smallest that shows it |

Runs with a liveness property use `FairSpec`; the fairness does not remove any step,
so their invariants and action properties are checked of `Spec`'s states all the same.

Why these bounds are enough to be interesting: with three connections a
`connection_id_` can be stale by two, or current when the server starts the session over; with two quotes one can be
dropped while the other is kept; three messages in flight hold a greeting, an
answer and a push at once. A slice of 2 lets a message arrive inside and after it,
and a renewal of 2 can overlap a deadline. Three calls hold a failed trade, its
repetition and a renewal in between. Two platform sessions hold a call that
failed half way, or succeeded, and the next one, in the same process or after a restart;
the expiries pass the sign and the width of the narrow int. Five ticks make up to five candles, which
is a trend, a trend that lasts, and a turn. Four bytes are a whole group and one that
lacks two; texts of eight characters have padding signs in every place of two groups.

Every property has a mutant in `PROJECT.json`: a plausible slip in one mapped
definition (each is written next to its original, with the suffix after `_` naming
it) that TLC refutes the property with.

## Fairness

* `WsClient!FairSpec`: the application keeps calling `wait` (`BeginRead`), a read
  returns when there is something to read (`ClientReads`), the server handles what
  it is sent. Nothing is assumed of connects, of the link or of the order of calls.
* `WaitLoop!FairSpec`: the thread runs (`WaitStep`), the server's heartbeats come
  (`Server`), and time goes on (`TimeGoesOn`). The last is needed because steps take no
  time in the model: without it a server could send messages for ever within one
  instant, and a dead stream, which is read over and over, could stop the clock. No
  reachable state prevents time from going on.
* `RestCalls!FairSpec`: the thread runs, and a connection that is up is answered or
  ends. The code has no timeout of its own on an HTTP read: without this assumption
  a call can hang.
* `Login!FairSpec`: `Save` runs, and a request that is out is answered or fails
  (`Answers`). How many redirects there are is left to the server.
* `Subscriptions!FairSpec`, `Calls!FairSpec` and `Session!FairSpec` are what these give
  an outsider: a server hears the log of a session that lasts (`Hears`), a call returns
  or throws (`Ends`). All are stated of steps and states and not with `ENABLED`, which a
  refinement mapping would not carry over.

## Proofs

TLAPS proves every invariant and every action property the passing runs check, the
safety parts of the three refinements, the exactness of base64, and how far four of the
flaws described under Findings reach, for all values of the constants; liveness stays
with TLC.

* `WsClientProofs`: `TypeCorrect`, then the inductive invariant `Structure`. Its
  conjuncts say that an end marker is last on the link, that a dead connection
  carries nothing, that `subscribed_` has no duplicates, that before the session is
  accepted nothing about a quote counts, whose connection each id names, and what
  `connect()` will find at each of its reads. `HandshakeInOrder` is read off it.
  `NoLostSubscription` and `NoGhostSubscription` need more: that the last message
  about a quote on `c2s`, or else the server's session, agrees with `subscribed_`
  (`EndsUp`), which the lemmas about `EndsUp` on concatenation, tail and the
  re-subscription list carry through each action. The two action properties follow
  from `Structure` per action: `ReconnectNames`, which is about every reconnect
  written, from whose connection each id names (`Ids`) within connect(), and after it from
  `AcceptedOrSilent`: on a live stream `connection_id_` is this connection's, or connect()
  was refused, and then no handshake follows, since a refusal is the last thing the
  server says of one (`RefusalIsLast`). `ClientImplementsSubscriptions` is the refinement: `Spec`
  implements `Subscriptions!Spec`. A step lies outside a session, starts one, ends one or lies within
  one. Outside nothing is mapped but `subscribed_`; the start is the handshake's
  re-subscription loop, and `EndsUp` is what settles each quote there;
  within, every message on the link is in the log and a handler's write appends to it.
* `WaitLoopProofs`: `Timing` bounds the age of the session and the lateness of the
  call in each phase: at the head, in a renewal by how long it has taken, in a read by
  what is gone of the slice, and beyond the slice by how long the stream has been
  silent. The last case is why the invariant mentions `silence`. `DeadStreamIsUnheard`
  needs none of it: every step on a dead stream but one leaves an untimed wait in its loop.
* `RestCallsProofs`: `Structure` says that a running call has the requests behind it
  answered well, that only requests the calls have come to were ever written, that a
  connection holds at most one reply and whose, and that an order on its way has its
  simulation behind it. That an order is not handled early then takes one step.
  `RestImplementsCalls` needs the same: a request that is written is new because the calls
  have come only to those before it (`WriteAsks`), and a call that returns is done
  (`CallEnds`); every other step of the connection is a stutter. `GoneForGood` takes no
  invariant: no action but `NewClient` leads out of `Gone`, an open socket on a
  connection that has ended, and none of the others writes a request or returns there.

* `LoginProofs`: `Phases` says what each phase of connect has behind it: a token that
  was good when the call began, the account that was asked for, a count of redirects
  within the limit, a jar with the cookies of the session being opened and of no other.
  The last is what `ConnectedTogether` stands on, and needs the new client that
  `rest_api::connect` makes. `ReadExpiryIsEarlier` is why a narrow int is safe: it reads
  an expiry as earlier, never as later. `LoginImplementsSession` stands on one more
  invariant, `Latest`: the session a running call was granted is the last there is, and
  belongs to the account it was asked for. With it, every phase of connect but the first,
  the grant and the last is a stutter of `Session`.
* `CookieJarProofs`: `TypeCorrect`, then `Agreement`, that the jar tells of each cookie
  what the server last said of it. A response is a fold over its headers. `StoredInOrder`
  says what that fold is, by induction over the number of headers: TLAPS cannot apply the
  library's induction theorem, which takes an operator, but it can apply `WFMin`, that a
  set of numbers has a smallest one, to the numbers at which a sequence of jars goes
  wrong (`InductionToLimit`). `LatestOfPrefix` is why the order of the headers matters:
  of two that name one cookie, the jar keeps the later, as the server means it. From
  there `OneHeader` and `OneResponse` carry `Agreement` through an exchange.
  `NothingElseIsSent` has the hypothesis that no cookie expires at the epoch. Run
  cookies_epoch shows that it cannot do without, and the theorem that nothing else can
  go wrong; `NothingIsLeftOut` has no such hypothesis.
* `CandlesProofs`: `Remembered` ties `last_signal` to the last order, and
  `SignalsAlternate` follows. `CandlesAreRuns` compares candles with all ticks there
  were; `TickAdded` and `OneRunGrows` say that a tick enlarges one run, the last or a new
  one, and changes no other, so that what has been rolled into the history stays right.
  `Runs` is what the candle in the making needs: whose minute it is, that its low and
  high are prices of its run and bound the others, and that every run has a first and a
  last tick. `SignalsFollowTrends` reads the trend off the candles once three runs are
  over, when nothing of the backfill is left (`TrendsAgree`), and whether it is news off
  `last_signal` (`NewsAgree`).
* `OrdersProofs`: `Bodies` says which request the two bodies were made of, and `OneBody`
  that they are one. `EveryTradeIsInverted` says how far run orders_trade_mode goes: `Books`
  keeps the sum of what the exchange holds and what was wanted at nothing.
* `ParsingProofs`, in its order. Base64: `DecodesWhatItEncodes` and
  `OnlyEncodingsAreDecoded`, for texts and payloads of any length, without induction: a
  place is the first, second, ... of a group, `EncodedGroup` and `DecodedGroup` say what
  a group is, and the arithmetic of one group is five facts about quotients. The count of
  padding signs among the last characters (`PaddingCounted`) is what tells the last group
  from the others. `DecodingIsExact` carries these to `Parsing`, with the token: its
  payload is padded up to what was encoded (`PaddedUpAgain`), and a character that is not
  of the alphabet, a quotation mark too, is never decoded. Candles and ticks:
  `CandlesAreTheSent`, `TicksAreTheSent` and `TicksRoundTrip` follow the fields, and
  `CandleTimesAreLost` the one field of a candle that no chart line gets across.
  `TicksRoundTrip` needs that every tick, also one parsed from an altered line, has prices or `nan`,
  flags and a grouping in their places (`Readable`, `AlteredIsTick`), and that what is written
  of such a tick parses (`WrittenParses`); `TicksAreTheSent` that a
  key of a price message belongs to one grouping (`KnownKeys`). Bodies: `WrittenAs` and `FieldRead` say
  that a value goes through JSON unchanged when it fits its field, `StructRead`,
  `PartRead` and `DetailsRead` lift that to structs, lists of records and account
  details, and `BodiesAreTheSent` and `BodiesRoundTrip` to the runs' properties.
  `SpoiltThrows`, `SpoiltDetailsThrow`, `DamagedLine` and `DamagedCandle` give
  `SpoiltIsThrown`, of exactly the lines `Damaged` names. `DamageIsLocal` is about the lines
  that are accepted: each field of the result reads one field of the line
  (`FieldByField`), so that the others stay (`OthersStay`), and the altered one is read as
  `Altered` says (`AlteredField`).

The assumptions are those the modules state: non-empty sets, natural numbers; `Old`
(where `WaitLoop` stops telling ages apart) above every bound that occurs; instants that
are multiples of 100 ns, since that is what the wire counts (`InstantsAssumption`); and
values that fit the C++ type of their field (`ValuesAssumption`), without which an `int`
wraps and a body is not what was sent. The theorem about the epoch has the one
hypothesis of its own. Model-checked only: the liveness properties, and with them the
fairness of the three refinements, which are out of the provers' reach.

## Findings

* `tradeMode` is sent as `dir == sell` (src/rest_api.cpp:208, 233);
  include/td365/types.h:351 documents it as "false = sell, true = buy" (run
  orders_trade_mode). `EveryTradeIsInverted`: so it is for every trade.
* `from_json(trade_response)` reads nothing (src/types.cpp:396), so an accepted order
  is logged as "Buy order rejected" and "Sell order rejected" of a sell
  (examples/trade_test.cpp:162-165, 181-185; run orders_response).
* A cookie the server expires at the epoch is kept for ever (src/cookiejar.cpp:157,
  against the comment at 155; run cookies_epoch).
* The time of a candle is read as a count of nanoseconds (src/parsing.cpp:204), which of
  "2025-06-16T07:32:00+00:00" is 2025 ns after the epoch; the comment at 177-178 has
  that format and `parse_iso8601_sv` for it is never called (run parsing_candle_time).
  `CandleTimesAreLost`: cut to seconds, every candle has the epoch for its time.

Not findings, since nothing in the repository says otherwise, but worth knowing:
`wait()` without a timeout never returns on a stream that was dead when it was called,
unless a renewal throws (`DeadStreamIsUnheard`); an `http_client` whose connection has
ended never recovers (`GoneForGood`); the renewal's answer is ignored. A second `td365::connect` keeps the subscriptions and the connection id of the
first. A number too large for an `int` of a JSON body wraps silently, while the same in
a line of text throws. An account summary of platform 0 is returned with no account
in it, though the log says it is skipped. `process_price_data`, `process_account_details`
and `process_trade_established` use `operator[]` of a const json for `"d"`, which without
that key is undefined; the model's messages have it. `extract_jwt_payload` decodes the
plain alphabet, a token is base64url: a payload with one of the two characters in which
they differ throws (`ReadToken` has such tokens), as does one without a third part.

## Plan

Done: WsClient, WaitLoop, RestCalls and Login; Subscriptions, Calls and Session,
which three of them implement; Orders, CookieJar, Candles; Parsing over Json and Base64;
each with the proofs of its safety properties. Left, in this order:

1. `RestCalls` over the jar: which cookies a request of `trade` carries after a
   response has replaced the session's.
2. `CookieJar`: headers with two lifetimes, of which the code takes the last that parses.

## Not modelled

TLS, DNS and the `PROXY` variable of `td_resolve`, gzip, logging and the other
`operator<<`, headers other than `Cookie`, the error table of `error.h` (nothing throws
from it), the wrappers of `charconv_compat.h` and `verify.h`, `parse_iso8601_sv` (never
called), a double's own precision, packaging. `tests/test_ws_reconnect.cpp` has its reconnection tests compiled out
and states nothing the library still does.
