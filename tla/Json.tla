-------------------------------- MODULE Json --------------------------------
(***************************************************************************)
(* from_json and to_json of the structs of include/td365/types.h           *)
(* (src/types.cpp) over nlohmann's JSON values, and the events ws_client   *)
(* makes of the messages that carry them.                                  *)
(*                                                                         *)
(* All fields of a kind are converted alike, so a struct is given by the   *)
(* kinds it has, each by its first key of that kind.  A double counts      *)
(* halves, which tells a fraction from an integer.                         *)
(***************************************************************************)
EXTENDS Integers, Sequences

CONSTANT IntMax  \* the largest int

ASSUME IntAssumption == IntMax \in Nat \ {0}

-----------------------------------------------------------------------------
(* JSON values                                                              *)

Integer(n) == [integer |-> n]
Real(halves) == [real |-> halves]
Bool(b) == [bool |-> b]
Text(s) == [text |-> s]
Null == [null |-> TRUE]
Array(s) == [array |-> s]
Object(f) == [object |-> f]

\* the keys of both
Joined(f, g) == [k \in DOMAIN f \cup DOMAIN g |-> IF k \in DOMAIN f THEN f[k] ELSE g[k]]

Is(v, type) == type \in DOMAIN v
Has(v, key) == Is(v, "object") /\ key \in DOMAIN v.object

\* What get_to takes for a field of a kind.
Takes ==
    [int |-> {"integer", "real", "bool"}, int64 |-> {"integer", "real"},
     enum |-> {"integer", "real"}, double |-> {"integer", "real"},
     bool |-> {"bool"}, string |-> {"text"}]

Truncated(halves) == IF halves < 0 THEN -((-halves) \div 2) ELSE halves \div 2

Whole(v) ==
    CASE Is(v, "integer") -> v.integer
      [] Is(v, "real") -> Truncated(v.real)
      [] OTHER -> IF v.bool THEN 1 ELSE 0

Wrapped(n) == ((n + IntMax + 1) % (2 * (IntMax + 1))) - (IntMax + 1)

\* mistake: the ids of orders and positions are read as an int
Got_Int(kind, v) ==
    CASE kind = "bool" -> v.bool
      [] kind = "string" -> v.text
      [] kind = "double" -> IF Is(v, "integer") THEN 2 * v.integer ELSE v.real
      [] OTHER -> Wrapped(Whole(v))

\* What it makes of it.
Got(kind, v) ==
    CASE kind = "bool" -> v.bool
      [] kind = "string" -> v.text
      [] kind = "double" -> IF Is(v, "integer") THEN 2 * v.integer ELSE v.real
      [] kind = "int64" -> Whole(v)
      [] OTHER -> Wrapped(Whole(v))

Put(kind, x) ==
    CASE kind = "bool" -> Bool(x)
      [] kind = "string" -> Text(x)
      [] kind = "double" -> Real(x)
      [] OTHER -> Integer(x)

\* the values of a field of a kind
Fits(kind, x) ==
    CASE kind \in {"int", "enum"} -> x \in (-IntMax - 1)..IntMax
      [] kind \in {"int64", "double"} -> x \in Int
      [] kind = "bool" -> x \in BOOLEAN
      [] OTHER -> TRUE

Zero(kind) ==
    CASE kind = "bool" -> FALSE [] kind = "string" -> "" [] OTHER -> 0

-----------------------------------------------------------------------------
(* Structs without structs in them: at() throws on a missing key            *)

FromJsonThrows(fields, v) ==
    \E k \in DOMAIN fields : ~Has(v, k) \/ DOMAIN v.object[k] \cap Takes[fields[k]] = {}

FromJson(fields, v) == [k \in DOMAIN fields |-> Got(fields[k], v.object[k])]
ToJson(fields, s) == [k \in DOMAIN fields |-> Put(fields[k], s[k])]
Empty(fields) == [k \in DOMAIN fields |-> Zero(fields[k])]

market_group == [ID |-> "int", Name |-> "string", IsSuperGroup |-> "bool"]
market ==
    [MarketID |-> "int", High |-> "double", IsInPortfolio |-> "bool", MarketName |-> "string"]
tick_fields ==
    [quote_id |-> "int", bid |-> "double", dir |-> "enum", tradable |-> "bool",
     hash |-> "string", timestamp |-> "int64"]
request_trade_simulate ==
    [marketID |-> "int", price |-> "double", tradeMode |-> "bool", limitOrderPrice |-> "string"]
market_details ==
    [MarketID |-> "int", High |-> "double", IsInPortfolio |-> "bool", MarketName |-> "string"]
client_web_option_info ==
    [CFDDefaultStake |-> "double", IsDealAlwayHedge |-> "bool", StopTypeID |-> "int"]
candle_fields == [open |-> "double"]  \* its timestamp is not converted
account_summary ==
    [AccountID |-> "string", PlatformID |-> "int", AccountValuation |-> "double"]
currency_record ==
    [AccountBalance |-> "double", Currency |-> "string", IsTotal |-> "bool", Status |-> "int"]
position_record ==
    [BetPer |-> "double", CreationTime |-> "string", IsRollingMarket |-> "bool",
     MarketID |-> "int", OrderID |-> "int64"]
trade_details ==
    [PositionID |-> "int64", MarketID |-> "int", OpeningPrice |-> "double", Direction |-> "string"]

-----------------------------------------------------------------------------
(* account_details: four parts, of which two keep their records             *)

own_fields == [CalculatedUTCTicks |-> "int64", ClientId |-> "int", TradingAccountType |-> "string"]

Parts ==
    [Alerts |-> [TotalRecords |-> "int"],
     Currencies |-> [Status |-> "int", TotalRecords |-> "int"],
     OpeningOrders |-> [Status |-> "int", TotalRecords |-> "int"],
     Positions |-> [Status |-> "int", TotalRecords |-> "int"]]

Records == [Currencies |-> currency_record, Positions |-> position_record]

PartThrows(p, v) ==
    \/ FromJsonThrows(Parts[p], v)
    \/ /\ p \in DOMAIN Records
       /\ \/ ~Has(v, "Records") \/ ~Is(v.object.Records, "array")
          \/ \E i \in DOMAIN v.object.Records.array :
               FromJsonThrows(Records[p], v.object.Records.array[i])

PartFrom(p, v) ==
    [is |-> FromJson(Parts[p], v),
     records |->
       IF p \in DOMAIN Records
       THEN [i \in DOMAIN v.object.Records.array |-> FromJson(Records[p], v.object.Records.array[i])]
       ELSE <<>>]

\* mistake: as for the opening orders, the records are left to do
PartTo_NoRecords(p, x) == Object(ToJson(Parts[p], x.is))

PartTo(p, x) ==
    LET is == ToJson(Parts[p], x.is)
        records == [i \in DOMAIN x.records |-> Object(ToJson(Records[p], x.records[i]))]
    IN Object(IF p \in DOMAIN Records THEN Joined(is, [Records |-> Array(records)]) ELSE is)

NoPart(p) == [is |-> Empty(Parts[p]), records |-> <<>>]

\* A part may be absent.
DetailsThrow(v) ==
    \/ FromJsonThrows(own_fields, v)
    \/ \E p \in DOMAIN Parts : Has(v, p) /\ PartThrows(p, v.object[p])

account_details(v) ==
    [own |-> FromJson(own_fields, v),
     parts |-> [p \in DOMAIN Parts |-> IF Has(v, p) THEN PartFrom(p, v.object[p]) ELSE NoPart(p)]]

DetailsTo(d) ==
    Object(Joined(ToJson(own_fields, d.own), [p \in DOMAIN Parts |-> PartTo(p, d.parts[p])]))

-----------------------------------------------------------------------------
(* The bodies of messages and answers                                       *)

Flat ==
    [market_group |-> market_group, market |-> market, tick |-> tick_fields,
     request_trade_simulate |-> request_trade_simulate, candle |-> candle_fields,
     market_details |-> market_details, client_web_option_info |-> client_web_option_info,
     account_summary |-> account_summary, trade_details |-> trade_details]

\* process_account_summary looks at the platform first; of platform 0 it
\* returns an empty event whatever else the message has.
BasicPlatform(v) == ~FromJsonThrows([PlatformID |-> "int"], v) /\ Got("int", v.object.PlatformID) = 0

Throws(type, v) ==
    CASE type = "account_details" -> DetailsThrow(v)
      [] type = "account_summary" -> ~BasicPlatform(v) /\ FromJsonThrows(account_summary, v)
      [] OTHER -> FromJsonThrows(Flat[type], v)

Read(type, v) ==
    CASE type = "account_details" -> account_details(v)
      [] type = "account_summary" /\ BasicPlatform(v) -> Empty(account_summary)
      [] OTHER -> FromJson(Flat[type], v)

\* three have no to_json
Dumped == (DOMAIN Flat \cup {"account_details"})
            \ {"market_details", "client_web_option_info", "trade_details"}

Dump(type, x) ==
    IF type = "account_details" THEN DetailsTo(x) ELSE Object(ToJson(Flat[type], x))

-----------------------------------------------------------------------------
(* The server (external): structs with the values x of each kind, and how   *)
(* it writes them; an integer where a double has no fraction                *)

Filled(fields, x) == [k \in DOMAIN fields |-> x[fields[k]]]

\* the details with the given parts, with n records in those that have any
FilledDetails(x, given, n) ==
    [own |-> Filled(own_fields, x),
     parts |->
       [p \in DOMAIN Parts |->
          IF p \notin given THEN NoPart(p)
          ELSE [is |-> Filled(Parts[p], x),
                records |-> IF p \in DOMAIN Records
                            THEN [i \in 1..n |-> Filled(Records[p], x)] ELSE <<>>]]]

Said(fields, s) ==
    [k \in DOMAIN fields |->
       IF fields[k] = "double" /\ s[k] % 2 = 0 THEN Integer(s[k] \div 2) ELSE Put(fields[k], s[k])]

SaidPart(p, x) ==
    LET records == [i \in DOMAIN x.records |-> Object(Said(Records[p], x.records[i]))]
    IN Joined(Said(Parts[p], x.is), [Records |-> Array(records)])

SaidDetails(d, given) ==
    Joined(Said(own_fields, d.own), [p \in given |-> Object(SaidPart(p, d.parts[p]))])

\* What can be wrong with an object: a key is missing, or has another value.
Spoilt(o, keys) ==
    {Object([k \in DOMAIN o \ {gone} |-> o[k]]) : gone \in keys}
      \cup {Object([o EXCEPT ![k] = Null]) : k \in keys}
      \cup {Object([o EXCEPT ![k] = Array(<<>>)]) : k \in keys \ {"Records"}}

PartKeys(p) == DOMAIN Parts[p] \cup (IF p \in DOMAIN Records THEN {"Records"} ELSE {})

\* a part, or its first record
SpoiltPart(p, x) ==
    LET o == SaidPart(p, x)
        records == IF p \in DOMAIN Records /\ x.records # <<>>
                   THEN Spoilt(Said(Records[p], x.records[1]), DOMAIN Records[p]) ELSE {}
    IN Spoilt(o, PartKeys(p)) \cup {Object([o EXCEPT !.Records = Array(<<b>>)]) : b \in records}

SpoiltDetails(d, given) ==
    LET o == SaidDetails(d, given)
    IN Spoilt(o, DOMAIN own_fields)
         \cup UNION {{Object([o EXCEPT ![p] = b]) : b \in SpoiltPart(p, d.parts[p])} : p \in given}

=============================================================================
