------------------------------ MODULE CookieJar ------------------------------
(***************************************************************************)
(* cookiejar (src/cookiejar.cpp) as http_client::send uses it: apply       *)
(* before a request is written, update when its response is read, and time *)
(* passing in between.  The jar is compared with what the server said of   *)
(* its cookies: a response is a sequence of Set-Cookie headers, each with  *)
(* at most one lifetime, and text of names and values is left out.         *)
(*                                                                         *)
(* A default-constructed expiry_time marks a session cookie: the epoch of  *)
(* the system clock, time 0 here.                                          *)
(***************************************************************************)
EXTENDS Naturals, Sequences, SequencesExt

CONSTANTS
    Names, Values,  \* cookie names and values
    Expiries,       \* the times the server's Expires attributes name
    MaxAges,        \* the seconds of its Max-Age attributes
    MaxHeaders,     \* bound: Set-Cookie headers in a response
    Now0, MaxTime   \* bound: the clock runs from Now0 to MaxTime

ASSUME TimesAssumption ==
    /\ Now0 \in Nat \ {0} /\ MaxTime \in Nat
    /\ Expiries \subseteq Nat /\ MaxAges \subseteq Nat
ASSUME HeadersAssumption == MaxHeaders \in Nat

VARIABLES
    cookies_,  \* name -> cookie
    now,       \* the system clock
    pc,        \* "waiting": between the request and its response
    sent,      \* the cookies of the last request's Cookie header
    said       \* name -> what the server last said of that cookie

vars == <<cookies_, now, pc, sent, said>>

\* The lifetime a Set-Cookie header gives: none, one of the two attributes,
\* or one that does not parse, which is skipped.
Lifetimes ==
    [kind : {"none", "malformed"}, n : {0}]
      \cup [kind : {"max-age"}, n : MaxAges] \cup [kind : {"expires"}, n : Expiries]
SetCookie == [name : Names, value : Values, life : Lifetimes]

\* what the server means: the time from which the cookie is gone
Forever == [ends |-> FALSE, at |-> 0]
Until(life) ==
    CASE life.kind = "max-age" -> [ends |-> TRUE, at |-> now + life.n]
      [] life.kind = "expires" -> [ends |-> TRUE, at |-> life.n]
      [] OTHER -> Forever

Session == 0
Cookie == [value : Values, expiry_time : Nat]
Meaning == [value : Values, until : [ends : BOOLEAN, at : Nat]]
Maps(S) == UNION {[N -> S] : N \in SUBSET Names}

TypeOK ==
    /\ DOMAIN cookies_ \subseteq Names
    /\ \A n \in DOMAIN cookies_ : cookies_[n] \in Cookie
    /\ now \in Nat
    /\ pc \in {"idle", "waiting"}
    /\ sent \subseteq Names \X Values
    /\ DOMAIN said \subseteq Names
    /\ \A n \in DOMAIN said : said[n] \in Meaning

-----------------------------------------------------------------------------
\* cookiejar::cookiejar: the lines of the file, with a time or without, that
\* is, session cookies. Nothing in src/ writes that file.
Load ==
    \E file \in Maps([value : Values, life : [kind : {"none"}, n : {0}]
                                               \cup [kind : {"expires"}, n : Expiries \ {0}]]) :
      /\ cookies_ = [n \in DOMAIN file |->
                       [value |-> file[n].value, expiry_time |-> file[n].life.n]]
      /\ said = [n \in DOMAIN file |->
                   [value |-> file[n].value, until |-> Until(file[n].life)]]

Init ==
    /\ now = Now0
    /\ Load
    /\ pc = "idle"
    /\ sent = {}

\* mistakes: an attribute that does not parse expires the cookie; Max-Age is
\* counted back
ExpiryTime_Ago(life) ==
    CASE life.kind = "max-age" -> now - life.n
      [] life.kind = "expires" -> life.n
      [] OTHER -> Session

ExpiryTime_Malformed(life) ==
    CASE life.kind = "max-age" -> now + life.n
      [] life.kind = "expires" -> life.n
      [] life.kind = "malformed" -> now
      [] OTHER -> Session

ExpiryTime(life) ==
    CASE life.kind = "max-age" -> now + life.n
      [] life.kind = "expires" -> life.n
      [] OTHER -> Session

\* what one Set-Cookie header makes of its cookie, in the jar and in truth
Stored(c) ==
    [name |-> c.name, cookie |-> [value |-> c.value, expiry_time |-> ExpiryTime(c.life)]]
Meant(c) ==
    [name |-> c.name, cookie |-> [value |-> c.value, until |-> Until(c.life)]]

\* It replaces the cookie of that name.
Store(jar, entry) ==
    [n \in DOMAIN jar \cup {entry.name} |-> IF n = entry.name THEN entry.cookie ELSE jar[n]]
StoreAll(jar, entries) == FoldLeft(Store, jar, entries)

\* cookiejar::update
update(headers) ==
    /\ pc = "waiting"
    /\ pc' = "idle"
    /\ cookies_' = StoreAll(cookies_, [i \in DOMAIN headers |-> Stored(headers[i])])
    /\ said' = StoreAll(said, [i \in DOMAIN headers |-> Meant(headers[i])])
    /\ UNCHANGED <<now, sent>>

\* http::write or http::read throws: the jar is not updated
ExchangeFails ==
    /\ pc = "waiting"
    /\ pc' = "idle"
    /\ UNCHANGED <<cookies_, now, sent, said>>

\* mistakes: a cookie is kept the second it expires; session cookies expire too
Expired_Late(c) == c.expiry_time # Session /\ now > c.expiry_time
Expired_Plain(c) == now >= c.expiry_time

Expired(c) == c.expiry_time # Session /\ now >= c.expiry_time

\* cookiejar::apply: the expired cookies are erased, the others are sent.
apply ==
    /\ pc = "idle"
    /\ pc' = "waiting"
    /\ LET kept == {n \in DOMAIN cookies_ : ~Expired(cookies_[n])} IN
         /\ cookies_' = [n \in kept |-> cookies_[n]]
         /\ sent' = {<<n, cookies_[n].value>> : n \in kept}
    /\ UNCHANGED <<now, said>>

Tick ==
    /\ now < MaxTime
    /\ now' = now + 1
    /\ UNCHANGED <<cookies_, pc, sent, said>>

Headers == UNION {[1..n -> SetCookie] : n \in 0..MaxHeaders}

Next ==
    \/ apply \/ ExchangeFails \/ Tick
    \/ \E headers \in Headers : update(headers)

Spec == Init /\ [][Next]_vars

-----------------------------------------------------------------------------
(* Properties                                                               *)

Gone(u) == u.ends /\ now >= u.at

\* the cookies that are good now, by what the server said
Valid == {<<n, said[n].value>> : n \in {m \in DOMAIN said : ~Gone(said[m].until)}}

NothingElseSent == (pc = "idle" /\ pc' = "waiting") => sent' \subseteq Valid
NothingLeftOut == (pc = "idle" /\ pc' = "waiting") => Valid \subseteq sent'

\* A request carries no cookie that has expired, or whose value the server
\* has replaced since ("Remove expired cookies", cookiejar.cpp:155).
OnlyValidCookiesSent == [][NothingElseSent]_vars

\* A request carries every cookie the server set and that has not expired,
\* however responses, failures and the clock interleave: the session token
\* among them is never dropped ("Combine valid cookies into a single
\* "Cookie" header", cookiejar.cpp:164).
ValidCookiesSent == [][NothingLeftOut]_vars

=============================================================================
