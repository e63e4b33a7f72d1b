----------------------------- MODULE LoginProofs ----------------------------
(***************************************************************************)
(* Theorems about Login, for all users, accounts, lifetimes and bounds.    *)
(***************************************************************************)
EXTENDS Login, TLAPS

USE DEF vars, authentication, rest, platform

\* Reading the expiry as an int makes it earlier, if anything.
LEMMA ReadExpiryIsEarlier == \A e \in Nat : ReadExpiry(e) \in Int /\ ReadExpiry(e) <= e
<1> TAKE e \in Nat
<1>1. e % Ints \in Nat /\ e % Ints <= e
  BY NumbersAssumption
<1>2. (e % Ints) - Ints \in Int /\ (e % Ints) - Ints <= e % Ints
  BY <1>1, NumbersAssumption
<1> QED BY <1>1, <1>2, NumbersAssumption DEF ReadExpiry

\* What each phase of a call has behind it: whose token there is and that it
\* is good, whose page is opened, which session's cookies the jar holds; and
\* what a call that returned leaves.
Phases ==
    /\ pc \in {"login", "saving", "select", "platform"} =>
         account \in Accounts /\ Len(sessions) < MaxLogins
    /\ pc \in {"saving", "select", "platform"} => token.expires >= began
    /\ pc = "saving" => token \in Token
    /\ pc = "platform" => selected = account
    /\ pc = "opening" => depth <= MAX_DEPTH
    /\ pc \in {"opening", "websocket"} =>
         /\ session \in 1..Len(sessions) /\ sessions[session] = account
         /\ \A n \in CookieNames : jar[n] \in {0, session}
    /\ pc = "websocket" => target \in CookieNames /\ opened /\ account_id_ = account
    /\ (pc = "idle" /\ result = "ok") =>
         /\ session \in 1..Len(sessions) /\ sessions[session] = account
         /\ opened /\ ws = session /\ account_id_ = account

\* rest_api::connect starts the page of the account that was asked for, in a
\* new session and with an empty jar.
LEMMA OpenClientStarts ==
    ASSUME TypeOK, NEW a \in Accounts \cup {NoAccount}, account' = a, OpenClient(a),
           Len(sessions) < MaxLogins
    PROVE  /\ pc' = "opening" /\ selected' \in Accounts \cup {NoAccount}
           /\ depth' = 0 /\ target' \in CookieNames \cup {NoParameter}
           /\ jar' \in [CookieNames -> 0..MaxLogins]
           /\ sessions' \in Seq(Accounts \cup {NoAccount}) /\ Len(sessions') <= MaxLogins
           /\ Len(sessions') = Len(sessions) + 1
           /\ session' \in 1..Len(sessions') /\ sessions'[session'] = account'
           /\ opened' \in BOOLEAN
           /\ \A n \in CookieNames : jar'[n] \in {0, session'}
<1>1. opened' \in BOOLEAN
  BY Zenon DEF OpenClient
<1> QED BY <1>1, NumbersAssumption, BoundsAssumption DEF OpenClient, TypeOK, NewJar, EmptyJar

\* A response sets cookies of the session it belongs to.
LEMMA UpdateKeeps ==
    ASSUME TypeOK, Phases, pc = "opening", Update
    PROVE  /\ jar' \in [CookieNames -> 0..MaxLogins]
           /\ \A n \in CookieNames : jar'[n] \in {0, session}
BY BoundsAssumption DEF Update, TypeOK, Phases

\* TypeOK and Phases together are inductive.
THEOREM LoginInvariant == Spec => [](TypeOK /\ Phases)
<1>1. Init => TypeOK /\ Phases
  <2> SUFFICES ASSUME Init PROVE TypeOK /\ Phases
    OBVIOUS
  <2>1. opened \in BOOLEAN
    BY Zenon DEF Init
  <2>2. TypeOK
    BY <2>1, NumbersAssumption, BoundsAssumption DEF Init, TypeOK, EmptyJar
  <2>3. Phases
    BY DEF Init, Phases
  <2> QED BY <2>2, <2>3
<1>2. TypeOK /\ Phases /\ [Next]_vars => (TypeOK /\ Phases)'
  <2> SUFFICES ASSUME TypeOK, Phases, [Next]_vars PROVE TypeOK' /\ Phases'
    OBVIOUS
  <2>1. CASE ConnectDemo
    <3>1. NoAccount \in Accounts \cup {NoAccount} /\ OpenClient(NoAccount)
      BY <2>1 DEF ConnectDemo
    <3>2. account' = NoAccount /\ Len(sessions) < MaxLogins
      BY <2>1 DEF ConnectDemo
    <3>3. TypeOK'
      BY <2>1, <3>1, <3>2, OpenClientStarts, NumbersAssumption, BoundsAssumption DEF ConnectDemo, TypeOK
    <3>4. Phases'
      BY <2>1, <3>1, <3>2, OpenClientStarts, NumbersAssumption DEF ConnectDemo, Phases
    <3> QED BY <3>3, <3>4
  <2>2. ASSUME NEW a \in Accounts, Connect(a) PROVE TypeOK' /\ Phases'
    <3>1. CASE file = Truncated /\ Throws /\ UNCHANGED token
      BY <2>2, <3>1 DEF Connect, Throws, TypeOK, Phases
    <3>2. CASE pc' = "login" /\ UNCHANGED <<token, result>>
      BY <2>2, <3>2 DEF Connect, TypeOK, Phases
    <3>3. CASE file # Truncated /\ ~Expired(file) /\ token' = file /\ pc' = "select" /\ UNCHANGED result
      <4>1. file \in Token \cup {NoToken} /\ file.expires \in Nat
        BY <3>3 DEF TypeOK, Absent, Token, NoToken
      <4>2. now <= ReadExpiry(file.expires) /\ ReadExpiry(file.expires) <= file.expires
        BY <3>3, <4>1, ReadExpiryIsEarlier DEF Expired, TypeOK
      <4>3. token'.expires >= began'
        BY <2>2, <3>3, <4>1, <4>2, ReadExpiryIsEarlier DEF Connect, TypeOK
      <4> QED BY <2>2, <3>3, <4>1, <4>3 DEF Connect, TypeOK, Phases
    <3> QED BY <2>2, <3>1, <3>2, <3>3 DEF Connect
  <2>3. CASE LoginAnswered
    <3>1. PICK life \in Lifetimes : token' = [of |-> Owner[account], expires |-> now + life]
      BY <2>3 DEF LoginAnswered
    <3>2. token' \in Token /\ token'.expires >= began
      BY <2>3, <3>1, UsersAssumption, NumbersAssumption DEF LoginAnswered, TypeOK, Phases, Token
    <3> QED BY <2>3, <3>2 DEF LoginAnswered, TypeOK, Phases
  <2>4. CASE Save
    <3>1. file' \in {file, token, Truncated}
      BY <2>4 DEF Save
    <3> QED BY <2>4, <3>1 DEF Save, TypeOK, Phases
  <2>5. CASE SelectAccount
    <3>1. selected' = account /\ account \in Accounts
      BY <2>5 DEF SelectAccount, select_account, Phases
    <3> QED BY <2>5, <3>1 DEF SelectAccount, TypeOK, Phases
  <2>6. CASE FetchPlatformUrl
    <3>1. selected \in Accounts \cup {NoAccount} /\ OpenClient(selected) /\ account' = selected
          /\ Len(sessions) < MaxLogins
      BY <2>6 DEF FetchPlatformUrl, TypeOK, Phases
    <3>2. TypeOK'
      <4>1. /\ depth' = 0 /\ pc' = "opening"
            /\ session' \in 1..Len(sessions') /\ Len(sessions') = Len(sessions) + 1
        BY <3>1, OpenClientStarts, Zenon
      <4>2. ws \in 0..Len(sessions) /\ Len(sessions) \in Nat
        BY DEF TypeOK
      <4>3. 0 \in 0..(MAX_DEPTH + 1) /\ {session', ws} \subseteq 0..Len(sessions')
        BY <4>1, <4>2, NumbersAssumption
      <4>4. /\ target' \in CookieNames \cup {NoParameter} /\ jar' \in [CookieNames -> 0..MaxLogins]
            /\ sessions' \in Seq(Accounts \cup {NoAccount}) /\ Len(sessions') <= MaxLogins
            /\ opened' \in BOOLEAN /\ selected' = selected
        BY <3>1, OpenClientStarts, Zenon DEF OpenClient
      <4> QED BY <2>6, <4>1, <4>3, <4>4 DEF FetchPlatformUrl, TypeOK
    <3>3. Phases'
      BY <2>6, <3>1, OpenClientStarts, NumbersAssumption DEF FetchPlatformUrl, Phases
    <3> QED BY <3>2, <3>3
  <2>7. CASE Redirected
    <3>1. jar' \in [CookieNames -> 0..MaxLogins] /\ \A n \in CookieNames : jar'[n] \in {0, session}
      BY <2>7, UpdateKeeps DEF Redirected
    <3>2. /\ depth' \in 0..(MAX_DEPTH + 1) /\ pc' \in {"idle", "opening"}
          /\ pc' = "opening" => depth' <= MAX_DEPTH
      <4>1. depth \in Nat /\ depth <= MAX_DEPTH /\ depth' = depth + 1 /\ MAX_DEPTH \in Nat
        BY <2>7, NumbersAssumption DEF Redirected, TypeOK, Phases, Deeper
      <4>2. CASE depth' > MAX_DEPTH
        BY <2>7, <4>1, <4>2 DEF Redirected, Throws, TooDeep
      <4>3. CASE ~(depth' > MAX_DEPTH)
        BY <2>7, <4>1, <4>3 DEF Redirected, TooDeep
      <4> QED BY <4>2, <4>3
    <3>3. TypeOK'
      BY <2>7, <3>1, <3>2 DEF Redirected, TypeOK, Throws
    <3>4. Phases'
      BY <2>7, <3>1, <3>2 DEF Redirected, Phases, Throws
    <3> QED BY <3>3, <3>4
  <2>8. CASE PageArrives
    <3>1. jar' \in [CookieNames -> 0..MaxLogins] /\ \A n \in CookieNames : jar'[n] \in {0, session}
      BY <2>8, UpdateKeeps DEF PageArrives
    <3>2. opened' /\ opened' \in BOOLEAN
      BY <2>8, Zenon DEF PageArrives
    <3>3. sessions[session] = account
      BY <2>8 DEF PageArrives, Phases
    <3>4. TypeOK'
      BY <2>8, <3>1, <3>2, <3>3 DEF PageArrives, TypeOK, Throws
    <3>5. Phases'
      BY <2>8, <3>1, <3>2, <3>3 DEF PageArrives, Phases, Throws
    <3> QED BY <3>4, <3>5
  <2>9. CASE WebsocketConnects
    <3>1. ws' = session
      BY <2>9 DEF WebsocketConnects, Phases
    <3> QED BY <2>9, <3>1 DEF WebsocketConnects, TypeOK, Phases
  <2>10. CASE RequestFails
    <3>1. jar' \in [CookieNames -> 0..MaxLogins]
      BY <2>10, UpdateKeeps DEF RequestFails, TypeOK
    <3>2. TypeOK'
      BY <2>10, <3>1 DEF RequestFails, Throws, TypeOK
    <3>3. Phases'
      BY <2>10 DEF RequestFails, Throws, TypeOK, Phases
    <3> QED BY <3>2, <3>3
  <2>11. CASE Dies
    <3>1. opened' \in BOOLEAN
      BY <2>11, Zenon DEF Dies
    <3> QED BY <2>11, <3>1, NumbersAssumption, BoundsAssumption DEF Dies, TypeOK, Phases, EmptyJar
  <2>12. CASE Tick
    BY <2>12, BoundsAssumption DEF Tick, TypeOK, Phases
  <2>13. CASE UNCHANGED vars
    BY <2>13 DEF TypeOK, Phases
  <2> QED BY <2>1, <2>2, <2>3, <2>4, <2>5, <2>6, <2>7, <2>8, <2>9, <2>10, <2>11, <2>12, <2>13
          DEF Next, Answers
<1> QED BY <1>1, <1>2, PTL DEF Spec

\* The type invariant.
THEOREM LoginTypeCorrect == Spec => []TypeOK
BY LoginInvariant, PTL

\* connect() brings the three parts together.
THEOREM LoginTogether == Spec => []ConnectedTogether
<1>1. TypeOK /\ Phases => ConnectedTogether
  BY DEF Phases, ConnectedTogether
<1> QED BY <1>1, LoginInvariant, PTL

\* The account that is connected is the one asked for.
THEOREM LoginAsAsked == Spec => []ConnectedAsAsked
<1>1. TypeOK /\ Phases => ConnectedAsAsked
  BY DEF Phases, ConnectedAsAsked
<1> QED BY <1>1, LoginInvariant, PTL

\* An expired token is not used, whatever the width of the int.
THEOREM LoginLiveToken == Spec => []LiveTokenUsed
<1>1. TypeOK /\ Phases => LiveTokenUsed
  BY DEF Phases, LiveTokenUsed
<1> QED BY <1>1, LoginInvariant, PTL

\* The session that is being connected is the last one the platform opened.
Latest == pc \in {"opening", "websocket"} => session = Len(sessions)

LEMMA LatestInvariant == Spec => []Latest
<1>1. Init => Latest
  BY DEF Init, Latest
<1>2. (TypeOK /\ Phases) /\ Latest /\ [Next]_vars => Latest'
  <2> SUFFICES ASSUME TypeOK, Phases, Latest, [Next]_vars PROVE Latest'
    OBVIOUS
  <2>1. ASSUME NEW a, OpenClient(a) PROVE Latest'
    BY <2>1 DEF OpenClient, Latest, TypeOK
  <2>2. CASE ConnectDemo \/ FetchPlatformUrl
    BY <2>1, <2>2 DEF ConnectDemo, FetchPlatformUrl
  <2>3. ASSUME NEW a \in Accounts, Connect(a) PROVE Latest'
    BY <2>3 DEF Connect, Throws, Latest
  <2>4. CASE LoginAnswered \/ Save \/ SelectAccount
    BY <2>4 DEF LoginAnswered, Save, SelectAccount, Latest
  <2>5. CASE Redirected \/ PageArrives
    BY <2>5 DEF Redirected, PageArrives, Throws, Latest
  <2>6. CASE WebsocketConnects \/ RequestFails \/ Dies
    BY <2>6 DEF WebsocketConnects, RequestFails, Throws, Dies, Latest
  <2>7. CASE Tick \/ UNCHANGED vars
    BY <2>7 DEF Tick, Latest
  <2> QED BY <2>2, <2>3, <2>4, <2>5, <2>6, <2>7 DEF Next, Answers
<1> QED BY <1>1, <1>2, LoginInvariant, PTL DEF Spec

-----------------------------------------------------------------------------
(* connect implements Session                                               *)

\* The same for the prover: a set of phases as a Boolean.
LEMMA ElsewhereIsFalse ==
    ASSUME NEW c, NEW S, c \notin S PROVE (c \in S) = FALSE
OBVIOUS

\* A call that throws, or dies with the process, fails.
LEMMA ThrownFails ==
    ASSUME pc' = "idle", result' # "ok", UNCHANGED sessions
    PROVE  Abstract!Fail
<1>1. ~Returned'
  BY DEF Returned
<1>2. (pc' \in {"opening", "websocket"}) = FALSE
  BY ElsewhereIsFalse
<1> QED BY <1>1, <1>2 DEF Abstract!Fail

\* A step within a call that opens no session is none of Session.
LEMMA WithinStutters ==
    ASSUME pc # "idle", pc' # "idle", UNCHANGED <<account, sessions>>,
           pc \in {"opening", "websocket"} <=> pc' \in {"opening", "websocket"}
    PROVE  UNCHANGED Abstract!vars
<1>1. (pc' \in {"opening", "websocket"}) = (pc \in {"opening", "websocket"})
  BY SMT
<1>2. ~Returned /\ ~Returned'
  BY DEF Returned
<1> QED BY <1>1, <1>2 DEF Abstract!vars

\* Every step of connect is one of Session or none: the refinement, without
\* the promise that a call ends.
THEOREM LoginImplementsSession == Spec => Abstract!Spec
<1>1. Init => Abstract!Init
  <2> SUFFICES ASSUME Init PROVE Abstract!Init
    OBVIOUS
  <2>1. (pc \in {"opening", "websocket"}) = FALSE
    BY ElsewhereIsFalse DEF Init
  <2> QED BY <2>1 DEF Init, Returned, Abstract!Init
<1>2. TypeOK /\ Phases /\ Latest /\ [Next]_vars => [Abstract!Next]_(Abstract!vars)
  <2> SUFFICES ASSUME TypeOK, Phases, Latest, [Next]_vars
               PROVE  Abstract!Next \/ UNCHANGED Abstract!vars
    OBVIOUS
  <2> USE DEF Abstract!Next
  <2>1. CASE ConnectDemo
    <3>1. ~Returned' /\ pc' = "opening" /\ sessions' = Append(sessions, NoAccount)
      BY <2>1 DEF ConnectDemo, OpenClient, Returned
    <3>2. (pc' \in {"opening", "websocket"}) = TRUE
      BY <3>1, Zenon
    <3>3. Abstract!Call(NoAccount)
      BY <2>1, <3>1, <3>2 DEF ConnectDemo, Abstract!Call, Abstract!Granted
    <3> QED BY <3>3
  <2>2. ASSUME NEW a \in Accounts, Connect(a) PROVE Abstract!Next
    <3>1. CASE pc' = "idle"
      BY <2>2, <3>1, ThrownFails DEF Connect, Throws
    <3>2. CASE pc' # "idle"
      <4>1. (pc' \in {"opening", "websocket"}) = FALSE
        BY <2>2, <3>2, ElsewhereIsFalse DEF Connect, Throws
      <4>2. ~Returned' /\ pc = "idle" /\ account' = a /\ sessions' = sessions
        BY <2>2, <3>2 DEF Connect, Returned
      <4>3. Abstract!Call(a)
        BY <3>2, <4>1, <4>2 DEF Abstract!Call
      <4> QED BY <4>3
    <3> QED BY <3>1, <3>2
  <2>3. CASE LoginAnswered \/ Save \/ SelectAccount
    BY <2>3, WithinStutters DEF LoginAnswered, Save, SelectAccount
  <2>4. CASE FetchPlatformUrl
    <3>1. /\ pc = "platform" /\ pc' = "opening" /\ account' = account
          /\ sessions' = Append(sessions, account)
      BY <2>4 DEF FetchPlatformUrl, OpenClient, Phases
    <3>2. (pc' \in {"opening", "websocket"}) = TRUE /\ pc \notin {"opening", "websocket"}
      BY <3>1, Zenon
    <3>3. ~Returned /\ ~Returned'
      BY <3>1 DEF Returned
    <3> QED BY <3>1, <3>2, <3>3 DEF Abstract!Grant, Abstract!Granted
  <2>5. CASE Redirected \/ PageArrives
    <3>1. CASE pc' = "idle"
      BY <2>5, <3>1, ThrownFails DEF Redirected, PageArrives, Throws
    <3>2. CASE pc' # "idle"
      BY <2>5, <3>2, WithinStutters DEF Redirected, PageArrives, Throws
    <3> QED BY <3>1, <3>2
  <2>6. CASE WebsocketConnects
    <3>1. /\ pc = "websocket" /\ pc' = "idle" /\ result' = "ok"
          /\ ws' = session /\ account_id_ = sessions[session] /\ session = Len(sessions)
          /\ opened /\ UNCHANGED <<session, sessions, opened, account_id_>>
      BY <2>6 DEF WebsocketConnects, Phases, Latest
    <3>2. (pc' \in {"opening", "websocket"}) = FALSE /\ pc \in {"opening", "websocket"}
      BY <3>1, ElsewhereIsFalse
    <3>3. Returned'
      BY <3>1 DEF Returned
    <3> QED BY <3>1, <3>2, <3>3 DEF Abstract!Return, Abstract!Parts
  <2>7. CASE RequestFails \/ Dies
    BY <2>7, ThrownFails DEF RequestFails, Throws, Dies
  <2>8. CASE Tick \/ UNCHANGED vars
    BY <2>8 DEF Tick, Returned, Abstract!vars
  <2> QED BY <2>1, <2>2, <2>3, <2>4, <2>5, <2>6, <2>7, <2>8 DEF Next, Answers
<1> QED BY <1>1, <1>2, LoginInvariant, LatestInvariant, PTL DEF Spec, Abstract!Spec

=============================================================================
