------------------------------- MODULE Login --------------------------------
(***************************************************************************)
(* td365::connect (src/td365.cpp): a token from auth_token.json or from a  *)
(* login, the account's platform page (src/authenticator.cpp), the         *)
(* redirects that lead to it and the session they open                     *)
(* (src/rest_api.cpp), and the websocket session with its token.  Each     *)
(* request is a step, may fail, and the process may die in front of any;   *)
(* what is left of a call that threw is there when the next one comes.     *)
(*                                                                         *)
(* The servers are external: the login server, the portal, which knows     *)
(* whose an account is, and the platform, which opens a session for a      *)
(* login, names the cookie that has its token in the page's path (ots) and *)
(* sets that cookie in any response, or never.  There is no .cookies file. *)
(***************************************************************************)
EXTENDS Integers, Sequences

CONSTANTS
    Users, Accounts,
    Owner,      \* whose an account is
    CookieNames,
    MAX_DEPTH,
    Lifetimes,  \* expires_in of a token
    Ints,       \* how many ints there are (the expiry is read as one)
    MaxLogins,  \* bound: sessions the platform opens
    Horizon     \* bound: time

ASSUME UsersAssumption == Owner \in [Accounts -> Users]
ASSUME NumbersAssumption == Ints \in Nat \ {0} /\ MAX_DEPTH \in Nat /\ Lifetimes \subseteq Nat
ASSUME BoundsAssumption == MaxLogins \in Nat /\ Horizon \in Nat \ {0}

VARIABLES
    file,         \* auth_token.json
    now,          \* seconds
    pc,           \* the answer the thread waits for
    account,      \* the argument of connect, NoAccount for the demo
    began,        \* when the call began
    token,        \* the auth_token, with the expiry the login server meant
    selected,     \* the account whose page is opened
    depth,        \* open_client: redirects followed
    target,       \* the path it is at: the ots parameter, if there is one
    jar,          \* the cookies of client_
    account_id_,  \* rest_api
    ws,           \* the session of the websocket
    result,       \* of the last call
    session,      \* the platform's session that client_ is getting or has
    opened,       \* whether the platform has opened it
    sessions      \* whose the sessions are that there have been

authentication == <<file, account, began, token, selected>>
rest == <<depth, target, jar, account_id_>>
platform == <<session, opened, sessions>>
vars == <<now, pc, result, ws, authentication, rest, platform>>

NoAccount == "demo"
NoParameter == "none"
Sessions == 1..MaxLogins

Token == [of : Users, expires : Nat]
NoToken == [of |-> "nobody", expires |-> 0]

\* What load makes of auth_token.json: without a file, an auth_token that
\* expired at the epoch; of a file cut off, an exception.
Absent == NoToken
Truncated == [of |-> "truncated", expires |-> 0]

EmptyJar == [n \in CookieNames |-> 0]

Init ==
    /\ file = Absent
    /\ now = 1 /\ began = 1
    /\ pc = "idle" /\ result = "none"
    /\ account = NoAccount /\ token = NoToken /\ selected = NoAccount
    /\ depth = 0 /\ target = NoParameter /\ jar = EmptyJar /\ account_id_ = NoAccount
    /\ ws = 0 /\ session = 0 /\ opened = FALSE /\ sessions = <<>>

Throws ==
    /\ pc' = "idle"
    /\ result' = "thrown"

-----------------------------------------------------------------------------
(* The token                                                                *)

\* expiry_time is read with an int for a default, so as an int
ReadExpiry(e) ==
    LET low == e % Ints
    IN IF low >= Ints \div 2 THEN low - Ints ELSE low

\* mistake: only a token that is not there is replaced
Expired_Absent(f) == f = Absent

Expired(f) == now > ReadExpiry(f.expires)

\* mistake: the client of the last call is kept
NewJar_Kept == jar

\* rest_api::connect makes a new client.
NewJar == EmptyJar

\* The first page is the platform's for the account, the demo's has no ots.
OpenClient(a) ==
    /\ pc' = "opening"
    /\ selected' = a
    /\ depth' = 0 /\ jar' = NewJar
    /\ target' \in {NoParameter} \cup IF a = NoAccount THEN {} ELSE CookieNames
    /\ session' = Len(sessions) + 1 /\ opened' = FALSE
    /\ sessions' = Append(sessions, a)

\* connect(username, password, account): of the user whose account it is.
Connect(a) ==
    /\ pc = "idle" /\ Len(sessions) < MaxLogins
    /\ account' = a /\ began' = now
    /\ \/ /\ file = Truncated
          /\ Throws
          /\ UNCHANGED token
       \/ /\ file # Truncated /\ Expired(file)
          /\ pc' = "login" /\ UNCHANGED <<token, result>>
       \/ /\ file # Truncated /\ ~Expired(file)
          /\ token' = file
          /\ pc' = "select" /\ UNCHANGED result
    /\ UNCHANGED <<now, file, selected, ws, rest, platform>>

\* connect(): the demo needs no token.
ConnectDemo ==
    /\ pc = "idle" /\ Len(sessions) < MaxLogins
    /\ account' = NoAccount /\ began' = now
    /\ OpenClient(NoAccount)
    /\ UNCHANGED <<now, result, ws, file, token, account_id_>>

\* login: the answer has a token; save truncates the file, if it can be opened
LoginAnswered ==
    /\ pc = "login"
    /\ \E life \in Lifetimes : token' = [of |-> Owner[account], expires |-> now + life]
    /\ file' \in {file, Truncated}
    /\ pc' = "saving"
    /\ UNCHANGED <<now, result, ws, account, began, selected, rest, platform>>

\* and writes what it has opened, or does not: nobody looks at the stream
Save ==
    /\ pc = "saving"
    /\ IF file = Truncated THEN file' \in {token, Truncated} ELSE UNCHANGED file
    /\ pc' = "select"
    /\ UNCHANGED <<now, result, ws, account, began, token, selected, rest, platform>>

-----------------------------------------------------------------------------
(* The portal                                                               *)

AccountsOf(u) == {a \in Accounts : Owner[a] = u}

\* mistake: any account of the answer will do
select_account_Any == AccountsOf(token.of)

\* the account of the answer that was asked for
select_account == {account} \cap AccountsOf(token.of)

SelectAccount ==
    /\ pc = "select"
    /\ \E a \in select_account : selected' = a
    /\ pc' = "platform"
    /\ UNCHANGED <<now, result, ws, file, account, began, token, rest, platform>>

\* mistake: who is in the account already stays in the session
FetchPlatformUrl_LoggedIn ==
    /\ pc = "platform"
    /\ IF opened /\ account_id_ = selected
         THEN pc' = "websocket" /\ UNCHANGED <<selected, depth, jar, target, platform>>
         ELSE OpenClient(selected)
    /\ UNCHANGED <<now, result, ws, file, account, began, token, account_id_>>

FetchPlatformUrl ==
    /\ pc = "platform"
    /\ OpenClient(selected)
    /\ UNCHANGED <<now, result, ws, file, account, began, token, account_id_>>

-----------------------------------------------------------------------------
(* The platform                                                             *)

\* cookiejar::update with the cookies of a response
Update == jar' \in {jar} \cup {[jar EXCEPT ![n] = session] : n \in CookieNames}

\* mistake: one more
TooDeep_Late(d) == d > MAX_DEPTH + 1

TooDeep(d) == d > MAX_DEPTH

\* mistake: not counted
Deeper_Not(d) == d

Deeper(d) == d + 1

\* open_client is redirected
Redirected ==
    /\ pc = "opening"
    /\ depth' = Deeper(depth)
    /\ target' \in CookieNames \cup {NoParameter}
    /\ Update
    /\ IF TooDeep(depth') THEN Throws ELSE UNCHANGED <<pc, result>>
    /\ UNCHANGED <<now, ws, authentication, account_id_, platform>>

\* open_client gets the page. Its path may have no ots parameter, the page no
\* login or account id.
PageArrives ==
    /\ pc = "opening"
    /\ opened' = TRUE
    /\ Update
    /\ \/ /\ target \in CookieNames
          /\ account_id_' = sessions[session]
          /\ pc' = "websocket" /\ UNCHANGED result
       \/ Throws /\ UNCHANGED account_id_
    /\ UNCHANGED <<now, ws, authentication, depth, target, session, sessions>>

\* ws_client::connect with the cookie the parameter names, empty if there is
\* none, which the server refuses. ws_ is a new one in any case.
WebsocketConnects ==
    /\ pc = "websocket"
    /\ jar[target] # 0
    /\ ws' = jar[target]
    /\ pc' = "idle" /\ result' = "ok"
    /\ UNCHANGED <<now, authentication, rest, platform>>

\* Any request fails: no connection, another status, a body that does not
\* parse, an account that is not there. A response has set its cookies by then.
RequestFails ==
    /\ pc \in {"login", "select", "platform", "opening", "websocket"}
    /\ Throws
    /\ ws' = IF pc = "websocket" THEN 0 ELSE ws
    /\ IF pc = "opening" THEN Update ELSE UNCHANGED jar
    /\ UNCHANGED <<now, authentication, depth, target, account_id_, platform>>

-----------------------------------------------------------------------------
\* The process dies, and another is started; the file is all that is left.
Dies ==
    /\ pc' = "idle" /\ result' = "none"
    /\ account' = NoAccount /\ token' = NoToken /\ selected' = NoAccount /\ began' = now
    /\ depth' = 0 /\ target' = NoParameter /\ jar' = EmptyJar /\ account_id_' = NoAccount
    /\ ws' = 0 /\ session' = 0 /\ opened' = FALSE
    /\ UNCHANGED <<now, file, sessions>>

Tick ==
    /\ now < Horizon
    /\ now' = now + 1
    /\ UNCHANGED <<pc, result, ws, authentication, rest, platform>>

Answers ==
    \/ LoginAnswered \/ SelectAccount \/ FetchPlatformUrl
    \/ Redirected \/ PageArrives \/ WebsocketConnects \/ RequestFails

Next ==
    \/ ConnectDemo \/ \E a \in Accounts : Connect(a)
    \/ Save \/ Answers
    \/ Dies \/ Tick

Spec == Init /\ [][Next]_vars

\* The thread runs, and requests are answered or fail.
FairSpec == Spec /\ WF_vars(Save) /\ WF_vars(Answers)

-----------------------------------------------------------------------------
(* Properties                                                               *)

TypeOK ==
    /\ file \in {Absent, Truncated} \cup Token
    /\ now \in 1..Horizon /\ began \in 1..now
    /\ pc \in {"idle", "login", "saving", "select", "platform", "opening", "websocket"}
    /\ result \in {"none", "ok", "thrown"}
    /\ {account, selected, account_id_} \subseteq Accounts \cup {NoAccount}
    /\ token \in Token \cup {NoToken}
    /\ depth \in 0..(MAX_DEPTH + 1)
    /\ target \in CookieNames \cup {NoParameter}
    /\ jar \in [CookieNames -> 0..MaxLogins]
    /\ sessions \in Seq(Accounts \cup {NoAccount}) /\ Len(sessions) <= MaxLogins
    /\ {session, ws} \subseteq 0..Len(sessions) /\ opened \in BOOLEAN

\* A connect that returned has brought the three parts together: the
\* websocket runs in the session that the REST client has, and the orders'
\* account id is that session's, whatever calls failed before and whatever
\* they left behind.
ConnectedTogether ==
    (pc = "idle" /\ result = "ok") =>
      /\ opened
      /\ ws = session
      /\ account_id_ = sessions[session]

\* The file does not know whose its token is, and the token of another user
\* may be used for a call; all the same the account that is connected is the
\* one that was asked for.
ConnectedAsAsked == (pc = "idle" /\ result = "ok") => account_id_ = account

\* A token that has expired when the call begins is not used, also where the
\* expiry does not fit the int it is read as.
LiveTokenUsed == pc \in {"select", "platform"} => token.expires >= began

\* Every call of connect returns or throws: the platform cannot redirect it
\* for ever.
ConnectEnds == pc # "idle" ~> pc = "idle"

Returned == pc = "idle" /\ result = "ok"

Abstract ==
    INSTANCE Session WITH
      Accounts <- Accounts \cup {NoAccount},
      asked <- IF pc = "idle" THEN {} ELSE {account},
      granted <- pc \in {"opening", "websocket"},
      connected <-
        IF Returned
        THEN {[rest |-> IF opened THEN session ELSE 0, websocket |-> ws, account |-> account_id_]}
        ELSE {}

\* connect with its token file, its portal, its redirects and its restarts is
\* the connect of Session: the three parts it returns with are of one session
\* of the account asked for, opened for this call and not for an earlier one.
ImplementsSession == Abstract!FairSpec

=============================================================================
