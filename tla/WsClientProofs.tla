--------------------------- MODULE WsClientProofs ---------------------------
(***************************************************************************)
(* Theorems about WsClient, for every set of quotes and every bound.       *)
(***************************************************************************)
EXTENDS WsClient, TLAPS

USE DEF vars

-----------------------------------------------------------------------------
(* Type correctness                                                         *)

\* Every way of making a message yields one of the messages of its direction.
LEMMA MessageTypes ==
    /\ \A a \in {"authentication", "options", "heartbeat"} : Plain(a) \in ClientMsg
    /\ \A a \in {"subscribe", "unsubscribe"}, q \in Quotes : ForQuote(a, q) \in ClientMsg
    /\ \A n \in Nat : Reconnect(n) \in ClientMsg
    /\ \A t \in PushedKinds \cup EndOfStream : Kind(t) \in ServerMsg
    /\ \A n \in Nat : ConnectResponse(n) \in ServerMsg
    /\ \A n \in Nat, b \in BOOLEAN : AuthenticationResponse(n, b) \in ServerMsg
BY DEF Plain, ForQuote, Reconnect, ClientMsg, Kind, ConnectResponse,
       AuthenticationResponse, ServerMsg

\* The three values the server's side is ever given are sessions.
LEMMA SessionTypes ==
    /\ NoSession \in Session
    /\ NewSession \in Session
    /\ \A b \in BOOLEAN : [NewSession EXCEPT !.authed = b] \in Session
BY DEF NoSession, NewSession, Session

\* What the client answers to an accepted authentication.
LEMMA ReplyType == TypeOK => AuthenticationReply \in Seq(ClientMsg)
<1> SUFFICES ASSUME TypeOK PROVE AuthenticationReply \in Seq(ClientMsg)
  OBVIOUS
<1>1. ReconnectRequest \in Seq(ClientMsg)
  BY MessageTypes DEF ReconnectRequest, TypeOK
<1>2. <<Plain("options")>> \in Seq(ClientMsg)
  BY MessageTypes
<1>3. Resubscription \in Seq(ClientMsg)
  <2>1. Resubscription \in [1..Len(subscribed_) -> ClientMsg]
    BY MessageTypes DEF Resubscription, TypeOK
  <2> QED BY <2>1 DEF TypeOK
<1> QED BY <1>1, <1>2, <1>3 DEF AuthenticationReply

\* Writing keeps the types of what it touches.
LEMMA TransmitType ==
    ASSUME TypeOK, NEW msgs \in Seq(ClientMsg), NEW k, Transmit(msgs, k)
    PROVE  /\ ws' \in StreamStates
           /\ srv' \in Session
           /\ c2s' \in Seq(ClientMsg)
<1>1. CASE k = Len(msgs)
  <2>1. c2s \o msgs \in Seq(ClientMsg)
    BY DEF TypeOK
  <2> QED BY <1>1, <2>1 DEF TypeOK, Transmit
<1>2. CASE k # Len(msgs)
  <2>1. <<>> \in Seq(ClientMsg)
    OBVIOUS
  <2> QED BY <1>2, <2>1, SessionTypes DEF TypeOK, Transmit, StreamStates
<1> QED BY <1>1, <1>2

\* Reading takes a server message and leaves a sequence of them.
LEMMA ReceiveType ==
    ASSUME TypeOK, NEW m \in ToSet(s2c), Receives(m)
    PROVE  m \in ServerMsg /\ s2c' \in Seq(ServerMsg)
BY DEF TypeOK, Receives, ToSet

\* The three responses that carry a connection id carry a number.
LEMMA CidType ==
    \A m \in ServerMsg :
      m.t \in {"connectResponse", "reconnectResponse", "authenticationResponse"} => m.cid \in Nat
BY DEF ServerMsg, PushedKinds, EventOf, EndOfStream

\* subscribed_.erase leaves a list of the same quotes.
LEMMA RemoveAtType ==
    ASSUME NEW S, NEW s \in Seq(S), NEW i \in DOMAIN s
    PROVE  RemoveAt(s, i) \in Seq(S)
BY DEF RemoveAt

\* What the client's calls return is always one of Results.
LEMMA ReturnType ==
    /\ {"none", "ok", "closed", "error", "timeout", "thrown", "tick"} \subseteq Results
    /\ \A t \in DOMAIN EventOf : EventOf[t] \in Results
    /\ \A ec : ReadOutcome(ec) \in Results
BY DEF EventOf, Results, ReadOutcome

\* The type invariant of the client, the link and the server's session.
THEOREM TypeCorrect == Spec => []TypeOK
<1>1. Init => TypeOK
  BY SessionTypes, ReturnType DEF Init, TypeOK, StreamStates
<1>2. TypeOK /\ [Next]_vars => TypeOK'
  <2> SUFFICES ASSUME TypeOK, [Next]_vars PROVE TypeOK'
    OBVIOUS
  <2>1. CASE Connect
    <3>1. FreshStream(conn + 1) \in Seq(ServerMsg)
      BY MessageTypes DEF FreshStream, TypeOK
    <3> QED BY <2>1, <3>1, SessionTypes DEF Connect, TypeOK, StreamStates
  <2>2. CASE ConnectFails
    BY <2>2, SessionTypes, ReturnType DEF ConnectFails, TypeOK, StreamStates, Return
  <2>3. CASE BeginRead
    BY <2>3 DEF BeginRead, TypeOK
  <2>4. ASSUME NEW q \in Quotes, NEW k \in 0..1, Subscribe(q, k) PROVE TypeOK'
    <3>1. <<ForQuote("subscribe", q)>> \in Seq(ClientMsg)
      BY MessageTypes
    <3>2. Append(subscribed_, q) \in Seq(Quotes)
      BY DEF TypeOK
    <3>3. k \in {0, 1} /\ connection_id_' = connection_id_ /\ conn' = conn /\ s2c' = s2c
      BY <2>4 DEF Subscribe
    <3>4. CASE UNCHANGED <<ws, subscribed_, srv, c2s>> /\ Return("ok")
      BY <3>3, <3>4, ReturnType DEF TypeOK, Return
    <3>5. CASE /\ subscribed_' = Append(subscribed_, q)
               /\ Transmit(<<ForQuote("subscribe", q)>>, k)
               /\ Return(IF k = 1 THEN "ok" ELSE "thrown")
      BY <3>1, <3>2, <3>3, <3>5, TransmitType, ReturnType DEF TypeOK, Return
    <3> QED BY <2>4, <3>4, <3>5 DEF Subscribe
  <2>5. ASSUME NEW q \in Quotes, NEW k \in 0..1, Unsubscribe(q, k) PROVE TypeOK'
    <3>1. UnsubscribeRequest(q) \in Seq(ClientMsg)
      BY MessageTypes DEF UnsubscribeRequest
    <3>2. subscribed_' \in Seq(Quotes)
      <4>1. \A i \in DOMAIN subscribed_ : RemoveAt(subscribed_, i) \in Seq(Quotes)
        BY RemoveAtType DEF TypeOK
      <4> QED BY <2>5, <4>1 DEF Unsubscribe, TypeOK
    <3> QED BY <2>5, <3>1, <3>2, TransmitType, ReturnType DEF Unsubscribe, TypeOK, Return
  <2>6. ASSUME NEW k \in Writes, ReadConnectResponse(k) PROVE TypeOK'
    <3>1. <<Plain("authentication")>> \in Seq(ClientMsg)
      BY MessageTypes
    <3> QED BY <2>6, <3>1, TransmitType, ReceiveType, ReturnType
            DEF ReadConnectResponse, TypeOK, Return
  <2>7. ASSUME NEW k \in Writes, ReadAuthenticationResponse(k) PROVE TypeOK'
    <3>1. PICK m \in ToSet(s2c) :
            /\ Receives(m)
            /\ m.t = "authenticationResponse"
            /\ \/ AuthenticationRefused(m)
               \/ /\ AcceptConnectionId(m.cid, k)
                  /\ Transmit(AuthenticationReply, k)
                  /\ Return(IF k = Len(AuthenticationReply) THEN "ok" ELSE "thrown")
      BY <2>7 DEF ReadAuthenticationResponse
    <3>2. m \in ServerMsg /\ m.cid \in Nat /\ s2c' \in Seq(ServerMsg)
      BY <3>1, ReceiveType, CidType
    <3>3. UNCHANGED <<subscribed_, conn>>
      BY <2>7 DEF ReadAuthenticationResponse
    <3>4. connection_id_' \in Nat
      BY <3>1, <3>2 DEF AuthenticationRefused, AcceptConnectionId, TypeOK
    <3>5. ws' \in StreamStates /\ srv' \in Session /\ c2s' \in Seq(ClientMsg)
      BY <3>1, ReplyType, TransmitType DEF AuthenticationRefused, TypeOK
    <3> QED BY <3>1, <3>2, <3>3, <3>4, <3>5, ReturnType DEF AuthenticationRefused, Return, TypeOK
  <2>8. ASSUME NEW k \in Writes, ReadMessage(k) PROVE TypeOK'
    <3>1. PICK m \in ToSet(s2c) :
            /\ Receives(m)
            /\ \/ process_heartbeat(m, k)
               \/ process_connect_response(m, k)
               \/ process_authentication_response(m, k)
               \/ k = 0 /\ process_reconnect_response(m)
               \/ k = 0 /\ process_subscribe_response(m)
               \/ k = 0 /\ process_event(m)
      BY <2>8 DEF ReadMessage
    <3>2. m \in ServerMsg /\ s2c' \in Seq(ServerMsg)
      BY <3>1, ReceiveType, CidType
    <3>3. UNCHANGED <<subscribed_, conn>>
      BY <2>8 DEF ReadMessage
    <3>4. <<Plain("authentication")>> \in Seq(ClientMsg) /\ <<Plain("heartbeat")>> \in Seq(ClientMsg)
      BY MessageTypes
    <3> USE DEF TypeOK, Answer, GoOn, Return
    <3> USE ReturnType
    <3>5. CASE process_heartbeat(m, k)
      BY <3>2, <3>3, <3>4, <3>5, TransmitType DEF process_heartbeat
    <3>6. CASE process_connect_response(m, k)
      BY <3>2, <3>3, <3>4, <3>6, TransmitType DEF process_connect_response
    <3>7. CASE process_authentication_response(m, k)
      <4>1. connection_id_' \in Nat
        BY <3>2, <3>7, CidType
           DEF process_authentication_response, AuthenticationRefused, AcceptConnectionId
      <4>2. ws' \in StreamStates /\ srv' \in Session /\ c2s' \in Seq(ClientMsg)
        BY <3>7, ReplyType, TransmitType
           DEF process_authentication_response, AuthenticationRefused
      <4>3. pc' \in {"idle", "reading"} /\ result' \in Results
        BY <3>7 DEF process_authentication_response, AuthenticationRefused
      <4> QED BY <3>2, <3>3, <4>1, <4>2, <4>3
    <3>8. CASE process_reconnect_response(m)
      BY <3>2, <3>3, <3>8, CidType DEF process_reconnect_response
    <3>9. CASE process_subscribe_response(m)
      BY <3>2, <3>3, <3>9, ReturnType DEF process_subscribe_response
    <3>10. CASE process_event(m)
      BY <3>2, <3>3, <3>10, ReturnType DEF process_event
    <3> QED BY <3>1, <3>5, <3>6, <3>7, <3>8, <3>9, <3>10
  <2>9. ASSUME NEW ec \in EndOfStream \cup {"operation_aborted"}, ReadFails(ec) PROVE TypeOK'
    <3>1. s2c # <<>> => Tail(s2c) \in Seq(ServerMsg)
      BY DEF TypeOK
    <3> QED BY <2>9, <3>1, ReturnType DEF ReadFails, TypeOK, Return, StreamStates
  <2>10. CASE ServerHandles
    <3>1. Head(c2s) \in ClientMsg /\ Tail(c2s) \in Seq(ClientMsg)
      BY <2>10 DEF ServerHandles, TypeOK
    <3>2. \A b, c \in BOOLEAN : [t |-> "subscribeResponse", HasError |-> b, Current |-> c] \in ServerMsg
      BY DEF ServerMsg
    <3>3. [t |-> "reconnectResponse", cid |-> conn] \in ServerMsg
      BY DEF ServerMsg, TypeOK
    <3>4. \A ok \in BOOLEAN : AuthenticationResponse(conn, ok) \in ServerMsg
      BY MessageTypes DEF TypeOK
    <3>5. \A m \in ServerMsg : Append(s2c, m) \in Seq(ServerMsg)
      BY DEF TypeOK
    <3>6. s2c' \in Seq(ServerMsg)
      <4>1. s2c' = s2c \/ \E m \in ServerMsg : s2c' = Append(s2c, m)
        BY <2>10, <3>2, <3>3, <3>4, Zenon DEF ServerHandles
      <4>2. s2c \in Seq(ServerMsg)
        BY Zenon DEF TypeOK
      <4> QED BY <3>5, <4>1, <4>2, Zenon
    <3>7. Head(c2s).action \in {"subscribe", "unsubscribe"} => Head(c2s).quoteId \in Quotes
      <4>1. \A m \in ClientMsg : m.action \in {"subscribe", "unsubscribe"} => m.quoteId \in Quotes
        BY DEF ClientMsg
      <4> QED BY <3>1, <4>1, Zenon
    <3>8. srv' \in Session
      <4>1. \A q \in Quotes :
              /\ [srv EXCEPT !.subs = @ \cup {q}, !.refused = @ \ {q}] \in Session
              /\ [srv EXCEPT !.refused = @ \cup {q}] \in Session
              /\ [srv EXCEPT !.subs = @ \ {q}, !.refused = @ \ {q}] \in Session
        BY DEF TypeOK, Session
      <4> QED BY <2>10, <3>7, <4>1, SessionTypes DEF ServerHandles, TypeOK
    <3> QED BY <2>10, <3>1, <3>6, <3>8 DEF ServerHandles, ServerOnly, TypeOK
  <2>11. CASE ServerRestartsSession
    BY <2>11, MessageTypes, SessionTypes DEF ServerRestartsSession, ServerOnly, TypeOK
  <2>12. ASSUME NEW t \in Pushed, ServerPushes(t) PROVE TypeOK'
    BY <2>12, MessageTypes, PushedAssumption DEF ServerPushes, ServerOnly, TypeOK
  <2>13. ASSUME NEW ec \in EndOfStream, LinkEnds(ec) PROVE TypeOK'
    BY <2>13, MessageTypes, SessionTypes DEF LinkEnds, ServerOnly, TypeOK
  <2>14. CASE UNCHANGED vars
    BY <2>14 DEF TypeOK
  <2> QED BY <2>1, <2>2, <2>3, <2>4, <2>5, <2>6, <2>7, <2>8, <2>9, <2>10, <2>11, <2>12,
             <2>13, <2>14 DEF Next, Application, ClientReads, Environment
<1> QED BY <1>1, <1>2, PTL DEF Spec

-----------------------------------------------------------------------------
(* The inductive invariant                                                  *)

\* Nothing is left of the server's session once the link or the stream is dead.
DeadLink ==
    /\ ws # "open" => ~srv.up
    /\ ~srv.up => srv = NoSession /\ c2s = <<>>

\* The end of the stream is under way only once the link is down.
EndMeansDown == srv.up => \A i \in DOMAIN s2c : s2c[i].t \notin EndOfStream

\* subscribe() looks before it pushes back.
NoDuplicates ==
    \A i, j \in DOMAIN subscribed_ : subscribed_[i] = subscribed_[j] => i = j

\* Until it accepts an authentication the server knows no quote.
Unaccepted == ~srv.authed => srv.subs \cup srv.refused = {}

HandshakeKinds == {"connectResponse", "reconnectResponse", "authenticationResponse"}

\* The ids under way are those of this connection; during connect() the one
\* in hand is older.
Ids ==
    /\ connection_id_ <= conn
    /\ pc \in {"connecting", "authenticating"} => connection_id_ < conn
    /\ \A i \in DOMAIN s2c : s2c[i].t \in HandshakeKinds => s2c[i].cid = conn

\* While connect() waits for the greeting it has written nothing, and there is
\* nothing but the greeting and the end of the stream to read.
AwaitsGreeting ==
    pc = "connecting" =>
      /\ ws = "open" /\ ~srv.authed /\ c2s = <<>>
      /\ \A i \in DOMAIN s2c :
           s2c[i].t \in EndOfStream \/ (i = 1 /\ s2c[i] = ConnectResponse(conn))

\* Then it has written its authentication and nothing else, and the first
\* thing to read is the answer, or the end of the stream.
AwaitsAnswer ==
    pc = "authenticating" =>
      /\ ws = "open"
      /\ c2s \in {<<>>, <<Plain("authentication")>>}
      /\ s2c = <<>> => ~srv.authed
      /\ s2c # <<>> =>
           Head(s2c).t \in EndOfStream \/ (Head(s2c).t = "authenticationResponse" /\ Head(s2c).cid = conn)

\* A server that has accepted did so last: a refusal still to be read is
\* followed by an acceptance still to be read.
LatestAnswer ==
    srv.authed =>
      \A i \in DOMAIN s2c :
        (s2c[i].t = "authenticationResponse" /\ ~s2c[i].Result)
          => \E j \in DOMAIN s2c : j > i /\ s2c[j].t = "authenticationResponse"

\* A server that has not answered connect(), or has refused, says no more.
RefusalIsLast ==
    pc = "authenticating" =>
      /\ c2s # <<>> =>
           ~srv.authed /\ \A i \in DOMAIN s2c : s2c[i].t \notin HandshakeKinds
      /\ (s2c # <<>> /\ Head(s2c).t = "authenticationResponse" /\ ~Head(s2c).Result) =>
           /\ ~srv.authed /\ c2s = <<>>
           /\ \A i \in DOMAIN s2c : i > 1 => s2c[i].t \notin HandshakeKinds

\* Out of connect(), on a live stream, the id remembered is that of this
\* connection, or connect() was refused and no handshake will follow.
AcceptedOrSilent ==
    (pc \in {"idle", "reading"} /\ ws = "open" /\ connection_id_ # conn) =>
      /\ ~srv.authed
      /\ \A i \in DOMAIN s2c : s2c[i].t \notin HandshakeKinds
      /\ \A i \in DOMAIN c2s : c2s[i].action # "authentication"

Structure ==
    /\ EndMeansDown /\ DeadLink /\ NoDuplicates /\ Unaccepted /\ Ids
    /\ AwaitsGreeting /\ AwaitsAnswer /\ LatestAnswer
    /\ RefusalIsLast /\ AcceptedOrSilent


\* The step of the reading loop, by the message it handles.
LEMMA ReadMessageCases ==
    ASSUME NEW k, ReadMessage(k)
    PROVE  \E m \in ToSet(s2c) :
             /\ Receives(m)
             /\ \/ process_heartbeat(m, k)
                \/ process_connect_response(m, k)
                \/ process_authentication_response(m, k)
                \/ k = 0 /\ process_reconnect_response(m)
                \/ k = 0 /\ process_subscribe_response(m)
                \/ k = 0 /\ process_event(m)
BY DEF ReadMessage

\* What is left to read after a read, and after a message is added.
LEMMA TailElements ==
    ASSUME NEW S, NEW s \in Seq(S), s # <<>>
    PROVE  /\ DOMAIN Tail(s) = 1..(Len(s) - 1)
           /\ \A i \in DOMAIN Tail(s) : i + 1 \in DOMAIN s /\ Tail(s)[i] = s[i + 1]
OBVIOUS

\* Where the elements of s, and e, stand in Append(s, e).
LEMMA AppendElements ==
    ASSUME NEW S, NEW s \in Seq(S), NEW e
    PROVE  /\ DOMAIN Append(s, e) = 1..(Len(s) + 1)
           /\ DOMAIN s = 1..Len(s)
           /\ Append(s, e)[Len(s) + 1] = e
           /\ \A i \in DOMAIN s : i \in DOMAIN Append(s, e) /\ Append(s, e)[i] = s[i]
OBVIOUS

\* Where the elements of two sequences stand in their concatenation.
LEMMA ConcatElements ==
    ASSUME NEW S, NEW s \in Seq(S), NEW t \in Seq(S)
    PROVE  /\ DOMAIN (s \o t) = 1..(Len(s) + Len(t))
           /\ DOMAIN s = 1..Len(s) /\ DOMAIN t = 1..Len(t)
           /\ Len(s) \in Nat /\ Len(t) \in Nat
           /\ \A i \in DOMAIN s : (s \o t)[i] = s[i]
           /\ \A i \in DOMAIN t : (s \o t)[Len(s) + i] = t[i]
OBVIOUS

\* Whatever a client step does to the link, it does not revive it, and it
\* adds nothing to what there is to read.
LEMMA ClientStep ==
    ASSUME TypeOK,
           \/ BeginRead
           \/ \E q \in Quotes, k \in 0..1 : Subscribe(q, k) \/ Unsubscribe(q, k)
           \/ ClientReads
    PROVE  /\ srv' = srv \/ srv' = NoSession
           /\ s2c' = s2c \/ (s2c # <<>> /\ s2c' = Tail(s2c))
<1>1. CASE BeginRead
  BY <1>1 DEF BeginRead
<1>2. ASSUME NEW q \in Quotes, NEW k \in 0..1, Subscribe(q, k) \/ Unsubscribe(q, k)
      PROVE  (srv' = srv \/ srv' = NoSession) /\ s2c' = s2c
  BY <1>2 DEF Subscribe, Unsubscribe, Transmit
<1>3. ASSUME NEW k \in Writes, ReadConnectResponse(k)
      PROVE  (srv' = srv \/ srv' = NoSession) /\ s2c # <<>> /\ s2c' = Tail(s2c)
  BY <1>3 DEF ReadConnectResponse, Receives, Transmit
<1>4. ASSUME NEW k \in Writes, ReadAuthenticationResponse(k)
      PROVE  (srv' = srv \/ srv' = NoSession) /\ s2c # <<>> /\ s2c' = Tail(s2c)
  BY <1>4 DEF ReadAuthenticationResponse, AuthenticationRefused, Receives, Transmit
<1>5. ASSUME NEW k \in Writes, ReadMessage(k)
      PROVE  (srv' = srv \/ srv' = NoSession) /\ s2c # <<>> /\ s2c' = Tail(s2c)
  BY <1>5, ReadMessageCases
     DEF process_heartbeat, process_connect_response, process_authentication_response,
         process_reconnect_response, process_subscribe_response, process_event,
         AuthenticationRefused, Answer, Receives, Transmit
<1>6. ASSUME NEW ec, ReadFails(ec)
      PROVE  srv' = srv /\ (s2c' = s2c \/ (s2c # <<>> /\ s2c' = Tail(s2c)))
  BY <1>6 DEF ReadFails
<1> QED BY <1>1, <1>2, <1>3, <1>4, <1>5, <1>6 DEF ClientReads

\* What the server may answer on this connection.
ServerReplies ==
    {AuthenticationResponse(conn, ok) : ok \in BOOLEAN}
      \cup {[t |-> "reconnectResponse", cid |-> conn]}
      \cup [t : {"subscribeResponse"}, HasError : BOOLEAN, Current : BOOLEAN]

\* The server answers a message with one of ServerReplies, or not at all.
LEMMA ServerHandlesReplies ==
    ASSUME ServerHandles
    PROVE  s2c' = s2c \/ \E m \in ServerReplies : s2c' = Append(s2c, m)
<1>1. \A e, c \in BOOLEAN :
        [t |-> "subscribeResponse", HasError |-> e, Current |-> c] \in ServerReplies
  BY DEF ServerReplies
<1>2. [t |-> "reconnectResponse", cid |-> conn] \in ServerReplies
  BY DEF ServerReplies
<1>3. \A ok \in BOOLEAN : AuthenticationResponse(conn, ok) \in ServerReplies
  BY DEF ServerReplies
<1>4. \/ s2c' = s2c
      \/ \E ok \in BOOLEAN : s2c' = Append(s2c, AuthenticationResponse(conn, ok))
      \/ s2c' = Append(s2c, [t |-> "reconnectResponse", cid |-> conn])
      \/ \E c \in BOOLEAN :
           s2c' = Append(s2c, [t |-> "subscribeResponse", HasError |-> FALSE, Current |-> c])
      \/ s2c' = Append(s2c, [t |-> "subscribeResponse", HasError |-> TRUE, Current |-> FALSE])
  BY DEF ServerHandles
<1> QED BY <1>1, <1>2, <1>3, <1>4

\* Once the link's end is to be read, the server's session is down: no step
\* but a new connect() puts the two apart.
LEMMA EndMeansDownStep == TypeOK /\ EndMeansDown /\ [Next]_vars => EndMeansDown'
<1> SUFFICES ASSUME TypeOK, EndMeansDown, [Next]_vars PROVE EndMeansDown'
  OBVIOUS
<1>1. CASE Connect
  BY <1>1 DEF Connect, EndMeansDown, FreshStream, ConnectResponse, EndOfStream
<1>2. CASE ConnectFails
  BY <1>2 DEF ConnectFails, EndMeansDown
<1>3. CASE \/ BeginRead
           \/ \E q \in Quotes, k \in 0..1 : Subscribe(q, k) \/ Unsubscribe(q, k)
           \/ ClientReads
  <2>1. /\ srv' = srv \/ srv' = NoSession
        /\ s2c' = s2c \/ (s2c # <<>> /\ s2c' = Tail(s2c))
    BY <1>3, ClientStep
  <2>2. srv'.up => srv' = srv
    BY <2>1 DEF NoSession
  <2>3. ASSUME s2c # <<>>, s2c' = Tail(s2c), NEW i \in DOMAIN s2c'
        PROVE  i + 1 \in DOMAIN s2c /\ s2c'[i] = s2c[i + 1]
    BY <2>3, TailElements DEF TypeOK
  <2> QED BY <2>1, <2>2, <2>3, Zenon DEF EndMeansDown
<1>4. CASE ServerHandles
  <2>1. srv.up
    BY <1>4 DEF ServerHandles
  <2>2. \/ s2c' = s2c
        \/ \E m \in ServerReplies : s2c' = Append(s2c, m)
    BY <1>4, ServerHandlesReplies
  <2>3. \A m \in ServerReplies : m.t \notin EndOfStream
    BY DEF ServerReplies, AuthenticationResponse, EndOfStream
  <2>4. \A i \in DOMAIN s2c : s2c[i].t \notin EndOfStream
    BY <2>1 DEF EndMeansDown
  <2>5. CASE s2c' = s2c
    BY <2>4, <2>5, Zenon DEF EndMeansDown
  <2>6. ASSUME NEW m \in ServerReplies, s2c' = Append(s2c, m) PROVE EndMeansDown'
    <3>1. /\ DOMAIN s2c' = 1..(Len(s2c) + 1) /\ DOMAIN s2c = 1..Len(s2c) /\ Len(s2c) \in Nat
          /\ s2c'[Len(s2c) + 1] = m
          /\ \A i \in DOMAIN s2c : s2c'[i] = s2c[i]
      BY <2>6, AppendElements DEF TypeOK
    <3>2. \A i \in DOMAIN s2c' : i \in DOMAIN s2c \/ i = Len(s2c) + 1
      BY <3>1
    <3> QED BY <2>3, <2>4, <3>1, <3>2, Zenon DEF EndMeansDown
  <2> QED BY <2>2, <2>5, <2>6
<1>5. CASE ServerRestartsSession
  BY <1>5, AppendElements
     DEF ServerRestartsSession, EndMeansDown, EndOfStream, ConnectResponse, TypeOK
<1>6. ASSUME NEW t \in Pushed, ServerPushes(t) PROVE EndMeansDown'
  <2>1. t \notin EndOfStream
    BY PushedAssumption DEF PushedKinds, EventOf, EndOfStream
  <2> QED BY <1>6, <2>1, AppendElements DEF ServerPushes, EndMeansDown, Kind, TypeOK
<1>7. ASSUME NEW ec \in EndOfStream, LinkEnds(ec) PROVE EndMeansDown'
  BY <1>7 DEF LinkEnds, EndMeansDown, NoSession
<1>8. CASE UNCHANGED vars
  BY <1>8 DEF EndMeansDown
<1> QED BY <1>1, <1>2, <1>3, <1>4, <1>5, <1>6, <1>7, <1>8
        DEF Next, Application, ClientReads, Environment

\* A write, complete or not, leaves nothing in flight on a dead link.
LEMMA TransmitDeadLink ==
    ASSUME TypeOK, DeadLink, NEW msgs, NEW k, Transmit(msgs, k)
    PROVE  DeadLink'
BY DEF TypeOK, DeadLink, Transmit, NoSession

\* No step puts a client message on the wire of a link without a session.
LEMMA DeadLinkStep == TypeOK /\ EndMeansDown /\ DeadLink /\ [Next]_vars => DeadLink'
<1> SUFFICES ASSUME TypeOK, EndMeansDown, DeadLink, [Next]_vars PROVE DeadLink'
  OBVIOUS
<1>1. CASE Connect
  BY <1>1 DEF Connect, DeadLink, NewSession, NoSession
<1>2. CASE ConnectFails
  BY <1>2 DEF ConnectFails, DeadLink, NoSession
<1>3. CASE BeginRead
  BY <1>3 DEF BeginRead, DeadLink
<1>4. ASSUME NEW q \in Quotes, NEW k \in 0..1, Subscribe(q, k) PROVE DeadLink'
  BY <1>4, TransmitDeadLink DEF Subscribe, DeadLink
<1>5. ASSUME NEW q \in Quotes, NEW k \in 0..1, Unsubscribe(q, k) PROVE DeadLink'
  BY <1>5, TransmitDeadLink DEF Unsubscribe, DeadLink
<1>6. ASSUME NEW k \in Writes, ReadConnectResponse(k) PROVE DeadLink'
  BY <1>6, TransmitDeadLink DEF ReadConnectResponse
<1>7. ASSUME NEW k \in Writes, ReadAuthenticationResponse(k) PROVE DeadLink'
  BY <1>7, TransmitDeadLink DEF ReadAuthenticationResponse, AuthenticationRefused, DeadLink
<1>8. ASSUME NEW k \in Writes, ReadMessage(k) PROVE DeadLink'
  BY <1>8, ReadMessageCases, TransmitDeadLink
     DEF process_heartbeat, process_connect_response, process_authentication_response,
         process_reconnect_response, process_subscribe_response, process_event,
         AuthenticationRefused, Answer, DeadLink
<1>9. ASSUME NEW ec \in EndOfStream \cup {"operation_aborted"}, ReadFails(ec) PROVE DeadLink'
  <2>1. s2c # <<>> => Head(s2c) = s2c[1] /\ 1 \in DOMAIN s2c
    BY DEF TypeOK
  <2> QED BY <1>9, <2>1 DEF ReadFails, DeadLink, EndMeansDown
<1>10. CASE ServerHandles
  BY <1>10 DEF ServerHandles, ServerOnly, DeadLink, TypeOK, Session, NewSession, NoSession
<1>11. CASE ServerRestartsSession
  BY <1>11 DEF ServerRestartsSession, ServerOnly, DeadLink, NewSession, NoSession
<1>12. ASSUME NEW t \in Pushed, ServerPushes(t) PROVE DeadLink'
  BY <1>12 DEF ServerPushes, ServerOnly, DeadLink
<1>13. ASSUME NEW ec \in EndOfStream, LinkEnds(ec) PROVE DeadLink'
  BY <1>13 DEF LinkEnds, ServerOnly, DeadLink, NoSession
<1>14. CASE UNCHANGED vars
  BY <1>14 DEF DeadLink
<1> QED BY <1>1, <1>2, <1>3, <1>4, <1>5, <1>6, <1>7, <1>8, <1>9, <1>10, <1>11, <1>12, <1>13,
           <1>14 DEF Next, Application, ClientReads, Environment

\* The elements of a sequence from which the i-th was erased.
LEMMA RemoveAtElements ==
    ASSUME NEW S, NEW s \in Seq(S), NEW i \in DOMAIN s
    PROVE  /\ DOMAIN RemoveAt(s, i) = 1..(Len(s) - 1)
           /\ \A j \in DOMAIN RemoveAt(s, i) :
                RemoveAt(s, i)[j] = IF j < i THEN s[j] ELSE s[j + 1]
<1> DEFINE a == SubSeq(s, 1, i - 1)
           b == SubSeq(s, i + 1, Len(s))
<1>1. a \in Seq(S) /\ Len(a) = i - 1 /\ \A j \in 1..(i - 1) : a[j] = s[j]
  OBVIOUS
<1>2. b \in Seq(S) /\ Len(b) = Len(s) - i /\ \A j \in 1..(Len(s) - i) : b[j] = s[i + j]
  OBVIOUS
<1>3. RemoveAt(s, i) = a \o b
  BY DEF RemoveAt
<1> HIDE DEF a, b
<1>4. DOMAIN (a \o b) = 1..(Len(s) - 1)
  BY <1>1, <1>2
<1>5. \A j \in 1..(Len(s) - 1) : (a \o b)[j] = IF j < i THEN s[j] ELSE s[j + 1]
  BY <1>1, <1>2
<1> QED BY <1>3, <1>4, <1>5

\* Removing an element removes no other.
LEMMA RemoveAtKeeps ==
    ASSUME NEW S, NEW s \in Seq(S), NEW i \in DOMAIN s, NEW e, e # s[i],
           e \notin ToSet(RemoveAt(s, i))
    PROVE  e \notin ToSet(s)
<1> SUFFICES ASSUME NEW j \in DOMAIN s, s[j] = e PROVE e \in ToSet(RemoveAt(s, i))
  BY DEF ToSet
<1>1. /\ DOMAIN RemoveAt(s, i) = 1..(Len(s) - 1)
      /\ \A n \in DOMAIN RemoveAt(s, i) :
           RemoveAt(s, i)[n] = IF n < i THEN s[n] ELSE s[n + 1]
  BY RemoveAtElements
<1>2. i \in 1..Len(s) /\ j \in 1..Len(s) /\ Len(s) \in Nat /\ i # j
  OBVIOUS
<1>3. CASE j < i
  <2>1. j \in DOMAIN RemoveAt(s, i) /\ RemoveAt(s, i)[j] = e
    BY <1>1, <1>2, <1>3
  <2> QED BY <2>1 DEF ToSet
<1>4. CASE j > i
  <2>1. j - 1 \in DOMAIN RemoveAt(s, i) /\ ~(j - 1 < i) /\ (j - 1) + 1 = j
    BY <1>1, <1>2, <1>4
  <2>2. RemoveAt(s, i)[j - 1] = e
    BY <1>1, <2>1
  <2> QED BY <2>1, <2>2 DEF ToSet
<1> QED BY <1>2, <1>3, <1>4

\* In a sequence without duplicates the removed element is gone.
LEMMA RemoveAtDrops ==
    ASSUME NEW S, NEW s \in Seq(S), NEW i \in DOMAIN s,
           \A a, b \in DOMAIN s : s[a] = s[b] => a = b,
           NEW e \in ToSet(RemoveAt(s, i))
    PROVE  e \in ToSet(s) /\ e # s[i]
<1>1. PICK n \in DOMAIN RemoveAt(s, i) : RemoveAt(s, i)[n] = e
  BY DEF ToSet
<1>2. n \in 1..(Len(s) - 1) /\ e = IF n < i THEN s[n] ELSE s[n + 1]
  BY <1>1, RemoveAtElements
<1>3. PICK j \in DOMAIN s : e = s[j] /\ j # i
  <2>1. i \in 1..Len(s) /\ Len(s) \in Nat /\ DOMAIN s = 1..Len(s)
    OBVIOUS
  <2>2. CASE n < i
    <3>1. n \in DOMAIN s /\ n # i
      BY <1>2, <2>1, <2>2
    <3> QED BY <1>2, <2>2, <3>1
  <2>3. CASE ~(n < i)
    <3>1. n + 1 \in DOMAIN s /\ n + 1 # i
      BY <1>2, <2>1, <2>3
    <3> QED BY <1>2, <2>3, <3>1
  <2> QED BY <2>2, <2>3
<1> QED BY <1>3 DEF ToSet

\* No call makes subscribed_ hold a quote twice: subscribe() looks first.
LEMMA NoDuplicatesStep == TypeOK /\ NoDuplicates /\ [Next]_vars => NoDuplicates'
<1> SUFFICES ASSUME TypeOK, NoDuplicates, [Next]_vars PROVE NoDuplicates'
  OBVIOUS
<1>1. ASSUME NEW q \in Quotes, NEW k \in 0..1, Subscribe(q, k) PROVE NoDuplicates'
  <2>1. CASE subscribed_' = subscribed_
    BY <2>1 DEF NoDuplicates
  <2>2. CASE q \notin ToSet(subscribed_) /\ subscribed_' = Append(subscribed_, q)
    BY <2>2, AppendElements DEF NoDuplicates, ToSet, TypeOK
  <2> QED BY <1>1, <2>1, <2>2 DEF Subscribe
<1>2. ASSUME NEW q \in Quotes, NEW k \in 0..1, Unsubscribe(q, k) PROVE NoDuplicates'
  <2>1. CASE subscribed_' = subscribed_
    BY <2>1 DEF NoDuplicates
  <2>2. ASSUME NEW i \in DOMAIN subscribed_, subscribed_' = RemoveAt(subscribed_, i)
        PROVE  NoDuplicates'
    <3> DEFINE shrunk == RemoveAt(subscribed_, i)
    <3>1. i \in 1..Len(subscribed_) /\ Len(subscribed_) \in Nat
      BY DEF TypeOK
    <3>2. /\ DOMAIN shrunk = 1..(Len(subscribed_) - 1)
          /\ \A j \in DOMAIN shrunk :
               shrunk[j] = IF j < i THEN subscribed_[j] ELSE subscribed_[j + 1]
      BY RemoveAtElements DEF TypeOK
    <3>3. \A j \in 1..Len(subscribed_), l \in 1..Len(subscribed_) :
            subscribed_[j] = subscribed_[l] => j = l
      BY DEF NoDuplicates, TypeOK
    <3> HIDE DEF shrunk
    <3>4. \A j, l \in DOMAIN shrunk : shrunk[j] = shrunk[l] => j = l
      <4> SUFFICES ASSUME NEW j \in DOMAIN shrunk, NEW l \in DOMAIN shrunk, shrunk[j] = shrunk[l]
                   PROVE  j = l
        OBVIOUS
      <4>1. /\ j \in 1..Len(subscribed_) /\ j + 1 \in 1..Len(subscribed_)
            /\ l \in 1..Len(subscribed_) /\ l + 1 \in 1..Len(subscribed_)
        BY <3>1, <3>2
      <4>2. CASE j < i /\ l < i
        BY <3>2, <3>3, <4>1, <4>2
      <4>3. CASE j < i /\ ~(l < i)
        BY <3>1, <3>2, <3>3, <4>1, <4>3
      <4>4. CASE ~(j < i) /\ l < i
        <5>1. subscribed_[j + 1] = subscribed_[l]
          BY <3>2, <4>4
        <5>2. j + 1 = l
          BY <3>3, <4>1, <5>1
        <5> QED BY <3>1, <4>1, <4>4, <5>2
      <4>5. CASE ~(j < i) /\ ~(l < i)
        <5>1. j + 1 = l + 1
          BY <3>2, <3>3, <4>1, <4>5
        <5> QED BY <5>1, <4>1
      <4> QED BY <4>2, <4>3, <4>4, <4>5
    <3> QED BY <2>2, <3>4 DEF NoDuplicates, shrunk
  <2> QED BY <1>2, <2>1, <2>2 DEF Unsubscribe
<1>3. CASE UNCHANGED subscribed_
  BY <1>3 DEF NoDuplicates
<1>4. CASE ClientReads
  BY <1>3, <1>4 DEF ClientReads, ReadConnectResponse, ReadAuthenticationResponse, ReadMessage, ReadFails
<1>5. CASE Environment
  BY <1>3, <1>5 DEF Environment, ServerHandles, ServerPushes, ServerRestartsSession, LinkEnds, ServerOnly
<1> QED BY <1>1, <1>2, <1>3, <1>4, <1>5 DEF Next, Application, Connect, ConnectFails, BeginRead

\* A session that was not accepted yet knows of no quote.
LEMMA UnacceptedStep == TypeOK /\ Unaccepted /\ [Next]_vars => Unaccepted'
<1> SUFFICES ASSUME TypeOK, Unaccepted, [Next]_vars PROVE Unaccepted'
  OBVIOUS
<1>1. CASE Connect \/ ConnectFails
  BY <1>1 DEF Connect, ConnectFails, Unaccepted, NewSession, NoSession
<1>2. CASE \/ BeginRead
           \/ \E q \in Quotes, k \in 0..1 : Subscribe(q, k) \/ Unsubscribe(q, k)
           \/ ClientReads
  BY <1>2, ClientStep DEF Unaccepted, NoSession
<1>3. CASE ServerHandles
  BY <1>3 DEF ServerHandles, Unaccepted, NewSession, NoSession, TypeOK, Session
<1>4. CASE \/ ServerRestartsSession
           \/ \E t \in Pushed : ServerPushes(t)
           \/ \E ec \in EndOfStream : LinkEnds(ec)
  BY <1>4 DEF ServerRestartsSession, ServerPushes, LinkEnds, Unaccepted, NewSession, NoSession
<1>5. CASE UNCHANGED vars
  BY <1>5 DEF Unaccepted
<1> QED BY <1>1, <1>2, <1>3, <1>4, <1>5 DEF Next, Application, Environment

\* The ids under way, on their own.
CidsUnderWay == \A i \in DOMAIN s2c : s2c[i].t \in HandshakeKinds => s2c[i].cid = conn

\* What is read is the head of what is to read.
LEMMA ReceivedElement ==
    ASSUME TypeOK, NEW m \in ToSet(s2c), Receives(m)
    PROVE  s2c # <<>> /\ 1 \in DOMAIN s2c /\ m = s2c[1] /\ m = Head(s2c) /\ s2c' = Tail(s2c)
BY DEF Receives, TypeOK

\* Connection ids on their way, and the one remembered, stay those of this
\* connection or of earlier ones.
LEMMA IdsStep == TypeOK /\ Ids /\ [Next]_vars => Ids'
<1> SUFFICES ASSUME TypeOK, Ids, [Next]_vars PROVE Ids'
  OBVIOUS
<1>1. CASE Connect
  BY <1>1 DEF Connect, Ids, FreshStream, ConnectResponse, TypeOK
<1>2. CASE ConnectFails
  BY <1>2 DEF ConnectFails, Return, Ids
<1>3. CASE \/ BeginRead
           \/ \E q \in Quotes, k \in 0..1 : Subscribe(q, k) \/ Unsubscribe(q, k)
           \/ ClientReads
  <2>1. conn' = conn
    BY <1>3 DEF BeginRead, Subscribe, Unsubscribe, ClientReads, ReadConnectResponse,
                ReadAuthenticationResponse, ReadMessage, ReadFails
  <2>2. CidsUnderWay'
    <3>1. s2c' = s2c \/ (s2c # <<>> /\ s2c' = Tail(s2c))
      BY <1>3, ClientStep
    <3>2. ASSUME s2c # <<>>, s2c' = Tail(s2c), NEW i \in DOMAIN s2c'
          PROVE  i + 1 \in DOMAIN s2c /\ s2c'[i] = s2c[i + 1]
      BY <3>2, TailElements DEF TypeOK
    <3> QED BY <2>1, <3>1, <3>2, Zenon DEF Ids, CidsUnderWay
  <2>3. CASE BeginRead
    BY <2>1, <2>2, <2>3 DEF BeginRead, Ids, CidsUnderWay
  <2>4. ASSUME NEW q \in Quotes, NEW k \in 0..1, Subscribe(q, k) \/ Unsubscribe(q, k) PROVE Ids'
    BY <2>1, <2>2, <2>4 DEF Subscribe, Unsubscribe, Return, Ids, CidsUnderWay
  <2>5. ASSUME NEW k \in Writes, ReadConnectResponse(k) PROVE Ids'
    BY <2>1, <2>2, <2>5 DEF ReadConnectResponse, Return, Ids, CidsUnderWay
  <2>6. ASSUME NEW k \in Writes, ReadAuthenticationResponse(k) PROVE Ids'
    <3>1. pc' = "idle"
      BY <2>6 DEF ReadAuthenticationResponse, AuthenticationRefused, Return
    <3>2. connection_id_' \in {connection_id_, conn}
      BY <2>6, ReceivedElement
         DEF ReadAuthenticationResponse, AuthenticationRefused, AcceptConnectionId, Ids, HandshakeKinds
    <3> QED BY <2>1, <2>2, <3>1, <3>2 DEF Ids, CidsUnderWay, TypeOK
  <2>7. ASSUME NEW k \in Writes, ReadMessage(k) PROVE Ids'
    <3>1. pc' \in {"idle", "reading"}
      BY <2>7, ReadMessageCases
         DEF process_heartbeat, process_connect_response, process_authentication_response,
             process_reconnect_response, process_subscribe_response, process_event,
             AuthenticationRefused, Answer, GoOn, Return
    <3>2. connection_id_' \in {connection_id_, conn}
      BY <2>7, ReadMessageCases, ReceivedElement
         DEF process_heartbeat, process_connect_response, process_authentication_response,
             process_reconnect_response, process_subscribe_response, process_event,
             AuthenticationRefused, AcceptConnectionId, Ids, HandshakeKinds
    <3> QED BY <2>1, <2>2, <3>1, <3>2 DEF Ids, CidsUnderWay, TypeOK
  <2>8. ASSUME NEW ec, ReadFails(ec) PROVE Ids'
    BY <2>1, <2>2, <2>8 DEF ReadFails, Return, Ids, CidsUnderWay
  <2> QED BY <1>3, <2>3, <2>4, <2>5, <2>6, <2>7, <2>8 DEF ClientReads
<1>4. ASSUME NEW m, s2c' = Append(s2c, m), m.t \in HandshakeKinds => m.cid = conn, ServerOnly
      PROVE  Ids'
  BY <1>4, AppendElements DEF Ids, ServerOnly, TypeOK
<1>5. CASE ServerHandles
  <2>1. ServerOnly
    BY <1>5 DEF ServerHandles
  <2>2. \A m \in ServerReplies : m.t \in HandshakeKinds => m.cid = conn
    BY DEF ServerReplies, AuthenticationResponse, HandshakeKinds
  <2> QED BY <1>4, <1>5, <2>1, <2>2, ServerHandlesReplies DEF ServerOnly, Ids
<1>6. CASE ServerRestartsSession
  BY <1>4, <1>6 DEF ServerRestartsSession, ConnectResponse
<1>7. ASSUME NEW t \in Pushed, ServerPushes(t) PROVE Ids'
  <2>1. Kind(t).t \notin HandshakeKinds
    BY PushedAssumption DEF PushedKinds, EventOf, HandshakeKinds, Kind
  <2> QED BY <1>4, <1>7, <2>1 DEF ServerPushes
<1>8. ASSUME NEW ec \in EndOfStream, LinkEnds(ec) PROVE Ids'
  <2>1. Kind(ec).t \notin HandshakeKinds
    BY DEF EndOfStream, HandshakeKinds, Kind
  <2>2. PICK n \in 0..Len(s2c) : s2c' = Append(SubSeq(s2c, 1, n), Kind(ec))
    BY <1>8 DEF LinkEnds
  <2>3. \A i \in DOMAIN s2c' : s2c'[i] = Kind(ec) \/ (i \in DOMAIN s2c /\ s2c'[i] = s2c[i])
    BY <2>2 DEF TypeOK
  <2> QED BY <1>8, <2>1, <2>3 DEF LinkEnds, ServerOnly, Ids
<1>9. CASE UNCHANGED vars
  BY <1>9 DEF Ids
<1> QED BY <1>1, <1>2, <1>3, <1>5, <1>6, <1>7, <1>8, <1>9 DEF Next, Application, Environment

\* Where the application thread is after a step of its own.
LEMMA ClientMoves ==
    /\ ConnectFails => pc' = "idle"
    /\ BeginRead => pc' = "reading"
    /\ \A q, k : Subscribe(q, k) \/ Unsubscribe(q, k) => pc' = "idle"
    /\ \A k : ReadConnectResponse(k) => pc' \in {"idle", "authenticating"}
    /\ \A k : ReadAuthenticationResponse(k) => pc' = "idle"
    /\ \A k : ReadMessage(k) => pc' \in {"idle", "reading"}
    /\ \A ec : ReadFails(ec) => pc' = "idle"
<1>1. \A k : ReadMessage(k) => pc' \in {"idle", "reading"}
  BY ReadMessageCases
     DEF process_heartbeat, process_connect_response, process_authentication_response,
         process_reconnect_response, process_subscribe_response, process_event,
         AuthenticationRefused, Answer, GoOn, Return
<1> QED BY <1>1 DEF ConnectFails, BeginRead, Subscribe, Unsubscribe, ReadConnectResponse,
                    ReadAuthenticationResponse, AuthenticationRefused, ReadFails, Return

\* When the link ends, what is left to read is a prefix and the end itself.
LEMMA LinkEndsElements ==
    ASSUME TypeOK, NEW ec, LinkEnds(ec)
    PROVE  \E n \in 0..Len(s2c) :
             /\ DOMAIN s2c' = 1..(n + 1)
             /\ s2c'[n + 1] = Kind(ec)
             /\ \A i \in 1..n : i \in DOMAIN s2c /\ s2c'[i] = s2c[i]
<1>1. PICK n \in 0..Len(s2c) : s2c' = Append(SubSeq(s2c, 1, n), Kind(ec))
  BY DEF LinkEnds
<1> QED BY <1>1 DEF TypeOK

\* While connect() waits for the greeting, the first message to read is the
\* greeting or the end of the link.
LEMMA AwaitsGreetingStep == TypeOK /\ AwaitsGreeting /\ [Next]_vars => AwaitsGreeting'
<1> SUFFICES ASSUME TypeOK, AwaitsGreeting, [Next]_vars, pc' = "connecting" PROVE AwaitsGreeting'
  BY DEF AwaitsGreeting
<1>1. CASE Connect
  BY <1>1 DEF Connect, AwaitsGreeting, FreshStream, NewSession, NoSession
<1>2. CASE (Application \/ ClientReads) /\ ~Connect
  BY <1>2, ClientMoves DEF Application, ClientReads
<1>3. CASE ServerHandles \/ ServerRestartsSession \/ \E t \in Pushed : ServerPushes(t)
  BY <1>3 DEF ServerHandles, ServerRestartsSession, ServerPushes, ServerOnly, AwaitsGreeting
<1>4. ASSUME NEW ec \in EndOfStream, LinkEnds(ec) PROVE AwaitsGreeting'
  <2>1. pc = "connecting" /\ ws' = ws /\ conn' = conn /\ srv' = NoSession /\ c2s' = <<>>
    BY <1>4 DEF LinkEnds, ServerOnly
  <2>2. \A i \in DOMAIN s2c' :
          s2c'[i].t \in EndOfStream \/ (i = 1 /\ s2c'[i] = ConnectResponse(conn))
    <3>1. PICK n \in 0..Len(s2c) :
            /\ DOMAIN s2c' = 1..(n + 1)
            /\ s2c'[n + 1] = Kind(ec)
            /\ \A i \in 1..n : i \in DOMAIN s2c /\ s2c'[i] = s2c[i]
      BY <1>4, LinkEndsElements
    <3>2. \A i \in DOMAIN s2c' : i \in 1..n \/ i = n + 1
      BY <3>1 DEF TypeOK
    <3>3. Kind(ec).t \in EndOfStream
      BY DEF Kind
    <3>4. \A i \in 1..n : s2c'[i].t \in EndOfStream \/ (i = 1 /\ s2c'[i] = ConnectResponse(conn))
      BY <2>1, <3>1 DEF AwaitsGreeting
    <3> QED BY <3>1, <3>2, <3>3, <3>4
  <2> QED BY <2>1, <2>2 DEF AwaitsGreeting, NoSession
<1>5. CASE UNCHANGED vars
  BY <1>5 DEF AwaitsGreeting
<1> QED BY <1>1, <1>2, <1>3, <1>4, <1>5 DEF Next, Environment

\* Appending to a sequence that is not empty leaves its head.
LEMMA AppendHead ==
    ASSUME NEW S, NEW s \in Seq(S), NEW e
    PROVE  /\ Append(s, e) # <<>>
           /\ s = <<>> => Head(Append(s, e)) = e
           /\ s # <<>> => Head(Append(s, e)) = Head(s)
OBVIOUS

\* While connect() waits for the answer to its authentication, nothing else
\* is in front of it.
LEMMA AwaitsAnswerStep ==
    TypeOK /\ AwaitsGreeting /\ AwaitsAnswer /\ [Next]_vars => AwaitsAnswer'
<1> SUFFICES ASSUME TypeOK, AwaitsGreeting, AwaitsAnswer, [Next]_vars, pc' = "authenticating"
             PROVE  AwaitsAnswer'
  BY DEF AwaitsAnswer
<1>1. CASE Application \/ ((ClientReads) /\ ~\E k \in Writes : ReadConnectResponse(k))
  BY <1>1, ClientMoves DEF Application, ClientReads, Connect
<1>2. ASSUME NEW k \in Writes, ReadConnectResponse(k) PROVE AwaitsAnswer'
  <2>1. k = 1 /\ pc = "connecting" /\ conn' = conn
    BY <1>2 DEF ReadConnectResponse, Return
  <2>2. Transmit(<<Plain("authentication")>>, 1)
    BY <1>2, <2>1 DEF ReadConnectResponse
  <2>3. ws' = "open" /\ srv' = srv /\ ~srv'.authed
    BY <2>1, <2>2 DEF Transmit, AwaitsGreeting
  <2>4. c2s' \in {<<>>, <<Plain("authentication")>>}
    BY <2>1, <2>2 DEF Transmit, AwaitsGreeting
  <2>5. s2c # <<>> /\ s2c' = Tail(s2c)
    BY <1>2 DEF ReadConnectResponse, Receives
  <2>6. s2c' # <<>> => Head(s2c') = s2c'[1] /\ 1 \in DOMAIN s2c'
    BY <2>5 DEF TypeOK
  <2>7. s2c' # <<>> => Head(s2c').t \in EndOfStream
    BY <2>1, <2>5, <2>6, TailElements DEF AwaitsGreeting, TypeOK
  <2> QED BY <2>3, <2>4, <2>7 DEF AwaitsAnswer
<1>3. CASE ServerHandles
  <2>1. pc = "authenticating" /\ ws' = ws /\ conn' = conn
    BY <1>3 DEF ServerHandles, ServerOnly
  <2>2. c2s = <<Plain("authentication")>> /\ Head(c2s) = Plain("authentication")
    BY <1>3, <2>1 DEF ServerHandles, AwaitsAnswer
  <2>3. PICK ok \in BOOLEAN : s2c' = Append(s2c, AuthenticationResponse(conn, ok))
    BY <1>3, <2>2 DEF ServerHandles, Plain
  <2>4. c2s' = <<>>
    BY <1>3, <2>2 DEF ServerHandles
  <2>5. /\ AuthenticationResponse(conn, ok).t = "authenticationResponse"
        /\ AuthenticationResponse(conn, ok).cid = conn
    BY DEF AuthenticationResponse
  <2>6. /\ s2c' # <<>>
        /\ s2c = <<>> => Head(s2c') = AuthenticationResponse(conn, ok)
        /\ s2c # <<>> => Head(s2c') = Head(s2c)
    BY <2>3, AppendHead DEF TypeOK
  <2>7. ws = "open" /\ (s2c # <<>> =>
          Head(s2c).t \in EndOfStream \/ (Head(s2c).t = "authenticationResponse" /\ Head(s2c).cid = conn))
    BY <2>1, Zenon DEF AwaitsAnswer
  <2> QED BY <2>1, <2>4, <2>5, <2>6, <2>7, Zenon DEF AwaitsAnswer
<1>4. CASE ServerRestartsSession \/ \E t \in Pushed : ServerPushes(t)
  BY <1>4, AppendHead
     DEF ServerRestartsSession, ServerPushes, ServerOnly, AwaitsAnswer, TypeOK
<1>5. ASSUME NEW ec \in EndOfStream, LinkEnds(ec) PROVE AwaitsAnswer'
  <2>1. pc = "authenticating" /\ ws' = ws /\ conn' = conn /\ srv' = NoSession /\ c2s' = <<>>
    BY <1>5 DEF LinkEnds, ServerOnly
  <2>2. s2c' # <<>> /\ (Head(s2c') = Kind(ec) \/ (s2c # <<>> /\ Head(s2c') = Head(s2c)))
    <3>1. PICK n \in 0..Len(s2c) :
            /\ DOMAIN s2c' = 1..(n + 1)
            /\ s2c'[n + 1] = Kind(ec)
            /\ \A i \in 1..n : i \in DOMAIN s2c /\ s2c'[i] = s2c[i]
      BY <1>5, LinkEndsElements
    <3>2. s2c' \in Seq(ServerMsg) /\ n \in Nat /\ 1 \in DOMAIN s2c'
      BY <1>5, <3>1, MessageTypes DEF LinkEnds, TypeOK
    <3>3. s2c' # <<>> /\ Head(s2c') = s2c'[1]
      BY <3>2
    <3>4. CASE n = 0
      BY <3>1, <3>3, <3>4
    <3>5. CASE n > 0
      <4>1. 1 \in 1..n
        BY <3>2, <3>5
      <4>2. 1 \in DOMAIN s2c /\ s2c'[1] = s2c[1]
        BY <3>1, <4>1
      <4> QED BY <3>3, <4>2 DEF TypeOK
    <3> QED BY <3>2, <3>4, <3>5
  <2> QED BY <2>1, <2>2 DEF AwaitsAnswer, Kind, NoSession
<1>6. CASE UNCHANGED vars
  BY <1>6 DEF AwaitsAnswer
<1> QED BY <1>1, <1>2, <1>3, <1>4, <1>5, <1>6 DEF Next, Environment

\* While the session is accepted, a refusal not yet read is followed by a
\* later answer.
LEMMA LatestAnswerStep == TypeOK /\ LatestAnswer /\ [Next]_vars => LatestAnswer'
<1> SUFFICES ASSUME TypeOK, LatestAnswer, [Next]_vars PROVE LatestAnswer'
  OBVIOUS
<1>1. CASE Connect \/ ConnectFails
  BY <1>1 DEF Connect, ConnectFails, LatestAnswer, NewSession, NoSession
<1>2. CASE \/ BeginRead
           \/ \E q \in Quotes, k \in 0..1 : Subscribe(q, k) \/ Unsubscribe(q, k)
           \/ ClientReads
  <2>1. CASE srv' = NoSession
    BY <2>1 DEF LatestAnswer, NoSession
  <2>2. CASE srv' = srv /\ s2c' = s2c
    BY <2>2 DEF LatestAnswer
  <2>3. CASE srv' = srv /\ s2c # <<>> /\ s2c' = Tail(s2c)
    <3> SUFFICES ASSUME srv.authed, NEW i \in DOMAIN s2c',
                        s2c'[i].t = "authenticationResponse" /\ ~s2c'[i].Result
                 PROVE  \E j \in DOMAIN s2c' : j > i /\ s2c'[j].t = "authenticationResponse"
      BY <2>3 DEF LatestAnswer
    <3>1. PICK j \in DOMAIN s2c : j > i + 1 /\ s2c[j].t = "authenticationResponse"
      BY <2>3, TailElements DEF LatestAnswer, TypeOK
    <3>2. i \in Nat /\ j \in 1..Len(s2c) /\ j - 1 \in DOMAIN s2c' /\ j - 1 > i
      BY <2>3, <3>1, TailElements DEF TypeOK
    <3>3. s2c'[j - 1] = s2c[j]
      BY <2>3, <3>2, TailElements DEF TypeOK
    <3> QED BY <3>1, <3>2, <3>3
  <2> QED BY <1>2, <2>1, <2>2, <2>3, ClientStep
<1>3. ASSUME NEW m, s2c' = Append(s2c, m), m.t # "authenticationResponse", srv'.authed = srv.authed
      PROVE  LatestAnswer'
  <2>1. /\ DOMAIN s2c' = 1..(Len(s2c) + 1) /\ DOMAIN s2c = 1..Len(s2c) /\ Len(s2c) \in Nat
        /\ s2c'[Len(s2c) + 1] = m
        /\ \A i \in DOMAIN s2c : i \in DOMAIN s2c' /\ s2c'[i] = s2c[i]
    BY <1>3, AppendElements DEF TypeOK
  <2>2. \A i \in DOMAIN s2c' : i \in DOMAIN s2c \/ i = Len(s2c) + 1
    BY <2>1
  <2>3. ASSUME srv'.authed, NEW i \in DOMAIN s2c',
               s2c'[i].t = "authenticationResponse", ~s2c'[i].Result
        PROVE  \E j \in DOMAIN s2c' : j > i /\ s2c'[j].t = "authenticationResponse"
    <3>1. i # Len(s2c) + 1
      BY <1>3, <2>1, <2>3, Zenon
    <3>2. i \in DOMAIN s2c /\ s2c'[i] = s2c[i]
      BY <2>1, <2>2, <3>1, Zenon
    <3>3. PICK j \in DOMAIN s2c : j > i /\ s2c[j].t = "authenticationResponse"
      BY <1>3, <2>3, <3>2, Zenon DEF LatestAnswer
    <3> QED BY <2>1, <3>3, Zenon
  <2> QED BY <2>3, Zenon DEF LatestAnswer
<1>4. CASE ServerHandles
  <2>1. CASE Head(c2s).action = "authentication"
    <3>1. PICK ok \in BOOLEAN : /\ srv' = [NewSession EXCEPT !.authed = ok]
                                /\ s2c' = Append(s2c, AuthenticationResponse(conn, ok))
      BY <1>4, <2>1 DEF ServerHandles
    <3>2. CASE ok = FALSE
      BY <3>1, <3>2 DEF LatestAnswer, NewSession, NoSession
    <3>3. CASE ok = TRUE
      <4> DEFINE m == AuthenticationResponse(conn, ok)
      <4>0. s2c' = Append(s2c, m) /\ m.t = "authenticationResponse" /\ m.Result = ok
        BY <3>1 DEF AuthenticationResponse
      <4> HIDE DEF m
      <4>1. /\ DOMAIN s2c' = 1..(Len(s2c) + 1) /\ Len(s2c) \in Nat
            /\ s2c'[Len(s2c) + 1] = m
        BY <4>0, AppendElements DEF TypeOK
      <4>2. Len(s2c) + 1 \in DOMAIN s2c'
        BY <4>1
      <4>3. \A i \in DOMAIN s2c' : Len(s2c) + 1 > i \/ i = Len(s2c) + 1
        BY <4>1
      <4> SUFFICES ASSUME NEW i \in DOMAIN s2c', ~s2c'[i].Result
                   PROVE  \E j \in DOMAIN s2c' : j > i /\ s2c'[j].t = "authenticationResponse"
        BY Zenon DEF LatestAnswer
      <4>4. i # Len(s2c) + 1
        BY <3>3, <4>0, <4>1, Zenon
      <4>5. Len(s2c) + 1 > i
        BY <4>3, <4>4, Zenon
      <4> QED BY <4>0, <4>1, <4>2, <4>5, Zenon
    <3> QED BY <3>2, <3>3
  <2>2. CASE Head(c2s).action # "authentication"
    <3>1. srv'.authed = srv.authed
      BY <1>4, <2>2 DEF ServerHandles, TypeOK, Session
    <3>2. \/ s2c' = s2c
          \/ \E m : m.t # "authenticationResponse" /\ s2c' = Append(s2c, m)
      <4>1. CASE s2c' = Append(s2c, [t |-> "reconnectResponse", cid |-> conn])
        BY <4>1
      <4>2. ASSUME NEW e \in BOOLEAN, NEW c \in BOOLEAN,
                   s2c' = Append(s2c, [t |-> "subscribeResponse", HasError |-> e, Current |-> c])
            PROVE  \E m : m.t # "authenticationResponse" /\ s2c' = Append(s2c, m)
        BY <4>2
      <4> QED BY <1>4, <2>2, <4>1, <4>2 DEF ServerHandles
    <3> QED BY <1>3, <3>1, <3>2 DEF LatestAnswer
  <2> QED BY <2>1, <2>2
<1>5. CASE ServerRestartsSession
  BY <1>5 DEF ServerRestartsSession, LatestAnswer, NewSession, NoSession
<1>6. ASSUME NEW t \in Pushed, ServerPushes(t) PROVE LatestAnswer'
  <2>1. Kind(t).t # "authenticationResponse"
    BY PushedAssumption DEF PushedKinds, EventOf, Kind
  <2> QED BY <1>3, <1>6, <2>1 DEF ServerPushes
<1>7. ASSUME NEW ec \in EndOfStream, LinkEnds(ec) PROVE LatestAnswer'
  BY <1>7 DEF LinkEnds, LatestAnswer, NoSession
<1>8. CASE UNCHANGED vars
  BY <1>8 DEF LatestAnswer
<1> QED BY <1>1, <1>2, <1>4, <1>5, <1>6, <1>7, <1>8 DEF Next, Application, Environment

\* What there is to hear from the client after a handler has written msgs:
\* what there was, and what it wrote.
LEMMA TransmitWrites ==
    ASSUME TypeOK, NEW msgs \in Seq(ClientMsg), NEW k, Transmit(msgs, k)
    PROVE  /\ ws' = "open" => ws = "open" /\ srv' = srv
           /\ \A i \in DOMAIN c2s' :
                \/ i \in DOMAIN c2s /\ c2s'[i] = c2s[i]
                \/ i > Len(c2s) /\ \E j \in DOMAIN msgs : c2s'[i] = msgs[j]
<1>1. ws' = "open" => ws = "open" /\ srv' = srv
  BY DEF Transmit, TypeOK
<1>2. c2s' \in {c2s, <<>>, c2s \o msgs}
  BY DEF Transmit
<1>3. ASSUME c2s' = c2s \o msgs, NEW i \in DOMAIN c2s', i \notin DOMAIN c2s
      PROVE  i > Len(c2s) /\ \E j \in DOMAIN msgs : c2s'[i] = msgs[j]
  <2>1. i - Len(c2s) \in DOMAIN msgs /\ Len(c2s) + (i - Len(c2s)) = i
    BY <1>3, ConcatElements DEF TypeOK
  <2>2. c2s'[i] = msgs[i - Len(c2s)]
    BY <1>3, <2>1, ConcatElements DEF TypeOK
  <2>3. i > Len(c2s)
    BY <2>1 DEF TypeOK
  <2> QED BY <2>1, <2>2, <2>3
<1>4. c2s' = c2s \o msgs => \A i \in DOMAIN c2s : c2s'[i] = c2s[i]
  BY ConcatElements DEF TypeOK
<1> QED BY <1>1, <1>2, <1>3, <1>4

\* What the handlers other than connect's write.
LEMMA RequestTypes ==
    /\ \A q \in Quotes : /\ <<ForQuote("subscribe", q)>> \in Seq(ClientMsg)
                         /\ UnsubscribeRequest(q) \in Seq(ClientMsg)
    /\ <<Plain("heartbeat")>> \in Seq(ClientMsg)
    /\ <<Plain("authentication")>> \in Seq(ClientMsg)
BY MessageTypes DEF UnsubscribeRequest

\* The reply to an accepted authentication is never empty.
LEMMA ReplyNotEmpty == ASSUME TypeOK PROVE Len(AuthenticationReply) # 0
<1>1. ReconnectRequest \in Seq(ClientMsg) /\ <<Plain("options")>> \in Seq(ClientMsg)
  BY MessageTypes DEF ReconnectRequest, TypeOK
<1>2. Resubscription \in [1..Len(subscribed_) -> ClientMsg]
  BY MessageTypes DEF Resubscription, TypeOK
<1>3. Resubscription \in Seq(ClientMsg)
  BY <1>2 DEF TypeOK
<1> QED BY <1>1, <1>3 DEF AuthenticationReply

\* A connect() that was refused, or not answered yet, has nothing to come
\* after the answer.
LEMMA RefusalIsLastStep ==
    TypeOK /\ AwaitsGreeting /\ AwaitsAnswer /\ RefusalIsLast /\ [Next]_vars => RefusalIsLast'
<1> SUFFICES ASSUME TypeOK, AwaitsGreeting, AwaitsAnswer, RefusalIsLast, [Next]_vars,
                    pc' = "authenticating"
             PROVE  RefusalIsLast'
  BY DEF RefusalIsLast
<1>1. CASE Application \/ (ClientReads /\ ~\E k \in Writes : ReadConnectResponse(k))
  BY <1>1, ClientMoves DEF Application, ClientReads, Connect
<1>2. ASSUME NEW k \in Writes, ReadConnectResponse(k) PROVE RefusalIsLast'
  <2>1. k = 1 /\ pc = "connecting"
    BY <1>2 DEF ReadConnectResponse, Return
  <2>2. Transmit(<<Plain("authentication")>>, 1)
    BY <1>2, <2>1 DEF ReadConnectResponse
  <2>3. srv' = srv /\ ~srv'.authed
    BY <2>1, <2>2 DEF Transmit, AwaitsGreeting
  <2>4. s2c # <<>> /\ s2c' = Tail(s2c)
    BY <1>2 DEF ReadConnectResponse, Receives
  <2>5. \A i \in DOMAIN s2c' : s2c'[i].t \in EndOfStream
    BY <2>1, <2>4, TailElements DEF AwaitsGreeting, TypeOK
  <2>6. EndOfStream \cap HandshakeKinds = {}
    BY DEF EndOfStream, HandshakeKinds
  <2>7. s2c' # <<>> => Head(s2c') = s2c'[1] /\ 1 \in DOMAIN s2c'
    BY <2>4 DEF TypeOK
  <2> QED BY <2>3, <2>5, <2>6, <2>7 DEF RefusalIsLast, HandshakeKinds
<1>3. CASE ServerHandles
  <2>1. pc = "authenticating"
    BY <1>3 DEF ServerHandles, ServerOnly
  <2>2. c2s = <<Plain("authentication")>> /\ Head(c2s) = Plain("authentication") /\ c2s # <<>>
    BY <1>3, <2>1 DEF ServerHandles, AwaitsAnswer
  <2>3. PICK ok \in BOOLEAN : /\ s2c' = Append(s2c, AuthenticationResponse(conn, ok))
                              /\ srv' = [NewSession EXCEPT !.authed = ok]
    BY <1>3, <2>2 DEF ServerHandles, Plain
  <2>4. c2s' = <<>>
    BY <1>3, <2>2 DEF ServerHandles
  <2>5. \A i \in DOMAIN s2c : s2c[i].t \notin HandshakeKinds
    BY <2>1, <2>2 DEF RefusalIsLast
  <2>6. CASE s2c = <<>>
    <3>1. s2c' = <<AuthenticationResponse(conn, ok)>>
      BY <2>3, <2>6
    <3>2. Head(s2c') = AuthenticationResponse(conn, ok) /\ DOMAIN s2c' = {1}
      BY <3>1
    <3>3. Head(s2c').Result = ok
      BY <3>2 DEF AuthenticationResponse
    <3>4. ~ok => ~srv'.authed
      BY <2>3 DEF NewSession, NoSession
    <3> QED BY <2>4, <3>2, <3>3, <3>4 DEF RefusalIsLast
  <2>7. CASE s2c # <<>>
    <3>1. Head(s2c') = Head(s2c) /\ Head(s2c) = s2c[1] /\ 1 \in DOMAIN s2c
      BY <2>3, <2>7, AppendHead DEF TypeOK
    <3>2. Head(s2c').t # "authenticationResponse"
      BY <2>5, <3>1 DEF HandshakeKinds
    <3> QED BY <2>4, <3>2 DEF RefusalIsLast
  <2> QED BY <2>6, <2>7
<1>4. CASE ServerRestartsSession \/ \E t \in Pushed : ServerPushes(t)
  <2>1. pc = "authenticating" /\ srv.authed /\ c2s' = c2s /\ \E m : s2c' = Append(s2c, m)
    BY <1>4 DEF ServerRestartsSession, ServerPushes, ServerOnly
  <2>2. c2s = <<>> /\ s2c # <<>>
    BY <2>1 DEF RefusalIsLast, AwaitsAnswer
  <2>3. ~(Head(s2c).t = "authenticationResponse" /\ ~Head(s2c).Result)
    BY <2>1, <2>2 DEF RefusalIsLast
  <2>4. Head(s2c') = Head(s2c)
    BY <2>1, <2>2, AppendHead DEF TypeOK
  <2> QED BY <2>1, <2>2, <2>3, <2>4 DEF RefusalIsLast
<1>5. ASSUME NEW ec \in EndOfStream, LinkEnds(ec) PROVE RefusalIsLast'
  <2>1. pc = "authenticating" /\ srv' = NoSession /\ c2s' = <<>>
    BY <1>5 DEF LinkEnds, ServerOnly
  <2>2. PICK n \in 0..Len(s2c) :
          /\ DOMAIN s2c' = 1..(n + 1)
          /\ s2c'[n + 1] = Kind(ec)
          /\ \A i \in 1..n : i \in DOMAIN s2c /\ s2c'[i] = s2c[i]
    BY <1>5, LinkEndsElements
  <2>3. n \in Nat /\ Head(s2c') = s2c'[1] /\ Kind(ec).t \notin HandshakeKinds
    <3>1. s2c' \in Seq(ServerMsg) /\ n \in Nat /\ 1 \in DOMAIN s2c'
      BY <1>5, <2>2, MessageTypes DEF LinkEnds, TypeOK
    <3> QED BY <3>1 DEF Kind, EndOfStream, HandshakeKinds
  <2>4. ASSUME Head(s2c').t = "authenticationResponse", ~Head(s2c').Result,
               NEW i \in DOMAIN s2c', i > 1
        PROVE  s2c'[i].t \notin HandshakeKinds
    <3>1. n # 0
      BY <2>2, <2>3, <2>4 DEF HandshakeKinds
    <3>2. 1 \in DOMAIN s2c /\ s2c'[1] = s2c[1]
      <4>1. 1 \in 1..n
        BY <2>3, <3>1
      <4> QED BY <2>2, <4>1
    <3>3. s2c # <<>> /\ Head(s2c) = s2c[1]
      BY <3>2 DEF TypeOK
    <3>4. \A j \in DOMAIN s2c : j > 1 => s2c[j].t \notin HandshakeKinds
      BY <2>1, <2>3, <2>4, <3>2, <3>3 DEF RefusalIsLast
    <3>5. i = n + 1 \/ i \in 1..n
      BY <2>2, <2>3
    <3> QED BY <2>2, <2>3, <2>4, <3>4, <3>5
  <2> QED BY <2>1, <2>4 DEF RefusalIsLast, NoSession
<1>6. CASE UNCHANGED vars
  BY <1>6 DEF RefusalIsLast
<1> QED BY <1>1, <1>2, <1>3, <1>4, <1>5, <1>6 DEF Next, Environment

\* Out of connect(), the id remembered is that of this connection, or no
\* handshake will follow.
LEMMA AcceptedOrSilentStep ==
    /\ TypeOK /\ Ids /\ AwaitsAnswer /\ RefusalIsLast /\ AcceptedOrSilent /\ [Next]_vars
    => AcceptedOrSilent'
<1> DEFINE Silent ==
      /\ ~srv.authed
      /\ \A i \in DOMAIN s2c : s2c[i].t \notin HandshakeKinds
      /\ \A i \in DOMAIN c2s : c2s[i].action # "authentication"
<1> SUFFICES ASSUME TypeOK, Ids, AwaitsAnswer, RefusalIsLast, AcceptedOrSilent, [Next]_vars,
                    pc' \in {"idle", "reading"}, ws' = "open", connection_id_' # conn'
             PROVE  Silent'
  BY DEF AcceptedOrSilent
<1>1. (pc \in {"idle", "reading"} /\ ws = "open" /\ connection_id_ # conn) => Silent
  BY DEF AcceptedOrSilent
<1>2. ASSUME Silent, srv' = srv, s2c' = s2c \/ (s2c # <<>> /\ s2c' = Tail(s2c)),
             \A i \in DOMAIN c2s' : \/ i \in DOMAIN c2s /\ c2s'[i] = c2s[i]
                                    \/ c2s'[i].action # "authentication"
      PROVE  Silent'
  BY <1>2, TailElements DEF TypeOK
<1> HIDE DEF Silent
<1>3. CASE Connect \/ ConnectFails
  BY <1>3 DEF Connect, ConnectFails
<1>4. CASE BeginRead
  BY <1>1, <1>2, <1>4 DEF BeginRead
<1>5. ASSUME NEW q \in Quotes, NEW k \in 0..1, Subscribe(q, k) \/ Unsubscribe(q, k) PROVE Silent'
  <2>1. /\ pc = "idle" /\ connection_id_' = connection_id_ /\ conn' = conn /\ s2c' = s2c
        /\ \/ UNCHANGED <<ws, srv, c2s>>
           \/ Transmit(<<ForQuote("subscribe", q)>>, k)
           \/ Transmit(UnsubscribeRequest(q), k)
    BY <1>5 DEF Subscribe, Unsubscribe
  <2>2. /\ \A i \in DOMAIN <<ForQuote("subscribe", q)>> :
             <<ForQuote("subscribe", q)>>[i].action # "authentication"
        /\ \A i \in DOMAIN UnsubscribeRequest(q) :
             UnsubscribeRequest(q)[i].action # "authentication"
    BY DEF ForQuote, UnsubscribeRequest
  <2>3. CASE UNCHANGED <<ws, srv, c2s>>
    BY <1>1, <1>2, <2>1, <2>3
  <2>4. CASE Transmit(<<ForQuote("subscribe", q)>>, k)
    BY <1>1, <1>2, <2>1, <2>2, <2>4, TransmitWrites, RequestTypes
  <2>5. CASE Transmit(UnsubscribeRequest(q), k)
    BY <1>1, <1>2, <2>1, <2>2, <2>5, TransmitWrites, RequestTypes
  <2> QED BY <2>1, <2>3, <2>4, <2>5
<1>6. ASSUME NEW k \in Writes, ReadConnectResponse(k) PROVE Silent'
  BY <1>6 DEF ReadConnectResponse, Receives, Transmit
<1>7. ASSUME NEW k \in Writes, ReadAuthenticationResponse(k) PROVE Silent'
  <2>1. PICK m \in ToSet(s2c) :
          /\ Receives(m)
          /\ m.t = "authenticationResponse"
          /\ \/ AuthenticationRefused(m)
             \/ AcceptConnectionId(m.cid, k) /\ Transmit(AuthenticationReply, k)
    BY <1>7 DEF ReadAuthenticationResponse
  <2>2. s2c # <<>> /\ 1 \in DOMAIN s2c /\ m = s2c[1] /\ m = Head(s2c) /\ s2c' = Tail(s2c)
    BY <2>1, ReceivedElement
  <2>3. CASE AuthenticationRefused(m)
    <3>1. pc = "authenticating" /\ ~m.Result /\ srv' = srv /\ c2s' = c2s
      BY <1>7, <2>3 DEF ReadAuthenticationResponse, AuthenticationRefused
    <3>2. /\ ~srv.authed /\ c2s = <<>>
          /\ \A i \in DOMAIN s2c : i > 1 => s2c[i].t \notin HandshakeKinds
      BY <2>1, <2>2, <3>1 DEF RefusalIsLast
    <3>3. \A i \in DOMAIN s2c' : i + 1 \in DOMAIN s2c /\ i + 1 > 1 /\ s2c'[i] = s2c[i + 1]
      BY <2>2, TailElements DEF TypeOK
    <3> QED BY <3>1, <3>2, <3>3 DEF Silent
  <2>4. CASE AcceptConnectionId(m.cid, k) /\ Transmit(AuthenticationReply, k)
    <3>1. m.cid = conn /\ conn' = conn
      BY <1>7, <2>1, <2>2 DEF ReadAuthenticationResponse, Ids, HandshakeKinds
    <3>2. k = 0
      BY <2>4, <3>1 DEF AcceptConnectionId
    <3>3. k # Len(AuthenticationReply)
      BY <3>2, ReplyNotEmpty
    <3> QED BY <2>4, <3>3 DEF Transmit
  <2> QED BY <2>1, <2>3, <2>4
<1>8. ASSUME NEW k \in Writes, ReadMessage(k) PROVE Silent'
  <2>1. PICK m \in ToSet(s2c) :
          /\ Receives(m)
          /\ \/ process_heartbeat(m, k)
             \/ process_connect_response(m, k)
             \/ process_authentication_response(m, k)
             \/ k = 0 /\ process_reconnect_response(m)
             \/ k = 0 /\ process_subscribe_response(m)
             \/ k = 0 /\ process_event(m)
    BY <1>8, ReadMessageCases
  <2>2. s2c # <<>> /\ 1 \in DOMAIN s2c /\ m = s2c[1] /\ s2c' = Tail(s2c)
    BY <2>1, ReceivedElement
  <2>3. pc = "reading" /\ conn' = conn /\ ws = "open"
    BY <1>8, <2>1 DEF ReadMessage, Receives
  <2>4. connection_id_' \in {connection_id_, conn}
    BY <2>1, <2>2
       DEF process_heartbeat, process_connect_response, process_authentication_response,
           process_reconnect_response, process_subscribe_response, process_event,
           AuthenticationRefused, AcceptConnectionId, Ids, HandshakeKinds
  <2>5. Silent
    BY <1>1, <2>3, <2>4
  <2>6. m.t \notin HandshakeKinds
    BY <2>2, <2>5 DEF Silent
  <2>7. \/ UNCHANGED <<srv, c2s>>
        \/ Transmit(<<Plain("heartbeat")>>, k)
    BY <2>1, <2>6
       DEF process_heartbeat, process_connect_response, process_authentication_response,
           process_reconnect_response, process_subscribe_response, process_event, Answer,
           HandshakeKinds
  <2>8. \A i \in DOMAIN <<Plain("heartbeat")>> : <<Plain("heartbeat")>>[i].action # "authentication"
    BY DEF Plain
  <2>9. CASE Transmit(<<Plain("heartbeat")>>, k)
    BY <1>2, <2>2, <2>5, <2>8, <2>9, TransmitWrites, RequestTypes
  <2> QED BY <1>2, <2>2, <2>5, <2>7, <2>9
<1>9. ASSUME NEW ec, ReadFails(ec) PROVE Silent'
  BY <1>9 DEF ReadFails
<1>10. CASE ServerHandles
  <2>1. Silent
    BY <1>1, <1>10 DEF ServerHandles, ServerOnly
  <2>2. c2s # <<>> /\ Head(c2s) = c2s[1] /\ 1 \in DOMAIN c2s /\ c2s' = Tail(c2s)
    BY <1>10 DEF ServerHandles, TypeOK
  <2>3. Head(c2s).action # "authentication" /\ ~srv.authed
    BY <2>1, <2>2 DEF Silent
  <2>4. srv' = srv /\ s2c' = s2c
    BY <1>10, <2>3 DEF ServerHandles
  <2>5. \A i \in DOMAIN c2s' : i + 1 \in DOMAIN c2s /\ c2s'[i] = c2s[i + 1]
    BY <2>2, TailElements DEF TypeOK
  <2> QED BY <2>1, <2>4, <2>5 DEF Silent
<1>11. CASE ServerRestartsSession \/ \E t \in Pushed : ServerPushes(t)
  BY <1>1, <1>11 DEF ServerRestartsSession, ServerPushes, ServerOnly, Silent
<1>12. ASSUME NEW ec \in EndOfStream, LinkEnds(ec) PROVE Silent'
  <2>1. Silent /\ srv' = NoSession /\ c2s' = <<>>
    BY <1>1, <1>12 DEF LinkEnds, ServerOnly
  <2>2. PICK n \in 0..Len(s2c) :
          /\ DOMAIN s2c' = 1..(n + 1)
          /\ s2c'[n + 1] = Kind(ec)
          /\ \A i \in 1..n : i \in DOMAIN s2c /\ s2c'[i] = s2c[i]
    BY <1>12, LinkEndsElements
  <2>3. \A i \in DOMAIN s2c' : i = n + 1 \/ i \in 1..n
    BY <2>2 DEF TypeOK
  <2>4. Kind(ec).t \notin HandshakeKinds
    BY DEF Kind, EndOfStream, HandshakeKinds
  <2> QED BY <2>1, <2>2, <2>3, <2>4 DEF Silent, NoSession
<1>13. CASE UNCHANGED vars
  BY <1>1, <1>2, <1>13
<1> QED BY <1>3, <1>4, <1>5, <1>6, <1>7, <1>8, <1>9, <1>10, <1>11, <1>12, <1>13
        DEF Next, Application, ClientReads, Environment

\* The inductive strengthening behind the safety theorems: what the parts of
\* Structure say of the link, the session and the messages in flight.
THEOREM StructureInvariant == Spec => []Structure
<1>1. Init => Structure
  BY DEF Init, Structure, EndMeansDown, DeadLink, NoDuplicates, Unaccepted, Ids, AwaitsGreeting,
         AwaitsAnswer, LatestAnswer, RefusalIsLast, AcceptedOrSilent, NoSession
<1>2. TypeOK /\ Structure /\ [Next]_vars => Structure'
  BY EndMeansDownStep, DeadLinkStep, NoDuplicatesStep, UnacceptedStep, IdsStep,
     AwaitsGreetingStep, AwaitsAnswerStep, LatestAnswerStep, RefusalIsLastStep,
     AcceptedOrSilentStep DEF Structure
<1> QED BY <1>1, <1>2, TypeCorrect, PTL DEF Spec

\* connect() reads what it expects, on every connection.
THEOREM HandshakeSafe == Spec => []HandshakeInOrder
<1>1. TypeOK /\ Structure => HandshakeInOrder
  <2> SUFFICES ASSUME TypeOK, Structure, s2c # <<>> PROVE HandshakeInOrder
    BY DEF HandshakeInOrder
  <2>1. 1 \in DOMAIN s2c /\ Head(s2c) = s2c[1]
    BY DEF TypeOK
  <2> QED BY <2>1 DEF Structure, AwaitsGreeting, AwaitsAnswer, HandshakeInOrder
<1> QED BY <1>1, TypeCorrect, StructureInvariant, PTL

-----------------------------------------------------------------------------
(* What the server is told: lemmas about sequences of messages              *)

\* With nothing more to read, the server ends up as it is.
LEMMA EndsUpEmpty ==
    ASSUME NEW q, NEW told \in BOOLEAN
    PROVE  EndsUp(q, <<>>, told, told)
BY DEF EndsUp

\* Messages that say nothing about q change nothing for q.
LEMMA EndsUpOther ==
    ASSUME NEW S, NEW c \in Seq(S), NEW d \in Seq(S), NEW q, NEW told \in BOOLEAN,
           NEW wanted \in BOOLEAN,
           EndsUp(q, c, told, wanted), \A i \in DOMAIN d : ~About(d[i], q)
    PROVE  EndsUp(q, c \o d, told, wanted)
<1>1. \A i \in DOMAIN (c \o d) : About((c \o d)[i], q) => i \in DOMAIN c /\ (c \o d)[i] = c[i]
  <2> SUFFICES ASSUME NEW i \in DOMAIN (c \o d), About((c \o d)[i], q)
               PROVE  i \in DOMAIN c /\ (c \o d)[i] = c[i]
    OBVIOUS
  <2>1. CASE i \in DOMAIN c
    BY <2>1, ConcatElements
  <2>2. CASE i \notin DOMAIN c
    <3>1. i - Len(c) \in DOMAIN d /\ Len(c) + (i - Len(c)) = i
      BY <2>2, ConcatElements
    <3> QED BY <3>1, ConcatElements
  <2> QED BY <2>1, <2>2
<1>2. \A i \in DOMAIN c : i \in DOMAIN (c \o d) /\ (c \o d)[i] = c[i]
  BY ConcatElements
<1> QED BY <1>1, <1>2 DEF EndsUp

\* After messages that say about q what is wanted, and do say it, the server
\* ends up with it whatever it was told before.
LEMMA EndsUpTold ==
    ASSUME NEW S, NEW c \in Seq(S), NEW d \in Seq(S), NEW q, NEW told \in BOOLEAN,
           NEW wanted \in BOOLEAN,
           \E i \in DOMAIN d : About(d[i], q),
           \A i \in DOMAIN d : About(d[i], q) => (d[i] = ForQuote("subscribe", q) <=> wanted)
    PROVE  EndsUp(q, c \o d, told, wanted)
<1>1. PICK n \in DOMAIN d : About(d[n], q)
  OBVIOUS
<1>2. Len(c) + n \in DOMAIN (c \o d) /\ (c \o d)[Len(c) + n] = d[n]
  BY ConcatElements
<1>3. ASSUME NEW i \in DOMAIN (c \o d), About((c \o d)[i], q),
             \A j \in DOMAIN (c \o d) : j > i => ~About((c \o d)[j], q)
      PROVE  (c \o d)[i] = ForQuote("subscribe", q) <=> wanted
  <2>1. ~(Len(c) + n > i)
    BY <1>1, <1>2, <1>3
  <2>2. i - Len(c) \in DOMAIN d /\ Len(c) + (i - Len(c)) = i
    BY <2>1, ConcatElements
  <2>3. (c \o d)[i] = d[i - Len(c)]
    BY <2>2, ConcatElements
  <2> QED BY <1>3, <2>2, <2>3
<1> QED BY <1>1, <1>2, <1>3 DEF EndsUp

\* The server reads the next message: it is now told what that message says,
\* if it is about q.
LEMMA EndsUpTail ==
    ASSUME NEW S, NEW c \in Seq(S), c # <<>>, NEW q, NEW told \in BOOLEAN, NEW wanted \in BOOLEAN,
           EndsUp(q, c, told, wanted)
    PROVE  /\ ~About(Head(c), q) => EndsUp(q, Tail(c), told, wanted)
           /\ About(Head(c), q) => EndsUp(q, Tail(c), Head(c) = ForQuote("subscribe", q), wanted)
<1>1. /\ 1 \in DOMAIN c /\ Head(c) = c[1]
      /\ \A i \in DOMAIN Tail(c) : i + 1 \in DOMAIN c /\ Tail(c)[i] = c[i + 1]
      /\ \A i \in DOMAIN c : i = 1 \/ (i - 1 \in DOMAIN Tail(c) /\ Tail(c)[i - 1] = c[i])
      /\ \A i \in DOMAIN c : i \in Int
      /\ \A i \in DOMAIN Tail(c) : i \in Int
  OBVIOUS
<1>2. ASSUME NEW i \in DOMAIN Tail(c), About(Tail(c)[i], q),
             \A j \in DOMAIN Tail(c) : j > i => ~About(Tail(c)[j], q)
      PROVE  Tail(c)[i] = ForQuote("subscribe", q) <=> wanted
  <2>1. \A j \in DOMAIN c : j > i + 1 => ~About(c[j], q)
    <3> SUFFICES ASSUME NEW j \in DOMAIN c, j > i + 1 PROVE ~About(c[j], q)
      OBVIOUS
    <3>1. j - 1 \in DOMAIN Tail(c) /\ Tail(c)[j - 1] = c[j] /\ j - 1 > i
      BY <1>1
    <3> QED BY <1>2, <3>1
  <2> QED BY <1>1, <1>2, <2>1 DEF EndsUp
<1>3. CASE \E i \in DOMAIN Tail(c) : About(Tail(c)[i], q)
  BY <1>2, <1>3 DEF EndsUp
<1>4. CASE \A i \in DOMAIN Tail(c) : ~About(Tail(c)[i], q)
  <2>1. \A i \in DOMAIN c : i # 1 => ~About(c[i], q)
    BY <1>1, <1>4
  <2>2. CASE ~About(Head(c), q)
    BY <1>1, <1>4, <2>1, <2>2 DEF EndsUp
  <2>3. CASE About(Head(c), q)
    <3>1. Head(c) = ForQuote("subscribe", q) <=> wanted
      BY <1>1, <2>1, <2>3 DEF EndsUp
    <3> QED BY <1>4, <2>3, <3>1 DEF EndsUp
  <2> QED BY <2>2, <2>3
<1> QED BY <1>3, <1>4

\* Forgetting is what an unwanted quote needs.
LEMMA EndsUpForgotten ==
    ASSUME NEW q, NEW c, NEW told \in BOOLEAN, EndsUp(q, c, told, FALSE)
    PROVE  EndsUp(q, c, FALSE, FALSE)
BY DEF EndsUp

-----------------------------------------------------------------------------
(* What the server is told: the steps                                       *)

Told(q) == q \in srv.subs \cup srv.refused

\* A step that leaves the connection alive has made all its writes.
LEMMA TransmitAlive ==
    ASSUME TypeOK, DeadLink, NEW msgs, NEW k, Transmit(msgs, k), ws' = "open", srv'.up
    PROVE  k = Len(msgs) /\ srv' = srv /\ ws = "open" /\ srv.up /\ c2s' = c2s \o msgs
<1>1. CASE k = Len(msgs)
  BY <1>1 DEF Transmit, DeadLink
<1>2. CASE k # Len(msgs)
  BY <1>2 DEF Transmit, NoSession
<1> QED BY <1>1, <1>2

\* Which of the client's messages are about a quote.
LEMMA SaysNothing ==
    /\ \A a, q : a \notin {"subscribe", "unsubscribe"} => ~About(Plain(a), q)
    /\ \A n, q : ~About(Reconnect(n), q)
    /\ \A q, r : About(ForQuote("subscribe", r), q) <=> r = q
    /\ \A q, r : About(ForQuote("unsubscribe", r), q) <=> r = q
    /\ \A q, r : ForQuote("subscribe", q) # ForQuote("unsubscribe", r)
<1>1. \A a, q : Plain(a).action = a /\ ForQuote(a, q).action = a /\ ForQuote(a, q).quoteId = q
  BY DEF Plain, ForQuote
<1>2. \A n : Reconnect(n).action = "reconnect"
  BY DEF Reconnect
<1>3. \A n, q : ~About(Reconnect(n), q)
  BY <1>1, <1>2 DEF About
<1>4. \A q, r : /\ About(ForQuote("subscribe", r), q) <=> r = q
                /\ About(ForQuote("unsubscribe", r), q) <=> r = q
                /\ ForQuote("subscribe", q) # ForQuote("unsubscribe", r)
  BY <1>1 DEF About
<1>5. \A a, q : a \notin {"subscribe", "unsubscribe"} => ~About(Plain(a), q)
  BY <1>1 DEF About
<1> QED BY <1>3, <1>4, <1>5

\* The answer to an accepted authentication: what it says about each quote.
LEMMA ReplySays ==
    ASSUME TypeOK, NEW q
    PROVE  /\ \A i \in DOMAIN AuthenticationReply :
                About(AuthenticationReply[i], q)
                  => AuthenticationReply[i] = ForQuote("subscribe", q) /\ q \in ToSet(subscribed_)
           /\ q \in ToSet(subscribed_)
                => \E i \in DOMAIN AuthenticationReply : About(AuthenticationReply[i], q)
<1> DEFINE first == ReconnectRequest \o <<Plain("options")>>
<1>1. first \in Seq(ClientMsg) /\ Resubscription \in Seq(ClientMsg)
  <2>1. ReconnectRequest \in Seq(ClientMsg)
    BY MessageTypes DEF ReconnectRequest, TypeOK
  <2>2. <<Plain("options")>> \in Seq(ClientMsg)
    BY MessageTypes
  <2>3. Resubscription \in [1..Len(subscribed_) -> ClientMsg]
    BY MessageTypes DEF Resubscription, TypeOK
  <2> QED BY <2>1, <2>2, <2>3 DEF TypeOK
<1>2. \A i \in DOMAIN first : ~About(first[i], q)
  <2>1. ReconnectRequest \in Seq(ClientMsg) /\ <<Plain("options")>> \in Seq(ClientMsg)
    BY MessageTypes DEF ReconnectRequest, TypeOK
  <2>2. \A i \in DOMAIN ReconnectRequest : ~About(ReconnectRequest[i], q)
    BY SaysNothing DEF ReconnectRequest
  <2>3. ~About(Plain("options"), q)
    BY SaysNothing
  <2> SUFFICES ASSUME NEW i \in DOMAIN first PROVE ~About(first[i], q)
    OBVIOUS
  <2>4. CASE i \in DOMAIN ReconnectRequest
    BY <2>1, <2>2, <2>4, ConcatElements
  <2>5. CASE i \notin DOMAIN ReconnectRequest
    <3>1. i = Len(ReconnectRequest) + 1
      BY <2>1, <2>5, ConcatElements
    <3>2. first[i] = Plain("options")
      BY <2>1, <3>1, ConcatElements
    <3> QED BY <2>3, <3>2
  <2> QED BY <2>4, <2>5
<1>3. AuthenticationReply = first \o Resubscription
  BY DEF AuthenticationReply
<1>4. /\ DOMAIN Resubscription = DOMAIN subscribed_
      /\ \A i \in DOMAIN subscribed_ : Resubscription[i] = ForQuote("subscribe", subscribed_[i])
  BY DEF Resubscription
<1> HIDE DEF first
<1>5. ASSUME NEW i \in DOMAIN AuthenticationReply, About(AuthenticationReply[i], q)
      PROVE  AuthenticationReply[i] = ForQuote("subscribe", q) /\ q \in ToSet(subscribed_)
  <2>1. CASE i \in DOMAIN first
    BY <1>1, <1>2, <1>3, <1>5, <2>1, ConcatElements
  <2>2. CASE i \notin DOMAIN first
    <3>1. i - Len(first) \in DOMAIN Resubscription /\ Len(first) + (i - Len(first)) = i
      BY <1>1, <1>3, <2>2, ConcatElements
    <3>2. AuthenticationReply[i] = ForQuote("subscribe", subscribed_[i - Len(first)])
      BY <1>1, <1>3, <1>4, <3>1, ConcatElements
    <3> QED BY <1>4, <1>5, <3>1, <3>2, SaysNothing DEF ToSet
  <2> QED BY <2>1, <2>2
<1>6. ASSUME q \in ToSet(subscribed_)
      PROVE  \E i \in DOMAIN AuthenticationReply : About(AuthenticationReply[i], q)
  <2>1. PICK n \in DOMAIN subscribed_ : subscribed_[n] = q
    BY <1>6 DEF ToSet
  <2>2. /\ Len(first) + n \in DOMAIN AuthenticationReply
        /\ AuthenticationReply[Len(first) + n] = ForQuote("subscribe", q)
    BY <1>1, <1>3, <1>4, <2>1, ConcatElements
  <2> QED BY <2>2, SaysNothing
<1> QED BY <1>5, <1>6

\* The reconnect in the reply names the id remembered before the answer.
LEMMA ReplyReconnect ==
    ASSUME TypeOK
    PROVE  \A i \in DOMAIN AuthenticationReply :
             AuthenticationReply[i].action = "reconnect"
               => AuthenticationReply[i].originalConnectionId = connection_id_
<1>1. /\ ReconnectRequest \in Seq(ClientMsg) /\ <<Plain("options")>> \in Seq(ClientMsg)
      /\ Resubscription \in [1..Len(subscribed_) -> ClientMsg] /\ Resubscription \in Seq(ClientMsg)
  <2>1. Resubscription \in [1..Len(subscribed_) -> ClientMsg]
    BY MessageTypes DEF Resubscription, TypeOK
  <2>2. ReconnectRequest \in Seq(ClientMsg)
    BY MessageTypes DEF ReconnectRequest, TypeOK
  <2>3. <<Plain("options")>> \in Seq(ClientMsg)
    BY MessageTypes
  <2>4. Resubscription \in Seq(ClientMsg)
    BY <2>1 DEF TypeOK
  <2> QED BY <2>1, <2>2, <2>3, <2>4
<1>2. \A i \in DOMAIN ReconnectRequest : ReconnectRequest[i].originalConnectionId = connection_id_
  BY DEF ReconnectRequest, Reconnect
<1>3. \A i \in DOMAIN <<Plain("options")>> : <<Plain("options")>>[i].action # "reconnect"
  BY DEF Plain
<1>4. \A i \in DOMAIN Resubscription : Resubscription[i].action # "reconnect"
  BY DEF Resubscription, ForQuote
<1>5. ASSUME NEW s \in Seq(ClientMsg), NEW t \in Seq(ClientMsg),
             \A i \in DOMAIN s : s[i].action = "reconnect" => s[i].originalConnectionId = connection_id_,
             \A i \in DOMAIN t : t[i].action = "reconnect" => t[i].originalConnectionId = connection_id_,
             NEW i \in DOMAIN (s \o t), (s \o t)[i].action = "reconnect"
      PROVE  (s \o t)[i].originalConnectionId = connection_id_
  <2>1. CASE i \in DOMAIN s
    BY <1>5, <2>1, ConcatElements
  <2>2. CASE i \notin DOMAIN s
    <3>1. i - Len(s) \in DOMAIN t /\ Len(s) + (i - Len(s)) = i
      BY <1>5, <2>2, ConcatElements
    <3> QED BY <1>5, <3>1, ConcatElements
  <2> QED BY <2>1, <2>2
<1> DEFINE first == ReconnectRequest \o <<Plain("options")>>
<1>6. first \in Seq(ClientMsg)
  BY <1>1
<1>7. \A i \in DOMAIN first : first[i].action = "reconnect" => first[i].originalConnectionId = connection_id_
  BY <1>1, <1>2, <1>3, <1>5
<1> HIDE DEF first
<1>8. \A i \in DOMAIN (first \o Resubscription) :
        (first \o Resubscription)[i].action = "reconnect"
          => (first \o Resubscription)[i].originalConnectionId = connection_id_
  BY <1>1, <1>4, <1>5, <1>6, <1>7
<1> QED BY <1>8 DEF AuthenticationReply, first

\* Server steps other than an authentication keep what each quote ends up as.
LEMMA ServerHandlesKeeps ==
    ASSUME TypeOK, ServerHandles, srv.authed, Head(c2s).action # "authentication",
           NEW q \in Quotes, NEW wanted \in BOOLEAN, InStep(q, wanted)
    PROVE  InStep(q, wanted)'
<1> DEFINE m == Head(c2s)
<1>1. c2s # <<>> /\ c2s' = Tail(c2s) /\ c2s \in Seq(ClientMsg) /\ m \in ClientMsg
  BY DEF ServerHandles, TypeOK
<1>2. EndsUp(q, c2s, Told(q), wanted) /\ Told(q) \in BOOLEAN
  BY DEF InStep, Told
<1>3. /\ ~About(m, q) => EndsUp(q, c2s', Told(q), wanted)
      /\ About(m, q) => EndsUp(q, c2s', m = ForQuote("subscribe", q), wanted)
  BY <1>1, <1>2, EndsUpTail
<1>4. CASE About(m, q)
  <2>1. m.quoteId = q /\ m.action \in {"subscribe", "unsubscribe"}
    BY <1>4 DEF About, ForQuote
  <2>2. m = ForQuote("subscribe", q) <=> m.action = "subscribe"
    BY <1>4 DEF About, ForQuote
  <2>3. Told(q)' <=> m.action = "subscribe"
    <3>1. \/ srv' = [srv EXCEPT !.subs = @ \cup {q}, !.refused = @ \ {q}] /\ m.action = "subscribe"
          \/ srv' = [srv EXCEPT !.refused = @ \cup {q}] /\ m.action = "subscribe"
          \/ srv' = [srv EXCEPT !.subs = @ \ {q}, !.refused = @ \ {q}] /\ m.action = "unsubscribe"
      BY <2>1, Zenon DEF ServerHandles
    <3>2. srv \in [up : BOOLEAN, authed : BOOLEAN, subs : SUBSET Quotes, refused : SUBSET Quotes]
      BY Zenon DEF TypeOK, Session
    <3> HIDE DEF m
    <3>3. q \in srv'.subs \cup srv'.refused <=> m.action = "subscribe"
      BY <3>1, <3>2
    <3> QED BY <3>3, Zenon DEF Told
  <2> QED BY <1>3, <1>4, <2>2, <2>3 DEF InStep, Told, EndsUp
<1>5. CASE ~About(m, q)
  <2>1. m.action \in {"subscribe", "unsubscribe"} => m.quoteId # q
    BY <1>1, <1>5 DEF ClientMsg, About, ForQuote
  <2>2. ASSUME m.action \in {"subscribe", "unsubscribe"} PROVE Told(q)' <=> Told(q)
    <3>1. /\ srv'.subs \in {srv.subs, srv.subs \cup {m.quoteId}, srv.subs \ {m.quoteId}}
          /\ srv'.refused \in {srv.refused, srv.refused \cup {m.quoteId}, srv.refused \ {m.quoteId}}
      BY <2>2 DEF ServerHandles, TypeOK, Session
    <3> QED BY <2>1, <2>2, <3>1 DEF Told
  <2>3. ASSUME m.action \notin {"subscribe", "unsubscribe"} PROVE Told(q)' <=> Told(q)
    BY <2>3 DEF ServerHandles, Told
  <2>4. Told(q)' <=> Told(q)
    BY <2>2, <2>3
  <2> QED BY <1>3, <1>5, <2>4 DEF InStep, Told, EndsUp
<1> QED BY <1>4, <1>5

\* One message written by the client, and what it leaves of each quote.
LEMMA InStepWrite ==
    ASSUME TypeOK, NEW m \in ClientMsg, NEW q, NEW wanted \in BOOLEAN,
           srv' = srv, c2s' = c2s \o <<m>>
    PROVE  /\ ~About(m, q) /\ InStep(q, wanted) => InStep(q, wanted)'
           /\ About(m, q) /\ (m = ForQuote("subscribe", q) <=> wanted) => InStep(q, wanted)'
<1>1. <<m>> \in Seq(ClientMsg) /\ c2s \in Seq(ClientMsg) /\ DOMAIN <<m>> = {1} /\ <<m>>[1] = m
  BY DEF TypeOK
<1>2. Told(q)' = Told(q) /\ Told(q) \in BOOLEAN
  BY DEF Told
<1>3. ASSUME ~About(m, q), InStep(q, wanted) PROVE InStep(q, wanted)'
  <2>1. EndsUp(q, c2s, Told(q), wanted)
    BY <1>3 DEF InStep, Told
  <2>2. \A i \in DOMAIN <<m>> : ~About(<<m>>[i], q)
    BY <1>1, <1>3
  <2>3. EndsUp(q, c2s \o <<m>>, Told(q), wanted)
    BY <1>1, <1>2, <2>1, <2>2, EndsUpOther
  <2> QED BY <1>2, <2>3 DEF InStep, Told
<1>4. ASSUME About(m, q), m = ForQuote("subscribe", q) <=> wanted PROVE InStep(q, wanted)'
  <2>1. /\ \E i \in DOMAIN <<m>> : About(<<m>>[i], q)
        /\ \A i \in DOMAIN <<m>> : About(<<m>>[i], q) => (<<m>>[i] = ForQuote("subscribe", q) <=> wanted)
    BY <1>1, <1>4
  <2>2. EndsUp(q, c2s \o <<m>>, Told(q), wanted)
    BY <1>1, <1>2, <2>1, EndsUpTold
  <2> QED BY <1>2, <2>2 DEF InStep, Told
<1> QED BY <1>3, <1>4

\* The re-subscription: every quote ends up as the client has it.
LEMMA InStepReply ==
    ASSUME TypeOK, NEW q, srv' = srv, c2s' = c2s \o AuthenticationReply
    PROVE  /\ q \in ToSet(subscribed_) => InStep(q, TRUE)'
           /\ q \notin ToSet(subscribed_) /\ InStep(q, FALSE) => InStep(q, FALSE)'
<1>1. AuthenticationReply \in Seq(ClientMsg) /\ c2s \in Seq(ClientMsg)
  BY ReplyType DEF TypeOK
<1>2. Told(q)' = Told(q) /\ Told(q) \in BOOLEAN
  BY DEF Told
<1>3. ASSUME q \in ToSet(subscribed_) PROVE InStep(q, TRUE)'
  <2>1. /\ \E i \in DOMAIN AuthenticationReply : About(AuthenticationReply[i], q)
        /\ \A i \in DOMAIN AuthenticationReply :
             About(AuthenticationReply[i], q) => (AuthenticationReply[i] = ForQuote("subscribe", q) <=> TRUE)
    BY <1>3, ReplySays
  <2>2. EndsUp(q, c2s \o AuthenticationReply, Told(q), TRUE)
    BY <1>1, <1>2, <2>1, EndsUpTold
  <2> QED BY <1>2, <2>2 DEF InStep, Told
<1>4. ASSUME q \notin ToSet(subscribed_), InStep(q, FALSE) PROVE InStep(q, FALSE)'
  <2>1. \A i \in DOMAIN AuthenticationReply : ~About(AuthenticationReply[i], q)
    BY <1>4, ReplySays
  <2>2. EndsUp(q, c2s, Told(q), FALSE)
    BY <1>4 DEF InStep, Told
  <2>3. EndsUp(q, c2s \o AuthenticationReply, Told(q), FALSE)
    BY <1>1, <1>2, <2>1, <2>2, EndsUpOther
  <2> QED BY <1>2, <2>3 DEF InStep, Told
<1> QED BY <1>3, <1>4

\* No step of anyone makes a quote the client gave up wanted by the server.
LEMMA NoGhostStep ==
    TypeOK /\ Structure /\ NoGhostSubscription /\ [Next]_vars => NoGhostSubscription'
<1> SUFFICES ASSUME TypeOK, Structure, NoGhostSubscription, [Next]_vars, ws' = "open", srv'.up,
                    NEW q \in Quotes, q \notin ToSet(subscribed_')
             PROVE  InStep(q, FALSE)'
  BY DEF NoGhostSubscription
<1>1. DeadLink /\ NoDuplicates /\ Unaccepted
  BY DEF Structure
<1>2. ASSUME ws = "open", srv.up, q \notin ToSet(subscribed_) PROVE InStep(q, FALSE)
  BY <1>2 DEF NoGhostSubscription
<1>3. ASSUME c2s' = c2s, srv' = srv, InStep(q, FALSE) PROVE InStep(q, FALSE)'
  BY <1>3 DEF InStep
<1>4. ASSUME InStep(q, FALSE) PROVE EndsUp(q, c2s, FALSE, FALSE)
  <2>1. EndsUp(q, c2s, Told(q), FALSE)
    BY <1>4 DEF InStep, Told
  <2>2. Told(q) \in BOOLEAN
    BY DEF Told
  <2> QED BY <2>1, <2>2, EndsUpForgotten
<1>5. CASE Connect
  <2>1. c2s' = <<>> /\ ~Told(q)'
    BY <1>5 DEF Connect, NewSession, NoSession, Told
  <2>2. EndsUp(q, <<>>, FALSE, FALSE)
    BY EndsUpEmpty
  <2> QED BY <2>1, <2>2 DEF InStep, Told, EndsUp
<1>6. CASE ConnectFails
  BY <1>6 DEF ConnectFails
<1>7. CASE BeginRead
  BY <1>2, <1>3, <1>7 DEF BeginRead, DeadLink
<1>8. ASSUME NEW r \in Quotes, NEW k \in 0..1, Subscribe(r, k) PROVE InStep(q, FALSE)'
  <2>1. CASE UNCHANGED <<ws, subscribed_, srv, c2s>>
    BY <1>1, <1>2, <1>3, <2>1 DEF DeadLink
  <2>2. CASE subscribed_' = Append(subscribed_, r) /\ Transmit(<<ForQuote("subscribe", r)>>, k)
    <3>1. q # r /\ q \notin ToSet(subscribed_)
      <4>1. /\ r = subscribed_'[Len(subscribed_) + 1] /\ Len(subscribed_) + 1 \in DOMAIN subscribed_'
            /\ \A i \in DOMAIN subscribed_ :
                 i \in DOMAIN subscribed_' /\ subscribed_'[i] = subscribed_[i]
        BY <2>2 DEF TypeOK
      <4> QED BY <4>1 DEF ToSet
    <3>2. srv' = srv /\ ws = "open" /\ srv.up /\ c2s' = c2s \o <<ForQuote("subscribe", r)>>
      BY <1>1, <2>2, TransmitAlive
    <3>3. ForQuote("subscribe", r) \in ClientMsg /\ ~About(ForQuote("subscribe", r), q)
      BY <3>1, MessageTypes, SaysNothing
    <3> QED BY <1>2, <3>1, <3>2, <3>3, InStepWrite
  <2> QED BY <1>8, <2>1, <2>2 DEF Subscribe
<1>9. ASSUME NEW r \in Quotes, NEW k \in 0..1, Unsubscribe(r, k) PROVE InStep(q, FALSE)'
  <2>1. CASE UNCHANGED <<ws, subscribed_, srv, c2s>>
    BY <1>1, <1>2, <1>3, <2>1 DEF DeadLink
  <2>2. ASSUME NEW i \in DOMAIN subscribed_, subscribed_[i] = r,
               subscribed_' = RemoveAt(subscribed_, i), Transmit(UnsubscribeRequest(r), k)
        PROVE  InStep(q, FALSE)'
    <3>1. srv' = srv /\ ws = "open" /\ srv.up /\ c2s' = c2s \o <<ForQuote("unsubscribe", r)>>
      BY <1>1, <2>2, TransmitAlive DEF UnsubscribeRequest
    <3>2. ForQuote("unsubscribe", r) \in ClientMsg
      BY MessageTypes
    <3>3. CASE q = r
      BY <3>1, <3>2, <3>3, InStepWrite, SaysNothing
    <3>4. CASE q # r
      <4>1. q \notin ToSet(subscribed_)
        BY <2>2, <3>4, RemoveAtKeeps DEF TypeOK
      <4> QED BY <1>2, <3>1, <3>2, <3>4, <4>1, InStepWrite, SaysNothing
    <3> QED BY <3>3, <3>4
  <2> QED BY <1>9, <2>1, <2>2 DEF Unsubscribe
<1>10. ASSUME NEW k \in Writes, ReadConnectResponse(k) PROVE InStep(q, FALSE)'
  <2>1. /\ srv' = srv /\ ws = "open" /\ srv.up /\ c2s' = c2s \o <<Plain("authentication")>>
        /\ q \notin ToSet(subscribed_)
    BY <1>1, <1>10, TransmitAlive DEF ReadConnectResponse
  <2> QED BY <1>2, <2>1, InStepWrite, MessageTypes, SaysNothing
<1>11. ASSUME NEW k, q \notin ToSet(subscribed_), Transmit(AuthenticationReply, k)
       PROVE  InStep(q, FALSE)'
  <2>1. srv' = srv /\ ws = "open" /\ srv.up /\ c2s' = c2s \o AuthenticationReply
    BY <1>1, <1>11, TransmitAlive
  <2> QED BY <1>2, <1>11, <2>1, InStepReply
<1>12. ASSUME UNCHANGED <<ws, srv, c2s>>, q \notin ToSet(subscribed_) PROVE InStep(q, FALSE)'
  BY <1>2, <1>3, <1>12
<1>13. ASSUME NEW k \in Writes, ReadAuthenticationResponse(k) PROVE InStep(q, FALSE)'
  BY <1>11, <1>12, <1>13 DEF ReadAuthenticationResponse, AuthenticationRefused
<1>14. ASSUME NEW k \in Writes, ReadMessage(k) PROVE InStep(q, FALSE)'
  <2>1. q \notin ToSet(subscribed_)
    BY <1>14 DEF ReadMessage
  <2>2. ASSUME NEW a \in {"heartbeat", "authentication"}, Transmit(<<Plain(a)>>, k)
        PROVE  InStep(q, FALSE)'
    <3>1. srv' = srv /\ ws = "open" /\ srv.up /\ c2s' = c2s \o <<Plain(a)>>
      BY <1>1, <2>2, TransmitAlive
    <3> QED BY <1>2, <2>1, <3>1, InStepWrite, MessageTypes, SaysNothing
  <2> QED BY <1>11, <1>12, <1>14, <2>1, <2>2, ReadMessageCases
          DEF process_heartbeat, process_connect_response, process_authentication_response,
              process_reconnect_response, process_subscribe_response, process_event,
              AuthenticationRefused, Answer
<1>15. ASSUME NEW ec, ReadFails(ec) PROVE InStep(q, FALSE)'
  BY <1>15 DEF ReadFails
<1>16. CASE ServerHandles
  <2>1. InStep(q, FALSE) /\ EndsUp(q, c2s, FALSE, FALSE)
    BY <1>2, <1>4, <1>16 DEF ServerHandles, ServerOnly
  <2>2. c2s # <<>> /\ c2s \in Seq(ClientMsg) /\ c2s' = Tail(c2s)
    BY <1>16 DEF ServerHandles, TypeOK
  <2>3. CASE srv.authed /\ Head(c2s).action # "authentication"
    BY <1>16, <2>1, <2>3, ServerHandlesKeeps
  <2>4. CASE ~srv.authed \/ Head(c2s).action = "authentication"
    <3>1. ~Told(q)'
      BY <1>1, <1>16, <2>4 DEF ServerHandles, Told, Unaccepted, NewSession, NoSession
    <3>2. EndsUp(q, c2s', FALSE, FALSE)
      <4>1. /\ ~About(Head(c2s), q) => EndsUp(q, c2s', FALSE, FALSE)
            /\ About(Head(c2s), q) => EndsUp(q, c2s', Head(c2s) = ForQuote("subscribe", q), FALSE)
        BY <2>1, <2>2, EndsUpTail
      <4> QED BY <4>1, EndsUpForgotten
    <3> QED BY <3>1, <3>2 DEF InStep, Told, EndsUp
  <2> QED BY <2>3, <2>4
<1>17. CASE ServerRestartsSession
  <2>1. EndsUp(q, c2s, FALSE, FALSE) /\ c2s' = c2s /\ ~Told(q)'
    BY <1>2, <1>4, <1>17 DEF ServerRestartsSession, ServerOnly, NewSession, NoSession, Told
  <2> QED BY <2>1 DEF InStep, Told, EndsUp
<1>18. ASSUME NEW t \in Pushed, ServerPushes(t) PROVE InStep(q, FALSE)'
  BY <1>12, <1>18 DEF ServerPushes, ServerOnly
<1>19. ASSUME NEW ec \in EndOfStream, LinkEnds(ec) PROVE InStep(q, FALSE)'
  BY <1>19 DEF LinkEnds, NoSession
<1>20. CASE UNCHANGED vars
  BY <1>12, <1>20
<1> QED BY <1>5, <1>6, <1>7, <1>8, <1>9, <1>10, <1>13, <1>14, <1>15, <1>16, <1>17, <1>18, <1>19,
           <1>20 DEF Next, Application, ClientReads, Environment

\* An unread handshake message stays pending while others are read or added.
LEMMA PendingKept ==
    ASSUME TypeOK, HandshakePending,
           \/ s2c' = s2c
           \/ s2c # <<>> /\ Head(s2c).t \notin {"connectResponse", "authenticationResponse"} /\ s2c' = Tail(s2c)
           \/ \E m : s2c' = Append(s2c, m),
           \/ c2s' = c2s
           \/ \E m \in ClientMsg : c2s' = c2s \o <<m>>
           \/ c2s # <<>> /\ Head(c2s).action # "authentication" /\ c2s' = Tail(c2s)
    PROVE  HandshakePending'
<1>1. ASSUME NEW i \in DOMAIN s2c, s2c[i].t \in {"connectResponse", "authenticationResponse"}
      PROVE  \E j \in DOMAIN s2c' : s2c'[j].t \in {"connectResponse", "authenticationResponse"}
  <2>1. CASE s2c # <<>> /\ Head(s2c).t \notin {"connectResponse", "authenticationResponse"} /\ s2c' = Tail(s2c)
    <3>1. i # 1 /\ i - 1 \in DOMAIN s2c' /\ s2c'[i - 1] = s2c[i]
      BY <1>1, <2>1 DEF TypeOK
    <3> QED BY <1>1, <3>1
  <2>2. ASSUME NEW m, s2c' = Append(s2c, m)
        PROVE  \E j \in DOMAIN s2c' : s2c'[j].t \in {"connectResponse", "authenticationResponse"}
    <3>1. i \in DOMAIN s2c' /\ s2c'[i] = s2c[i]
      BY <1>1, <2>2, AppendElements DEF TypeOK
    <3> QED BY <1>1, <3>1, Zenon
  <2> QED BY <1>1, <2>1, <2>2
<1>2. ASSUME NEW i \in DOMAIN c2s, c2s[i].action = "authentication"
      PROVE  \E j \in DOMAIN c2s' : c2s'[j].action = "authentication"
  <2>1. CASE c2s # <<>> /\ Head(c2s).action # "authentication" /\ c2s' = Tail(c2s)
    <3>1. i # 1 /\ i - 1 \in DOMAIN c2s' /\ c2s'[i - 1] = c2s[i]
      BY <1>2, <2>1 DEF TypeOK
    <3> QED BY <1>2, <3>1
  <2>2. ASSUME NEW m \in ClientMsg, c2s' = c2s \o <<m>>
        PROVE  \E j \in DOMAIN c2s' : c2s'[j].action = "authentication"
    <3>1. i \in DOMAIN c2s' /\ c2s'[i] = c2s[i]
      BY <2>2, ConcatElements DEF TypeOK
    <3> QED BY <1>2, <3>1
  <2>3. CASE c2s' = c2s
    BY <1>2, <2>3
  <2> QED BY <2>1, <2>2, <2>3
<1> QED BY <1>1, <1>2 DEF HandshakePending

\* What makes a handshake pending after a step.
LEMMA PendingMade ==
    /\ \A m : (TypeOK /\ m.t \in {"connectResponse", "authenticationResponse"} /\ s2c' = Append(s2c, m))
                => HandshakePending'
    /\ (TypeOK /\ c2s' = c2s \o <<Plain("authentication")>>) => HandshakePending'
<1>1. ASSUME TypeOK, NEW m, m.t \in {"connectResponse", "authenticationResponse"}, s2c' = Append(s2c, m)
      PROVE  HandshakePending'
  <2>1. Len(s2c) + 1 \in DOMAIN s2c' /\ s2c'[Len(s2c) + 1] = m
    BY <1>1 DEF TypeOK
  <2> QED BY <1>1, <2>1 DEF HandshakePending
<1>2. ASSUME TypeOK, c2s' = c2s \o <<Plain("authentication")>> PROVE HandshakePending'
  <2>1. Plain("authentication").action = "authentication" /\ <<Plain("authentication")>> \in Seq(ClientMsg)
    BY MessageTypes DEF Plain
  <2>2. Len(c2s) + 1 \in DOMAIN c2s' /\ c2s'[Len(c2s) + 1] = Plain("authentication")
    BY <1>2, <2>1, ConcatElements DEF TypeOK
  <2> QED BY <2>1, <2>2 DEF HandshakePending
<1> QED BY <1>1, <1>2

\* No step of anyone loses a quote the client counts as subscribed.
LEMMA NoLostStep ==
    TypeOK /\ Structure /\ NoLostSubscription /\ [Next]_vars => NoLostSubscription'
<1> SUFFICES ASSUME TypeOK, Structure, NoLostSubscription, [Next]_vars,
                    ws' = "open", srv'.up, srv'.authed, ~HandshakePending',
                    NEW q \in ToSet(subscribed_')
             PROVE  InStep(q, TRUE)'
  BY DEF NoLostSubscription
<1>1. DeadLink /\ NoDuplicates /\ LatestAnswer
  BY DEF Structure
<1>2. ASSUME ws = "open", srv.up, srv.authed, ~HandshakePending, q \in ToSet(subscribed_)
      PROVE  InStep(q, TRUE)
  BY <1>2 DEF NoLostSubscription
<1>3. ASSUME UNCHANGED <<ws, subscribed_, srv, c2s>>,
             \/ s2c' = s2c
             \/ s2c # <<>> /\ Head(s2c).t \notin {"connectResponse", "authenticationResponse"} /\ s2c' = Tail(s2c)
             \/ \E m : s2c' = Append(s2c, m)
      PROVE  InStep(q, TRUE)'
  BY <1>2, <1>3, PendingKept DEF InStep
<1>4. CASE Connect \/ ConnectFails
  BY <1>4 DEF Connect, ConnectFails, NewSession, NoSession
<1>5. CASE BeginRead
  BY <1>3, <1>5 DEF BeginRead
<1>6. ASSUME NEW r \in Quotes, NEW k \in 0..1, Subscribe(r, k) PROVE InStep(q, TRUE)'
  <2>1. CASE UNCHANGED <<ws, subscribed_, srv, c2s>>
    BY <1>3, <1>6, <2>1 DEF Subscribe
  <2>2. CASE subscribed_' = Append(subscribed_, r) /\ Transmit(<<ForQuote("subscribe", r)>>, k)
    <3>1. srv' = srv /\ ws = "open" /\ srv.up /\ c2s' = c2s \o <<ForQuote("subscribe", r)>>
      BY <1>1, <2>2, TransmitAlive
    <3>2. ForQuote("subscribe", r) \in ClientMsg
      BY MessageTypes
    <3>3. CASE q = r
      BY <3>1, <3>2, <3>3, InStepWrite, SaysNothing
    <3>4. CASE q # r
      <4>1. q \in ToSet(subscribed_)
        BY <2>2, <3>4, AppendElements DEF ToSet, TypeOK
      <4>2. ~HandshakePending
        BY <1>6, <3>1, <3>2, PendingKept DEF Subscribe
      <4> QED BY <1>2, <3>1, <3>2, <3>4, <4>1, <4>2, InStepWrite, SaysNothing
    <3> QED BY <3>3, <3>4
  <2> QED BY <1>6, <2>1, <2>2 DEF Subscribe
<1>7. ASSUME NEW r \in Quotes, NEW k \in 0..1, Unsubscribe(r, k) PROVE InStep(q, TRUE)'
  <2>1. CASE UNCHANGED <<ws, subscribed_, srv, c2s>>
    BY <1>3, <1>7, <2>1 DEF Unsubscribe
  <2>2. ASSUME NEW i \in DOMAIN subscribed_, subscribed_[i] = r,
               subscribed_' = RemoveAt(subscribed_, i), Transmit(UnsubscribeRequest(r), k)
        PROVE  InStep(q, TRUE)'
    <3>1. srv' = srv /\ ws = "open" /\ srv.up /\ c2s' = c2s \o <<ForQuote("unsubscribe", r)>>
      BY <1>1, <2>2, TransmitAlive DEF UnsubscribeRequest
    <3>2. ForQuote("unsubscribe", r) \in ClientMsg
      BY MessageTypes
    <3>3. q # r /\ q \in ToSet(subscribed_)
      BY <1>1, <2>2, RemoveAtDrops DEF TypeOK, NoDuplicates
    <3>4. ~HandshakePending
      BY <1>7, <3>1, <3>2, PendingKept DEF Unsubscribe
    <3> QED BY <1>2, <3>1, <3>2, <3>3, <3>4, InStepWrite, SaysNothing
  <2> QED BY <1>7, <2>1, <2>2 DEF Unsubscribe
<1>8. ASSUME NEW k \in Writes, ReadConnectResponse(k) PROVE InStep(q, TRUE)'
  BY <1>1, <1>8, TransmitAlive, PendingMade DEF ReadConnectResponse
<1>9. ASSUME NEW k, subscribed_' = subscribed_, Transmit(AuthenticationReply, k)
      PROVE  InStep(q, TRUE)'
  <2>1. srv' = srv /\ c2s' = c2s \o AuthenticationReply
    BY <1>1, <1>9, TransmitAlive
  <2> QED BY <1>9, <2>1, InStepReply
<1>10. ASSUME NEW m \in ToSet(s2c), Receives(m), m.t = "authenticationResponse", ~m.Result, srv' = srv
       PROVE  FALSE
  <2>1. s2c # <<>> /\ 1 \in DOMAIN s2c /\ m = s2c[1] /\ s2c' = Tail(s2c)
    BY <1>10, ReceivedElement
  <2>2. PICK j \in DOMAIN s2c : j > 1 /\ s2c[j].t = "authenticationResponse"
    BY <1>1, <1>10, <2>1 DEF LatestAnswer
  <2>3. j - 1 \in DOMAIN s2c' /\ s2c'[j - 1] = s2c[j]
    BY <2>1, <2>2 DEF TypeOK
  <2> QED BY <2>2, <2>3 DEF HandshakePending
<1>11. ASSUME NEW k \in Writes, ReadAuthenticationResponse(k) PROVE InStep(q, TRUE)'
  BY <1>9, <1>10, <1>11 DEF ReadAuthenticationResponse, AuthenticationRefused
<1>12. ASSUME NEW k \in Writes, ReadMessage(k) PROVE InStep(q, TRUE)'
  <2>1. PICK m \in ToSet(s2c) :
          /\ Receives(m)
          /\ \/ process_heartbeat(m, k)
             \/ process_connect_response(m, k)
             \/ process_authentication_response(m, k)
             \/ k = 0 /\ process_reconnect_response(m)
             \/ k = 0 /\ process_subscribe_response(m)
             \/ k = 0 /\ process_event(m)
    BY <1>12, ReadMessageCases
  <2>2. s2c # <<>> /\ m = Head(s2c) /\ s2c' = Tail(s2c) /\ subscribed_' = subscribed_
    BY <1>12, <2>1, ReceivedElement DEF ReadMessage
  <2>3. CASE process_heartbeat(m, k)
    <3>1. srv' = srv /\ ws = "open" /\ srv.up /\ c2s' = c2s \o <<Plain("heartbeat")>>
      BY <1>1, <2>3, TransmitAlive DEF process_heartbeat, Answer
    <3>2. Plain("heartbeat") \in ClientMsg /\ ~About(Plain("heartbeat"), q)
      BY MessageTypes, SaysNothing
    <3>3. ~HandshakePending
      BY <2>2, <2>3, <3>1, <3>2, PendingKept DEF process_heartbeat
    <3> QED BY <1>2, <2>2, <3>1, <3>2, <3>3, InStepWrite
  <2>4. CASE process_connect_response(m, k)
    BY <1>1, <2>4, TransmitAlive, PendingMade DEF process_connect_response, Answer
  <2>5. CASE process_authentication_response(m, k)
    BY <1>9, <1>10, <2>1, <2>2, <2>5
       DEF process_authentication_response, AuthenticationRefused, Answer
  <2>6. CASE process_reconnect_response(m) \/ process_subscribe_response(m) \/ process_event(m)
    <3>1. m.t \notin {"connectResponse", "authenticationResponse"} /\ UNCHANGED <<ws, srv, c2s>>
      BY <2>6 DEF process_reconnect_response, process_subscribe_response, process_event, EventOf
    <3> QED BY <1>3, <2>2, <3>1
  <2> QED BY <2>1, <2>3, <2>4, <2>5, <2>6
<1>13. ASSUME NEW ec, ReadFails(ec) PROVE InStep(q, TRUE)'
  BY <1>13 DEF ReadFails
<1>14. CASE ServerHandles
  <2>1. Head(c2s).action # "authentication"
    <3> SUFFICES ASSUME Head(c2s).action = "authentication" PROVE FALSE
      OBVIOUS
    <3>1. PICK ok \in BOOLEAN : s2c' = Append(s2c, AuthenticationResponse(conn, ok))
      BY <1>14 DEF ServerHandles
    <3>2. AuthenticationResponse(conn, ok).t = "authenticationResponse"
      BY DEF AuthenticationResponse
    <3> QED BY <3>1, <3>2, PendingMade
  <2>2. srv.authed /\ srv.up /\ ws = "open" /\ subscribed_' = subscribed_
    BY <1>14, <2>1 DEF ServerHandles, ServerOnly, TypeOK, Session
  <2>3. c2s # <<>> /\ c2s' = Tail(c2s) /\ (s2c' = s2c \/ \E m : s2c' = Append(s2c, m))
    BY <1>14, ServerHandlesReplies DEF ServerHandles
  <2>4. ~HandshakePending
    BY <2>1, <2>3, PendingKept
  <2>5. q \in Quotes
    BY <2>2 DEF ToSet, TypeOK
  <2> QED BY <1>2, <1>14, <2>1, <2>2, <2>4, <2>5, ServerHandlesKeeps
<1>15. CASE ServerRestartsSession
  BY <1>15 DEF ServerRestartsSession, NewSession, NoSession
<1>16. ASSUME NEW t \in Pushed, ServerPushes(t) PROVE InStep(q, TRUE)'
  BY <1>3, <1>16 DEF ServerPushes, ServerOnly
<1>17. ASSUME NEW ec \in EndOfStream, LinkEnds(ec) PROVE InStep(q, TRUE)'
  BY <1>17 DEF LinkEnds, NoSession
<1>18. CASE UNCHANGED vars
  BY <1>3, <1>18
<1> QED BY <1>4, <1>5, <1>6, <1>7, <1>8, <1>11, <1>12, <1>13, <1>14, <1>15, <1>16, <1>17,
           <1>18 DEF Next, Application, ClientReads, Environment

-----------------------------------------------------------------------------
(* The theorems                                                             *)

\* A live connection whose handshake is over serves, or will serve, every
\* quote the client is subscribed to.
THEOREM NoSubscriptionLost == Spec => []NoLostSubscription
<1>1. Init => NoLostSubscription
  BY DEF Init, NoLostSubscription
<1>2. TypeOK /\ Structure /\ NoLostSubscription /\ [Next]_vars => NoLostSubscription'
  BY NoLostStep
<1> QED BY <1>1, <1>2, TypeCorrect, StructureInvariant, PTL DEF Spec

\* A live connection serves, and will be asked to serve, no quote the client
\* gave up.
THEOREM NoSubscriptionGhost == Spec => []NoGhostSubscription
<1>1. Init => NoGhostSubscription
  BY DEF Init, NoGhostSubscription
<1>2. TypeOK /\ Structure /\ NoGhostSubscription /\ [Next]_vars => NoGhostSubscription'
  BY NoGhostStep
<1> QED BY <1>1, <1>2, TypeCorrect, StructureInvariant, PTL DEF Spec

\* A write that kills the stream is one that throws.
LEMMA TransmitDeath ==
    ASSUME NEW msgs, NEW k, Transmit(msgs, k), ws = "open", ws' # "open"
    PROVE  k # Len(msgs)
BY DEF Transmit

\* The call during which the stream dies says so to the application.
THEOREM DeathReported == Spec => DeathIsReported
<1> DEFINE Said == result' \in {"closed", "error", "thrown"}
<1>1. ASSUME [Next]_vars, ws = "open", ws' \in {"closed", "failed"} PROVE Said
  <2>1. CASE Connect \/ ConnectFails \/ BeginRead
    BY <1>1, <2>1 DEF Connect, ConnectFails, BeginRead, Return
  <2>2. ASSUME NEW q, NEW k \in 0..1, Subscribe(q, k) \/ Unsubscribe(q, k) PROVE Said
    <3>1. ASSUME NEW m, Transmit(<<m>>, k) PROVE k # 1
      <4>1. Len(<<m>>) = 1
        OBVIOUS
      <4> QED BY <1>1, <3>1, <4>1, TransmitDeath
    <3> QED BY <1>1, <2>2, <3>1 DEF Subscribe, Unsubscribe, UnsubscribeRequest, Return
  <2>3. ASSUME NEW k \in Writes, ReadConnectResponse(k) PROVE Said
    <3>1. Len(<<Plain("authentication")>>) = 1 /\ Transmit(<<Plain("authentication")>>, k)
      BY <2>3 DEF ReadConnectResponse
    <3>2. k # 1
      BY <1>1, <3>1, TransmitDeath
    <3> QED BY <2>3, <3>2 DEF ReadConnectResponse, Return
  <2>4. ASSUME NEW k \in Writes, ReadAuthenticationResponse(k) PROVE Said
    BY <1>1, <2>4, TransmitDeath DEF ReadAuthenticationResponse, AuthenticationRefused, Return
  <2>5. ASSUME NEW k \in Writes, ReadMessage(k) PROVE Said
    BY <1>1, <2>5, ReadMessageCases, TransmitDeath
       DEF process_heartbeat, process_connect_response, process_authentication_response,
           process_reconnect_response, process_subscribe_response, process_event,
           AuthenticationRefused, Answer, Return
  <2>6. ASSUME NEW ec, ReadFails(ec) PROVE Said
    BY <1>1, <2>6 DEF ReadFails, ReadOutcome, is_error_continuable, EndOfStream, Return
  <2>7. CASE Environment \/ UNCHANGED vars
    BY <1>1, <2>7 DEF Environment, ServerHandles, ServerPushes, ServerRestartsSession, LinkEnds, ServerOnly
  <2> QED BY <1>1, <2>1, <2>2, <2>3, <2>4, <2>5, <2>6, <2>7 DEF Next, Application, ClientReads
<1>2. [Next]_vars => [ws = "open" /\ ws' \in {"closed", "failed"} => Said]_vars
  BY <1>1
<1> QED BY <1>2, PTL DEF Spec, DeathIsReported

\* Every reconnect, whether connect() or the reading loop writes it, names
\* the connection whose session the new one replaces: an earlier one, or this
\* one when the server has started the session over.
THEOREM ReconnectNames == Spec => ReconnectNamesReplaced
<1> DEFINE Names(i) == IF pc = "authenticating" THEN c2s'[i].originalConnectionId < conn
                                                ELSE c2s'[i].originalConnectionId = conn
       Transmits(msgs) == \E k : Transmit(msgs, k)
<1>1. ASSUME TypeOK, Structure, [Next]_vars,
             NEW i \in DOMAIN c2s', i > Len(c2s), c2s'[i].action = "reconnect"
      PROVE  Names(i)
  <2>1. c2s' # c2s /\ c2s' # <<>> /\ i \notin DOMAIN c2s
    BY <1>1 DEF TypeOK
  <2>2. ASSUME NEW msgs \in Seq(ClientMsg), NEW k, Transmit(msgs, k)
        PROVE  \E j \in DOMAIN msgs : msgs[j].action = "reconnect" /\ c2s'[i] = msgs[j]
    BY <1>1, <2>1, <2>2, TransmitWrites
  <2>3. ASSUME NEW k, Transmit(AuthenticationReply, k)
        PROVE  c2s'[i].originalConnectionId = connection_id_
    BY <1>1, <2>2, <2>3, ReplyType, ReplyReconnect
  <2>0. /\ \A a \in {"heartbeat", "authentication"} : ~Transmits(<<Plain(a)>>)
        /\ \A q \in Quotes : ~Transmits(<<ForQuote("subscribe", q)>>) /\ ~Transmits(UnsubscribeRequest(q))
    <3>1. ASSUME NEW m \in ClientMsg, m.action # "reconnect" PROVE ~Transmits(<<m>>)
      <4>1. <<m>> \in Seq(ClientMsg) /\ \A j \in DOMAIN <<m>> : <<m>>[j] = m
        OBVIOUS
      <4> QED BY <2>2, <3>1, <4>1
    <3> HIDE DEF Transmits
    <3>2. /\ \A a \in {"heartbeat", "authentication"} : Plain(a).action # "reconnect"
          /\ \A q : ForQuote("subscribe", q).action # "reconnect"
          /\ \A q : ForQuote("unsubscribe", q).action # "reconnect"
      BY DEF Plain, ForQuote
    <3>3. \A q : UnsubscribeRequest(q) = <<ForQuote("unsubscribe", q)>>
      BY DEF UnsubscribeRequest
    <3> QED BY <3>1, <3>2, <3>3, MessageTypes, Zenon
  <2>4. CASE Connect \/ ConnectFails \/ BeginRead
    BY <2>1, <2>4 DEF Connect, ConnectFails, BeginRead
  <2>5. ASSUME NEW q \in Quotes, NEW k \in 0..1, Subscribe(q, k) \/ Unsubscribe(q, k) PROVE FALSE
    <3>1. \/ Transmit(<<ForQuote("subscribe", q)>>, k)
          \/ Transmit(UnsubscribeRequest(q), k)
      BY <2>1, <2>5 DEF Subscribe, Unsubscribe
    <3> QED BY <2>0, <3>1
  <2>6. ASSUME NEW k \in Writes, ReadConnectResponse(k) PROVE FALSE
    BY <2>0, <2>6 DEF ReadConnectResponse
  <2>7. ASSUME NEW k \in Writes, ReadAuthenticationResponse(k) PROVE Names(i)
    <3>1. pc = "authenticating" /\ connection_id_ < conn
      BY <1>1, <2>7 DEF ReadAuthenticationResponse, Structure, Ids
    <3>2. Transmit(AuthenticationReply, k)
      BY <2>1, <2>7 DEF ReadAuthenticationResponse, AuthenticationRefused
    <3> QED BY <2>3, <3>1, <3>2
  <2>8. ASSUME NEW k \in Writes, ReadMessage(k) PROVE Names(i)
    <3>1. PICK m \in ToSet(s2c) :
            /\ Receives(m)
            /\ \/ process_heartbeat(m, k)
               \/ process_connect_response(m, k)
               \/ process_authentication_response(m, k)
               \/ k = 0 /\ process_reconnect_response(m)
               \/ k = 0 /\ process_subscribe_response(m)
               \/ k = 0 /\ process_event(m)
      BY <2>8, ReadMessageCases
    <3>2. pc = "reading" /\ ws = "open" /\ 1 \in DOMAIN s2c /\ m = s2c[1]
      BY <1>1, <2>8, <3>1, ReceivedElement DEF ReadMessage, Receives
    <3>3. \/ Transmit(<<Plain("heartbeat")>>, k)
          \/ Transmit(<<Plain("authentication")>>, k)
          \/ m.t = "authenticationResponse" /\ Transmit(AuthenticationReply, k)
      BY <2>1, <3>1
         DEF process_heartbeat, process_connect_response, process_authentication_response,
             process_reconnect_response, process_subscribe_response, process_event,
             AuthenticationRefused, Answer
    <3>4. m.t = "authenticationResponse" /\ Transmit(AuthenticationReply, k)
      BY <2>0, <3>3
    <3>5. connection_id_ = conn
      BY <1>1, <3>2, <3>4 DEF Structure, AcceptedOrSilent, HandshakeKinds
    <3> QED BY <2>3, <3>2, <3>4, <3>5
  <2>9. ASSUME NEW ec, ReadFails(ec) PROVE FALSE
    BY <2>1, <2>9 DEF ReadFails
  <2>10. CASE Environment \/ UNCHANGED vars
    <3>1. c2s # <<>> /\ c2s' = Tail(c2s)
      BY <2>1, <2>10 DEF Environment, ServerHandles, ServerPushes, ServerRestartsSession, LinkEnds
    <3> QED BY <1>1, <3>1, TailElements DEF TypeOK
  <2> QED BY <1>1, <2>4, <2>5, <2>6, <2>7, <2>8, <2>9, <2>10, Zenon DEF Next, Application, ClientReads
<1>2. TypeOK /\ Structure /\ [Next]_vars =>
        [\A i \in DOMAIN c2s' : (i > Len(c2s) /\ c2s'[i].action = "reconnect") => Names(i)]_vars
  BY <1>1
<1> QED BY <1>2, TypeCorrect, StructureInvariant, PTL DEF Spec, ReconnectNamesReplaced

-----------------------------------------------------------------------------
(***************************************************************************)
(* WsClient implements Subscriptions: every step of the client, of the     *)
(* server or of the link is a step of Subscriptions or none.               *)
(***************************************************************************)

(* The two modules' messages about a quote, and their sessions              *)

\* The messages are the same records.
LEMMA SameMessages ==
    /\ \A a, q : Abstract!Request(a, q) = ForQuote(a, q)
    /\ \A m, q : Abstract!Mentions(m, q) <=> About(m, q)
BY DEF Abstract!Request, Abstract!Mentions, ForQuote, About

\* For the prover: whether there is a session is a Boolean.
LEMMA SessionStays == ASSUME InSession <=> InSession' PROVE InSession' = InSession
BY DEF InSession

LEMMA SessionAlive == InSession => ws = "open" /\ srv.up /\ srv.authed /\ ~HandshakePending
BY DEF InSession

\* Outside a session nothing happens but changes of what is wanted.
LEMMA OutsideStutters ==
    ASSUME ~InSession, ~InSession', UNCHANGED subscribed_
    PROVE  UNCHANGED Abstract!vars
<1>1. InSession' = InSession
  BY SessionStays
<1> QED BY <1>1 DEF Abstract!vars

\* A step in a session that nobody says or hears anything in.
LEMMA QuietStutters ==
    ASSUME InSession, InSession', UNCHANGED <<subscribed_, srv, c2s>>
    PROVE  UNCHANGED Abstract!vars
<1>1. InSession' = InSession
  BY SessionStays
<1> QED BY <1>1 DEF Abstract!vars

\* A handshake ends with the server told of what is wanted: the re-subscription
\* loop, whatever happened before it.
LEMMA HandshakeStarts ==
    ASSUME ~InSession, InSession', NoLostSubscription', NoGhostSubscription', UNCHANGED subscribed_
    PROVE  Abstract!Start
<1>1. /\ \A q \in ToSet(subscribed_') : InStep(q, TRUE)'
      /\ \A q \in Quotes \ ToSet(subscribed_') : InStep(q, FALSE)'
  BY DEF NoLostSubscription, NoGhostSubscription, InSession
<1>2. ASSUME NEW q \in Quotes PROVE Abstract!Settles(q)'
  <2>1. CASE q \in ToSet(subscribed_')
    <3>1. EndsUp(q, c2s', q \in srv'.subs \cup srv'.refused, TRUE)
      BY <1>1, <2>1 DEF InStep
    <3> QED BY <2>1, <3>1, SameMessages DEF EndsUp, Abstract!Settles
  <2>2. CASE q \notin ToSet(subscribed_')
    <3>1. EndsUp(q, c2s', q \in srv'.subs \cup srv'.refused, FALSE)
      BY <1>1, <2>2 DEF InStep
    <3> QED BY <2>2, <3>1, SameMessages DEF EndsUp, Abstract!Settles
  <2> QED BY <2>1, <2>2
<1> QED BY <1>2 DEF Abstract!Start

LEMMA SessionEnds ==
    ASSUME InSession, ~InSession', UNCHANGED subscribed_
    PROVE  Abstract!End
BY DEF Abstract!End, Abstract!NoSession

\* Which leaves the steps within a session to be looked at.
LEMMA StepsWithinSessions ==
    ASSUME NoLostSubscription', NoGhostSubscription', UNCHANGED subscribed_,
           InSession /\ InSession' => Abstract!Next \/ UNCHANGED Abstract!vars
    PROVE  Abstract!Next \/ UNCHANGED Abstract!vars
<1>1. CASE InSession /\ InSession'
  BY <1>1
<1>2. CASE ~InSession /\ InSession'
  BY <1>2, HandshakeStarts DEF Abstract!Next
<1>3. CASE InSession /\ ~InSession'
  BY <1>3, SessionEnds DEF Abstract!Next
<1>4. CASE ~InSession /\ ~InSession'
  BY <1>4, OutsideStutters
<1> QED BY <1>1, <1>2, <1>3, <1>4

-----------------------------------------------------------------------------
(* What is said and heard                                                   *)

\* One message more, and the sequence before it.
LEMMA AppendIsConcat == ASSUME NEW S, NEW s \in Seq(S), NEW m \in S PROVE s \o <<m>> = Append(s, m)
OBVIOUS

\* A heartbeat is answered within the session.
LEMMA HeartbeatChats ==
    ASSUME TypeOK, InSession, InSession', UNCHANGED <<subscribed_, srv>>,
           NEW m \in ClientMsg, c2s' = c2s \o <<m>>, \A q \in Quotes : ~About(m, q)
    PROVE  Abstract!Chat
<1>1. c2s \in Seq(ClientMsg) /\ c2s' = Append(c2s, m)
  BY AppendIsConcat DEF TypeOK
<1>2. Len(c2s') = Len(c2s) + 1 /\ c2s'[Len(c2s')] = m
  BY <1>1
<1>3. InSession' = InSession
  BY SessionStays
<1> QED BY <1>1, <1>2, <1>3, SameMessages DEF Abstract!Chat

\* What subscribe and unsubscribe write is said in the session, or there is
\* none after the step: the write failed, or there was none before.
LEMMA RequestIsSaid ==
    ASSUME TypeOK, DeadLink, NEW k, NEW q \in Quotes, NEW a \in {"subscribe", "unsubscribe"},
           Transmit(<<ForQuote(a, q)>>, k), s2c' = s2c
    PROVE  Abstract!Say(Abstract!Request(a, q))
<1>1. CASE ~InSession'
  BY <1>1 DEF Abstract!Say, Abstract!NoSession
<1>2. CASE InSession'
  <2>1. srv' = srv /\ ws = "open" /\ srv.up /\ c2s' = c2s \o <<ForQuote(a, q)>>
    BY <1>2, TransmitAlive, SessionAlive DEF InSession
  <2>2. ForQuote(a, q) \in ClientMsg
    BY MessageTypes
  <2>3. ~HandshakePending
    BY <1>2, <2>1, <2>2, PendingKept DEF InSession
  <2>4. InSession /\ InSession' = InSession
    BY <1>2, <2>1, <2>3, SessionStays DEF InSession
  <2>5. c2s' = Append(c2s, ForQuote(a, q))
    BY <2>1, <2>2, AppendIsConcat DEF TypeOK
  <2> QED BY <1>2, <2>1, <2>4, <2>5, SameMessages DEF Abstract!Say
<1> QED BY <1>1, <1>2

\* The server takes the next message: a quote more, a quote less, or the same.
LEMMA ServerHears ==
    ASSUME TypeOK, InSession, InSession', ServerHandles
    PROVE  Abstract!Hear
<1> DEFINE m == Head(c2s)
<1>1. c2s # <<>> /\ c2s' = Tail(c2s) /\ m \in ClientMsg /\ m = c2s[1] /\ 1 \in DOMAIN c2s
  BY DEF ServerHandles, TypeOK
<1>2. m.action # "authentication" /\ srv.authed
  BY <1>1, SessionAlive DEF HandshakePending
<1>3. InSession' = InSession /\ subscribed_' = subscribed_
  BY SessionStays DEF ServerHandles, ServerOnly
<1>4. CASE m.action = "subscribe"
  <2>1. m.quoteId \in Quotes /\ m = ForQuote("subscribe", m.quoteId)
    BY <1>1, <1>4 DEF ClientMsg, ForQuote
  <2>2. srv'.subs \cup srv'.refused = srv.subs \cup srv.refused \cup {m.quoteId}
    <3>1. \/ srv' = [srv EXCEPT !.subs = @ \cup {m.quoteId}, !.refused = @ \ {m.quoteId}]
          \/ srv' = [srv EXCEPT !.refused = @ \cup {m.quoteId}]
      BY <1>2, <1>4, Zenon DEF ServerHandles
    <3>2. srv \in [up : BOOLEAN, authed : BOOLEAN, subs : SUBSET Quotes, refused : SUBSET Quotes]
      BY Zenon DEF TypeOK, Session
    <3> HIDE DEF m
    <3>3. \/ srv'.subs = srv.subs \cup {m.quoteId} /\ srv'.refused = srv.refused \ {m.quoteId}
          \/ srv'.subs = srv.subs /\ srv'.refused = srv.refused \cup {m.quoteId}
      BY <3>1, <3>2
    <3> QED BY <3>3
  <2> QED BY <1>1, <1>3, <2>1, <2>2, SameMessages DEF Abstract!Hear
<1>5. CASE m.action = "unsubscribe"
  <2>1. m.quoteId \in Quotes /\ m = ForQuote("unsubscribe", m.quoteId)
    BY <1>1, <1>5 DEF ClientMsg, ForQuote
  <2>2. srv'.subs \cup srv'.refused = (srv.subs \cup srv.refused) \ {m.quoteId}
    <3>1. srv' = [srv EXCEPT !.subs = @ \ {m.quoteId}, !.refused = @ \ {m.quoteId}]
      BY <1>2, <1>5, Zenon DEF ServerHandles
    <3>2. srv \in [up : BOOLEAN, authed : BOOLEAN, subs : SUBSET Quotes, refused : SUBSET Quotes]
      BY Zenon DEF TypeOK, Session
    <3> HIDE DEF m
    <3>3. srv'.subs = srv.subs \ {m.quoteId} /\ srv'.refused = srv.refused \ {m.quoteId}
      BY <3>1, <3>2
    <3> QED BY <3>3
  <2> QED BY <1>1, <1>3, <2>1, <2>2, SameMessages DEF Abstract!Hear
<1>6. CASE m.action \notin {"subscribe", "unsubscribe"}
  <2>1. \A q \in Quotes : ~About(m, q)
    BY <1>6 DEF About, ForQuote
  <2>2. srv' = srv
    BY <1>2, <1>6 DEF ServerHandles
  <2> QED BY <1>1, <1>3, <2>1, <2>2, SameMessages DEF Abstract!Hear
<1> QED BY <1>4, <1>5, <1>6

-----------------------------------------------------------------------------
(* The refinement                                                           *)

\* Every step of the streaming client is one of Subscriptions, or none.
LEMMA StepIsAbstract ==
    ASSUME TypeOK, Structure, NoLostSubscription', NoGhostSubscription', [Next]_vars
    PROVE  Abstract!Next \/ UNCHANGED Abstract!vars
<1>1. DeadLink /\ AwaitsGreeting
  BY DEF Structure
<1>2. ASSUME UNCHANGED <<subscribed_, srv, c2s>> PROVE Abstract!Next \/ UNCHANGED Abstract!vars
  BY <1>2, StepsWithinSessions, QuietStutters
<1>3. ASSUME ~InSession \/ ~InSession', UNCHANGED subscribed_
      PROVE  Abstract!Next \/ UNCHANGED Abstract!vars
  BY <1>3, StepsWithinSessions
<1>4. CASE Connect \/ ConnectFails
  <2>1. ~InSession' /\ UNCHANGED subscribed_
    BY <1>4 DEF Connect, ConnectFails, NewSession, NoSession, InSession
  <2> QED BY <1>3, <2>1
<1>5. CASE BeginRead
  BY <1>2, <1>5 DEF BeginRead
<1>6. ASSUME NEW q \in Quotes, NEW k \in 0..1, Subscribe(q, k)
      PROVE  Abstract!Next \/ UNCHANGED Abstract!vars
  <2>1. CASE UNCHANGED <<ws, subscribed_, srv, c2s>>
    BY <1>2, <2>1
  <2>2. CASE /\ q \notin ToSet(subscribed_)
             /\ subscribed_' = Append(subscribed_, q)
             /\ Transmit(<<ForQuote("subscribe", q)>>, k)
    <3>1. ToSet(subscribed_') = ToSet(subscribed_) \cup {q}
      <4>1. subscribed_ \in Seq(Quotes) /\ subscribed_' = Append(subscribed_, q)
        BY <2>2 DEF TypeOK
      <4>2. /\ DOMAIN subscribed_' = 1..(Len(subscribed_) + 1) /\ DOMAIN subscribed_ = 1..Len(subscribed_)
            /\ subscribed_'[Len(subscribed_) + 1] = q /\ Len(subscribed_) \in Nat
            /\ \A i \in DOMAIN subscribed_ : subscribed_'[i] = subscribed_[i]
        BY <4>1, AppendElements
      <4>3. \A r \in ToSet(subscribed_') : r = q \/ r \in ToSet(subscribed_)
        <5> SUFFICES ASSUME NEW i \in DOMAIN subscribed_'
                     PROVE  subscribed_'[i] = q \/ subscribed_'[i] \in ToSet(subscribed_)
          BY DEF ToSet
        <5>1. i = Len(subscribed_) + 1 \/ i \in DOMAIN subscribed_
          BY <4>2
        <5> QED BY <4>2, <5>1 DEF ToSet
      <4>4. \A r : r = q \/ r \in ToSet(subscribed_) => r \in ToSet(subscribed_')
        <5>1. Len(subscribed_) + 1 \in DOMAIN subscribed_'
          BY <4>2
        <5>2. \A i \in DOMAIN subscribed_ : i \in DOMAIN subscribed_'
          BY <4>2
        <5> QED BY <4>2, <5>1, <5>2 DEF ToSet
      <4> QED BY <4>3, <4>4
    <3>2. Abstract!Say(Abstract!Request("subscribe", q))
      BY <1>1, <1>6, <2>2, RequestIsSaid DEF Subscribe
    <3>3. Abstract!Subscribe(q)
      BY <2>2, <3>1, <3>2 DEF Abstract!Subscribe
    <3> QED BY <3>3 DEF Abstract!Next
  <2> QED BY <1>6, <2>1, <2>2 DEF Subscribe
<1>7. ASSUME NEW q \in Quotes, NEW k \in 0..1, Unsubscribe(q, k)
      PROVE  Abstract!Next \/ UNCHANGED Abstract!vars
  <2>1. CASE UNCHANGED <<ws, subscribed_, srv, c2s>>
    BY <1>2, <2>1
  <2>2. ASSUME NEW i \in DOMAIN subscribed_, subscribed_[i] = q,
               subscribed_' = RemoveAt(subscribed_, i), Transmit(UnsubscribeRequest(q), k)
        PROVE  Abstract!Next
    <3>1. ToSet(subscribed_') = ToSet(subscribed_) \ {q} /\ q \in ToSet(subscribed_)
      <4>1. NoDuplicates /\ subscribed_ \in Seq(Quotes)
        BY DEF Structure, TypeOK
      <4>2. \A r : r \in ToSet(subscribed_) /\ r # q => r \in ToSet(subscribed_')
        BY <2>2, <4>1, RemoveAtKeeps
      <4>3. \A r \in ToSet(subscribed_') : r # q /\ r \in ToSet(subscribed_)
        BY <2>2, <4>1, RemoveAtDrops DEF NoDuplicates
      <4>4. q \in ToSet(subscribed_)
        BY <2>2 DEF ToSet
      <4> QED BY <4>2, <4>3, <4>4
    <3>2. Abstract!Say(Abstract!Request("unsubscribe", q))
      BY <1>1, <1>7, <2>2, RequestIsSaid DEF Unsubscribe, UnsubscribeRequest
    <3>3. Abstract!Unsubscribe(q)
      BY <3>1, <3>2 DEF Abstract!Unsubscribe
    <3> QED BY <3>3 DEF Abstract!Next
  <2> QED BY <1>7, <2>1, <2>2 DEF Unsubscribe
<1>8. ASSUME NEW k \in Writes, ReadConnectResponse(k)
      PROVE  Abstract!Next \/ UNCHANGED Abstract!vars
  <2>1. ~InSession /\ UNCHANGED subscribed_
    BY <1>1, <1>8 DEF ReadConnectResponse, AwaitsGreeting, InSession
  <2> QED BY <1>3, <2>1
<1>9. ASSUME NEW m \in ToSet(s2c), m.t \in {"connectResponse", "authenticationResponse"}
      PROVE  ~InSession
  BY <1>9 DEF ToSet, InSession, HandshakePending
<1>10. ASSUME NEW k \in Writes, ReadAuthenticationResponse(k)
       PROVE  Abstract!Next \/ UNCHANGED Abstract!vars
  <2>1. ~InSession /\ UNCHANGED subscribed_
    BY <1>9, <1>10 DEF ReadAuthenticationResponse
  <2> QED BY <1>3, <2>1
<1>11. ASSUME NEW k \in Writes, ReadMessage(k)
       PROVE  Abstract!Next \/ UNCHANGED Abstract!vars
  <2>1. PICK m \in ToSet(s2c) :
          \/ process_heartbeat(m, k)
          \/ process_connect_response(m, k)
          \/ process_authentication_response(m, k)
          \/ process_reconnect_response(m)
          \/ process_subscribe_response(m)
          \/ process_event(m)
    BY <1>11, ReadMessageCases
  <2>2. UNCHANGED subscribed_
    BY <1>11 DEF ReadMessage
  <2>3. CASE process_heartbeat(m, k)
    <3>1. Transmit(<<Plain("heartbeat")>>, k)
      BY <2>3 DEF process_heartbeat, Answer
    <3>2. Plain("heartbeat") \in ClientMsg /\ \A q \in Quotes : ~About(Plain("heartbeat"), q)
      BY MessageTypes, SaysNothing
    <3>3. InSession /\ InSession' => Abstract!Chat
      <4> SUFFICES ASSUME InSession, InSession' PROVE Abstract!Chat
        OBVIOUS
      <4>1. srv' = srv /\ c2s' = c2s \o <<Plain("heartbeat")>>
        BY <1>1, <3>1, TransmitAlive DEF InSession
      <4> QED BY <2>2, <3>2, <4>1, HeartbeatChats
    <3> QED BY <2>2, <3>3, StepsWithinSessions DEF Abstract!Next
  <2>4. CASE process_connect_response(m, k) \/ process_authentication_response(m, k)
    <3>1. ~InSession
      BY <1>9, <2>4 DEF process_connect_response, process_authentication_response
    <3> QED BY <1>3, <2>2, <3>1
  <2>5. CASE process_reconnect_response(m) \/ process_subscribe_response(m) \/ process_event(m)
    BY <1>2, <2>2, <2>5 DEF process_reconnect_response, process_subscribe_response, process_event
  <2> QED BY <2>1, <2>3, <2>4, <2>5
<1>12. ASSUME NEW ec, ReadFails(ec) PROVE Abstract!Next \/ UNCHANGED Abstract!vars
  BY <1>2, <1>12 DEF ReadFails
<1>13. CASE ServerHandles
  <2>1. UNCHANGED subscribed_
    BY <1>13 DEF ServerHandles, ServerOnly
  <2>2. InSession /\ InSession' => Abstract!Hear
    BY <1>13, ServerHears
  <2> QED BY <2>1, <2>2, StepsWithinSessions DEF Abstract!Next
<1>14. CASE ServerRestartsSession \/ \E ec \in EndOfStream : LinkEnds(ec)
  <2>1. ~InSession' /\ UNCHANGED subscribed_
    BY <1>14 DEF ServerRestartsSession, LinkEnds, ServerOnly, NewSession, NoSession, InSession
  <2> QED BY <1>3, <2>1
<1>15. ASSUME NEW t \in Pushed, ServerPushes(t) PROVE Abstract!Next \/ UNCHANGED Abstract!vars
  BY <1>2, <1>15 DEF ServerPushes, ServerOnly
<1>16. CASE UNCHANGED vars
  BY <1>2, <1>16 DEF vars
<1> QED BY <1>4, <1>5, <1>6, <1>7, <1>8, <1>10, <1>11, <1>12, <1>13, <1>14, <1>15, <1>16
        DEF Next, Application, ClientReads, Environment

\* The refinement without its fairness: all that the client, the server and
\* the link do looks from the outside like Subscriptions.
THEOREM ClientImplementsSubscriptions == Spec => Abstract!Spec
<1>1. Init => Abstract!Init
  <2> SUFFICES ASSUME Init PROVE Abstract!Init
    OBVIOUS
  <2>1. ~InSession /\ ToSet(subscribed_) = {}
    BY DEF Init, InSession, ToSet
  <2> QED BY <2>1 DEF Abstract!Init, Abstract!NoSession
<1>2. TypeOK /\ Structure /\ NoLostSubscription' /\ NoGhostSubscription' /\ [Next]_vars
        => [Abstract!Next]_(Abstract!vars)
  BY StepIsAbstract
<1> QED BY <1>1, <1>2, TypeCorrect, StructureInvariant, NoSubscriptionLost, NoSubscriptionGhost, PTL
        DEF Spec, Abstract!Spec

=============================================================================
