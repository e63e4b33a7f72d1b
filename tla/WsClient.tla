------------------------------ MODULE WsClient ------------------------------
(***************************************************************************)
(* The streaming client: class ws_client (src/ws_client.cpp) over class ws *)
(* (src/ws.cpp), the TCP/TLS link under it and the price server at the     *)
(* other end.  The library is synchronous: one application thread calls    *)
(* connect, subscribe, unsubscribe and read_and_process_message, and the   *)
(* interleaving that matters is between that thread, the server and the    *)
(* two directions of the link.                                             *)
(*                                                                         *)
(* A handler of the client (everything between two blocking reads) is one  *)
(* action.  What it writes is a sequence of messages; each write may fail, *)
(* so the action takes the number of writes that succeed as a parameter.   *)
(* The server and the link are external: they are modelled from the        *)
(* messages src/ sends and handles, see the README.                        *)
(***************************************************************************)
EXTENDS Naturals, Sequences, SequencesExt

CONSTANTS
    Quotes,       \* the quote ids the application may subscribe to
    Pushed,       \* bound: the unsolicited kinds of message the server pushes
    MaxConnects,  \* bound: completed ws handshakes, which number the connections
    Cap           \* bound: messages in flight when a new exchange is started

ASSUME QuotesAssumption == Quotes # {}
ASSUME BoundsAssumption == MaxConnects \in Nat \ {0} /\ Cap \in Nat \ {0}

VARIABLES
    ws,             \* ws_ and the state of its Beast stream
    connection_id_, \* 0 stands for the empty string
    subscribed_,    \* quote ids in the order they were pushed back
    pc,             \* the blocking read the application thread is in
    result,         \* what the last call returned or threw
    conn,           \* number of the last connection: the cid the server gives it
    srv,            \* the server's session of that connection
    c2s,            \* written by the client, not yet handled by the server
    s2c             \* written by the server, not yet read by the client

client == <<ws, connection_id_, subscribed_, pc, result>>
vars == <<ws, connection_id_, subscribed_, pc, result, conn, srv, c2s, s2c>>

-----------------------------------------------------------------------------
(* Messages. Payloads nobody branches on are left out.                      *)

Plain(action) == [action |-> action]
ForQuote(action, q) == [action |-> action, quoteId |-> q]
Reconnect(original) == [action |-> "reconnect", originalConnectionId |-> original]

ClientMsg ==
    [action : {"authentication", "options", "heartbeat"}]
      \cup [action : {"reconnect"}, originalConnectionId : Nat]
      \cup [action : {"subscribe", "unsubscribe"}, quoteId : Quotes]

Kind(t) == [t |-> t]
ConnectResponse(cid) == [t |-> "connectResponse", cid |-> cid]
AuthenticationResponse(cid, ok) ==
    [t |-> "authenticationResponse", cid |-> cid, Result |-> ok]

\* the messages that process_* turns into an event of the application
EventOf ==
    [p |-> "tick", accountSummary |-> "account_summary",
     accountDetails |-> "account_details", tradeEstablished |-> "trade_established"]

PushedKinds == {"heartbeat", "unknown", "malformed"} \cup DOMAIN EventOf

ASSUME PushedAssumption == Pushed \subseteq PushedKinds

\* how a read ends when nothing more arrives: the error code it is given
EndOfStream == {"closed", "stream_truncated", "reset"}

ServerMsg ==
    [t : PushedKinds \cup EndOfStream]
      \cup [t : {"connectResponse", "reconnectResponse"}, cid : Nat]
      \cup [t : {"authenticationResponse"}, cid : Nat, Result : BOOLEAN]
      \cup [t : {"subscribeResponse"}, HasError : BOOLEAN, Current : BOOLEAN]

Results ==
    {"none", "ok", "closed", "error", "timeout", "thrown"}
      \cup {EventOf[t] : t \in DOMAIN EventOf}

Session ==
    [up : BOOLEAN, authed : BOOLEAN, subs : SUBSET Quotes, refused : SUBSET Quotes]
NoSession == [up |-> FALSE, authed |-> FALSE, subs |-> {}, refused |-> {}]
NewSession == [NoSession EXCEPT !.up = TRUE]

\* "null": no ws object, or one whose connect() threw before it had a stream.
\* "closed" and "failed" streams abort every further read and write.
StreamStates == {"null", "open", "closed", "failed"}

TypeOK ==
    /\ ws \in StreamStates
    /\ connection_id_ \in Nat
    /\ subscribed_ \in Seq(Quotes)
    /\ pc \in {"idle", "connecting", "authenticating", "reading"}
    /\ result \in Results
    /\ conn \in Nat
    /\ srv \in Session
    /\ c2s \in Seq(ClientMsg)
    /\ s2c \in Seq(ServerMsg)

Init ==
    /\ ws = "null"
    /\ connection_id_ = 0
    /\ subscribed_ = <<>>
    /\ pc = "idle"
    /\ result = "none"
    /\ conn = 0
    /\ srv = NoSession
    /\ c2s = <<>>
    /\ s2c = <<>>

-----------------------------------------------------------------------------
(* Writing and reading the stream                                           *)

InFlight == Len(c2s) + Len(s2c)

\* ws::send for each of msgs in turn: the first k writes succeed, and the
\* next one, if there is one, throws.  A failed write fails the stream; on
\* a stream that is already dead the first write throws.  Bytes written to
\* a link that is down are lost without an error.
Transmit(msgs, k) ==
    /\ k \in 0..Len(msgs)
    /\ IF k = Len(msgs)
         THEN /\ k > 0 => ws = "open"
              /\ c2s' = IF srv.up THEN c2s \o msgs ELSE c2s
              /\ UNCHANGED <<ws, srv>>
         ELSE /\ ws # "open" => k = 0
              /\ ws' = IF ws = "open" THEN "failed" ELSE ws
              /\ c2s' = <<>>
              /\ srv' = NoSession

\* A handler of the reading loop that returns nullopt: the loop goes on, or
\* finds its deadline passed.
GoOn ==
    \/ pc' = "reading" /\ UNCHANGED result
    \/ pc' = "idle" /\ result' = "timeout"

Return(r) == pc' = "idle" /\ result' = r

\* the message a blocking read returns
Receives(m) ==
    /\ ws = "open"
    /\ s2c # <<>>
    /\ m = Head(s2c)
    /\ m.t \notin EndOfStream
    /\ s2c' = Tail(s2c)

-----------------------------------------------------------------------------
(* ws_client::connect                                                       *)

\* mistake: the stream of the old connection is used again
FreshStream_Reused(cid) == s2c \o <<ConnectResponse(cid)>>

\* What can be read after the ws handshake: a new ws object has nothing of
\* the old stream, and the server greets the new connection.
FreshStream(cid) == <<ConnectResponse(cid)>>

\* The ws handshake succeeds; the old ws object is destroyed.
Connect ==
    /\ pc = "idle"
    /\ conn < MaxConnects
    /\ conn' = conn + 1
    /\ ws' = "open"
    /\ srv' = NewSession
    /\ c2s' = <<>>
    /\ s2c' = FreshStream(conn + 1)
    /\ pc' = "connecting"
    /\ UNCHANGED <<connection_id_, subscribed_, result>>

\* ws::connect throws: before it made a stream, or after.
ConnectFails ==
    /\ pc = "idle"
    /\ ws' \in {"null", "closed"}
    /\ srv' = NoSession
    /\ c2s' = <<>>
    /\ s2c' = <<>>
    /\ Return("thrown")
    /\ UNCHANGED <<connection_id_, subscribed_, conn>>

\* The first read of connect() takes whatever arrives for the greeting.
ReadConnectResponse(k) ==
    /\ pc = "connecting"
    /\ \E m \in ToSet(s2c) : Receives(m)
    /\ Transmit(<<Plain("authentication")>>, k)
    /\ IF k = 1 THEN pc' = "authenticating" /\ UNCHANGED result
                ELSE Return("thrown")
    /\ UNCHANGED <<connection_id_, subscribed_, conn>>

\* mistake: a new session starts without the old subscriptions
Resubscription_None == <<>>

Resubscription ==
    [i \in DOMAIN subscribed_ |-> ForQuote("subscribe", subscribed_[i])]

\* mistake: connection_id_ is assigned before the reconnect is written
ReconnectRequest_TooLate ==
    IF connection_id_ = 0 THEN <<>> ELSE <<Reconnect(connection_id_')>>

ReconnectRequest ==
    IF connection_id_ = 0 THEN <<>> ELSE <<Reconnect(connection_id_)>>

\* mistake: the subscriptions are established again on a reconnect only
AuthenticationReply_Reconnecting ==
    ReconnectRequest \o <<Plain("options")>> \o (IF connection_id_ = 0 THEN <<>> ELSE Resubscription)

\* What process_authentication_response writes when the server accepts.
AuthenticationReply == ReconnectRequest \o <<Plain("options")>> \o Resubscription

\* connection_id_ is assigned once the reconnect message, if any, is written.
AcceptConnectionId(cid, k) ==
    connection_id_' = IF connection_id_ # 0 /\ k = 0 THEN connection_id_ ELSE cid

\* process_authentication_response: throws if the server refused.
AuthenticationRefused(m) ==
    /\ ~m.Result
    /\ Return("thrown")
    /\ UNCHANGED <<ws, connection_id_, srv, c2s>>

\* The second read of connect().
ReadAuthenticationResponse(k) ==
    /\ pc = "authenticating"
    /\ \E m \in ToSet(s2c) :
         /\ Receives(m)
         /\ m.t = "authenticationResponse"
         /\ \/ k = 0 /\ AuthenticationRefused(m)
            \/ /\ m.Result
               /\ AcceptConnectionId(m.cid, k)
               /\ Transmit(AuthenticationReply, k)
               /\ Return(IF k = Len(AuthenticationReply) THEN "ok" ELSE "thrown")
    /\ UNCHANGED <<subscribed_, conn>>

-----------------------------------------------------------------------------
(* ws_client::read_and_process_message                                      *)

\* The application calls it, through td365::wait.
BeginRead ==
    /\ pc = "idle"
    /\ ws # "null"
    /\ pc' = "reading"
    /\ UNCHANGED <<ws, connection_id_, subscribed_, result, conn, srv, c2s, s2c>>

\* A handler that answers with msgs and returns nullopt.
Answer(msgs, k) ==
    /\ Transmit(msgs, k)
    /\ IF k = Len(msgs) THEN GoOn ELSE Return("thrown")

process_heartbeat(m, k) ==
    /\ m.t = "heartbeat"
    /\ Answer(<<Plain("heartbeat")>>, k)
    /\ UNCHANGED connection_id_

process_connect_response(m, k) ==
    /\ m.t = "connectResponse"
    /\ Answer(<<Plain("authentication")>>, k)
    /\ UNCHANGED connection_id_

process_authentication_response(m, k) ==
    /\ m.t = "authenticationResponse"
    /\ \/ k = 0 /\ AuthenticationRefused(m)
       \/ /\ m.Result
          /\ AcceptConnectionId(m.cid, k)
          /\ Answer(AuthenticationReply, k)

process_reconnect_response(m) ==
    /\ m.t = "reconnectResponse"
    /\ connection_id_' = m.cid
    /\ GoOn
    /\ UNCHANGED <<ws, srv, c2s>>

process_subscribe_response(m) ==
    /\ m.t = "subscribeResponse"
    /\ \/ m.HasError /\ Return("thrown")
       \/ ~m.HasError /\ m.Current /\ Return("tick")
       \/ ~m.HasError /\ ~m.Current /\ GoOn
    /\ UNCHANGED <<ws, connection_id_, srv, c2s>>

\* price_data, account_summary, account_details, trade_established: returned
\* as events. A message that does not parse, or carries no price, throws; an
\* unknown one is skipped.
process_event(m) ==
    /\ \/ m.t \in DOMAIN EventOf /\ Return(EventOf[m.t])
       \/ m.t = "malformed" /\ Return("thrown")
       \/ m.t = "unknown" /\ GoOn
    /\ UNCHANGED <<ws, connection_id_, srv, c2s>>

ReadMessage(k) ==
    /\ pc = "reading"
    /\ \E m \in ToSet(s2c) :
         /\ Receives(m)
         /\ \/ process_heartbeat(m, k)
            \/ process_connect_response(m, k)
            \/ process_authentication_response(m, k)
            \/ k = 0 /\ process_reconnect_response(m)
            \/ k = 0 /\ process_subscribe_response(m)
            \/ k = 0 /\ process_event(m)
    /\ UNCHANGED <<subscribed_, conn>>

\* is_error_continuable, and the tests of the reading loop in their order
is_error_continuable(ec) == ec \in {"operation_aborted", "closed", "stream_truncated"}

\* mistakes: a closed connection taken for a quiet one; the raw code returned
ReadOutcome_Quiet(ec) == IF is_error_continuable(ec) THEN "timeout" ELSE "error"

ReadOutcome_Raw(ec) == IF ec = "operation_aborted" THEN "timeout" ELSE ec

ReadOutcome(ec) ==
    IF ec \in {"operation_aborted", "timeout"} THEN "timeout"
    ELSE IF is_error_continuable(ec) THEN "closed" ELSE "error"

\* A read gets an error code: the end of the stream, in order with what was
\* sent before it, or operation_aborted when the stream is already dead.
\* connect() throws on any error.
ReadFails(ec) ==
    /\ pc # "idle"
    /\ \/ /\ ws = "open" /\ s2c # <<>> /\ Head(s2c).t = ec /\ ec \in EndOfStream
          /\ ws' = IF ec = "closed" THEN "closed" ELSE "failed"
          /\ s2c' = Tail(s2c)
       \/ ws \in {"closed", "failed"} /\ ec = "operation_aborted" /\ UNCHANGED <<ws, s2c>>
    /\ Return(IF pc = "reading" THEN ReadOutcome(ec) ELSE "thrown")
    /\ UNCHANGED <<connection_id_, subscribed_, conn, srv, c2s>>

-----------------------------------------------------------------------------
(* ws_client::subscribe and unsubscribe                                     *)

\* bound: the application starts nothing while the link holds Cap messages
Room == ws = "open" => InFlight < Cap

\* The id is pushed back before the write that may throw.
Subscribe(q, k) ==
    /\ pc = "idle" /\ ws # "null" /\ Room
    /\ \/ /\ q \in ToSet(subscribed_) /\ k = 0
          /\ Return("ok")
          /\ UNCHANGED <<ws, subscribed_, srv, c2s>>
       \/ /\ q \notin ToSet(subscribed_)
          /\ subscribed_' = Append(subscribed_, q)
          /\ Transmit(<<ForQuote("subscribe", q)>>, k)
          /\ Return(IF k = 1 THEN "ok" ELSE "thrown")
    /\ UNCHANGED <<connection_id_, conn, s2c>>

\* mistake: the request of subscribe, copied
UnsubscribeRequest_Copied(q) == <<ForQuote("subscribe", q)>>

UnsubscribeRequest(q) == <<ForQuote("unsubscribe", q)>>

\* The first occurrence is erased, again before the write.
Unsubscribe(q, k) ==
    /\ pc = "idle" /\ ws # "null" /\ Room
    /\ \/ /\ q \notin ToSet(subscribed_) /\ k = 0
          /\ Return("ok")
          /\ UNCHANGED <<ws, subscribed_, srv, c2s>>
       \/ /\ \E i \in DOMAIN subscribed_ :
               /\ subscribed_[i] = q
               /\ \A j \in 1..(i - 1) : subscribed_[j] # q
               /\ subscribed_' = RemoveAt(subscribed_, i)
          /\ Transmit(UnsubscribeRequest(q), k)
          /\ Return(IF k = 1 THEN "ok" ELSE "thrown")
    /\ UNCHANGED <<connection_id_, conn, s2c>>

-----------------------------------------------------------------------------
(* The server and the link (external)                                       *)

ServerOnly == UNCHANGED <<ws, connection_id_, subscribed_, pc, result, conn>>

\* The server takes the next message of the client and answers it. Until it
\* has accepted an authentication it ignores everything else.
ServerHandles ==
    /\ srv.up /\ c2s # <<>>
    /\ c2s' = Tail(c2s)
    /\ LET m == Head(c2s) IN
         \/ /\ m.action = "authentication"
            /\ \E ok \in BOOLEAN :
                 /\ srv' = [NewSession EXCEPT !.authed = ok]
                 /\ s2c' = Append(s2c, AuthenticationResponse(conn, ok))
         \/ /\ m.action = "reconnect" /\ srv.authed
            /\ s2c' = Append(s2c, [t |-> "reconnectResponse", cid |-> conn])
            /\ UNCHANGED srv
         \/ /\ m.action = "subscribe" /\ srv.authed
            /\ \/ /\ srv' = [srv EXCEPT !.subs = @ \cup {m.quoteId},
                                        !.refused = @ \ {m.quoteId}]
                  /\ \E current \in BOOLEAN :
                       s2c' = Append(s2c, [t |-> "subscribeResponse",
                                           HasError |-> FALSE, Current |-> current])
               \/ /\ m.quoteId \notin srv.subs
                  /\ srv' = [srv EXCEPT !.refused = @ \cup {m.quoteId}]
                  /\ s2c' = Append(s2c, [t |-> "subscribeResponse",
                                         HasError |-> TRUE, Current |-> FALSE])
         \/ /\ m.action = "unsubscribe" /\ srv.authed
            /\ srv' = [srv EXCEPT !.subs = @ \ {m.quoteId}, !.refused = @ \ {m.quoteId}]
            /\ UNCHANGED s2c
         \/ /\ m.action \in {"options", "heartbeat"} \/ (m.action # "authentication" /\ ~srv.authed)
            /\ UNCHANGED <<srv, s2c>>
    /\ ServerOnly

\* A heartbeat, a price, an account event, ...
ServerPushes(t) ==
    /\ srv.up /\ srv.authed /\ InFlight < Cap
    /\ s2c' = Append(s2c, Kind(t))
    /\ UNCHANGED <<srv, c2s>>
    /\ ServerOnly

\* The server starts the session over on the same connection: the case
\* connect_response of the reading loop.
ServerRestartsSession ==
    /\ srv.up /\ srv.authed /\ InFlight < Cap
    /\ srv' = NewSession
    /\ s2c' = Append(s2c, ConnectResponse(conn))
    /\ UNCHANGED c2s
    /\ ServerOnly

\* The connection ends. A close frame comes after everything sent before it;
\* a reset or a truncated stream may lose messages that were on their way.
LinkEnds(ec) ==
    /\ srv.up
    /\ \E n \in 0..Len(s2c) :
         /\ ec = "closed" => n = Len(s2c)
         /\ s2c' = Append(SubSeq(s2c, 1, n), Kind(ec))
    /\ srv' = NoSession
    /\ c2s' = <<>>
    /\ ServerOnly

-----------------------------------------------------------------------------
Writes == 0..(Len(subscribed_) + 2)

ClientReads ==
    \/ \E k \in Writes : ReadConnectResponse(k) \/ ReadAuthenticationResponse(k) \/ ReadMessage(k)
    \/ \E ec \in EndOfStream \cup {"operation_aborted"} : ReadFails(ec)

Application ==
    \/ Connect \/ ConnectFails \/ BeginRead
    \/ \E q \in Quotes, k \in 0..1 : Subscribe(q, k) \/ Unsubscribe(q, k)

Environment ==
    \/ ServerHandles \/ ServerRestartsSession
    \/ \E t \in Pushed : ServerPushes(t)
    \/ \E ec \in EndOfStream : LinkEnds(ec)

Next == Application \/ ClientReads \/ Environment

Spec == Init /\ [][Next]_vars

\* The application keeps waiting for events, a read returns when there is
\* something to read, and the server does not leave a message unanswered.
FairSpec == Spec /\ WF_vars(ClientReads) /\ WF_vars(BeginRead) /\ WF_vars(ServerHandles)

-----------------------------------------------------------------------------
(* Properties                                                               *)

About(m, q) == m \in {ForQuote("subscribe", q), ForQuote("unsubscribe", q)}

\* A server that has been told about q (told), and reads the messages msgs
\* next, ends up with the wanted answer to "is q subscribed": the last message
\* about q says so, or there is none and it has that answer already.
EndsUp(q, msgs, told, wanted) ==
    /\ (\A i \in DOMAIN msgs : ~About(msgs[i], q)) => (told <=> wanted)
    /\ \A i \in DOMAIN msgs :
         (About(msgs[i], q) /\ \A j \in DOMAIN msgs : j > i => ~About(msgs[j], q))
           => (msgs[i] = ForQuote("subscribe", q) <=> wanted)

InStep(q, wanted) == EndsUp(q, c2s, q \in srv.subs \cup srv.refused, wanted)

HandshakePending ==
    \/ \E i \in DOMAIN s2c : s2c[i].t \in {"connectResponse", "authenticationResponse"}
    \/ \E i \in DOMAIN c2s : c2s[i].action = "authentication"

\* No subscription is lost: whatever the order of connects, session restarts,
\* failed writes, unread messages and application calls, once the handshake of
\* a live connection is over the server is told of every quote the client
\* believes it is subscribed to (the re-subscription loop, and the push_back
\* that precedes a write that may fail).  A refused quote was told.
NoLostSubscription ==
    (ws = "open" /\ srv.up /\ srv.authed /\ ~HandshakePending)
      => \A q \in ToSet(subscribed_) : InStep(q, TRUE)

\* No ghost subscription: on a live connection the server neither streams,
\* nor will be asked to stream, a quote the client gave up.
NoGhostSubscription ==
    (ws = "open" /\ srv.up) => \A q \in Quotes \ ToSet(subscribed_) : InStep(q, FALSE)

\* connect() does not check the type of the two messages it reads: it relies
\* on finding exactly the greeting, then the answer to its authentication, on
\* a connection of its own.
HandshakeInOrder ==
    s2c # <<>> =>
      /\ pc = "connecting" =>
           Head(s2c).t \in EndOfStream \/ Head(s2c) = ConnectResponse(conn)
      /\ pc = "authenticating" =>
           Head(s2c).t \in EndOfStream \/ (Head(s2c).t = "authenticationResponse" /\ Head(s2c).cid = conn)

\* A connection never dies silently: the call during which the stream dies
\* throws or returns connection_closed_event or error_event, never a
\* timeout_event, which the application is meant to ignore.
DeathIsReported ==
    [][ws = "open" /\ ws' \in {"closed", "failed"} => result' \in {"closed", "error", "thrown"}]_vars

\* A reconnect names the connection whose session the new one replaces,
\* whoever writes it: connect() an earlier connection, since connection_id_ is
\* overwritten only after the old value was written; the reading loop, when the
\* server has started the session over, this very one, whatever became of the
\* handshakes before.
ReconnectNamesReplaced ==
    [][\A i \in DOMAIN c2s' :
         (i > Len(c2s) /\ c2s'[i].action = "reconnect") =>
           IF pc = "authenticating" THEN c2s'[i].originalConnectionId < conn
                                    ELSE c2s'[i].originalConnectionId = conn]_vars

\* Convergence: if a connection stays up and accepted and the application
\* keeps waiting, the server comes to know every quote that stays wanted.
Converges ==
    \A q \in Quotes :
      <>[](ws = "open" /\ srv.authed /\ q \in ToSet(subscribed_))
        => <>[](q \in srv.subs \cup srv.refused)

InSession == ws = "open" /\ srv.up /\ srv.authed /\ ~HandshakePending

Abstract ==
    INSTANCE Subscriptions WITH
      wanted <- ToSet(subscribed_),
      session <- InSession,
      known <- IF InSession THEN srv.subs \cup srv.refused ELSE {},
      log <- IF InSession THEN c2s ELSE <<>>

\* The client with its handshakes, its re-subscription loop and its failing
\* writes is the client Subscriptions promises: from the outside a session
\* starts in one step with everything that is wanted, nothing said in it is
\* lost, doubled or reordered, and what is said is heard while it lasts.
ImplementsSubscriptions == Abstract!FairSpec

=============================================================================
