------------------------------ MODULE RestCalls ------------------------------
(***************************************************************************)
(* The calls that go over the platform's HTTP connection: http_client      *)
(* (src/http_client.cpp) under the operations of rest_api                  *)
(* (src/rest_api.cpp) and td365::trade (src/td365.cpp).  One thread, one   *)
(* keep-alive connection, one request at a time; the exchange handles a    *)
(* request, or does not, at its own time, the connection may end at any    *)
(* point of it, and the application calls again when a call throws.        *)
(*                                                                         *)
(* http_client sees one thing of its connection: whether the socket is     *)
(* open.  A failed exchange throws boost::system::system_error, which the  *)
(* handler of beast::error_code in send does not catch, so the socket      *)
(* stays open on a connection that is gone.  The exchange and the network  *)
(* are external.                                                           *)
(***************************************************************************)
EXTENDS Naturals, Sequences

CONSTANTS MaxCalls  \* bound: calls the application makes

ASSUME MaxCallsAssumption == MaxCalls \in Nat \ {0}

VARIABLES
    open,     \* stream_.lowest_layer().is_open()
    link,     \* the connection behind the socket
    call,     \* number of the running or the last call
    op,       \* the operation it runs
    step,     \* which of its requests the call is at
    pc,       \* "sending": before the write; "receiving": in http::read
    result,   \* how the last call ended
    written,  \* requests written that the exchange has not handled, nor lost
    replies,  \* what can be read from the connection
    handled   \* requests the exchange has handled, and its answers

client == <<open, call, op, step, pc, result>>
vars == <<open, link, call, op, step, pc, result, written, replies, handled>>

-----------------------------------------------------------------------------
(* Operations, requests and replies                                         *)

\* mistake: the order is not simulated first
Requests_NoSimulation ==
    [trade |-> <<"GetMarketDetails", "RequestTrade">>,
     query |-> <<"GetMarket">>,
     renew |-> <<"UpdateClientSessionID">>]

\* The requests an operation posts, in order. "query" stands for the
\* operations of one checked request.
Requests ==
    [trade |-> <<"GetMarketDetails", "RequestTradeSimulate", "RequestTrade">>,
     query |-> <<"GetMarket">>,
     renew |-> <<"UpdateClientSessionID">>]

Operations == {"trade", "query", "renew"}
Targets == {"GetMarketDetails", "RequestTradeSimulate", "RequestTrade", "GetMarket",
            "UpdateClientSessionID"}

Request == [call : 1..MaxCalls, target : Targets]
Current == [call |-> call, target |-> Requests[op][step]]

\* "ok": status 200 and a body with the value; the others are any other
\* status, and a body that does not parse or has no "d".
Answers == {"ok", "status", "body"}

\* Unasked: what a server may send before it closes an idle connection.
Unasked == [call |-> 0, target |-> "GetMarket"]
Reply == [to : Request \cup {Unasked}, answer : Answers]

TypeOK ==
    /\ open \in BOOLEAN
    /\ link \in {"none", "up", "ended"}
    /\ call \in 0..MaxCalls
    /\ op \in Operations
    /\ step \in DOMAIN Requests[op]
    /\ pc \in {"idle", "sending", "receiving"}
    /\ result \in {"none", "ok", "thrown"}
    /\ written \subseteq Request
    /\ replies \in Seq(Reply)
    /\ handled \subseteq Reply

Init ==
    /\ open = FALSE /\ link = "none"
    /\ call = 0 /\ op = "query" /\ step = 1
    /\ pc = "idle" /\ result = "none"
    /\ written = {} /\ replies = <<>> /\ handled = {}

Throw == pc' = "idle" /\ result' = "thrown"

-----------------------------------------------------------------------------
(* td365::trade and the operations of rest_api                              *)

\* The application calls; after a call that threw it may call again.
Call(o) ==
    /\ pc = "idle" /\ call < MaxCalls
    /\ call' = call + 1
    /\ op' = o
    /\ step' = 1
    /\ pc' = "sending"
    /\ result' = "none"
    /\ UNCHANGED <<open, link, written, replies, handled>>

\* rest_api::connect makes a new http_client; the old one's socket is closed.
NewClient ==
    /\ pc = "idle"
    /\ open' = FALSE /\ link' = "none" /\ replies' = <<>>
    /\ UNCHANGED <<call, op, step, pc, result, written, handled>>

-----------------------------------------------------------------------------
(* http_client::send                                                        *)

\* ensure_connected throws: in td_resolve, which leaves the socket closed,
\* or in connect and handshake, which leave it open.
ConnectFails ==
    /\ pc = "sending" /\ ~open
    /\ open' \in BOOLEAN
    /\ Throw
    /\ UNCHANGED <<link, call, op, step, written, replies, handled>>

\* The request is written, on a connection made now if there was no socket.
\* On one that has ended the bytes are lost, or the write fails.
Write ==
    /\ pc = "sending" /\ (open => link = "up")
    /\ open' = TRUE /\ link' = "up"
    /\ replies' = IF open THEN replies ELSE <<>>
    /\ written' = written \cup {Current}
    /\ pc' = "receiving"
    /\ UNCHANGED <<call, op, step, result, handled>>

WriteIsLost ==
    /\ pc = "sending" /\ open /\ link = "ended"
    /\ pc' = "receiving"
    /\ UNCHANGED <<open, link, call, op, step, result, written, replies, handled>>

WriteFails ==
    /\ pc = "sending" /\ open
    /\ link' = IF link = "up" THEN "ended" ELSE link
    /\ Throw
    /\ UNCHANGED <<open, call, op, step, written, replies, handled>>

\* mistakes: any answer will do; an answer of status 200 will do
Accepted_Any(r) == TRUE
Accepted_Status(r) == op = "renew" \/ r.answer # "status"

\* make_post wants status 200 and a value; update_client_session_id looks at
\* neither.
Accepted(r) == op = "renew" \/ r.answer = "ok"

\* http::read returns a response, the first the connection holds.
Receive ==
    /\ pc = "receiving" /\ replies # <<>>
    /\ replies' = Tail(replies)
    /\ IF Accepted(Head(replies))
         THEN IF step = Len(Requests[op])
                THEN pc' = "idle" /\ result' = "ok" /\ UNCHANGED step
                ELSE pc' = "sending" /\ step' = step + 1 /\ UNCHANGED result
         ELSE Throw /\ UNCHANGED step
    /\ UNCHANGED <<open, link, call, op, written, handled>>

\* mistake: the client makes a new connection and sends the request again
AfterEndOfStream_Retry == open' = FALSE /\ pc' = "sending" /\ UNCHANGED result

\* mistake: the error code is what the call returns
AfterEndOfStream_Raw == pc' = "idle" /\ result' = "end_of_stream" /\ UNCHANGED open

\* mistake: the stream is closed, and what the call returns is empty
AfterEndOfStream_Swallowed == pc' = "idle" /\ result' = "ok" /\ open' = FALSE

\* The exception leaves send, and the stream as it is.
AfterEndOfStream == Throw /\ UNCHANGED open

ReceiveFails ==
    /\ pc = "receiving" /\ replies = <<>> /\ link # "up"
    /\ AfterEndOfStream
    /\ UNCHANGED <<link, call, op, step, written, replies, handled>>

-----------------------------------------------------------------------------
(* The exchange and the network (external)                                  *)

\* The exchange handles a request it was written, also when the connection
\* it came over has ended; the answer goes to the connection of that request,
\* if that is still up.
Handle(r, a) ==
    /\ r \in written
    /\ written' = written \ {r}
    /\ handled' = handled \cup {[to |-> r, answer |-> a]}
    /\ replies' = IF link = "up" /\ pc = "receiving" /\ r = Current
                    THEN Append(replies, [to |-> r, answer |-> a]) ELSE replies
    /\ UNCHANGED <<link, client>>

\* a request is lost with its connection
Lose(r) ==
    /\ r \in written
    /\ link = "up" /\ pc = "receiving" => r # Current
    /\ written' = written \ {r}
    /\ UNCHANGED <<link, replies, handled, client>>

\* The connection ends, for idleness, by a reset, by the exchange's restart:
\* an answer on its way may be lost, and an idle connection may be told so.
LinkEnds ==
    /\ link = "up"
    /\ link' = "ended"
    /\ \/ replies' \in {replies, <<>>}
       \/ /\ pc # "receiving"
          /\ replies' = <<[to |-> Unasked, answer |-> "status"]>>
    /\ UNCHANGED <<written, handled, client>>

-----------------------------------------------------------------------------
Client ==
    \/ ConnectFails \/ Write \/ WriteIsLost \/ WriteFails \/ Receive \/ ReceiveFails

Exchange ==
    \/ \E r \in written : Lose(r) \/ \E a \in Answers : Handle(r, a)
    \/ LinkEnds

Next == NewClient \/ (\E o \in Operations : Call(o)) \/ Client \/ Exchange

Spec == Init /\ [][Next]_vars

\* The thread of a call runs on, and a connection that is up does not keep a
\* request for ever: it is answered, or the connection ends.
FairSpec == Spec /\ WF_vars(Client) /\ WF_vars(Exchange)

-----------------------------------------------------------------------------
(* Properties                                                               *)

Answered(c, t) == [to |-> [call |-> c, target |-> t], answer |-> "ok"] \in handled

Order(c, a) == [to |-> [call |-> c, target |-> "RequestTrade"], answer |-> a]

OrderHandledInTurn ==
    \A c \in 1..MaxCalls, a \in Answers :
      Order(c, a) \in handled' \ handled =>
        Answered(c, "GetMarketDetails") /\ Answered(c, "RequestTradeSimulate")

\* td365::trade: whatever was lost, refused or called again before, the
\* exchange handles an order only if the same call had its market details and
\* its simulation handled and answered well before.
OrderFollowsSimulation == [][OrderHandledInTurn]_vars

\* No call places an order twice: a request the exchange has handled is
\* never on its way again, also when the connection ends between the order
\* and its answer (http_client::send throws, and does not send again).
HandledOnce == \A h \in handled : h.to \notin written

\* A call that returned did all it was asked for: every request of it was
\* handled and answered well, and no other answer, nor what the server said
\* of an idle connection, was taken for one of its own.
ReturnedMeansDone ==
    (pc = "idle" /\ result = "ok" /\ op # "renew") =>
      \A i \in DOMAIN Requests[op] : Answered(call, Requests[op][i])

Abstract ==
    INSTANCE Calls WITH
      Unchecked <- {"renew"},
      outcome <- IF pc = "idle" THEN result ELSE "running",
      asked <- written

\* The calls over one keep-alive connection that may end at any point are
\* those of Calls: whatever is lost, late or refused, a request is asked for
\* once and in its turn, a call that returns has what it asked for, and every
\* call comes to an end, also on a connection that is long gone.
ImplementsCalls == Abstract!FairSpec

=============================================================================
