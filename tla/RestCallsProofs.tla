-------------------------- MODULE RestCallsProofs --------------------------
(***************************************************************************)
(* The properties of RestCalls, for any number of calls.                   *)
(***************************************************************************)
EXTENDS RestCalls, TLAPS

USE MaxCallsAssumption

\* What the operations post: between one and three different requests, and an
\* order only as the third, behind the details and the simulation
\* (td365.cpp:81-85).
LEMMA RequestsPosted ==
    ASSUME NEW o \in Operations
    PROVE  /\ Requests[o] \in Seq(Targets)
           /\ Len(Requests[o]) \in 1..3
           /\ DOMAIN Requests[o] = 1..Len(Requests[o])
           /\ \A i, j \in DOMAIN Requests[o] : Requests[o][i] = Requests[o][j] => i = j
           /\ \A i \in DOMAIN Requests[o] : Requests[o][i] = "RequestTrade" =>
                 /\ i = 3
                 /\ Requests[o][1] = "GetMarketDetails"
                 /\ Requests[o][2] = "RequestTradeSimulate"
<1>1. CASE o = "trade"
  BY <1>1 DEF Requests, Targets
<1>2. CASE o = "query"
  BY <1>2 DEF Requests, Targets
<1>3. CASE o = "renew"
  BY <1>3 DEF Requests, Targets
<1> QED
  BY <1>1, <1>2, <1>3 DEF Operations

\* The request a running call is at is a request.
LEMMA CurrentType ==
    ASSUME TypeOK, call # 0
    PROVE  Current \in Request
<1>1. Requests[op] \in Seq(Targets) /\ step \in DOMAIN Requests[op]
  BY RequestsPosted DEF TypeOK
<1>2. Requests[op][step] \in Targets /\ call \in 1..MaxCalls
  BY <1>1 DEF TypeOK
<1> QED
  BY <1>2 DEF Current, Request

-----------------------------------------------------------------------------
(* The inductive invariant                                                  *)

Running == pc # "idle"
Unanswered == [to |-> Unasked, answer |-> "status"]

\* a call that runs has a number
Numbered == Running => call # 0

\* the requests a call has behind it were answered well
Progress ==
    Running => \A i \in 1..(step - 1) : Answered(call, Requests[op][i])

\* Only requests the calls have come to were ever written.
Known(r) ==
    /\ r.call <= call
    /\ (Running /\ r.call = call) =>
         \E i \in 1..step : r.target = Requests[op][i] /\ (pc = "sending" => i < step)

OnlyKnown == (\A r \in written : Known(r)) /\ (\A h \in handled : Known(h.to))

\* an order that is on its way has its simulation behind it
OrdersSimulated ==
    \A r \in written : r.target = "RequestTrade" =>
      Answered(r.call, "GetMarketDetails") /\ Answered(r.call, "RequestTradeSimulate")

\* What can be read is at most one reply: the one to the current request, or
\* what the server said of an idle connection before it ended it.
OneReply ==
    \/ replies = <<>>
    \/ replies = <<Unanswered>> /\ link = "ended"
    \/ /\ pc = "receiving"
       /\ \E m \in handled : replies = <<m>> /\ m.to = Current

Structure ==
    /\ Numbered /\ Progress /\ OnlyKnown /\ OrdersSimulated /\ OneReply
    /\ HandledOnce /\ ReturnedMeansDone
-----------------------------------------------------------------------------
(* Types                                                                    *)

\* Every reachable state has the declared types (http_client, rest_api).
THEOREM RestTypeCorrect == Spec => []TypeOK
<1>1. Init => TypeOK
  <2> SUFFICES ASSUME Init PROVE TypeOK
    OBVIOUS
  <2>1. open \in BOOLEAN
    BY Zenon DEF Init
  <2>2. step \in DOMAIN Requests[op] /\ op \in Operations
    BY RequestsPosted DEF Init, Operations
  <2> QED
    BY <2>1, <2>2 DEF Init, TypeOK
<1>2. TypeOK /\ Numbered /\ [Next]_vars => TypeOK' /\ Numbered'
  <2> SUFFICES ASSUME TypeOK, Numbered, [Next]_vars PROVE TypeOK' /\ Numbered'
    OBVIOUS
  <2> USE DEF Numbered, Running
  <2>1. CASE NewClient
    <3>1. open' \in BOOLEAN
      BY <2>1, Zenon DEF NewClient
    <3> QED
      BY <2>1, <3>1 DEF NewClient, TypeOK
  <2>2. ASSUME NEW o \in Operations, Call(o) PROVE TypeOK' /\ Numbered'
    <3>1. 1 \in DOMAIN Requests[o]
      BY RequestsPosted
    <3> QED
      BY <2>2, <3>1 DEF Call, TypeOK
  <2>3. CASE ConnectFails
    BY <2>3 DEF ConnectFails, Throw, TypeOK
  <2>4. CASE Write
    <3>1. Current \in Request
      BY <2>4, CurrentType DEF Write
    <3>2. open' \in BOOLEAN
      BY <2>4, Zenon DEF Write
    <3> QED
      BY <2>4, <3>1, <3>2 DEF Write, TypeOK
  <2>5. CASE WriteIsLost
    BY <2>5 DEF WriteIsLost, TypeOK
  <2>6. CASE WriteFails
    BY <2>6 DEF WriteFails, Throw, TypeOK
  <2>7. CASE Receive
    <3>1. step + 1 \in DOMAIN Requests[op] \/ step = Len(Requests[op])
      BY RequestsPosted DEF TypeOK
    <3>2. Tail(replies) \in Seq(Reply)
      BY <2>7 DEF Receive, TypeOK
    <3> QED
      BY <2>7, <3>1, <3>2 DEF Receive, Throw, TypeOK
  <2>8. CASE ReceiveFails
    BY <2>8 DEF ReceiveFails, AfterEndOfStream, Throw, TypeOK
  <2>9. ASSUME NEW r \in written, NEW a \in Answers, Handle(r, a)
        PROVE  TypeOK' /\ Numbered'
    <3>1. [to |-> r, answer |-> a] \in Reply
      BY DEF TypeOK, Reply
    <3> QED
      BY <2>9, <3>1 DEF Handle, client, TypeOK
  <2>10. ASSUME NEW r \in written, Lose(r) PROVE TypeOK' /\ Numbered'
    BY <2>10 DEF Lose, client, TypeOK
  <2>11. CASE LinkEnds
    <3>1. Unanswered \in Reply
      BY DEF Unanswered, Reply, Answers
    <3>2. replies' \in {replies, <<>>, <<Unanswered>>}
      BY <2>11 DEF LinkEnds, Unanswered
    <3>3. <<Unanswered>> \in Seq(Reply)
      BY <3>1
    <3>4. replies' \in Seq(Reply)
      <4>1. <<>> \in Seq(Reply) /\ replies \in Seq(Reply)
        BY DEF TypeOK
      <4> QED
        BY <3>2, <3>3, <4>1, Zenon
    <3> QED
      BY <2>11, <3>4 DEF LinkEnds, client, TypeOK
  <2>12. CASE UNCHANGED vars
    BY <2>12 DEF vars, TypeOK
  <2> QED
    BY <2>1, <2>2, <2>3, <2>4, <2>5, <2>6, <2>7, <2>8, <2>9, <2>10, <2>11,
       <2>12 DEF Next, Client, Exchange
<1>3. Init => Numbered
  BY DEF Init, Numbered, Running
<1> QED
  BY <1>1, <1>2, <1>3, PTL DEF Spec
-----------------------------------------------------------------------------
(* The steps that matter, one lemma each                                    *)

\* A request that is written is one the exchange has not handled, and an
\* order that is written has its simulation behind it.
LEMMA WriteStep ==
    ASSUME TypeOK, Structure, Write
    PROVE  Structure'
<1> USE DEF Structure
<1>1. Current \in Request /\ Current.call = call /\ Current.target = Requests[op][step]
  BY CurrentType DEF Write, Numbered, Running, Current
<1>2. UNCHANGED <<call, op, step, result, handled>> /\ pc = "sending" /\ pc' = "receiving"
      /\ written' = written \cup {Current}
  BY DEF Write
<1>3. Numbered' /\ Progress' /\ ReturnedMeansDone'
  BY <1>2 DEF Numbered, Progress, Running, ReturnedMeansDone, Answered
<1>4. step \in DOMAIN Requests[op] /\ DOMAIN Requests[op] = 1..Len(Requests[op])
      /\ Len(Requests[op]) \in 1..3 /\ op \in Operations /\ step \in 1..Len(Requests[op])
  BY RequestsPosted DEF TypeOK
<1>5. ASSUME NEW r, Known(r) PROVE Known(r)'
  BY <1>2, <1>4, <1>5 DEF Known, Running
<1>6. ASSUME NEW r, r = Current PROVE Known(r)'
  BY <1>6, <1>1, <1>2, <1>4 DEF Known, Running, TypeOK
<1>7. OnlyKnown'
  BY <1>2, <1>5, <1>6 DEF OnlyKnown
<1>8. OrdersSimulated'
  <2>1. Current.target = "RequestTrade" =>
          Answered(Current.call, "GetMarketDetails") /\ Answered(Current.call, "RequestTradeSimulate")
    <3> SUFFICES ASSUME Current.target = "RequestTrade"
                 PROVE  Answered(call, "GetMarketDetails") /\ Answered(call, "RequestTradeSimulate")
      BY <1>1
    <3>1. step = 3 /\ Requests[op][1] = "GetMarketDetails" /\ Requests[op][2] = "RequestTradeSimulate"
      BY <1>1, <1>4, RequestsPosted
    <3>2. Answered(call, Requests[op][1]) /\ Answered(call, Requests[op][2])
      BY <1>2, <3>1 DEF Progress, Running
    <3> QED
      BY <3>1, <3>2
  <2> QED
    BY <1>2, <2>1 DEF OrdersSimulated, Answered
<1>9. HandledOnce'
  <2>1. ASSUME NEW h \in handled PROVE h.to # Current
    <3> SUFFICES ASSUME h.to = Current PROVE FALSE
      OBVIOUS
    <3>1. PICK i \in 1..step : Current.target = Requests[op][i] /\ i < step
      BY <1>1, <1>2 DEF OnlyKnown, Known, Running
    <3>2. i \in DOMAIN Requests[op] /\ Requests[op][i] = Requests[op][step] /\ i # step
      BY <1>1, <1>4, <3>1
    <3> QED
      BY <1>4, <3>2, RequestsPosted
  <2> QED
    BY <1>2, <2>1 DEF HandledOnce
<1>10. OneReply'
  BY DEF Write, OneReply
<1> QED
  BY <1>3, <1>7, <1>8, <1>9, <1>10

\* The reply the client reads is its own, or none at all: a call that goes on
\* has the request behind it answered well.
LEMMA ReceiveStep ==
    ASSUME TypeOK, Structure, Receive
    PROVE  Structure'
<1> USE DEF Structure
<1>1. UNCHANGED <<link, call, op, written, handled>> /\ pc = "receiving"
  BY DEF Receive
<1>2. replies' = <<>>
  BY <1>1 DEF Receive, OneReply
<1>3. step \in DOMAIN Requests[op] /\ DOMAIN Requests[op] = 1..Len(Requests[op])
      /\ Len(Requests[op]) \in 1..3 /\ op \in Operations /\ step \in 1..Len(Requests[op])
  BY RequestsPosted DEF TypeOK
<1>4. Numbered' /\ OneReply' /\ HandledOnce' /\ OrdersSimulated'
  BY <1>1, <1>2 DEF Numbered, Running, OneReply, HandledOnce, OrdersSimulated, Answered
<1>5. CASE ~Accepted(Head(replies))
  <2>1. pc' = "idle" /\ result' = "thrown" /\ step' = step
    BY <1>5 DEF Receive, Throw
  <2> QED
    BY <1>1, <1>4, <2>1 DEF Progress, OnlyKnown, Known, Running, ReturnedMeansDone
<1>6. CASE Accepted(Head(replies))
  <2>1. op # "renew" => Answered(call, Requests[op][step])
    <3> SUFFICES ASSUME op # "renew" PROVE Answered(call, Requests[op][step])
      OBVIOUS
    <3>1. Head(replies).answer = "ok"
      BY <1>6 DEF Accepted
    <3>2. PICK m \in handled : replies = <<m>> /\ m.to = Current
      BY <3>1 DEF OneReply, Unanswered, Receive
    <3>3. m = [to |-> Current, answer |-> "ok"]
      BY <3>1, <3>2 DEF TypeOK, Reply
    <3> QED
      BY <3>2, <3>3 DEF Answered, Current
  <2>2. op = "renew" => Len(Requests[op]) = 1
    BY DEF Requests
  <2>3. CASE step = Len(Requests[op])
    <3>1. pc' = "idle" /\ step' = step
      BY <1>6, <2>3 DEF Receive
    <3>2. op # "renew" => \A i \in DOMAIN Requests[op] : Answered(call, Requests[op][i])
      BY <1>1, <1>3, <2>1, <2>3 DEF Progress, Running
    <3> QED
      BY <1>1, <1>4, <3>1, <3>2 DEF Progress, OnlyKnown, Known, Running, ReturnedMeansDone, Answered
  <2>4. CASE step # Len(Requests[op])
    <3>1. pc' = "sending" /\ step' = step + 1
      BY <1>6, <2>4 DEF Receive
    <3>2. op # "renew"
      <4> SUFFICES ASSUME op = "renew" PROVE FALSE
        OBVIOUS
      <4>1. Len(Requests[op]) = 1 /\ step \in 1..Len(Requests[op])
        BY <1>3, <2>2
      <4> QED
        BY <2>4, <4>1
    <3>3. Progress'
      BY <1>1, <1>3, <2>1, <3>1, <3>2 DEF Progress, Running, Answered
    <3>4. OnlyKnown'
      BY <1>1, <1>3, <3>1 DEF OnlyKnown, Known, Running
    <3> QED
      BY <1>4, <3>1, <3>3, <3>4 DEF ReturnedMeansDone
  <2> QED
    BY <2>3, <2>4
<1> QED
  BY <1>5, <1>6

\* The exchange answers a request once, and answers the call that waits for it.
LEMMA HandleStep ==
    ASSUME TypeOK, Structure, NEW r \in written, NEW a \in Answers, Handle(r, a)
    PROVE  Structure'
<1> USE DEF Structure
<1> DEFINE m == [to |-> r, answer |-> a]
<1>1. UNCHANGED <<open, call, op, step, pc, result, link>>
      /\ written' = written \ {r} /\ handled' = handled \cup {m}
  BY DEF Handle, client
<1>2. m.to = r
  OBVIOUS
<1>3. handled \subseteq handled'
  BY <1>1
<1>4. Numbered' /\ Progress' /\ ReturnedMeansDone' /\ OrdersSimulated'
  BY <1>1, <1>3 DEF Numbered, Progress, Running, ReturnedMeansDone, OrdersSimulated, Answered
<1>5. OnlyKnown'
  BY <1>1, <1>2 DEF OnlyKnown, Known, Running
<1>6. HandledOnce'
  BY <1>1, <1>2 DEF HandledOnce
<1>7. OneReply'
  <2>1. CASE link = "up" /\ pc = "receiving" /\ r = Current
    <3>1. replies = <<>>
      BY <2>1 DEF OneReply, HandledOnce
    <3>2. replies' = <<m>>
      BY <2>1, <3>1 DEF Handle
    <3> QED
      BY <1>1, <1>2, <2>1, <3>2 DEF OneReply, Current
  <2>2. CASE ~(link = "up" /\ pc = "receiving" /\ r = Current)
    BY <1>1, <1>3, <2>2 DEF Handle, OneReply, Current
  <2> QED
    BY <2>1, <2>2
<1> QED
  BY <1>4, <1>5, <1>6, <1>7

\* Every reachable state has the structure.
THEOREM RestStructure == Spec => []Structure
<1>1. Init => Structure
  BY DEF Init, Structure, Numbered, Progress, OnlyKnown, OrdersSimulated, OneReply,
         HandledOnce, ReturnedMeansDone, Running
<1>2. TypeOK /\ Structure /\ [Next]_vars => Structure'
  <2> SUFFICES ASSUME TypeOK, Structure, [Next]_vars PROVE Structure'
    OBVIOUS
  <2> USE DEF Structure, Numbered, Progress, OnlyKnown, Known, OrdersSimulated, OneReply,
              HandledOnce, ReturnedMeansDone, Running, Answered
  <2>1. CASE NewClient
    BY <2>1 DEF NewClient
  <2>2. ASSUME NEW o \in Operations, Call(o) PROVE Structure'
    <3>1. /\ pc = "idle" /\ pc' = "sending" /\ call' = call + 1 /\ op' = o /\ step' = 1
          /\ result' = "none" /\ UNCHANGED <<link, written, replies, handled>>
      BY <2>2 DEF Call
    <3>2. (\A r \in written : r.call \in Nat) /\ (\A h \in handled : h.to.call \in Nat)
          /\ call \in Nat
      BY DEF TypeOK, Request, Reply, Unasked
    <3> QED
      BY <3>1, <3>2
  <2>3. CASE ConnectFails
    BY <2>3 DEF ConnectFails, Throw
  <2>4. CASE Write
    BY <2>4, WriteStep
  <2>5. CASE WriteIsLost
    BY <2>5 DEF WriteIsLost
  <2>6. CASE WriteFails
    BY <2>6 DEF WriteFails, Throw
  <2>7. CASE Receive
    BY <2>7, ReceiveStep
  <2>8. CASE ReceiveFails
    BY <2>8 DEF ReceiveFails, AfterEndOfStream, Throw
  <2>9. ASSUME NEW r \in written, NEW a \in Answers, Handle(r, a) PROVE Structure'
    BY <2>9, HandleStep
  <2>10. ASSUME NEW r \in written, Lose(r) PROVE Structure'
    BY <2>10 DEF Lose, client, Current
  <2>11. CASE LinkEnds
    BY <2>11 DEF LinkEnds, client, Current, Unanswered
  <2>12. CASE UNCHANGED vars
    BY <2>12 DEF vars, Current
  <2> QED
    BY <2>1, <2>2, <2>3, <2>4, <2>5, <2>6, <2>7, <2>8, <2>9, <2>10, <2>11,
       <2>12 DEF Next, Client, Exchange
<1> QED
  BY <1>1, <1>2, RestTypeCorrect, PTL DEF Spec

\* OrderFollowsSimulation for any number of calls (td365.cpp:81-85).
THEOREM OrderAfterSimulation == Spec => OrderFollowsSimulation
<1>1. TypeOK /\ Structure /\ [Next]_vars => [OrderHandledInTurn]_vars
  <2> SUFFICES ASSUME Structure, Next, NEW c \in 1..MaxCalls, NEW a \in Answers,
                      Order(c, a) \in handled', Order(c, a) \notin handled
               PROVE  Answered(c, "GetMarketDetails") /\ Answered(c, "RequestTradeSimulate")
    BY DEF OrderHandledInTurn
  <2>1. PICK r \in written, b \in Answers : Handle(r, b)
    BY DEF Next, NewClient, Call, Client, ConnectFails, Write, WriteIsLost, WriteFails,
           Receive, ReceiveFails, Exchange, Lose, LinkEnds
  <2>2. Order(c, a) = [to |-> r, answer |-> b]
    BY <2>1 DEF Handle
  <2>3. r.call = c /\ r.target = "RequestTrade"
    BY <2>2 DEF Order
  <2> QED
    BY <2>1, <2>3 DEF Structure, OrdersSimulated
<1> QED
  BY <1>1, RestTypeCorrect, RestStructure, PTL DEF OrderFollowsSimulation, Spec

\* HandledOnce for any number of calls (http_client.cpp:149-175).
THEOREM EveryRequestOnce == Spec => []HandledOnce
<1>1. Structure => HandledOnce
  BY DEF Structure
<1> QED
  BY <1>1, RestStructure, PTL

\* ReturnedMeansDone for any number of calls (rest_api.cpp:75-85).
THEOREM ReturnMeansDone == Spec => []ReturnedMeansDone
<1>1. Structure => ReturnedMeansDone
  BY DEF Structure
<1> QED
  BY <1>1, RestStructure, PTL

-----------------------------------------------------------------------------
(* The refinement                                                           *)

\* What is written is new: the exchange was never asked for it before.
LEMMA WriteAsks ==
    ASSUME TypeOK, Structure, Write
    PROVE  \E i \in DOMAIN Requests[op] : Abstract!Ask(i)
<1>1. /\ UNCHANGED <<call, op, step, result, handled>> /\ pc = "sending" /\ pc' = "receiving"
      /\ written' = written \cup {Current}
  BY DEF Write
<1>2. /\ step \in DOMAIN Requests[op] /\ step \in 1..Len(Requests[op])
      /\ Len(Requests[op]) \in 1..3 /\ op \in Operations
      /\ DOMAIN Requests[op] = 1..Len(Requests[op])
  BY RequestsPosted DEF TypeOK
<1>3. Abstract!The(step) = Current
  BY DEF Abstract!The, Current
<1>4. ASSUME NEW r, Known(r) PROVE r # Current
  <2> SUFFICES ASSUME r = Current PROVE FALSE
    OBVIOUS
  <2>1. PICK i \in 1..step : Requests[op][step] = Requests[op][i] /\ i < step
    BY <1>1, <1>4 DEF Known, Running, Current
  <2> QED BY <1>2, <2>1, RequestsPosted
<1>5. Abstract!New(step)
  BY <1>3, <1>4 DEF Abstract!New, Structure, OnlyKnown
<1>6. \A j \in 1..(step - 1) : Abstract!Done(j)
  BY <1>1 DEF Structure, Progress, Running, Answered, Abstract!Done, Abstract!The
<1>7. Abstract!Ask(step)
  BY <1>1, <1>3, <1>5, <1>6 DEF Abstract!Ask, Abstract!Running
<1> QED BY <1>2, <1>7

LEMMA CallEnds ==
    ASSUME Structure', pc # "idle", pc' = "idle", result' \in {"ok", "thrown"},
           UNCHANGED <<call, op, written, handled>>
    PROVE  Abstract!Return \/ Abstract!Throw
<1>1. CASE result' = "thrown"
  BY <1>1 DEF Abstract!Throw, Abstract!Running
<1>2. CASE result' = "ok"
  <2>1. op = "renew" \/ \A i \in DOMAIN Requests[op] : Answered(call, Requests[op][i])
    BY <1>2 DEF Structure, ReturnedMeansDone, Answered
  <2> QED
    BY <1>2, <2>1 DEF Abstract!Return, Abstract!Running, Abstract!Done, Abstract!The, Answered
<1> QED BY <1>1, <1>2

\* Every step of the client, the connection and the exchange is a step of
\* Calls or none: the safety part of ImplementsCalls.
THEOREM RestImplementsCalls == Spec => Abstract!Spec
<1>1. Init => Abstract!Init
  BY DEF Init, Abstract!Init, Requests
<1>2. TypeOK /\ Structure /\ Structure' /\ [Next]_vars => [Abstract!Next]_(Abstract!vars)
  <2> SUFFICES ASSUME TypeOK, Structure, Structure', [Next]_vars
               PROVE  Abstract!Next \/ UNCHANGED Abstract!vars
    OBVIOUS
  <2> USE DEF Abstract!Next
  <2>1. CASE NewClient
    BY <2>1 DEF NewClient, Abstract!vars
  <2>2. ASSUME NEW o \in Operations, Call(o) PROVE Abstract!Next
    <3>1. o \in DOMAIN Requests
      BY DEF Operations, Requests
    <3>2. Abstract!Begin(o)
      BY <2>2 DEF TypeOK, Call, Abstract!Begin, Abstract!Running
    <3> QED BY <3>1, <3>2
  <2>3. CASE ConnectFails \/ WriteFails \/ ReceiveFails
    <3>1. /\ pc # "idle" /\ pc' = "idle" /\ result' = "thrown"
          /\ UNCHANGED <<call, op, written, handled>>
      BY <2>3 DEF ConnectFails, WriteFails, ReceiveFails, AfterEndOfStream, Throw
    <3> QED BY <3>1, CallEnds
  <2>4. CASE Write
    BY <2>4, WriteAsks
  <2>5. CASE WriteIsLost
    BY <2>5 DEF WriteIsLost, Abstract!vars
  <2>6. CASE Receive
    <3>1. CASE pc' = "idle"
      <4>1. /\ pc # "idle" /\ result' \in {"ok", "thrown"}
            /\ UNCHANGED <<call, op, written, handled>>
        BY <2>6, <3>1 DEF Receive, Throw
      <4> QED BY <3>1, <4>1, CallEnds
    <3>2. CASE pc' # "idle"
      BY <2>6, <3>2 DEF Receive, Throw, Abstract!vars
    <3> QED BY <3>1, <3>2
  <2>7. ASSUME NEW r \in written, NEW a \in Answers, Handle(r, a) PROVE Abstract!Next
    <3>1. Abstract!Handle(r, a)
      BY <2>7 DEF Handle, client, Abstract!Handle
    <3> QED BY <3>1
  <2>8. ASSUME NEW r \in written, Lose(r) PROVE Abstract!Next
    <3>1. Abstract!Lose(r)
      BY <2>8 DEF Lose, client, Abstract!Lose
    <3> QED BY <3>1
  <2>9. CASE LinkEnds
    BY <2>9 DEF LinkEnds, client, Abstract!vars
  <2>10. CASE UNCHANGED vars
    BY <2>10 DEF vars, Abstract!vars
  <2> QED
    BY <2>1, <2>2, <2>3, <2>4, <2>5, <2>6, <2>7, <2>8, <2>9, <2>10 DEF Next, Client, Exchange
<1> QED BY <1>1, <1>2, RestTypeCorrect, RestStructure, PTL DEF Spec, Abstract!Spec

-----------------------------------------------------------------------------
(* A connection that is gone                                                *)

\* The socket is open on a connection that has ended and has nothing left.
Gone == open /\ link = "ended" /\ replies = <<>>

OnlyThrows ==
    Gone => /\ Gone' \/ (NewClient /\ ~open')
            /\ written' \subseteq written
            /\ result' = "ok" => result = "ok"

\* http_client looks at the socket alone, and send leaves it open when an
\* exchange fails: once the connection is gone, no step of any later call
\* brings it back, none of their requests ever reaches the exchange, and no
\* call returns. Only rest_api::connect, with its new client, ends that.
THEOREM GoneForGood == Spec => [][OnlyThrows]_vars
<1>1. [Next]_vars => OnlyThrows
  <2> SUFFICES ASSUME [Next]_vars, Gone
               PROVE  /\ Gone' \/ (NewClient /\ ~open')
                      /\ written' \subseteq written
                      /\ result' = "ok" => result = "ok"
    BY DEF OnlyThrows
  <2>1. open /\ link = "ended" /\ replies = <<>>
    BY DEF Gone
  <2>2. CASE NewClient
    BY <2>1, <2>2 DEF NewClient
  <2>3. ASSUME NEW o \in Operations, Call(o)
        PROVE  Gone' /\ written' = written /\ result' # "ok"
    BY <2>1, <2>3 DEF Call, Gone
  <2>4. ~ConnectFails /\ ~Write /\ ~Receive /\ ~LinkEnds
    BY <2>1 DEF ConnectFails, Write, Receive, LinkEnds
  <2>5. CASE WriteIsLost
    BY <2>1, <2>5 DEF WriteIsLost, Gone
  <2>6. CASE WriteFails
    <3>1. Gone' /\ written' = written /\ result' = "thrown"
      BY <2>1, <2>6 DEF WriteFails, Throw, Gone
    <3> QED BY <3>1
  <2>7. CASE ReceiveFails
    <3>1. Gone' /\ written' = written /\ result' = "thrown"
      BY <2>1, <2>7 DEF ReceiveFails, AfterEndOfStream, Throw, Gone
    <3> QED BY <3>1
  <2>8. ASSUME NEW r \in written, NEW a \in Answers, Handle(r, a)
        PROVE  Gone' /\ written' \subseteq written /\ result' = result
    <3>1. replies' = replies
      BY <2>1, <2>8 DEF Handle
    <3> QED BY <2>1, <2>8, <3>1 DEF Handle, client, Gone
  <2>9. ASSUME NEW r \in written, Lose(r)
        PROVE  Gone' /\ written' \subseteq written /\ result' = result
    BY <2>1, <2>9 DEF Lose, client, Gone
  <2>10. CASE UNCHANGED vars
    BY <2>1, <2>10 DEF vars, Gone
  <2> QED
    BY <2>2, <2>3, <2>4, <2>5, <2>6, <2>7, <2>8, <2>9, <2>10 DEF Next, Client, Exchange
<1> QED BY <1>1, PTL DEF Spec

=============================================================================
