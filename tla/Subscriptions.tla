--------------------------- MODULE Subscriptions ----------------------------
(***************************************************************************)
(* What ws_client (src/ws_client.cpp) promises of subscriptions, without   *)
(* streams, handshakes and failing writes.  The application wants a set of *)
(* quotes.  A session is a connection whose handshake is over: it starts   *)
(* with a log that brings the server to exactly what is wanted, every      *)
(* change of mind is appended to it, and the server hears it in order.     *)
(* When the session ends the server forgets all of it; the wish stays.     *)
(***************************************************************************)
EXTENDS Naturals, Sequences

CONSTANT Quotes

VARIABLES
    wanted,   \* the quotes the application has subscribed to
    session,  \* whether there is one
    known,    \* the quotes the server has been told of in it
    log       \* the client's messages it has not heard yet

vars == <<wanted, session, known, log>>

Request(action, q) == [action |-> action, quoteId |-> q]

Mentions(m, q) == m \in {Request("subscribe", q), Request("unsubscribe", q)}

\* Once the server has heard the log it knows q if and only if q is wanted:
\* the last message about q says so, or, without one, it does already.
Settles(q) ==
    /\ (\A i \in DOMAIN log : ~Mentions(log[i], q)) => (q \in known <=> q \in wanted)
    /\ \A i \in DOMAIN log :
         (Mentions(log[i], q) /\ \A j \in DOMAIN log : j > i => ~Mentions(log[j], q))
           => (log[i] = Request("subscribe", q) <=> q \in wanted)

NoSession == ~session /\ known = {} /\ log = <<>>

Init == wanted = {} /\ NoSession

\* A session starts, whatever was wanted and given up since the last one.
Start ==
    /\ ~session /\ session'
    /\ UNCHANGED wanted
    /\ \A q \in Quotes : Settles(q)'

End == session /\ NoSession' /\ UNCHANGED wanted

\* Said in the session; without one there is nobody to tell, and the failure
\* to say it is the end of one.
Say(m) ==
    \/ session /\ log' = Append(log, m) /\ UNCHANGED <<session, known>>
    \/ NoSession'

Subscribe(q) ==
    /\ q \notin wanted
    /\ wanted' = wanted \cup {q}
    /\ Say(Request("subscribe", q))

Unsubscribe(q) ==
    /\ q \in wanted
    /\ wanted' = wanted \ {q}
    /\ Say(Request("unsubscribe", q))

\* Messages about something else share the log.
Chat ==
    /\ session
    /\ Len(log') = Len(log) + 1
    /\ \E m \in {log'[Len(log')]} :
         log' = Append(log, m) /\ \A q \in Quotes : ~Mentions(m, q)
    /\ UNCHANGED <<wanted, session, known>>

Hear ==
    /\ session /\ log # <<>>
    /\ log' = Tail(log)
    /\ \/ \E q \in Quotes : Head(log) = Request("subscribe", q) /\ known' = known \cup {q}
       \/ \E q \in Quotes : Head(log) = Request("unsubscribe", q) /\ known' = known \ {q}
       \/ (\A q \in Quotes : ~Mentions(Head(log), q)) /\ UNCHANGED known
    /\ UNCHANGED <<wanted, session>>

Next == Start \/ End \/ Chat \/ Hear \/ \E q \in Quotes : Subscribe(q) \/ Unsubscribe(q)

Spec == Init /\ [][Next]_vars

\* The server hears the whole log of a session that lasts. Stated of steps,
\* not with ENABLED, so that it is the same under a refinement mapping.
Hears == []<>(~session \/ log = <<>>) \/ []<><<Hear>>_vars

FairSpec == Spec /\ Hears

=============================================================================
