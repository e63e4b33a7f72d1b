-------------------------------- MODULE Calls --------------------------------
(***************************************************************************)
(* What a call of the REST client promises (td365::trade and the           *)
(* operations of rest_api over http_client), without sockets, connections, *)
(* replies and the place in the call: its requests are asked for in order, *)
(* each when those before it were answered well, and each once; what was   *)
(* asked for may be handled at any time, also when its call is over, or    *)
(* never; and a call returns with everything done, or throws.              *)
(***************************************************************************)
EXTENDS Naturals, Sequences

CONSTANTS
    Requests,   \* operation -> the requests it posts, in order
    Unchecked,  \* the operations that look at no answer
    Answers     \* of which "ok" is a good one

VARIABLES
    call,     \* number of calls
    op,       \* the operation of the last one
    outcome,  \* "running", or how it ended
    asked,    \* the requests that may still be handled
    handled   \* those that were, with their answers

vars == <<call, op, outcome, asked, handled>>

Init ==
    /\ call = 0 /\ op \in DOMAIN Requests
    /\ outcome = "none" /\ asked = {} /\ handled = {}

Running == outcome = "running"

Begin(o) ==
    /\ ~Running
    /\ call' = call + 1 /\ op' = o /\ outcome' = "running"
    /\ UNCHANGED <<asked, handled>>

\* the i-th request of the call, and what has become of it
The(i) == [call |-> call, target |-> Requests[op][i]]
Done(i) == [to |-> The(i), answer |-> "ok"] \in handled
New(i) == The(i) \notin asked /\ \A h \in handled : h.to # The(i)

Ask(i) ==
    /\ Running /\ New(i)
    /\ \A j \in 1..(i - 1) : Done(j)
    /\ asked' = asked \cup {The(i)}
    /\ UNCHANGED <<call, op, outcome, handled>>

Handle(r, a) ==
    /\ asked' = asked \ {r}
    /\ handled' = handled \cup {[to |-> r, answer |-> a]}
    /\ UNCHANGED <<call, op, outcome>>

Lose(r) ==
    /\ asked' = asked \ {r}
    /\ UNCHANGED <<call, op, outcome, handled>>

Return ==
    /\ Running
    /\ op \in Unchecked \/ \A i \in DOMAIN Requests[op] : Done(i)
    /\ outcome' = "ok"
    /\ UNCHANGED <<call, op, asked, handled>>

Throw ==
    /\ Running
    /\ outcome' = "thrown"
    /\ UNCHANGED <<call, op, asked, handled>>

Next ==
    \/ \E o \in DOMAIN Requests : Begin(o)
    \/ \E i \in DOMAIN Requests[op] : Ask(i)
    \/ \E r \in asked : Lose(r) \/ \E a \in Answers : Handle(r, a)
    \/ Return \/ Throw

Spec == Init /\ [][Next]_vars

\* Every call returns or throws.
Ends == []<>(~Running)

FairSpec == Spec /\ Ends

=============================================================================
