------------------------------ MODULE Session ------------------------------
(***************************************************************************)
(* What td365::connect (src/td365.cpp) promises, without tokens, portals,  *)
(* redirects and cookies: a call returns connected to the account it was   *)
(* asked for, with the REST client, the websocket and the account id of    *)
(* the orders all of one session, which the platform opened for this very  *)
(* call; or it throws, and the next call starts over.                      *)
(***************************************************************************)
EXTENDS Naturals, Sequences

CONSTANT Accounts

VARIABLES
    asked,     \* the account of the running call, if one is running
    granted,   \* whether the platform has opened a session for it
    sessions,  \* whose the sessions are that there have been
    connected  \* what the last call returned with, if it did

vars == <<asked, granted, sessions, connected>>

Init == asked = {} /\ granted = FALSE /\ sessions = <<>> /\ connected = {}

Granted(a) == granted' = TRUE /\ sessions' = Append(sessions, a)

\* What there was before is given up. The session may be open at once.
Call(a) ==
    /\ asked = {} /\ asked' = {a}
    /\ connected' = {}
    /\ Granted(a) \/ (granted' = FALSE /\ UNCHANGED sessions)

Grant ==
    /\ ~granted
    /\ \E a \in asked : Granted(a)
    /\ UNCHANGED <<asked, connected>>

\* All parts are of the session the call was granted.
Parts(s) == [rest |-> s, websocket |-> s, account |-> sessions[s]]

Return ==
    /\ asked # {} /\ granted
    /\ asked' = {} /\ granted' = FALSE
    /\ connected' = {Parts(Len(sessions))}
    /\ UNCHANGED sessions

\* The call throws, or the process ends.
Fail == asked' = {} /\ granted' = FALSE /\ connected' = {} /\ UNCHANGED sessions

Next == Grant \/ Return \/ Fail \/ \E a \in Accounts : Call(a)

Spec == Init /\ [][Next]_vars

\* Every call returns or throws.
Ends == []<>(asked = {})

FairSpec == Spec /\ Ends

=============================================================================
