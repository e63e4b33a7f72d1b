------------------------------ MODULE WaitLoop ------------------------------
(***************************************************************************)
(* td365::wait (src/td365.cpp) and the reading loop it calls               *)
(* (src/ws_client.cpp), with time.  wait renews the REST session every     *)
(* Period and reads the stream in slices between two renewals, in the same *)
(* thread: a renewal that blocks delays the reads, and a read that blocks  *)
(* delays the renewal.  The reads are synchronous, so the expiry ws.cpp    *)
(* sets has no effect on them: a read of an open stream returns when a     *)
(* message arrives, and a deadline is seen between two messages.           *)
(*                                                                         *)
(* Clock readings are only ever compared with earlier ones, so the model   *)
(* keeps the differences, which are bounded, and not the readings.  What   *)
(* a message holds and what its handler writes is in WsClient.             *)
(***************************************************************************)
EXTENDS Integers, Sequences

CONSTANTS
    Period,    \* 60 s, the age at which the session is renewed
    Slice,     \* 100 ms, the timeout given to read_and_process_message
    PostMax,   \* the longest a renewal takes to answer or throw (external)
    Silence,   \* the longest an open stream stays silent: heartbeats (external)
    Timeouts,  \* the timeouts the application calls wait with
    Backlog,   \* bound: messages that wait to be read
    Old        \* bound: ages are not told apart from here on

ASSUME TimesAssumption ==
    /\ Period \in Nat \ {0} /\ Slice \in Nat \ {0}
    /\ PostMax \in Nat /\ Silence \in Nat \ {0}
    /\ Timeouts \subseteq Nat
ASSUME BoundsAssumption ==
    Backlog \in Nat \ {0} /\ Old \in Nat /\ Old > Period + PostMax + Slice + Silence

VARIABLES
    pc,       \* where the application thread is
    timed,    \* wait was given a timeout
    left,     \* wait: deadline - now
    slice,    \* read_and_process_message: deadline - now, at least 0
    age,      \* now - last_session_update_
    posted,   \* now - (the now of the loop's head), while the renewal runs
    status,   \* what the last renewal was answered, which the code ignores
    renewed,  \* time since the server last renewed the session
    result,   \* what wait last returned or threw
    stream,   \* "ending": its end is there to be read; "dead": it was read
    inbox,    \* messages not yet read: handled in the loop, or an event
    silence   \* time since the server last wrote to the stream

vars == <<pc, timed, left, slice, age, posted, status, renewed, result, stream,
          inbox, silence>>

Waiting == pc # "idle"

TypeOK ==
    /\ pc \in {"idle", "top", "posting", "reading"}
    /\ timed \in BOOLEAN
    /\ left \in Int
    /\ slice \in 0..Slice
    /\ age \in 0..Old
    /\ posted \in 0..PostMax
    /\ status \in {"none", "ok", "refused"}
    /\ renewed \in 0..Old
    /\ result \in {"none", "event", "ended", "timeout", "thrown"}
    /\ stream \in {"open", "ending", "dead"}
    /\ inbox \in Seq({"quiet", "event"})
    /\ silence \in 0..Silence

\* The application has connected. last_session_update_ is the epoch of the
\* steady clock, which lies any time back.
Init ==
    /\ pc = "idle"
    /\ timed = FALSE /\ left = 0 /\ slice = 0 /\ posted = 0
    /\ age \in 0..Old
    /\ status = "none" /\ renewed = 0
    /\ result = "none"
    /\ stream = "open" /\ inbox = <<>> /\ silence = 0

-----------------------------------------------------------------------------
(* wait: the head of the loop                                               *)

\* the application calls wait; Forever: without a timeout
Wait(given, t) ==
    /\ pc = "idle"
    /\ pc' = "top"
    /\ timed' = given
    /\ left' = IF given THEN t ELSE 0
    /\ UNCHANGED <<slice, age, posted, status, renewed, result, stream, inbox, silence>>

\* mistake: the renewal is due only once Period has passed since the end of
\* the last one
LastUpdate_After(captured) == 0

\* last_session_update_ is the time read before the renewal was sent
LastUpdate(captured) == captured

StartRead ==
    /\ pc' = "reading"
    /\ slice' = Slice

\* mistake: a keep-alive only when the stream had nothing to say
RenewalDue_WhenQuiet == age >= Period /\ inbox = <<>>

RenewalDue == age >= Period

LoopHead ==
    /\ pc = "top"
    /\ \/ RenewalDue /\ pc' = "posting" /\ posted' = 0 /\ UNCHANGED slice
       \/ ~RenewalDue /\ StartRead /\ UNCHANGED posted
    /\ UNCHANGED <<timed, left, age, status, renewed, result, stream, inbox, silence>>

\* The server handled the renewal at some time since it was sent. Any answer
\* counts: update_client_session_id does not look at its status.
RenewalAnswered(s) ==
    /\ pc = "posting"
    /\ status' = s
    /\ IF s = "ok" THEN renewed' \in 0..posted ELSE UNCHANGED renewed
    /\ age' = LastUpdate(posted)
    /\ posted' = 0
    /\ StartRead
    /\ UNCHANGED <<timed, left, result, stream, inbox, silence>>

Return(r) == pc' = "idle" /\ result' = r

\* http_client::send throws, through wait: the server may have handled the
\* request all the same. The renewal stays due.
RenewalThrows ==
    /\ pc = "posting"
    /\ renewed' \in {renewed} \cup 0..posted
    /\ posted' = 0
    /\ Return("thrown")
    /\ UNCHANGED <<timed, left, slice, age, status, stream, inbox, silence>>

-----------------------------------------------------------------------------
(* read_and_process_message                                                 *)

\* mistakes: the deadline is only seen at its very instant; never
Expired_Exactly == timed /\ left = 0
Expired_Never == FALSE

\* wait, on a timeout_event: returns it once its own deadline has passed
Expired == timed /\ left <= 0

SliceEnds ==
    \/ Expired /\ Return("timeout")
    \/ ~Expired /\ pc' = "top" /\ UNCHANGED result

\* mistakes: no look at the clock between two messages; the timeout of the
\* slice is handed to the application
LoopGoesOn_NoDeadline == UNCHANGED <<pc, result>>
LoopGoesOn_Returned == IF slice = 0 THEN Return("timeout") ELSE UNCHANGED <<pc, result>>

\* after a message that is no event
LoopGoesOn == IF slice = 0 THEN SliceEnds ELSE UNCHANGED <<pc, result>>

ReadMessage ==
    /\ pc = "reading" /\ inbox # <<>> /\ stream # "dead"
    /\ inbox' = Tail(inbox)
    /\ IF Head(inbox) = "event" THEN Return("event") ELSE LoopGoesOn
    /\ UNCHANGED <<timed, left, slice, age, posted, status, renewed, stream, silence>>

\* the handler throws: its answer cannot be written, or the message is no good
HandlerThrows ==
    /\ pc = "reading" /\ inbox # <<>> /\ stream # "dead"
    /\ inbox' = Tail(inbox)
    /\ stream' \in {stream, "dead"}
    /\ Return("thrown")
    /\ UNCHANGED <<timed, left, slice, age, posted, status, renewed, silence>>

\* mistakes: the end of the stream is taken for a timeout; it is no outcome
EndOutcome_Quiet == SliceEnds
EndOutcome_Raw == Return("end_of_file")

\* connection_closed_event or error_event
EndOutcome == Return("ended")

ReadEnds ==
    /\ pc = "reading" /\ stream = "ending" /\ inbox = <<>>
    /\ stream' = "dead"
    /\ EndOutcome
    /\ UNCHANGED <<timed, left, slice, age, posted, status, renewed, inbox, silence>>

\* A read of a dead stream is aborted at once, which read_and_process_message
\* returns as a timeout: wait reads again, or finds its deadline passed.
ReadAborts ==
    /\ pc = "reading" /\ stream = "dead"
    /\ SliceEnds
    /\ UNCHANGED <<timed, left, slice, age, posted, status, renewed, stream, inbox, silence>>

\* the application connects again: last_session_update_ is left as it is
Connect ==
    /\ pc = "idle"
    /\ stream' = "open" /\ inbox' = <<>> /\ silence' = 0
    /\ renewed' = 0 /\ status' = "none"
    /\ UNCHANGED <<pc, timed, left, slice, age, posted, result>>

-----------------------------------------------------------------------------
(* The server and time (external)                                           *)

ServerWrites(m) ==
    /\ stream = "open" /\ Len(inbox) < Backlog
    /\ inbox' = Append(inbox, m)
    /\ silence' = 0
    /\ UNCHANGED <<pc, timed, left, slice, age, posted, status, renewed, result, stream>>

StreamEnds ==
    /\ stream = "open"
    /\ stream' = "ending"
    /\ UNCHANGED <<pc, timed, left, slice, age, posted, status, renewed, result, inbox, silence>>

AtMost(bound, n) == IF n > bound THEN bound ELSE n

\* One unit of time passes. Only a renewal and a read that finds nothing take
\* time, and an aborted read takes less than a slice.
Tick ==
    /\ pc # "top"
    /\ pc = "posting" => posted < PostMax
    /\ pc = "reading" =>
         /\ stream # "dead" => inbox = <<>> /\ stream = "open"
         /\ stream = "dead" => slice > 0
    /\ stream = "open" => silence < Silence \/ Len(inbox) = Backlog
    /\ left' = IF timed /\ Waiting /\ left > -Old THEN left - 1 ELSE left
    /\ slice' = IF pc = "reading" /\ slice > 0 THEN slice - 1 ELSE slice
    /\ age' = AtMost(Old, age + 1)
    /\ posted' = IF pc = "posting" THEN posted + 1 ELSE posted
    /\ renewed' = AtMost(Old, renewed + 1)
    /\ silence' = AtMost(Silence, silence + 1)
    /\ UNCHANGED <<pc, timed, status, result, stream, inbox>>

-----------------------------------------------------------------------------
WaitStep ==
    \/ LoopHead
    \/ \E s \in {"ok", "refused"} : RenewalAnswered(s)
    \/ RenewalThrows
    \/ ReadMessage \/ HandlerThrows \/ ReadEnds \/ ReadAborts

Server == (\E m \in {"quiet", "event"} : ServerWrites(m)) \/ StreamEnds

Next ==
    \/ Wait(FALSE, 0) \/ \E t \in Timeouts : Wait(TRUE, t)
    \/ Connect
    \/ WaitStep \/ Server \/ Tick

Spec == Init /\ [][Next]_vars

\* A thread in wait runs and the server's heartbeats come. Steps take no time,
\* so it has to be said that time goes on: not infinitely many messages, or
\* reads of a dead stream, within one unit of it.
TimeGoesOn == []<><<Tick>>_vars
FairSpec == Spec /\ WF_vars(WaitStep) /\ WF_vars(Server) /\ TimeGoesOn

-----------------------------------------------------------------------------
(* Properties                                                               *)

Longest(m, n) == IF m > n THEN m ELSE n

\* the longest a read may go on after it was started
LongestRead == Slice - 1 + Silence

\* The session is kept alive: however the stream's messages, slow or failing
\* renewals, reconnects and calls of wait interleave, while wait is in a read
\* the server renewed the session no longer ago than one period (or the last
\* renewal took) and one read.  Excepted is a renewal the server refused,
\* whose status nobody looks at.
SessionKeptAlive ==
    (pc = "reading" /\ status # "refused") =>
      renewed <= Longest(Period - 1, PostMax) + LongestRead

\* wait(timeout) overruns its timeout by one renewal and one read at most,
\* also under messages that keep coming.
WaitOverrunBounded == (Waiting /\ timed) => left >= -(PostMax + LongestRead)

\* The application is told of a timeout only when its own timeout has passed:
\* the slices do not show.
TimeoutIsTheCallers ==
    [][(Waiting /\ pc' = "idle" /\ result' = "timeout") => (timed /\ left <= 0)]_vars

\* A wait with a timeout returns, on an open stream, on one that has ended
\* and on one that is dead.
TimedWaitReturns == (Waiting /\ timed) ~> ~Waiting

\* A wait during which the stream ends returns, with or without a timeout.
EndOfStreamEndsWait == (Waiting /\ stream = "ending") ~> ~Waiting

=============================================================================
