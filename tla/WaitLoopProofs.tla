--------------------------- MODULE WaitLoopProofs ---------------------------
(***************************************************************************)
(* The timing properties of WaitLoop, for every period, slice, length of   *)
(* a renewal and silence of the stream.                                    *)
(***************************************************************************)
EXTENDS WaitLoop, TLAPS

USE TimesAssumption, BoundsAssumption

\* A saturated clock stays within its bound.
LEMMA AtMostType ==
    ASSUME NEW bound \in Nat, NEW n \in Nat
    PROVE  /\ AtMost(bound, n) \in 0..bound
           /\ AtMost(bound, n) <= n
           /\ n <= bound => AtMost(bound, n) = n
  BY DEF AtMost

\* Every reachable state has the declared types (td365::wait).
THEOREM WaitTypeCorrect == Spec => []TypeOK
<1>1. Init => TypeOK
  <2> SUFFICES ASSUME Init PROVE TypeOK
    OBVIOUS
  <2>1. timed \in BOOLEAN
    BY Zenon DEF Init
  <2> QED
    BY <2>1 DEF Init, TypeOK
<1>2. TypeOK /\ [Next]_vars => TypeOK'
  <2> SUFFICES ASSUME TypeOK, [Next]_vars PROVE TypeOK'
    OBVIOUS
  <2> USE DEF TypeOK
  <2>1. ASSUME NEW given \in BOOLEAN, NEW t \in Nat, Wait(given, t) PROVE TypeOK'
    BY <2>1 DEF Wait
  <2>2. CASE Wait(FALSE, 0) \/ \E t \in Timeouts : Wait(TRUE, t)
    BY <2>1, <2>2, Zenon DEF TimesAssumption
  <2>3. CASE Connect
    BY <2>3 DEF Connect
  <2>4. CASE LoopHead
    BY <2>4 DEF LoopHead, RenewalDue, StartRead
  <2>5. ASSUME NEW s \in {"ok", "refused"}, RenewalAnswered(s) PROVE TypeOK'
    BY <2>5 DEF RenewalAnswered, LastUpdate, StartRead
  <2>6. CASE RenewalThrows
    BY <2>6 DEF RenewalThrows, Return
  <2>7. CASE ReadMessage
    BY <2>7 DEF ReadMessage, LoopGoesOn, SliceEnds, Expired, Return
  <2>8. CASE HandlerThrows
    BY <2>8 DEF HandlerThrows, Return
  <2>9. CASE ReadEnds
    BY <2>9 DEF ReadEnds, EndOutcome, Return
  <2>10. CASE ReadAborts
    BY <2>10 DEF ReadAborts, SliceEnds, Expired, Return
  <2>11. ASSUME NEW m \in {"quiet", "event"}, ServerWrites(m) PROVE TypeOK'
    BY <2>11 DEF ServerWrites
  <2>12. CASE StreamEnds
    BY <2>12 DEF StreamEnds
  <2>13. CASE Tick
    <3>1. /\ AtMost(Old, age + 1) \in 0..Old
          /\ AtMost(Old, renewed + 1) \in 0..Old
          /\ AtMost(Silence, silence + 1) \in 0..Silence
      <4>1. age + 1 \in Nat /\ renewed + 1 \in Nat /\ silence + 1 \in Nat
        OBVIOUS
      <4> QED
        BY <4>1, AtMostType
    <3> QED
      BY <2>13, <3>1 DEF Tick, Waiting
  <2>14. CASE UNCHANGED vars
    BY <2>14 DEF vars
  <2> QED
    BY <2>1, <2>2, <2>3, <2>4, <2>5, <2>6, <2>7, <2>8, <2>9, <2>10, <2>11,
       <2>12, <2>13, <2>14 DEF Next, WaitStep, Server
<1> QED
  BY <1>1, <1>2, PTL DEF Spec

-----------------------------------------------------------------------------
(* The inductive invariant: how far a renewal and a read have got bounds    *)
(* how old the session and how late the call can be.                        *)

Fresh == Longest(Period - 1, PostMax)

\* the server's renewal is no older than the client's account of it
RenewedWithinAge ==
    /\ status # "refused" => renewed <= age
    /\ pc = "posting" => posted <= age

\* Before the slice is over a read has taken what is gone of the slice; from
\* then on it only waits for the next message.
AgeInRead ==
    pc = "reading" =>
      /\ slice > 0 => age <= Fresh + (Slice - slice)
      /\ slice = 0 => age <= Fresh + LongestRead
      /\ (slice = 0 /\ inbox = <<>> /\ stream = "open") => age <= Fresh + (Slice - 1) + silence

LateInWait ==
    timed =>
      /\ pc = "top" => left >= 0
      /\ pc = "posting" => left >= -posted
      /\ pc = "reading" =>
           /\ slice > 0 => left >= -(PostMax + (Slice - slice))
           /\ slice = 0 => left >= -(PostMax + LongestRead)
           /\ (slice = 0 /\ inbox = <<>> /\ stream = "open")
                => left >= -(PostMax + (Slice - 1) + silence)

Timing == RenewedWithinAge /\ AgeInRead /\ LateInWait

\* The head of the loop never starts a read of a session that is
\* due, and no step lets a clock run past the bound of its phase.
THEOREM TimingInvariant == Spec => []Timing
<1>1. Init => Timing
  BY DEF Init, Timing, RenewedWithinAge, AgeInRead, LateInWait
<1>2. TypeOK /\ Timing /\ [Next]_vars => Timing'
  <2> SUFFICES ASSUME TypeOK, Timing, [Next]_vars PROVE Timing'
    OBVIOUS
  <2> USE DEF TypeOK, Timing, RenewedWithinAge, AgeInRead, LateInWait, LongestRead, Fresh, Longest
  <2>1. ASSUME NEW given \in BOOLEAN, NEW t \in Nat, Wait(given, t) PROVE Timing'
    BY <2>1 DEF Wait
  <2>2. CASE Wait(FALSE, 0) \/ \E t \in Timeouts : Wait(TRUE, t)
    BY <2>1, <2>2, Zenon
  <2>3. CASE Connect
    BY <2>3 DEF Connect
  <2>4. CASE LoopHead
    BY <2>4 DEF LoopHead, RenewalDue, StartRead
  <2>5. ASSUME NEW s \in {"ok", "refused"}, RenewalAnswered(s) PROVE Timing'
    BY <2>5 DEF RenewalAnswered, LastUpdate, StartRead
  <2>6. CASE RenewalThrows
    BY <2>6 DEF RenewalThrows, Return
  <2>7. CASE ReadMessage
    BY <2>7 DEF ReadMessage, LoopGoesOn, SliceEnds, Expired, Return
  <2>8. CASE HandlerThrows
    BY <2>8 DEF HandlerThrows, Return
  <2>9. CASE ReadEnds
    BY <2>9 DEF ReadEnds, EndOutcome, Return
  <2>10. CASE ReadAborts
    BY <2>10 DEF ReadAborts, SliceEnds, Expired, Return
  <2>11. ASSUME NEW m \in {"quiet", "event"}, ServerWrites(m) PROVE Timing'
    BY <2>11 DEF ServerWrites
  <2>12. CASE StreamEnds
    BY <2>12 DEF StreamEnds
  <2>13. CASE Tick
    BY <2>13 DEF Tick, Waiting, AtMost
  <2>14. CASE UNCHANGED vars
    BY <2>14 DEF vars
  <2> QED
    BY <2>1, <2>2, <2>3, <2>4, <2>5, <2>6, <2>7, <2>8, <2>9, <2>10, <2>11,
       <2>12, <2>13, <2>14 DEF Next, WaitStep, Server
<1> QED
  BY <1>1, <1>2, WaitTypeCorrect, PTL DEF Spec

\* SessionKeptAlive for every choice of the times (td365.cpp:47-50).
THEOREM SessionAlive == Spec => []SessionKeptAlive
<1>1. TypeOK /\ Timing => SessionKeptAlive
  BY DEF TypeOK, Timing, RenewedWithinAge, AgeInRead, SessionKeptAlive, Fresh, Longest, LongestRead
<1> QED
  BY <1>1, WaitTypeCorrect, TimingInvariant, PTL

\* WaitOverrunBounded for every choice of the times (td365.cpp:59-61).
THEOREM OverrunBounded == Spec => []WaitOverrunBounded
<1>1. TypeOK /\ Timing => WaitOverrunBounded
  BY DEF TypeOK, Timing, LateInWait, WaitOverrunBounded, Waiting, LongestRead
<1> QED
  BY <1>1, WaitTypeCorrect, TimingInvariant, PTL

\* TimeoutIsTheCallers for every choice of the times (td365.cpp:55-61).
THEOREM TimeoutsAreTheCallers == Spec => TimeoutIsTheCallers
<1>1. [Next]_vars => [(Waiting /\ pc' = "idle" /\ result' = "timeout") => (timed /\ left <= 0)]_vars
  <2> SUFFICES ASSUME Next, Waiting, pc' = "idle", result' = "timeout"
               PROVE  timed /\ left <= 0
    BY DEF vars
  <2> USE DEF Waiting, Return
  <2>1. CASE ReadMessage
    BY <2>1 DEF ReadMessage, LoopGoesOn, SliceEnds, Expired
  <2>2. CASE ReadAborts
    BY <2>2 DEF ReadAborts, SliceEnds, Expired
  <2>3. CASE ReadEnds
    BY <2>3 DEF ReadEnds, EndOutcome
  <2>4. CASE HandlerThrows \/ RenewalThrows
    BY <2>4 DEF HandlerThrows, RenewalThrows
  <2>5. CASE LoopHead \/ \E s \in {"ok", "refused"} : RenewalAnswered(s)
    BY <2>5 DEF LoopHead, RenewalAnswered, StartRead
  <2>6. CASE Wait(FALSE, 0) \/ (\E t \in Timeouts : Wait(TRUE, t)) \/ Connect
    BY <2>6 DEF Wait, Connect
  <2>7. CASE Server \/ Tick
    BY <2>7 DEF Server, ServerWrites, StreamEnds, Tick
  <2> QED
    BY <2>1, <2>2, <2>3, <2>4, <2>5, <2>6, <2>7 DEF Next, WaitStep
<1> QED
  BY <1>1, PTL DEF Spec, TimeoutIsTheCallers

-----------------------------------------------------------------------------
(* A wait on a stream that is dead                                          *)

\* wait was called without a timeout, and the end of the stream has been read.
Unheard == Waiting /\ ~timed /\ stream = "dead"

OnlyRenewalThrows == Unheard => Unheard' \/ RenewalThrows

\* An aborted read is a timeout_event like any other, which a wait without a
\* deadline takes for the end of a slice (td365.cpp:52-61): on a stream whose
\* end was reported before, it never returns. Only a renewal that throws gets
\* the application out of it.
THEOREM DeadStreamIsUnheard == Spec => [][OnlyRenewalThrows]_vars
<1>1. [Next]_vars => OnlyRenewalThrows
  <2> SUFFICES ASSUME [Next]_vars, Unheard PROVE Unheard' \/ RenewalThrows
    BY DEF OnlyRenewalThrows
  <2>1. pc # "idle" /\ ~timed /\ stream = "dead"
    BY DEF Unheard, Waiting
  <2>2. ~ReadMessage /\ ~HandlerThrows /\ ~ReadEnds /\ ~Server /\ ~Connect
        /\ ~Wait(FALSE, 0) /\ ~\E t \in Timeouts : Wait(TRUE, t)
    BY <2>1 DEF ReadMessage, HandlerThrows, ReadEnds, Server, ServerWrites, StreamEnds, Connect, Wait
  <2>3. CASE LoopHead
    BY <2>1, <2>3 DEF LoopHead, StartRead, Unheard, Waiting
  <2>4. ASSUME NEW s \in {"ok", "refused"}, RenewalAnswered(s) PROVE Unheard'
    BY <2>1, <2>4 DEF RenewalAnswered, StartRead, Unheard, Waiting
  <2>5. CASE ReadAborts
    <3>1. ~Expired
      BY <2>1, Zenon DEF Expired
    <3>2. pc' = "top" /\ timed' = timed /\ stream' = stream
      BY <2>5, <3>1, Zenon DEF ReadAborts, SliceEnds
    <3> QED BY <2>1, <3>2 DEF Unheard, Waiting
  <2>6. CASE Tick
    BY <2>1, <2>6 DEF Tick, Unheard, Waiting
  <2>7. CASE UNCHANGED vars
    BY <2>1, <2>7 DEF vars, Unheard, Waiting
  <2> QED
    BY <2>2, <2>3, <2>4, <2>5, <2>6, <2>7 DEF Next, WaitStep
<1> QED BY <1>1, PTL DEF Spec

=============================================================================
