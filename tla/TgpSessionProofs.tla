--------------------------- MODULE TgpSessionProofs ---------------------------
(***************************************************************************)
(* Theorems about TgpSession and their proofs, for windows of any length,  *)
(* any deadline the owner may set and a clock that is set back any number  *)
(* of times.                                                               *)
(***************************************************************************)
EXTENDS TgpSession, TLAPS

(* A QUERY that counts as started has been sent, and while nobody chose a  *)
(* deadline the stored one is the window of the state, from its entry.     *)
OwnDeadline ==
    started # None =>
        /\ session.state # "Idle"
        /\ session.state \in Waiting => session.timeout_at = session.updated_at + Seconds[session.state]

(* The inductive invariant. *)
IInv == TypeOK /\ NoStageSkipped /\ OwnDeadline /\ EnteredInTime

-----------------------------------------------------------------------------
(* A remainder is a number that is smaller than its divisor. *)
LEMMA Remainder == ASSUME NEW a \in Nat, NEW b \in Nat \ {0} PROVE a % b \in Nat
  OBVIOUS

(* The states, and the one step each stage can take forwards. *)
LEMMA States ==
    ASSUME NEW s \in TGPState, NEW t \in TGPState, can_transition_to(s, t), t # "Errored"
    PROVE  /\ s \in {"Idle"} \cup Waiting
           /\ t # "Idle"
           /\ s = "Idle" <=> t = "QuerySent"
           /\ Before(s) \cup {s} = Before(t)
           /\ s # "Idle" => /\ s \in Waiting
                            /\ Windows(t) = Windows(s) + Seconds[s]
  <1>1. <<s, t>> \in {<<"Idle", "QuerySent">>, <<"QuerySent", "OfferReceived">>,
                      <<"OfferReceived", "AcceptSent">>, <<"AcceptSent", "Finalizing">>,
                      <<"Finalizing", "Settled">>}
    BY DEF can_transition_to
  <1>2. \A w \in Waiting : Seconds[w] \in Nat
    BY SecondsAssumption
  <1>3. CASE s = "Idle" /\ t = "QuerySent"
    BY <1>3 DEF Before, Waiting
  <1>4. CASE s = "QuerySent" /\ t = "OfferReceived"
    BY <1>2, <1>4 DEF Before, Windows, Waiting
  <1>5. CASE s = "OfferReceived" /\ t = "AcceptSent"
    BY <1>2, <1>5 DEF Before, Windows, Waiting
  <1>6. CASE s = "AcceptSent" /\ t = "Finalizing"
    BY <1>2, <1>6 DEF Before, Windows, Waiting
  <1>7. CASE s = "Finalizing" /\ t = "Settled"
    BY <1>2, <1>7 DEF Before, Windows, Waiting
  <1> QED BY <1>1, <1>3, <1>4, <1>5, <1>6, <1>7

(* The windows before a state the QUERY led to are a number. *)
LEMMA WindowsNat ==
    ASSUME NEW s \in TGPState \ {"Idle", "Errored"} PROVE Windows(s) \in Nat
  <1>1. \A w \in Waiting : Seconds[w] \in Nat
    BY SecondsAssumption
  <1> QED BY <1>1 DEF Windows, TGPState, Waiting, Terminal

(* The deadline of a state is an instant, its window after its entry.      *)
LEMMA Deadlines ==
    ASSUME NEW s \in TGPState, NEW instant \in Nat
    PROVE  /\ DeadlineOf(s, instant) \in Nat \cup {None}
           /\ s \in Waiting => DeadlineOf(s, instant) = instant + Seconds[s]
  BY SecondsAssumption, NoneAssumption DEF DeadlineOf, timeout_seconds

(* However the clock moves, it shows an instant. *)
LEMMA ClockTyped ==
    ASSUME now \in Nat, Advance \/ SetBack \/ SameSecond
    PROVE  now' \in Nat
  BY DEF Advance, SetBack, SameSecond

-----------------------------------------------------------------------------
LEMMA IInvInit == Init => IInv
  BY NoneAssumption DEF Init, new, IInv, TypeOK, Session, TGPState, NoStageSkipped, Before,
     OwnDeadline, EnteredInTime

(* transition() enters a stage from the one before it, within its window.  *)
LEMMA TransitionKeeps ==
    ASSUME IInv, NEW s \in TGPState, transition(s) PROVE IInv'
  <1> USE DEF IInv, TypeOK, Session
  <1>1. /\ session.state \in TGPState /\ can_transition_to(session.state, s)
        /\ ~ is_timed_out(session, now)
        /\ Advance \/ SetBack \/ SameSecond
    BY DEF transition
  <1>2. now' \in Nat
    BY <1>1, ClockTyped
  <1>3. /\ session'.state = s /\ session'.updated_at = now'
        /\ session'.timeout_at = DeadlineOf(s, now')
    BY DEF transition
  <1>4. /\ started' \in {now', None, started}
        /\ s = "QuerySent" => started' = now' /\ inCalls' = 0
        /\ s # "QuerySent" /\ started' # None =>
                started' = started /\ now' >= now /\ inCalls' = inCalls + (now' - now)
    <2>1. CASE s = "QuerySent"
      BY <2>1 DEF transition
    <2>2. CASE s # "QuerySent"
      BY <1>2, <2>2 DEF transition
    <2> QED BY <2>1, <2>2
  <1>5. TypeOK'
    <2>1. session' \in Session
      BY <1>2, Deadlines DEF transition
    <2>2. passed' \subseteq TGPState
      BY DEF transition
    <2>3. started' \in Nat \cup {None} /\ inCalls' \in Nat
      BY <1>2 DEF transition
    <2> QED BY <1>2, <2>1, <2>2, <2>3
  <1>6. NoStageSkipped'
    <2> SUFFICES ASSUME s # "Errored" PROVE passed' = Before(s)
      BY <1>3 DEF NoStageSkipped
    <2>1. session.state # "Errored"
      BY <1>1, States DEF Waiting
    <2> QED BY <1>1, <2>1, States DEF NoStageSkipped, transition
  <1>7. s # "QuerySent" /\ started' # None =>
            s = "Errored" \/ (session.state \in Waiting /\ s # "Idle")
    BY <1>1, <1>4, States DEF OwnDeadline
  <1>8. OwnDeadline'
    <2> SUFFICES ASSUME started' # None
                 PROVE  s # "Idle" /\ (s \in Waiting => session'.timeout_at = now' + Seconds[s])
      BY <1>3 DEF OwnDeadline
    <2> QED BY <1>2, <1>3, <1>7, Deadlines
  <1>9. EnteredInTime'
    <2> SUFFICES ASSUME started' # None, s # "Errored"
                 PROVE  now' <= started' + Windows(s) + inCalls'
      BY <1>3 DEF EnteredInTime
    <2>1. CASE s = "QuerySent"
      BY <1>2, <1>4, <2>1 DEF Windows
    <2>2. CASE s # "QuerySent"
      <3> DEFINE from == session.state
      <3>1. from \in Waiting /\ started # None /\ started' = started
        BY <1>4, <1>7, <2>2
      <3>2. session.timeout_at = session.updated_at + Seconds[from]
        BY <3>1 DEF OwnDeadline
      <3>3. Seconds[from] \in Nat /\ Windows(from) \in Nat /\ from # "Errored" /\ from # "Idle"
        BY <3>1, SecondsAssumption, WindowsNat DEF Waiting, TGPState
      <3>4. now <= session.updated_at + Seconds[from]
        BY <1>1, <3>2, <3>3, NoneAssumption DEF is_timed_out
      <3>5. session.updated_at <= started + Windows(from) + inCalls
        BY <3>1, <3>3 DEF EnteredInTime
      <3>6. Windows(s) = Windows(from) + Seconds[from]
        BY <1>1, <3>3, States
      <3>7. inCalls' = inCalls + (now' - now) /\ now' >= now
        BY <1>4, <2>2
      <3>8. started \in Nat /\ session.updated_at \in Nat /\ inCalls \in Nat /\ now \in Nat
        BY <3>1
      <3> HIDE DEF from
      <3> QED BY <1>2, <3>1, <3>3, <3>4, <3>5, <3>6, <3>7, <3>8
    <2> QED BY <2>1, <2>2
  <1> QED BY <1>5, <1>6, <1>8, <1>9

(* Every step keeps the inductive invariant. *)
LEMMA IInvStep == IInv /\ [Next]_vars => IInv'
  <1> SUFFICES ASSUME IInv, [Next]_vars PROVE IInv'
    OBVIOUS
  <1> USE DEF IInv, TypeOK, Session
  <1>1. CASE Tick
    BY <1>1, ClockTyped DEF Tick, Advance, NoStageSkipped, OwnDeadline, EnteredInTime
  <1>2. CASE Adjust
    BY <1>2, ClockTyped DEF Adjust, SetBack, NoStageSkipped, OwnDeadline, EnteredInTime
  <1>3. ASSUME NEW s \in TGPState, transition(s) PROVE IInv'
    BY <1>3, TransitionKeeps
  <1>4. ASSUME NEW seconds \in CustomTimeouts, set_timeout(seconds) PROVE IInv'
    <2>1. (now + seconds) % TimeSpace \in Nat
      BY BoundAssumption, Remainder
    <2> QED BY <1>4, <2>1 DEF set_timeout, NoStageSkipped, OwnDeadline, EnteredInTime
  <1>5. CASE clear_timeout
    BY <1>5 DEF clear_timeout, NoStageSkipped, OwnDeadline, EnteredInTime
  <1>6. CASE force_error
    BY <1>6 DEF force_error, TGPState, Terminal, Waiting, NoStageSkipped, OwnDeadline, EnteredInTime
  <1>7. CASE UNCHANGED vars
    BY <1>7 DEF vars, NoStageSkipped, OwnDeadline, EnteredInTime
  <1> QED BY <1>1, <1>2, <1>3, <1>4, <1>5, <1>6, <1>7 DEF Next

(* In every reachable state the stages, the stored deadline and the time   *)
(* since the QUERY fit together.                                           *)
THEOREM IInvCorrect == Spec => []IInv
  BY IInvInit, IInvStep, PTL DEF Spec

(* Every reachable session and clock is well typed. *)
THEOREM TypeCorrect == Spec => []TypeOK
  <1>1. IInv => TypeOK
    BY DEF IInv
  <1> QED BY <1>1, IInvCorrect, PTL

(* No session settles unasked, unoffered or unaccepted: transition() has   *)
(* no way around a stage.                                                  *)
THEOREM NoStageSkippedCorrect == Spec => []NoStageSkipped
  <1>1. IInv => NoStageSkipped
    BY DEF IInv
  <1> QED BY <1>1, IInvCorrect, PTL

(* The windows of timeout_seconds() bound the whole exchange, whatever     *)
(* their lengths.                                                          *)
THEOREM EnteredInTimeCorrect == Spec => []EnteredInTime
  <1>1. IInv => EnteredInTime
    BY DEF IInv
  <1> QED BY <1>1, IInvCorrect, PTL

(* No transition revives a session that timed out. *)
THEOREM OnlyOwnerRevivesCorrect == Spec => OnlyOwnerRevives
  <1>1. TypeOK /\ [Next]_vars => [StaysTimedOut]_vars
    <2> SUFFICES ASSUME TypeOK, Next, is_timed_out(session, now)
                 PROVE  StaysTimedOut
      BY DEF StaysTimedOut
    <2> USE DEF TypeOK, Session, StaysTimedOut, is_timed_out
    <2>1. CASE Tick
      BY <2>1 DEF Tick, Advance
    <2>2. CASE Adjust
      BY <2>2 DEF Adjust, SetBack
    <2>3. ASSUME NEW s \in TGPState, transition(s) PROVE FALSE
      BY <2>3 DEF transition
    <2>4. ASSUME NEW seconds \in CustomTimeouts, set_timeout(seconds) PROVE StaysTimedOut
      BY <2>4 DEF set_timeout
    <2>5. CASE clear_timeout
      BY <2>5 DEF clear_timeout
    <2>6. CASE force_error
      BY <2>6 DEF force_error
    <2> QED BY <2>1, <2>2, <2>3, <2>4, <2>5, <2>6 DEF Next
  <1> QED BY <1>1, TypeCorrect, PTL DEF Spec, OnlyOwnerRevives
=============================================================================
