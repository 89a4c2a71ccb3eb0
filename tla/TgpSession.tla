------------------------------ MODULE TgpSession ------------------------------
(***************************************************************************)
(* One TGP session and the clock it is judged by                           *)
(* (crates/tbc-core/src/tgp/state.rs).                                     *)
(*                                                                         *)
(* The methods take &mut self, so no two overlap; but they read the wall   *)
(* clock (SystemTime), which goes on between two readings of one call and  *)
(* can be set back at any moment.  A call that returns Err changes nothing *)
(* and is a stuttering step.  No method reads or writes session_id,        *)
(* query_id and offer_id.                                                  *)
(***************************************************************************)
EXTENDS Integers

CONSTANTS
    Seconds,         \* timeout of each waiting state; 30, 300, 60, 600 in the code
    CustomTimeouts,  \* arguments of set_timeout
    TimeSpace,       \* 2^64: set_timeout adds in u64
    None,            \* Option::None
    LastCall,        \* bound: no call after this instant
    MaxNow           \* bound: the last instant of the clock

VARIABLES
    session,   \* the TGPSession
    now,       \* what current_timestamp() would return
    \* History:
    passed,    \* states the session has left by transition()
    started,   \* when the QUERY went out, None before, and once the owner
               \* chose a deadline or the clock was set back
    inCalls    \* seconds spent within transition(), between its two readings

vars == <<session, now, passed, started, inCalls>>

-----------------------------------------------------------------------------
Waiting == {"QuerySent", "OfferReceived", "AcceptSent", "Finalizing"}
Terminal == {"Settled", "Errored"}
TGPState == {"Idle"} \cup Waiting \cup Terminal

Session == [state: TGPState, created_at: Nat, updated_at: Nat, timeout_at: Nat \cup {None}]

ASSUME SecondsAssumption == Seconds \in [Waiting -> Nat]
ASSUME NoneAssumption == None \notin Nat
ASSUME BoundAssumption ==
    /\ CustomTimeouts \subseteq Nat /\ TimeSpace \in Nat \ {0}
    /\ LastCall \in Nat /\ MaxNow \in Nat

is_terminal(s) == s \in Terminal

(* mutant: an offer can be finalized without being accepted *)
can_transition_to_unaccepted(s, target) ==
    /\ ~ is_terminal(s)
    /\ \/ <<s, target>> \in {<<"Idle", "QuerySent">>, <<"QuerySent", "OfferReceived">>,
                             <<"OfferReceived", "AcceptSent">>, <<"AcceptSent", "Finalizing">>,
                             <<"OfferReceived", "Finalizing">>, <<"Finalizing", "Settled">>}
       \/ target = "Errored"

can_transition_to(s, target) ==
    /\ ~ is_terminal(s)
    /\ \/ <<s, target>> \in {<<"Idle", "QuerySent">>, <<"QuerySent", "OfferReceived">>,
                             <<"OfferReceived", "AcceptSent">>, <<"AcceptSent", "Finalizing">>,
                             <<"Finalizing", "Settled">>}
       \/ target = "Errored"

(* mutant: an accepted offer has no deadline *)
timeout_seconds_unaccepted(s) == IF s \in Waiting \ {"AcceptSent"} THEN Seconds[s] ELSE None

timeout_seconds(s) == IF s \in Waiting THEN Seconds[s] ELSE None

(* timeout_at of a state entered at an instant *)
DeadlineOf(s, instant) ==
    IF timeout_seconds(s) = None THEN None ELSE instant + timeout_seconds(s)

(* mutant: an accepted offer does not time out *)
is_timed_out_unaccepted(s, t) ==
    s.timeout_at # None /\ t > s.timeout_at /\ s.state # "AcceptSent"

is_timed_out(s, t) == s.timeout_at # None /\ t > s.timeout_at

-----------------------------------------------------------------------------
new == [state |-> "Idle", created_at |-> now, updated_at |-> now, timeout_at |-> None]

Init ==
    /\ now \in 1..2
    /\ session = new
    /\ passed = {}
    /\ started = None
    /\ inCalls = 0

(* The wall clock goes on, is set back (never to the epoch), or still shows *)
(* the same second.                                                        *)
Advance == now < MaxNow /\ now' = now + 1
SetBack == now' \in 1..(now - 1)
SameSecond == UNCHANGED now

Tick == Advance /\ UNCHANGED <<session, passed, started, inCalls>>
Adjust == SetBack /\ started' = None /\ UNCHANGED <<session, passed, inCalls>>

(* mutant: the deadline is not checked *)
transition_unchecked(new_state) ==
    /\ now <= LastCall
    /\ session.state # new_state
    /\ can_transition_to(session.state, new_state)
    /\ Advance \/ SetBack \/ SameSecond
    /\ session' = [session EXCEPT !.state = new_state,
                                  !.updated_at = now',
                                  !.timeout_at = DeadlineOf(new_state, now')]
    /\ passed' = passed \cup {session.state}
    /\ UNCHANGED <<started, inCalls>>

(* The deadline is checked at the first reading, now; the state is entered *)
(* at the second, now'.                                                    *)
transition(new_state) ==
    /\ now <= LastCall
    /\ ~ is_timed_out(session, now)
    /\ session.state # new_state
    /\ ~ is_terminal(session.state)
    /\ can_transition_to(session.state, new_state)
    /\ Advance \/ SetBack \/ SameSecond
    /\ session' = [session EXCEPT !.state = new_state,
                                  !.updated_at = now',
                                  !.timeout_at = DeadlineOf(new_state, now')]
    /\ passed' = passed \cup {session.state}
    /\ started' = IF new_state = "QuerySent" THEN now'
                  ELSE IF now' < now THEN None ELSE started
    /\ inCalls' = IF new_state = "QuerySent" THEN 0
                  ELSE IF now' > now THEN inCalls + (now' - now) ELSE inCalls

(* mutant: the deadline is counted backwards *)
set_timeout_ago(seconds) ==
    /\ now <= LastCall
    /\ session' = [session EXCEPT !.timeout_at = now - seconds]
    /\ started' = None
    /\ UNCHANGED <<now, passed, inCalls>>

set_timeout(seconds) ==
    /\ now <= LastCall
    /\ session' = [session EXCEPT !.timeout_at = (now + seconds) % TimeSpace]
    /\ started' = None
    /\ UNCHANGED <<now, passed, inCalls>>

clear_timeout ==
    /\ now <= LastCall
    /\ session' = [session EXCEPT !.timeout_at = None]
    /\ started' = None
    /\ UNCHANGED <<now, passed, inCalls>>

force_error ==
    /\ now <= LastCall
    /\ session' = [session EXCEPT !.state = "Errored", !.updated_at = now, !.timeout_at = None]
    /\ UNCHANGED <<now, passed, started, inCalls>>

Next ==
    \/ Tick
    \/ Adjust
    \/ \E s \in TGPState : transition(s)
    \/ \E seconds \in CustomTimeouts : set_timeout(seconds)
    \/ clear_timeout
    \/ force_error

Spec == Init /\ [][Next]_vars

(* Time goes on, though it may be set back again and again; no call of the *)
(* owner of the session has to come.                                       *)
FairSpec == Spec /\ WF_vars(Tick)

-----------------------------------------------------------------------------
(* Every variable has its type. *)
TypeOK ==
    /\ session \in Session
    /\ now \in Nat
    /\ passed \subseteq TGPState
    /\ started \in Nat \cup {None}
    /\ inCalls \in Nat

(* The states that come before a state on the way to Settled. *)
Before(s) ==
    CASE s = "Idle" -> {}
      [] s = "QuerySent" -> {"Idle"}
      [] s = "OfferReceived" -> {"Idle", "QuerySent"}
      [] s = "AcceptSent" -> {"Idle", "QuerySent", "OfferReceived"}
      [] s = "Finalizing" -> {"Idle", "QuerySent", "OfferReceived", "AcceptSent"}
      [] s = "Settled" -> {"Idle"} \cup Waiting

(* A session is where it is because it went through every earlier stage:   *)
(* none settles unasked, unoffered or unaccepted, whatever was forced.     *)
NoStageSkipped == session.state # "Errored" => passed = Before(session.state)

(* What the windows of the stages before a state add up to. *)
Windows(s) ==
    CASE s = "QuerySent" -> 0
      [] s = "OfferReceived" -> Seconds["QuerySent"]
      [] s = "AcceptSent" -> Seconds["QuerySent"] + Seconds["OfferReceived"]
      [] s = "Finalizing" ->
            Seconds["QuerySent"] + Seconds["OfferReceived"] + Seconds["AcceptSent"]
      [] s = "Settled" ->
            Seconds["QuerySent"] + Seconds["OfferReceived"] + Seconds["AcceptSent"]
                + Seconds["Finalizing"]

(* The timeouts of the stages bound the whole exchange: unless the owner   *)
(* chose a deadline or the clock was set back, each stage is entered no    *)
(* later than the windows before it allow, counted from the QUERY, but for *)
(* the seconds that passed within the calls themselves.                    *)
EnteredInTime ==
    started # None /\ session.state # "Errored" =>
        session.updated_at <= started + Windows(session.state) + inCalls

(* A session that timed out stays so: no transition revives it, only its   *)
(* owner (a new deadline, none, or force_error) or a clock that goes back. *)
StaysTimedOut ==
    is_timed_out(session, now) =>
        \/ session'.state = session.state /\ is_timed_out(session', now')
        \/ now' < now
        \/ session'.state = session.state /\ session'.timeout_at # session.timeout_at
        \/ session'.state = "Errored" /\ session'.timeout_at = None
OnlyOwnerRevives == [][StaysTimedOut]_vars

(* A step in which the clock is not set back and the owner of the session  *)
(* gives the state it is in no other deadline.                             *)
Undisturbed ==
    now' >= now /\ (session'.state = session.state => session'.timeout_at = session.timeout_at)

(* The peer's silence does not last: once the owner leaves the deadlines   *)
(* of timeout_seconds() or its own alone and the clock is set back no      *)
(* more, a waiting session moves on or times out, unless the last deadline *)
(* was cleared.  An owner that calls set_timeout() again before each       *)
(* deadline can keep a session waiting for ever.                           *)
WaitingEnds == <>[][Undisturbed]_vars =>
    \A s \in Waiting :
        session.state = s ~>
            session.state # s \/ is_timed_out(session, now) \/ session.timeout_at = None
=============================================================================
