----------------------------- MODULE TripleClock ------------------------------
(***************************************************************************)
(* Timestamps on three clocks, the deadlines and the windows made of them  *)
(* (crates/txip/timestamp_types_v03.rs).  Descriptions are left out.       *)
(***************************************************************************)
EXTENDS SerdeJson

TripleTimestamp(mono, unix, iso) == [mono |-> mono, unix |-> unix, iso |-> iso]

validate_iso(ts) == ts.iso.T /\ (ts.iso.tail \in {"Z", "+"} \/ contains_hyphen(ts.iso))

(* A Deadline is its timestamp. *)
has_passed(deadline, current_mono) == current_mono > deadline.mono
has_passed_unix(deadline, current_unix) == current_unix > deadline.unix
seconds_remaining(deadline, current_mono) == deadline.mono - current_mono

TimeWindow(start, end) == [start |-> start, end |-> end]
has_started(window, current_mono) == current_mono >= window.start.mono
has_ended(window, current_mono) == current_mono > window.end.mono

(* mutant: the window ends a second early *)
is_active_before(window, current_mono) ==
    current_mono >= window.start.mono /\ current_mono < window.end.mono

is_active(window, current_mono) ==
    current_mono >= window.start.mono /\ current_mono <= window.end.mono

duration_seconds(window) ==
    IF window.end.mono >= window.start.mono THEN window.end.mono - window.start.mono ELSE 0
=============================================================================
