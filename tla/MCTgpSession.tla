----------------------------- MODULE MCTgpSession -----------------------------
(***************************************************************************)
(* A small instance of TgpSession for TLC: windows of a second or two, so  *)
(* that each can be met, hit exactly and missed.                           *)
(***************************************************************************)
EXTENDS TgpSession

Windows1 == [s \in Waiting |-> IF s \in {"OfferReceived", "Finalizing"} THEN 2 ELSE 1]

(* At once, in two seconds, and u64::MAX. *)
Customs == {0, 2, TimeSpace - 1}
=============================================================================
