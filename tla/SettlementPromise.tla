-------------------------- MODULE SettlementPromise --------------------------
(***************************************************************************)
(* What the settlement engine promises the two parties of an order, told   *)
(* from the terms and from what happened alone: no states, no stored       *)
(* deadlines, no receipts and no ids.  A deal is accepted within its       *)
(* acceptance window, a delivery on time is final, and the deal is settled *)
(* once: by the seller, after a delivery or a missed deadline; by the      *)
(* clock, a claim window after the delivery; or by the buyer, after the    *)
(* seller missed a deadline and did not deliver on time.  The amount is    *)
(* then returned to the caller, unless there was no delivery to settle.    *)
(* CoreProverEngine implements it.                                         *)
(***************************************************************************)
EXTENDS Integers, Sequences

CONSTANTS
    Terms,   \* the payment profiles a buyer may commit with
    Proofs,  \* what a seller may deliver as evidence
    None     \* not yet

VARIABLES
    now,     \* the current instant
    deals    \* the deals, in the order they were made

vars == <<now, deals>>

Opened(terms) ==
    [terms |-> terms, opened |-> now, accepted |-> None, delivered |-> None,
     evidence |-> None, outcome |-> "open", replies |-> 0]

AcceptBy(d) == d.opened + d.terms.acceptance_window_secs
Due(d) == d.accepted + d.terms.fulfillment_window_secs

Open(d) == d.outcome = "open"
Overdue(d) == d.accepted # None /\ now > Due(d)
OnTime(d) == d.delivered # None /\ d.delivered <= Due(d)

(* The seller may settle what was delivered or should have been. *)
Mature(d) == d.accepted # None /\ (d.delivered # None \/ Overdue(d))

Ended(d, outcome, replies) == [d EXCEPT !.outcome = outcome, !.replies = replies]
Settled(d, outcome) == Ended(d, outcome, IF d.delivered = None THEN 0 ELSE 1)

Becomes(i, d) == deals' = [deals EXCEPT ![i] = d] /\ UNCHANGED now

-----------------------------------------------------------------------------
Init == now = 0 /\ deals = <<>>

Pass == now' >= now /\ UNCHANGED deals

Commit ==
    /\ \E terms \in Terms : deals' = Append(deals, Opened(terms))
    /\ UNCHANGED now

Accept(i) == LET d == deals[i] IN
    /\ Open(d) /\ d.accepted = None
    /\ now <= AcceptBy(d)
    /\ Becomes(i, [d EXCEPT !.accepted = now])

(* Only a late delivery may be repeated. *)
Deliver(i) == LET d == deals[i] IN
    /\ Open(d) /\ d.accepted # None
    /\ ~ OnTime(d)
    /\ \E evidence \in Proofs :
        Becomes(i, [d EXCEPT !.delivered = now, !.evidence = evidence])

(* The seller takes the payment or gives it back. *)
Settle(i) == LET d == deals[i] IN
    /\ Open(d) /\ Mature(d)
    /\ \E outcome \in {"claimed", "refunded"} : Becomes(i, Settled(d, outcome))

(* The seller is paid without asking. *)
Release(i) == LET d == deals[i] IN
    /\ Open(d) /\ Mature(d)
    /\ d.terms.allows_timed_release
    /\ d.delivered # None => now - d.delivered >= d.terms.claim_window_secs
    /\ Becomes(i, Settled(d, "released"))

(* The buyer takes the payment back. *)
Withdraw(i) == LET d == deals[i] IN
    /\ Open(d)
    /\ \/ d.accepted = None /\ now > AcceptBy(d)
       \/ Overdue(d) /\ ~ OnTime(d)
    /\ Becomes(i, Ended(d, "withdrawn", 1))

Next ==
    \/ Pass \/ Commit
    \/ \E i \in DOMAIN deals :
        Accept(i) \/ Deliver(i) \/ Settle(i) \/ Release(i) \/ Withdraw(i)

Spec == Init /\ [][Next]_vars
=============================================================================
