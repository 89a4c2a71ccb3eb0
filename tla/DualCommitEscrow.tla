--------------------------- MODULE DualCommitEscrow ---------------------------
(***************************************************************************)
(* What the dual-commitment escrow promises its two parties, without       *)
(* amounts, addresses or clocks: a buyer's payment is held from the offer  *)
(* on and leaves once, whole, to exactly one party; it goes to the seller  *)
(* only after both committed and back to the buyer only if the seller      *)
(* never did; a counter-escrow is held from the agreement on and leaves    *)
(* once, to the buyer.  The interface                                      *)
(* crates/coreprover-contracts/src/interfaces/ICoreProverEscrow.sol names  *)
(* the calls, CoreProverEscrow.tla implements them.                        *)
(***************************************************************************)
CONSTANTS OrderIds

VARIABLES
    phase,    \* phase[o]: how far the two commitments of order o have come
    payment,  \* payment[o]: where the buyer's payment is
    counter   \* counter[o]: where the seller's counter-escrow is

vars == <<phase, payment, counter>>

Phases == {"absent", "offered", "agreed", "withdrawn"}

TypeOK ==
    /\ phase \in [OrderIds -> Phases]
    /\ payment \in [OrderIds -> {"none", "held", "seller", "buyer"}]
    /\ counter \in [OrderIds -> {"none", "held", "buyer"}]

Init ==
    /\ phase = [o \in OrderIds |-> "absent"]
    /\ payment = [o \in OrderIds |-> "none"]
    /\ counter = [o \in OrderIds |-> "none"]

(* The buyer offers: the payment is held. *)
Offer(o) ==
    /\ phase[o] = "absent"
    /\ phase' = [phase EXCEPT ![o] = "offered"]
    /\ payment' = [payment EXCEPT ![o] = "held"]
    /\ UNCHANGED counter

(* The seller commits, with a counter-escrow or with a signature only. *)
Agree(o) ==
    /\ phase[o] = "offered"
    /\ phase' = [phase EXCEPT ![o] = "agreed"]
    /\ counter' \in {counter, [counter EXCEPT ![o] = "held"]}
    /\ UNCHANGED payment

(* The payment goes to the seller: by a claim or by timed release. *)
PaySeller(o) ==
    /\ phase[o] = "agreed"
    /\ payment[o] = "held"
    /\ payment' = [payment EXCEPT ![o] = "seller"]
    /\ UNCHANGED <<phase, counter>>

(* The counter-escrow goes to the buyer. *)
PayBuyer(o) ==
    /\ phase[o] = "agreed"
    /\ counter[o] = "held"
    /\ counter' = [counter EXCEPT ![o] = "buyer"]
    /\ UNCHANGED <<phase, payment>>

(* The payment goes back to a buyer whose seller never committed. *)
Withdraw(o) ==
    /\ phase[o] = "offered"
    /\ phase' = [phase EXCEPT ![o] = "withdrawn"]
    /\ payment' = [payment EXCEPT ![o] = "buyer"]
    /\ UNCHANGED counter

Next == \E o \in OrderIds :
    Offer(o) \/ Agree(o) \/ PaySeller(o) \/ PayBuyer(o) \/ Withdraw(o)

Spec == Init /\ [][Next]_vars
=============================================================================
