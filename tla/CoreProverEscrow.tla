--------------------------- MODULE CoreProverEscrow ---------------------------
(***************************************************************************)
(* The on-chain dual-commitment escrow                                     *)
(* (crates/coreprover-contracts/src/CoreProverEscrow.sol).                 *)
(*                                                                         *)
(* A transaction is atomic, so an external function is one action; one     *)
(* that reverts (a failed require, or a transfer the recipient does not    *)
(* accept) leaves no trace and is a stuttering step.  transfer() forwards  *)
(* too little gas to call back, so no call nests in another.               *)
(*                                                                         *)
(* Of a legal signature only the timestamp is kept: nothing reads the      *)
(* rest.  Amounts and instants are far below 2^256, where the checked      *)
(* arithmetic of Solidity 0.8 would revert.                                *)
(***************************************************************************)
EXTENDS Integers, FiniteSets, Functions

CONSTANTS
    OrderIds,      \* order ids in use
    Accounts,      \* addresses that send transactions
    ZeroAddress,   \* address(0)
    Rejecting,     \* accounts (contracts) that refuse a plain transfer
    Values,        \* amounts a transaction may carry (msg.value)
    CommitWindows, ClaimWindows, Delays,  \* arguments of createEscrow
    Never,         \* no BothCommitted event yet
    Steps,         \* seconds between two blocks
    LastCreate,    \* bound: no order is created after this instant
    MaxTime        \* bound: the last block

VARIABLES
    escrows,         \* mapping(bytes32 => Escrow)
    legalSignatures, \* mapping(bytes32 => LegalSignature): the timestamp
    balance,         \* the ether the contract owns
    now,             \* block.timestamp
    \* History of each order, as the chain records it:
    ledger,          \* ether received for it and sent on account of it
    bothCommittedAt  \* block of its BothCommitted event

storage == <<escrows, legalSignatures>>
history == <<ledger, bothCommittedAt>>
vars == <<storage, balance, now, history>>

-----------------------------------------------------------------------------
EscrowState == {"NONE", "BUYER_COMMITTED", "SELLER_COMMITTED", "BOTH_COMMITTED",
                "SELLER_CLAIMED", "BUYER_CLAIMED", "BOTH_CLAIMED", "DISPUTED",
                "EXPIRED"}

Escrow ==
    [buyer: Accounts \cup {ZeroAddress}, seller: Accounts \cup {ZeroAddress},
     buyerAmount: Nat, sellerAmount: Nat, state: EscrowState, createdAt: Nat,
     commitmentDeadline: Nat, claimDeadline: Nat,
     allowsTimedRelease: BOOLEAN, timedReleaseTime: Nat]

(* What a mapping holds for a key never written. *)
NoEscrow ==
    [buyer |-> ZeroAddress, seller |-> ZeroAddress, buyerAmount |-> 0,
     sellerAmount |-> 0, state |-> "NONE", createdAt |-> 0,
     commitmentDeadline |-> 0, claimDeadline |-> 0,
     allowsTimedRelease |-> FALSE, timedReleaseTime |-> 0]

(* deposited, pledged: what came in from the buyer and from the seller;    *)
(* toSeller, refunded: what left of the deposit; toBuyer: of the pledge.   *)
Ledger == [deposited: Nat, pledged: Nat, toSeller: Nat, refunded: Nat, toBuyer: Nat]
NoLedger == [deposited |-> 0, pledged |-> 0, toSeller |-> 0, refunded |-> 0, toBuyer |-> 0]

ASSUME OrderAssumption == IsFiniteSet(OrderIds)   \* ids are 32 bytes
ASSUME AddressAssumption == ZeroAddress \notin Accounts /\ Rejecting \subseteq Accounts
ASSUME AmountAssumption == Values \subseteq Nat
ASSUME TimeAssumption ==
    /\ CommitWindows \subseteq Nat /\ ClaimWindows \subseteq Nat /\ Delays \subseteq Nat
    /\ Steps \subseteq Nat /\ LastCreate \in Nat /\ MaxTime \in Nat
    /\ Never \notin Nat

-----------------------------------------------------------------------------
Init ==
    /\ escrows = [o \in OrderIds |-> NoEscrow]
    /\ legalSignatures = [o \in OrderIds |-> 0]
    /\ balance = 0
    /\ now = 1
    /\ ledger = [o \in OrderIds |-> NoLedger]
    /\ bothCommittedAt = [o \in OrderIds |-> Never]

(* The next block. *)
NextBlock(secs) ==
    /\ now + secs <= MaxTime
    /\ now' = now + secs
    /\ UNCHANGED <<storage, balance, history>>

(* payable(to).transfer(amount) *)
transfer(to, amount) ==
    /\ to \notin Rejecting
    /\ amount <= balance
    /\ balance' = balance - amount

(* mutant: no release instant is stored when timed release is off *)
NewEscrow_unset(sender, value, seller, window, claimWindow, timed, delay) ==
    [buyer |-> sender, seller |-> seller, buyerAmount |-> value,
     sellerAmount |-> 0, state |-> "BUYER_COMMITTED", createdAt |-> now,
     commitmentDeadline |-> now + window,
     claimDeadline |-> now + window + claimWindow,
     allowsTimedRelease |-> timed,
     timedReleaseTime |-> IF timed
                          THEN now + window + delay ELSE Never]

NewEscrow(sender, value, seller, window, claimWindow, timed, delay) ==
    [buyer |-> sender, seller |-> seller, buyerAmount |-> value,
     sellerAmount |-> 0, state |-> "BUYER_COMMITTED", createdAt |-> now,
     commitmentDeadline |-> now + window,
     claimDeadline |-> now + window + claimWindow,
     allowsTimedRelease |-> timed,
     timedReleaseTime |-> IF timed
                          THEN now + window + delay ELSE 0]

(* mutant: an id in use can be taken again *)
createEscrow_twice(value, orderId, e) ==
    /\ now <= LastCreate
    /\ value > 0
    /\ e.seller # ZeroAddress
    /\ escrows[orderId].state \in {"NONE", "EXPIRED"}
    /\ escrows' = [escrows EXCEPT ![orderId] = e]
    /\ balance' = balance + value
    /\ ledger' = [ledger EXCEPT ![orderId].deposited = @ + value]
    /\ UNCHANGED <<legalSignatures, now, bothCommittedAt>>

(* e is the record built from the arguments. *)
createEscrow(value, orderId, e) ==
    /\ now <= LastCreate
    /\ value > 0
    /\ e.seller # ZeroAddress
    /\ escrows[orderId].state = "NONE"
    /\ escrows' = [escrows EXCEPT ![orderId] = e]
    /\ balance' = balance + value
    /\ ledger' = [ledger EXCEPT ![orderId].deposited = @ + value]
    /\ UNCHANGED <<legalSignatures, now, bothCommittedAt>>

(* The three requires both ways of committing start with. *)
MayCommit(sender, e) ==
    /\ e.state = "BUYER_COMMITTED"
    /\ sender = e.seller
    /\ now <= e.commitmentDeadline

sellerCommitEscrow(sender, value, orderId) ==
    /\ MayCommit(sender, escrows[orderId])
    /\ escrows' = [escrows EXCEPT ![orderId].sellerAmount = value,
                                  ![orderId].state = "BOTH_COMMITTED"]
    /\ balance' = balance + value
    /\ ledger' = [ledger EXCEPT ![orderId].pledged = @ + value]
    /\ bothCommittedAt' = [bothCommittedAt EXCEPT ![orderId] = now]
    /\ UNCHANGED <<legalSignatures, now>>

sellerCommitSignature(sender, orderId) ==
    /\ MayCommit(sender, escrows[orderId])
    /\ legalSignatures' = [legalSignatures EXCEPT ![orderId] = now]
    /\ escrows' = [escrows EXCEPT ![orderId].state = "BOTH_COMMITTED"]
    /\ bothCommittedAt' = [bothCommittedAt EXCEPT ![orderId] = now]
    /\ UNCHANGED <<balance, now, ledger>>

(* The payment leaves: what sellerClaimPayment and triggerTimedRelease do  *)
(* once their requires hold.                                               *)
PaySeller(orderId) ==
    LET e == escrows[orderId] IN
    /\ escrows' = [escrows EXCEPT ![orderId].state = "SELLER_CLAIMED"]
    /\ transfer(e.seller, e.buyerAmount)
    /\ ledger' = [ledger EXCEPT ![orderId].toSeller = @ + e.buyerAmount]
    /\ UNCHANGED <<legalSignatures, now, bothCommittedAt>>

sellerClaimPayment(sender, orderId) ==
    LET e == escrows[orderId] IN
    /\ e.state = "BOTH_COMMITTED"
    /\ sender = e.seller
    /\ now <= e.claimDeadline
    /\ PaySeller(orderId)

(* mutant: sellerAmount is not zeroed *)
buyerClaimCounterEscrow_kept(sender, orderId) ==
    LET e == escrows[orderId] IN
    /\ e.state \in {"BOTH_COMMITTED", "SELLER_CLAIMED"}
    /\ sender = e.buyer
    /\ e.sellerAmount > 0
    /\ now <= e.claimDeadline
    /\ escrows' = [escrows EXCEPT ![orderId].state =
                        IF e.state = "SELLER_CLAIMED" THEN "BOTH_CLAIMED" ELSE "BUYER_CLAIMED"]
    /\ transfer(e.buyer, e.sellerAmount)
    /\ ledger' = [ledger EXCEPT ![orderId].toBuyer = @ + e.sellerAmount]
    /\ UNCHANGED <<legalSignatures, now, bothCommittedAt>>

buyerClaimCounterEscrow(sender, orderId) ==
    LET e == escrows[orderId] IN
    /\ e.state \in {"BOTH_COMMITTED", "SELLER_CLAIMED"}
    /\ sender = e.buyer
    /\ e.sellerAmount > 0
    /\ now <= e.claimDeadline
    /\ escrows' = [escrows EXCEPT
            ![orderId].sellerAmount = 0,
            ![orderId].state = IF e.state = "SELLER_CLAIMED"
                               THEN "BOTH_CLAIMED" ELSE "BUYER_CLAIMED"]
    /\ transfer(e.buyer, e.sellerAmount)
    /\ ledger' = [ledger EXCEPT ![orderId].toBuyer = @ + e.sellerAmount]
    /\ UNCHANGED <<legalSignatures, now, bothCommittedAt>>

(* mutants: after a claim too; only within the claim window *)
triggerTimedRelease_again(orderId) ==
    LET e == escrows[orderId] IN
    /\ e.state \in {"BOTH_COMMITTED", "SELLER_CLAIMED"}
    /\ e.allowsTimedRelease
    /\ now >= e.timedReleaseTime
    /\ PaySeller(orderId)
triggerTimedRelease_in_window(orderId) ==
    LET e == escrows[orderId] IN
    /\ e.state = "BOTH_COMMITTED"
    /\ e.allowsTimedRelease
    /\ now >= e.timedReleaseTime
    /\ now <= e.claimDeadline
    /\ PaySeller(orderId)

triggerTimedRelease(orderId) ==
    LET e == escrows[orderId] IN
    /\ e.state = "BOTH_COMMITTED"
    /\ e.allowsTimedRelease
    /\ now >= e.timedReleaseTime
    /\ PaySeller(orderId)

(* mutants: the state is left alone; a committed seller does not stop it;  *)
(* only before the claim deadline                                          *)
refundBuyerTimeout_open(orderId) ==
    LET e == escrows[orderId] IN
    /\ e.state = "BUYER_COMMITTED"
    /\ now > e.commitmentDeadline
    /\ transfer(e.buyer, e.buyerAmount)
    /\ ledger' = [ledger EXCEPT ![orderId].refunded = @ + e.buyerAmount]
    /\ UNCHANGED <<storage, now, bothCommittedAt>>
refundBuyerTimeout_committed(orderId) ==
    LET e == escrows[orderId] IN
    /\ e.state \in {"BUYER_COMMITTED", "BOTH_COMMITTED"}
    /\ now > e.commitmentDeadline
    /\ escrows' = [escrows EXCEPT ![orderId].state = "EXPIRED"]
    /\ transfer(e.buyer, e.buyerAmount)
    /\ ledger' = [ledger EXCEPT ![orderId].refunded = @ + e.buyerAmount]
    /\ UNCHANGED <<legalSignatures, now, bothCommittedAt>>
refundBuyerTimeout_in_window(orderId) ==
    LET e == escrows[orderId] IN
    /\ e.state = "BUYER_COMMITTED"
    /\ now > e.commitmentDeadline
    /\ now <= e.claimDeadline
    /\ escrows' = [escrows EXCEPT ![orderId].state = "EXPIRED"]
    /\ transfer(e.buyer, e.buyerAmount)
    /\ ledger' = [ledger EXCEPT ![orderId].refunded = @ + e.buyerAmount]
    /\ UNCHANGED <<legalSignatures, now, bothCommittedAt>>

refundBuyerTimeout(orderId) ==
    LET e == escrows[orderId] IN
    /\ e.state = "BUYER_COMMITTED"
    /\ now > e.commitmentDeadline
    /\ escrows' = [escrows EXCEPT ![orderId].state = "EXPIRED"]
    /\ transfer(e.buyer, e.buyerAmount)
    /\ ledger' = [ledger EXCEPT ![orderId].refunded = @ + e.buyerAmount]
    /\ UNCHANGED <<legalSignatures, now, bothCommittedAt>>

-----------------------------------------------------------------------------
Create(sender, o) ==
    \E value \in Values, seller \in Accounts \cup {ZeroAddress},
       cw \in CommitWindows, lw \in ClaimWindows, timed \in BOOLEAN, d \in Delays :
        createEscrow(value, o, NewEscrow(sender, value, seller, cw, lw, timed, d))

Commit(sender, o) ==
    \/ \E value \in Values : sellerCommitEscrow(sender, value, o)
    \/ sellerCommitSignature(sender, o)

Next ==
    \/ \E secs \in Steps : NextBlock(secs)
    \/ \E o \in OrderIds : triggerTimedRelease(o) \/ refundBuyerTimeout(o)
    \/ \E o \in OrderIds, sender \in Accounts :
          \/ Create(sender, o)
          \/ Commit(sender, o)
          \/ sellerClaimPayment(sender, o)
          \/ buyerClaimCounterEscrow(sender, o)

Spec == Init /\ [][Next]_vars

(* Blocks keep coming, and the two calls open to ANY sender (neither       *)
(* requires msg.sender) are eventually made when they keep being possible. *)
(* Nothing is assumed of what only the buyer or the seller can call.       *)
FairSpec ==
    /\ Spec
    /\ WF_vars(\E secs \in Steps : NextBlock(secs))
    /\ \A o \in OrderIds : WF_vars(triggerTimedRelease(o)) /\ WF_vars(refundBuyerTimeout(o))

-----------------------------------------------------------------------------
(* Every variable has its type. *)
TypeOK ==
    /\ escrows \in [OrderIds -> Escrow]
    /\ legalSignatures \in [OrderIds -> Nat]
    /\ balance \in Nat
    /\ now \in Nat
    /\ ledger \in [OrderIds -> Ledger]
    /\ bothCommittedAt \in [OrderIds -> Nat \cup {Never}]

(* What the stored record of an order says the contract still owes on it:  *)
(* the payment in the three states before it leaves, the counter-escrow    *)
(* until it is zeroed.                                                     *)
Held(e) ==
    (IF e.state \in {"BUYER_COMMITTED", "BOTH_COMMITTED", "BUYER_CLAIMED"}
     THEN e.buyerAmount ELSE 0) + e.sellerAmount

(* The contract's ether is exactly what its escrows say it holds, over all *)
(* orders: none pays for another, none is forgotten.                       *)
Solvent == balance = SumFunctionOnSet([o \in OrderIds |-> Held(escrows[o])], OrderIds)

(* Order by order: what came in is either still held or went out, the      *)
(* payment whole to the seller or whole back to the buyer and never both,  *)
(* the counter-escrow whole to the buyer.                                  *)
NothingLost == \A o \in OrderIds :
    LET l == ledger[o] IN
    /\ l.deposited + l.pledged = Held(escrows[o]) + l.toSeller + l.refunded + l.toBuyer
    /\ <<l.toSeller, l.refunded>> \in {<<0, 0>>, <<l.deposited, 0>>, <<0, l.deposited>>}
    /\ l.toBuyer \in {0, l.pledged}

(* The two commitments decide where the payment can go: to the seller only *)
(* if the seller committed in time, back to the buyer only if the seller   *)
(* did not and no longer can.                                              *)
CommitmentDecides == \A o \in OrderIds :
    LET l == ledger[o]
        e == escrows[o] IN
    /\ l.toSeller > 0 \/ l.toBuyer > 0 =>
        /\ bothCommittedAt[o] # Never
        /\ bothCommittedAt[o] \in e.createdAt .. e.commitmentDeadline
    /\ l.refunded > 0 => /\ bothCommittedAt[o] = Never
                         /\ now > e.commitmentDeadline

(* At no instant can an offer be both committed to and refunded, and at    *)
(* none is it neither: the deadline belongs to the seller, the next second *)
(* to the buyer.                                                           *)
CommitXorRefund == \A o \in OrderIds :
    LET e == escrows[o] IN
    e.state = "BUYER_COMMITTED" /\ e.buyer \notin Rejecting =>
        (ENABLED Commit(e.seller, o) <=> ~ ENABLED refundBuyerTimeout(o))

(* The phase, the payment and the counter-escrow of an order, read off the *)
(* ether that moved and the event that was emitted, not off the state the  *)
(* contract stores.                                                        *)
PhaseOf(l, committedAt) ==
    IF l.deposited = 0 THEN "absent"
    ELSE IF committedAt # Never THEN "agreed"
    ELSE IF l.refunded > 0 THEN "withdrawn" ELSE "offered"
PaymentOf(l) ==
    IF l.deposited = 0 THEN "none"
    ELSE IF l.toSeller > 0 THEN "seller"
    ELSE IF l.refunded > 0 THEN "buyer" ELSE "held"
CounterOf(l) ==
    IF l.pledged = 0 THEN "none" ELSE IF l.toBuyer > 0 THEN "buyer" ELSE "held"

phase == [o \in OrderIds |-> PhaseOf(ledger[o], bothCommittedAt[o])]
payment == [o \in OrderIds |-> PaymentOf(ledger[o])]
counter == [o \in OrderIds |-> CounterOf(ledger[o])]

DualCommit == INSTANCE DualCommitEscrow
    WITH OrderIds <- OrderIds, phase <- phase, payment <- payment, counter <- counter

(* The contract implements the dual-commitment escrow. *)
ImplementsDualCommit == DualCommit!Spec

(* An offer does not stay open: the seller commits or the buyer gets the   *)
(* payment back (unless the buyer is a contract that refuses it).          *)
OfferResolves == \A o \in OrderIds :
    (escrows[o].state = "BUYER_COMMITTED" /\ escrows[o].buyer \notin Rejecting)
    ~> (bothCommittedAt[o] # Never \/ ledger[o].refunded > 0)

(* With timed release the seller is paid even if it never claims, also     *)
(* after the claim window, unless the buyer took the counter-escrow first. *)
TimedReleasePays == \A o \in OrderIds :
    (/\ escrows[o].state = "BOTH_COMMITTED"
     /\ escrows[o].allowsTimedRelease
     /\ escrows[o].seller \notin Rejecting)
    ~> (ledger[o].toSeller > 0 \/ ledger[o].toBuyer > 0)

-----------------------------------------------------------------------------
(* What a document and a test say and the code does not do. *)

(* "Counter-escrow claims independent of payment claims ... No             *)
(* interdependency after both committed" (docs/specs/coreprover.md:203):   *)
(* a committed seller not yet paid can claim until the claim deadline.     *)
PaymentStaysClaimable == \A o \in OrderIds :
    LET e == escrows[o] IN
    /\ bothCommittedAt[o] # Never
    /\ ledger[o].toSeller = 0
    /\ e.seller \notin Rejecting
    /\ now <= e.claimDeadline
    => ENABLED sellerClaimPayment(e.seller, o)
=============================================================================
