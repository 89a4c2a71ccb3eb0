--------------------------- MODULE CoreProverEngine ---------------------------
(***************************************************************************)
(* The off-chain settlement engine of CoreProver v0.3                      *)
(* (crates/coreprover-service/src/engine.rs and types.rs).  One engine     *)
(* owns a vector of escrows, a vector of receipts and a deterministic      *)
(* clock.  Callers (buyer, seller, anyone) call its methods in any order;  *)
(* every method runs to completion under an exclusive borrow, so one       *)
(* method is one action.  A call the engine rejects before touching any    *)
(* field is a stuttering step; a call it rejects AFTER touching a field    *)
(* is an action of its own right (see Settle).                             *)
(*                                                                         *)
(* Left out because no method reads or rewrites it after it is stored: the *)
(* parties' names, the amount, the buyer's chain id and the ISO rendering  *)
(* of the unix clock.                                                      *)
(***************************************************************************)
EXTENDS Integers, Sequences

CONSTANTS
    Txids,        \* transaction ids a caller may pass
    Blank,        \* the blank one among them: trim().is_empty()
    None,         \* Option::None
    Profiles,     \* payment profiles a buyer may commit with
    ChainId,      \* chain_id of this engine
    GenesisUnix,  \* genesis_unix given to new()
    BlockInterval,\* block_interval_secs
    IdSpace,      \* number of distinct order ids: 2^16 in the code
    Steps,        \* seconds by which the clock may be advanced at once
    MaxMono,      \* bound: the clock stops here
    LastCommit,   \* bound: no order is committed after this instant
    MaxOrders,    \* bound on the number of escrows
    MaxReceipts   \* bound on the number of receipts

VARIABLES
    escrows,              \* escrows: Vec<Escrow>
    receipts,             \* receipts: Vec<ReceiptMetadata>
    next_session_counter,
    current_mono,
    current_unix,
    current_block_height,
    paid                  \* paid[i]: Ok(amount) replies given for escrows[i]

vars == <<escrows, receipts, next_session_counter, current_mono, current_unix,
          current_block_height, paid>>
clock == <<current_mono, current_unix, current_block_height>>

-----------------------------------------------------------------------------
(* Types (types.rs). *)

EscrowState == {"BuyerCommitted", "SellerAccepted", "SellerFulfilled",
                "FulfillmentExpired", "SellerClaimed", "SellerRefunded",
                "BuyerWithdrawn"}

is_terminal(s) == s \in {"SellerClaimed", "SellerRefunded", "BuyerWithdrawn"}

(* mutant: an order delivered on time can be delivered again *)
can_fulfill_again(s) == s \in {"SellerAccepted", "SellerFulfilled", "FulfillmentExpired"}

can_fulfill(s) == s \in {"SellerAccepted", "FulfillmentExpired"}

PaymentProfile ==
    [acceptance_window_secs: Nat, fulfillment_window_secs: Nat,
     claim_window_secs: Nat, allows_timed_release: BOOLEAN,
     enables_late_discount: BOOLEAN, late_discount_pct: 0..255,
     discount_expiration_days: Nat]

(* format!("auto_claim_{}", now.mono) *)
AutoClaim(mono) == [auto_claim |-> mono]
ClaimTxids == Txids \cup [auto_claim: Nat]

Opt(S) == S \cup {None}

Escrow ==
    [order_id: Nat, profile: PaymentProfile, state: EscrowState,
     buyer_commit_mono: Nat, seller_accept_mono: Opt(Nat),
     fulfillment_mono: Opt(Nat), settlement_mono: Opt(Nat),
     acceptance_deadline_mono: Nat, fulfillment_deadline_mono: Opt(Nat),
     buyer_commit_txid: Txids, seller_chain_id: Nat,
     seller_accept_txid: Opt(Txids), seller_fulfill_txid: Opt(Txids),
     seller_claim_txid: Opt(ClaimTxids), seller_refund_txid: Opt(Txids),
     buyer_withdraw_txid: Opt(Txids), seller_block_height: Opt(Nat)]

ReceiptMetadata ==
    [session_id: Nat, fulfillment_mono: Nat, fulfillment_unix: Nat,
     settlement_mono: Nat, settlement_unix: Nat, late_fulfilled: BOOLEAN,
     discount_pct: 0..255, discount_expiration_unix: Nat,
     buyer_commit_txid: Txids, seller_chain_id: Nat,
     seller_accept_txid: Txids, seller_fulfill_txid: Txids,
     seller_claim_txid: Opt(ClaimTxids), seller_refund_txid: Opt(Txids),
     buyer_withdraw_txid: {None}, seller_block_height: Nat]

ASSUME TxidAssumption ==
    /\ Blank \in Txids
    /\ None \notin Nat \cup ClaimTxids
    /\ Txids \cap [auto_claim: Nat] = {}
ASSUME ProfileAssumption == Profiles \subseteq PaymentProfile
ASSUME EngineAssumption ==
    /\ ChainId \in Nat /\ GenesisUnix \in Nat
    /\ BlockInterval \in Nat \ {0}
    /\ IdSpace \in Nat \ {0}
    /\ Steps \subseteq Nat
ASSUME BoundAssumption ==
    /\ MaxMono \in Nat /\ LastCommit \in Nat
    /\ MaxOrders \in Nat /\ MaxReceipts \in Nat

-----------------------------------------------------------------------------
Init ==
    /\ escrows = <<>>
    /\ receipts = <<>>
    /\ next_session_counter = 1
    /\ current_mono = 0
    /\ current_unix = GenesisUnix
    /\ current_block_height = 1
    /\ paid = <<>>

(* mutant: the height is set, not incremented *)
advance_time_resets_height(secs) ==
    /\ current_mono + secs <= MaxMono
    /\ current_mono' = current_mono + secs
    /\ current_unix' = current_unix + secs
    /\ current_block_height' = 1 + (secs \div BlockInterval)
    /\ UNCHANGED <<escrows, receipts, next_session_counter, paid>>

advance_time(secs) ==
    /\ current_mono + secs <= MaxMono
    /\ current_mono' = current_mono + secs
    /\ current_unix' = current_unix + secs
    /\ current_block_height' = current_block_height + (secs \div BlockInterval)
    /\ UNCHANGED <<escrows, receipts, next_session_counter, paid>>

(* mutants: the first receipt of that session; the last receipt whatever   *)
(* its session *)
FirstReceipt(id) ==
    {k \in DOMAIN receipts :
        /\ receipts[k].session_id = id
        /\ \A l \in DOMAIN receipts : receipts[l].session_id = id => k <= l}
NewestReceipt(id) == {k \in DOMAIN receipts : k = Len(receipts)}

(* get_escrow, get_escrow_mut: the FIRST escrow with that id, if any. *)
get_escrow(id) ==
    {i \in DOMAIN escrows :
        /\ escrows[i].order_id = id
        /\ \A j \in DOMAIN escrows : escrows[j].order_id = id => i <= j}

(* rposition in finalize_receipt: the LAST receipt of that session, if any. *)
LastReceipt(id) ==
    {k \in DOMAIN receipts :
        /\ receipts[k].session_id = id
        /\ \A l \in DOMAIN receipts : receipts[l].session_id = id => l <= k}

(* get_receipt: the FIRST receipt of that session, if any. *)
get_receipt(id) ==
    {k \in DOMAIN receipts :
        /\ receipts[k].session_id = id
        /\ \A l \in DOMAIN receipts : receipts[l].session_id = id => k <= l}

(* mutant: the high byte of the id is never set *)
generate_short_id == next_session_counter % (IdSpace \div 2)

(* Only the low 16 bits of the counter reach the id. *)
generate_order_id == next_session_counter % IdSpace

NewEscrow(order_id, profile, txid) ==
    [order_id |-> order_id, profile |-> profile, state |-> "BuyerCommitted",
     buyer_commit_mono |-> current_mono, seller_accept_mono |-> None,
     fulfillment_mono |-> None, settlement_mono |-> None,
     acceptance_deadline_mono |->
        current_mono + profile.acceptance_window_secs,
     fulfillment_deadline_mono |-> None,
     buyer_commit_txid |-> txid, seller_chain_id |-> 0,
     seller_accept_txid |-> None, seller_fulfill_txid |-> None,
     seller_claim_txid |-> None, seller_refund_txid |-> None,
     buyer_withdraw_txid |-> None, seller_block_height |-> None]

buyer_commit(profile, txid) ==
    /\ Len(escrows) < MaxOrders
    /\ current_mono <= LastCommit
    /\ txid # Blank
    /\ escrows' = Append(escrows, NewEscrow(generate_order_id, profile, txid))
    /\ next_session_counter' = next_session_counter + 1
    /\ paid' = Append(paid, 0)
    /\ UNCHANGED <<receipts, clock>>

seller_accept(id, txid) == \E i \in get_escrow(id) :
    LET e == escrows[i] IN
    /\ e.state = "BuyerCommitted"
    /\ txid # Blank
    /\ current_mono <= e.acceptance_deadline_mono
    /\ escrows' = [escrows EXCEPT ![i] =
            [e EXCEPT !.seller_chain_id = ChainId,
                      !.seller_accept_mono = current_mono,
                      !.seller_accept_txid = txid,
                      !.fulfillment_deadline_mono =
                            current_mono + e.profile.fulfillment_window_secs,
                      !.state = "SellerAccepted"]]
    /\ UNCHANGED <<receipts, next_session_counter, clock, paid>>

(* mutant: a delivery at the very deadline counts as late *)
IsLateAtDeadline(e) == /\ e.fulfillment_deadline_mono # None
                       /\ current_mono >= e.fulfillment_deadline_mono

IsLate(e) == /\ e.fulfillment_deadline_mono # None
             /\ current_mono > e.fulfillment_deadline_mono

(* unwrap_or_default on an Option<String> *)
OrBlank(txid) == IF txid = None THEN Blank ELSE txid

LateDiscount(e, is_late) ==
    IF is_late /\ e.profile.enables_late_discount
    THEN e.profile.late_discount_pct ELSE 0

(* What create_receipt_stub pushes for the escrow e just fulfilled. *)
ReceiptStub(e, is_late) ==
    [session_id |-> e.order_id, fulfillment_mono |-> e.fulfillment_mono,
     fulfillment_unix |-> current_unix,
     settlement_mono |-> 0, settlement_unix |-> 0,
     late_fulfilled |-> is_late, discount_pct |-> LateDiscount(e, is_late),
     discount_expiration_unix |->
        IF LateDiscount(e, is_late) > 0
        THEN current_unix + e.profile.discount_expiration_days * 86400 ELSE 0,
     buyer_commit_txid |-> e.buyer_commit_txid,
     seller_chain_id |-> e.seller_chain_id,
     seller_accept_txid |-> OrBlank(e.seller_accept_txid),
     seller_fulfill_txid |-> OrBlank(e.seller_fulfill_txid),
     seller_claim_txid |-> None, seller_refund_txid |-> None,
     buyer_withdraw_txid |-> None, seller_block_height |-> 0]

(* A late delivery leaves the order in FulfillmentExpired, from where it   *)
(* can be fulfilled again: each time one more receipt stub is pushed.      *)
seller_fulfill(id, txid) == \E i \in get_escrow(id) :
    LET e == escrows[i]
        f == [e EXCEPT !.fulfillment_mono = current_mono,
                       !.seller_fulfill_txid = txid,
                       !.state = IF IsLate(e) THEN "FulfillmentExpired"
                                              ELSE "SellerFulfilled"]
    IN
    /\ Len(receipts) < MaxReceipts
    /\ can_fulfill(e.state)
    /\ txid # Blank
    /\ escrows' = [escrows EXCEPT ![i] = f]
    /\ receipts' = Append(receipts, ReceiptStub(f, IsLate(e)))
    /\ UNCHANGED <<next_session_counter, clock, paid>>

-----------------------------------------------------------------------------
(* unwrap_or(default) on an Option<u64> *)
OrElse(opt, default) == IF opt = None THEN default ELSE opt

(* mutant: the two outcomes swapped *)
finalize_receipt_swapped(r, e, refunded) ==
    [r EXCEPT !.settlement_mono = OrElse(e.settlement_mono, current_mono),
              !.settlement_unix = current_unix,
              !.seller_block_height = OrElse(e.seller_block_height, 0),
              !.seller_claim_txid = IF refunded THEN e.seller_refund_txid ELSE @,
              !.seller_refund_txid = IF refunded THEN @ ELSE e.seller_claim_txid]

(* finalize_receipt: the settled escrow e copied into its receipt r. *)
finalize_receipt(r, e, refunded) ==
    [r EXCEPT !.settlement_mono = OrElse(e.settlement_mono, current_mono),
              !.settlement_unix = current_unix,
              !.seller_block_height = OrElse(e.seller_block_height, 0),
              !.seller_claim_txid = IF refunded THEN @ ELSE e.seller_claim_txid,
              !.seller_refund_txid = IF refunded THEN e.seller_refund_txid ELSE @]

(* The common end of seller_claim, seller_refund and timed_release.  The   *)
(* escrow is already terminal when the receipt is looked up: when there is *)
(* none the method answers Err("receipt stub not found"), the amount is    *)
(* not returned, and the escrow stays terminal.                            *)
Settle(i, e, refunded) ==
    /\ escrows' = [escrows EXCEPT ![i] = e]
    /\ \/ \E k \in LastReceipt(e.order_id) :
            /\ receipts' = [receipts EXCEPT ![k] =
                                finalize_receipt(receipts[k], e, refunded)]
            /\ paid' = [paid EXCEPT ![i] = @ + 1]
       \/ /\ LastReceipt(e.order_id) = {}
          /\ UNCHANGED <<receipts, paid>>
    /\ UNCHANGED <<next_session_counter, clock>>

(* mutant: a claimed order may be settled once more *)
CanSettleTwice(s) == s \in {"SellerFulfilled", "FulfillmentExpired", "SellerClaimed"}

CanSettle(s) == s \in {"SellerFulfilled", "FulfillmentExpired"}

Claimed(e, txid) ==
    [e EXCEPT !.seller_claim_txid = txid, !.settlement_mono = current_mono,
              !.seller_block_height = current_block_height,
              !.state = "SellerClaimed"]

seller_claim(id, txid) == \E i \in get_escrow(id) :
    /\ CanSettle(escrows[i].state)
    /\ txid # Blank
    /\ Settle(i, Claimed(escrows[i], txid), FALSE)

seller_refund(id, txid) == \E i \in get_escrow(id) :
    /\ CanSettle(escrows[i].state)
    /\ txid # Blank
    /\ Settle(i, [escrows[i] EXCEPT !.seller_refund_txid = txid,
                                    !.settlement_mono = current_mono,
                                    !.seller_block_height = current_block_height,
                                    !.state = "SellerRefunded"], TRUE)

(* mutant: only an order nobody accepted can be withdrawn *)
buyer_withdraw_unaccepted(id, txid) == \E i \in get_escrow(id) :
    LET e == escrows[i] IN
    /\ e.state = "BuyerCommitted"
    /\ current_mono > e.acceptance_deadline_mono
    /\ escrows' = [escrows EXCEPT ![i] =
            [e EXCEPT !.buyer_withdraw_txid = IF txid = None THEN @ ELSE txid,
                      !.state = "BuyerWithdrawn",
                      !.settlement_mono = current_mono]]
    /\ paid' = [paid EXCEPT ![i] = @ + 1]
    /\ UNCHANGED <<receipts, next_session_counter, clock>>

(* The withdraw txid is optional and may be blank. *)
buyer_withdraw(id, txid) == \E i \in get_escrow(id) :
    LET e == escrows[i] IN
    /\ e.state \in {"BuyerCommitted", "FulfillmentExpired"}
    /\ ~ (e.state = "BuyerCommitted" /\ current_mono <= e.acceptance_deadline_mono)
    /\ escrows' = [escrows EXCEPT ![i] =
            [e EXCEPT !.buyer_withdraw_txid = IF txid = None THEN @ ELSE txid,
                      !.state = "BuyerWithdrawn",
                      !.settlement_mono = current_mono,
                      !.seller_block_height = None]]
    /\ paid' = [paid EXCEPT ![i] = @ + 1]
    /\ UNCHANGED <<receipts, next_session_counter, clock>>

(* mutant: the claim window runs from the acceptance *)
ElapsedSinceAccept(e) == current_mono - OrElse(e.seller_accept_mono, 0)

(* now.mono.saturating_sub(fulfillment_mono.unwrap_or(0)) *)
Elapsed(e) ==
    LET f == OrElse(e.fulfillment_mono, 0) IN
    IF f > current_mono THEN 0 ELSE current_mono - f

timed_release(id) == \E i \in get_escrow(id) :
    LET e == escrows[i] IN
    /\ e.profile.allows_timed_release
    /\ CanSettle(e.state)
    /\ Elapsed(e) >= e.profile.claim_window_secs
    /\ Settle(i, Claimed(e, AutoClaim(current_mono)), FALSE)

(* mutants: one second early; whatever the state *)
update_state_early(id) == \E i \in get_escrow(id) :
    /\ escrows[i].state = "SellerAccepted"
    /\ escrows[i].fulfillment_deadline_mono # None
    /\ current_mono >= escrows[i].fulfillment_deadline_mono
    /\ escrows' = [escrows EXCEPT ![i] = [@ EXCEPT !.state = "FulfillmentExpired"]]
    /\ UNCHANGED <<receipts, next_session_counter, clock, paid>>
update_state_always(id) == \E i \in get_escrow(id) :
    /\ escrows[i].fulfillment_deadline_mono # None
    /\ current_mono > escrows[i].fulfillment_deadline_mono
    /\ escrows' = [escrows EXCEPT ![i] = [@ EXCEPT !.state = "FulfillmentExpired"]]
    /\ UNCHANGED <<receipts, next_session_counter, clock, paid>>

(* The fulfillment deadline is only noticed when someone calls this. *)
update_state(id) == \E i \in get_escrow(id) :
    /\ escrows[i].state = "SellerAccepted"
    /\ escrows[i].fulfillment_deadline_mono # None
    /\ current_mono > escrows[i].fulfillment_deadline_mono
    /\ escrows' = [escrows EXCEPT ![i] = [@ EXCEPT !.state = "FulfillmentExpired"]]
    /\ UNCHANGED <<receipts, next_session_counter, clock, paid>>

-----------------------------------------------------------------------------
OrderIds == 0..(IdSpace - 1)

Tick == \E secs \in Steps : advance_time(secs)

Commit == \E profile \in Profiles, txid \in Txids : buyer_commit(profile, txid)

Withdraw(id) == \E txid \in Opt(Txids) : buyer_withdraw(id, txid)

SellerCall(id) == \E txid \in Txids :
    \/ seller_accept(id, txid)
    \/ seller_fulfill(id, txid)
    \/ seller_claim(id, txid)
    \/ seller_refund(id, txid)

Call(id) ==
    \/ SellerCall(id)
    \/ Withdraw(id)
    \/ timed_release(id)
    \/ update_state(id)

Next == Tick \/ Commit \/ \E id \in OrderIds : Call(id)

Spec == Init /\ [][Next]_vars

(* Time passes, and of each order a party keeps asking for the update, the *)
(* withdrawal and the timed release until the engine grants them: nothing  *)
(* in the engine calls them by itself.  Nothing is assumed of the seller.  *)
Fairness ==
    /\ WF_vars(Tick)
    /\ \A id \in OrderIds :
        /\ WF_vars(update_state(id))
        /\ WF_vars(Withdraw(id))
        /\ WF_vars(timed_release(id))

FairSpec == Spec /\ Fairness

-----------------------------------------------------------------------------
(* Properties *)

(* Every field keeps its type, and there is one reply counter per escrow. *)
TypeOK ==
    /\ escrows \in Seq(Escrow)
    /\ receipts \in Seq(ReceiptMetadata)
    /\ next_session_counter \in Nat
    /\ current_mono \in Nat /\ current_unix \in Nat
    /\ current_block_height \in Nat
    /\ paid \in Seq(Nat) /\ Len(paid) = Len(escrows)

(* One order is paid out at most once, only when it reaches a terminal     *)
(* state, and the only terminal order that is never paid out is one the    *)
(* seller settled without having delivered anything.                       *)
PaidOnce == \A i \in DOMAIN escrows :
    /\ paid[i] \in {0, 1}
    /\ paid[i] = 1 => is_terminal(escrows[i].state)
    /\ is_terminal(escrows[i].state) /\ paid[i] = 0 =>
            /\ escrows[i].state # "BuyerWithdrawn"
            /\ escrows[i].fulfillment_mono = None

(* The terminal state of an order, its settlement instant and the txids it *)
(* carries tell one story: a claim, or a refund, or a withdrawal.          *)
OneOutcome == \A i \in DOMAIN escrows : LET e == escrows[i] IN
    /\ is_terminal(e.state) <=> e.settlement_mono # None
    /\ e.state = "SellerClaimed" <=> e.seller_claim_txid # None
    /\ e.state = "SellerRefunded" <=> e.seller_refund_txid # None
    /\ e.buyer_withdraw_txid # None => e.state = "BuyerWithdrawn"
    /\ e.seller_block_height # None <=> e.state \in {"SellerClaimed", "SellerRefunded"}

(* The buyer gets the money back only after the seller missed a deadline:  *)
(* never accepted in time, or accepted and did not deliver on time.        *)
WithdrawOnlyAfterMissedDeadline == \A i \in DOMAIN escrows :
    LET e == escrows[i] IN
    e.state = "BuyerWithdrawn" =>
        \/ /\ e.seller_accept_mono = None
           /\ e.settlement_mono > e.acceptance_deadline_mono
        \/ /\ e.seller_accept_mono # None
           /\ e.settlement_mono > e.fulfillment_deadline_mono
           /\ e.fulfillment_mono # None =>
                e.fulfillment_mono > e.fulfillment_deadline_mono

(* An automatic claim happens only under a profile that allows it, and     *)
(* only a full claim window after the last delivery the engine recorded.   *)
AutoClaimWaitsForWindow == \A i \in DOMAIN escrows : LET e == escrows[i] IN
    e.seller_claim_txid \in [auto_claim: Nat] =>
        /\ e.profile.allows_timed_release
        /\ e.seller_claim_txid = AutoClaim(e.settlement_mono)
        /\ e.fulfillment_mono # None =>
            e.settlement_mono - e.fulfillment_mono >= e.profile.claim_window_secs

(* A receipt is marked late exactly when the delivery it records came      *)
(* after the deadline of the order it belongs to, and it carries a         *)
(* discount exactly when it is late and the profile grants one.            *)
LateReceiptsAreLate == \A k \in DOMAIN receipts :
    LET r == receipts[k] IN
    \E i \in get_escrow(r.session_id) :
        LET e == escrows[i] IN
        /\ e.seller_accept_mono # None
        /\ r.late_fulfilled <=> r.fulfillment_mono > e.fulfillment_deadline_mono
        /\ r.discount_pct > 0 <=> /\ r.late_fulfilled
                                  /\ e.profile.enables_late_discount
                                  /\ e.profile.late_discount_pct > 0
        /\ r.discount_pct > 0 =>
                r.discount_expiration_unix >= GenesisUnix + r.fulfillment_mono

(* The last receipt of an order and the escrow agree on the delivery and   *)
(* on the settlement, every earlier receipt of that order is an unsettled  *)
(* stub, and an order delivered at all has a receipt.                      *)
ReceiptMatchesEscrow == \A i \in DOMAIN escrows :
    LET e == escrows[i] IN
    i \in get_escrow(e.order_id) =>
        /\ e.fulfillment_mono # None <=> LastReceipt(e.order_id) # {}
        /\ \A k \in DOMAIN receipts : receipts[k].session_id = e.order_id =>
            LET r == receipts[k] IN
            IF k \in LastReceipt(e.order_id)
            THEN /\ r.fulfillment_mono = e.fulfillment_mono
                 /\ r.seller_fulfill_txid = e.seller_fulfill_txid
                 /\ r.seller_accept_txid = e.seller_accept_txid
                 /\ r.seller_claim_txid = e.seller_claim_txid
                 /\ r.seller_refund_txid = e.seller_refund_txid
                 /\ r.seller_block_height > 0 =>
                        /\ r.seller_block_height = e.seller_block_height
                        /\ r.settlement_mono = e.settlement_mono
                        /\ r.settlement_unix = GenesisUnix + e.settlement_mono
            ELSE r.seller_claim_txid = None /\ r.seller_refund_txid = None

(* Block heights order settlements: an order settled at an earlier instant *)
(* than another never carries a higher block.                              *)
HeightsOrderSettlements == \A i, j \in DOMAIN escrows :
    LET e == escrows[i]
        f == escrows[j] IN
    /\ e.seller_block_height # None
    /\ f.seller_block_height # None
    /\ e.settlement_mono < f.settlement_mono
    => e.seller_block_height <= f.seller_block_height

(* As long as no more orders were committed than there are ids, no two     *)
(* orders share one; past that point the newer order is out of reach.      *)
IdsUniqueUntilWrap == Len(escrows) <= IdSpace =>
    \A i, j \in DOMAIN escrows :
        escrows[i].order_id = escrows[j].order_id => i = j

(* What is settled stays settled: no call changes a terminal escrow or a   *)
(* receipt that carries a claim or a refund, and none removes a receipt.   *)
SettledIsFinal == [][
    /\ \A i \in DOMAIN escrows :
        is_terminal(escrows[i].state) => escrows'[i] = escrows[i]
    /\ \A k \in DOMAIN receipts :
        /\ k \in DOMAIN receipts'
        /\ (receipts[k].seller_claim_txid # None
             \/ receipts[k].seller_refund_txid # None) => receipts'[k] = receipts[k]]_vars

(* The terms an order was accepted on are never rewritten: neither the     *)
(* deadlines, nor an on-time delivery (only a late one may be repeated).   *)
TermsAreKept == [][\A i \in DOMAIN escrows :
    LET e == escrows[i] IN
    /\ escrows'[i].acceptance_deadline_mono = e.acceptance_deadline_mono
    /\ e.seller_accept_mono # None =>
        /\ escrows'[i].seller_accept_mono = e.seller_accept_mono
        /\ escrows'[i].fulfillment_deadline_mono = e.fulfillment_deadline_mono
    /\ e.fulfillment_mono # None /\ e.state # "FulfillmentExpired" =>
        /\ escrows'[i].fulfillment_mono = e.fulfillment_mono
        /\ escrows'[i].seller_fulfill_txid = e.seller_fulfill_txid]_vars

(* An order as a deal of SettlementPromise, read off the instants and the  *)
(* ids it recorded: neither its state nor a stored deadline is looked at.  *)
OutcomeOf(e) ==
    IF e.settlement_mono = None THEN "open"
    ELSE IF e.seller_refund_txid # None THEN "refunded"
    ELSE IF e.seller_claim_txid = None THEN "withdrawn"
    ELSE IF e.seller_claim_txid \in [auto_claim: Nat] THEN "released" ELSE "claimed"

DealOf(e, replies) ==
    [terms |-> e.profile, opened |-> e.buyer_commit_mono,
     accepted |-> e.seller_accept_mono, delivered |-> e.fulfillment_mono,
     evidence |-> e.seller_fulfill_txid, outcome |-> OutcomeOf(e), replies |-> replies]

Deals == [i \in DOMAIN escrows |-> DealOf(escrows[i], paid[i])]

Promise == INSTANCE SettlementPromise
    WITH Terms <- Profiles, Proofs <- Txids, now <- current_mono, deals <- Deals

(* The engine keeps the promise: the states it stores, the deadlines it    *)
(* computed when an order was committed and accepted, and an expiry that   *)
(* is only noticed when someone asks never allow a call that the terms and *)
(* the history of the order do not.                                        *)
ImplementsPromise == Promise!Spec

(* An order with timed release ends up settled whatever the seller does;   *)
(* without it, it ends up settled or delivered on time and unclaimed.  An  *)
(* order whose id another one has, past the wrap of the ids, is exempt.    *)
EveryOrderSettles == \A n \in 1..MaxOrders :
    n \in DOMAIN escrows ~>
        /\ n \in DOMAIN escrows
        /\ \/ is_terminal(escrows[n].state)
           \/ /\ escrows[n].state = "SellerFulfilled"
              /\ ~ escrows[n].profile.allows_timed_release
           \/ \E m \in DOMAIN escrows : m # n /\ escrows[m].order_id = escrows[n].order_id

-----------------------------------------------------------------------------
(* What comments, messages and tests say and the code does not do. *)

(* "seller_claim only valid after fulfillment" (engine.rs:296): a claimed  *)
(* order was delivered.                                                    *)
ClaimOnlyAfterFulfillment == \A i \in DOMAIN escrows :
    escrows[i].state = "SellerClaimed" => escrows[i].fulfillment_mono # None

(* "Final settlement (one of these MUST be present)" (types.rs:134): the   *)
(* receipt get_receipt returns for an order the seller settled says how.   *)
SettledReceiptHasOutcome == \A i \in DOMAIN escrows :
    LET e == escrows[i] IN
    i \in get_escrow(e.order_id) /\ e.state \in {"SellerClaimed", "SellerRefunded"} =>
        \A k \in get_receipt(e.order_id) :
            \/ receipts[k].seller_claim_txid # None
            \/ receipts[k].seller_refund_txid # None
=============================================================================
