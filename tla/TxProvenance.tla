----------------------------- MODULE TxProvenance -----------------------------
(***************************************************************************)
(* The transaction ids of an order and the CoreProver receipt made of them *)
(* (crates/txip/blockchain_types_v03.rs, coreprover_types_v03.rs).         *)
(***************************************************************************)
EXTENDS TripleClock

(* TxRef *)
validate_txid(txid) == txid.ox /\ txid.len = 66 /\ txid.hex

BuyerTxIds(chain_id, commit_txid) ==
    [commit_txid |-> commit_txid, chain_id |-> chain_id, withdraw_txid |-> None]

SellerTxIds(chain_id, accept_txid, fulfill_txid, fulfill_block_height) ==
    [accept_txid |-> accept_txid, chain_id |-> chain_id, fulfill_txid |-> fulfill_txid,
     fulfill_block_height |-> fulfill_block_height, claim_txid |-> None, refund_txid |-> None]

with_claim(seller, txid) == [seller EXCEPT !.claim_txid = txid]
with_refund(seller, txid) == [seller EXCEPT !.refund_txid = txid]

validate_settlement(seller) == (seller.claim_txid # None) # (seller.refund_txid # None)
was_paid(seller) == seller.claim_txid # None
was_refunded(seller) == seller.refund_txid # None

(* TxIdProvenance::validate *)
ProvenanceValid(buyer, seller) ==
    /\ \A txid \in {buyer.commit_txid, seller.accept_txid, seller.fulfill_txid} : ~ is_empty(txid)
    /\ validate_settlement(seller)

-----------------------------------------------------------------------------
(* CoreProverReceipt::new: the two timestamps, then the buyer's chain and   *)
(* commit, then the seller's chain, accept, fulfill and block height.       *)
CoreProverReceipt(id, amount, ful, set, pct, expiry, bchain, commit, schain, accept, fulfill, height) ==
    [session_id |-> id, order_amount |-> amount, fulfillment |-> ful, settlement |-> set,
     discount_pct |-> pct, discount_expiration_unix |-> expiry,
     buyer_chain_id |-> bchain, buyer_commit_txid |-> commit,
     seller_chain_id |-> schain, seller_accept_txid |-> accept,
     seller_fulfill_txid |-> fulfill, seller_claim_txid |-> None,
     seller_refund_txid |-> None, buyer_withdraw_txid |-> None,
     seller_block_height |-> height]

with_seller_claim(r, txid) == [r EXCEPT !.seller_claim_txid = txid]
with_seller_refund(r, txid) == [r EXCEPT !.seller_refund_txid = txid]

validate(r) ==
    /\ ~ is_empty(r.session_id)
    /\ r.order_amount # 0
    /\ \A txid \in {r.buyer_commit_txid, r.seller_accept_txid, r.seller_fulfill_txid} :
           ~ is_empty(txid)
    /\ (r.seller_claim_txid # None) # (r.seller_refund_txid # None)

seller_was_paid(r) == r.seller_claim_txid # None
settlement_timestamp(r) == r.settlement
fulfillment_timestamp(r) == r.fulfillment
=============================================================================
