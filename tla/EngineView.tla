------------------------------ MODULE EngineView ------------------------------
(***************************************************************************)
(* The settlement engine seen through the types of the TxIP layer          *)
(* (crates/txip): its receipts as CoreProverReceipts with the provenance   *)
(* of their transactions, its deadlines as timestamps on three clocks.     *)
(* The TxIP layer computes nothing of its own ("This does NOT compute ANY  *)
(* logic", coreprover_types_v03.rs:211), so the two have to agree.         *)
(***************************************************************************)
EXTENDS CoreProverEngine

CONSTANT OrderAmount   \* amount of the orders; the engine takes any, 0 too

(* The stub of a receipt is told from a settlement by its instant 0, so    *)
(* genesis is after the epoch; no id but Blank is an empty text.           *)
ASSUME ViewAssumption ==
    /\ OrderAmount \in Nat
    /\ GenesisUnix > 0
    /\ "" \notin Txids \ {Blank}

Tx == INSTANCE TxProvenance WITH Rejected <- Blank

(* iso8601() writes UTC as +00:00; the stub of a receipt has "". *)
Iso(unix) == [T |-> TRUE, hyphens |-> 2, local |-> unix, tail |-> "+", offset |-> 0]
NoIso == [T |-> FALSE, hyphens |-> 0, local |-> 0, tail |-> "", offset |-> 0]

(* The instant mono on the engine's clocks: at_mono() of a provider *)
At(mono) == Tx!TripleTimestamp(mono, GenesisUnix + mono, Iso(GenesisUnix + mono))

(* A blank transaction id, as a text *)
TextOf(txid) == IF txid = Blank THEN "" ELSE txid

Buyer(r) == Tx!BuyerTxIds(ChainId, TextOf(r.buyer_commit_txid))
Seller(r) ==
    LET s == Tx!SellerTxIds(r.seller_chain_id, TextOf(r.seller_accept_txid),
                            TextOf(r.seller_fulfill_txid), r.seller_block_height)
        c == IF r.seller_claim_txid = None THEN s ELSE Tx!with_claim(s, r.seller_claim_txid)
    IN  IF r.seller_refund_txid = None THEN c ELSE Tx!with_refund(c, r.seller_refund_txid)

(* The CoreProverReceipt of an entry of the engine's receipts *)
ReceiptOf(r) ==
    LET settlement == Tx!TripleTimestamp(r.settlement_mono, r.settlement_unix,
                          IF r.settlement_unix = 0 THEN NoIso ELSE Iso(r.settlement_unix))
        fulfillment == Tx!TripleTimestamp(r.fulfillment_mono, r.fulfillment_unix, Iso(r.fulfillment_unix))
        n == Tx!CoreProverReceipt("order", OrderAmount, fulfillment, settlement, r.discount_pct,
                 r.discount_expiration_unix, ChainId, TextOf(r.buyer_commit_txid), r.seller_chain_id,
                 TextOf(r.seller_accept_txid), TextOf(r.seller_fulfill_txid), r.seller_block_height)
        c == IF r.seller_claim_txid = None THEN n ELSE Tx!with_seller_claim(n, r.seller_claim_txid)
    IN  IF r.seller_refund_txid = None THEN c ELSE Tx!with_seller_refund(c, r.seller_refund_txid)

-----------------------------------------------------------------------------
(* Of the receipts of an order exactly the last one becomes valid, when    *)
(* the seller settles the order and not before: for the receipt's own      *)
(* validate, for that of the provenance and for the timestamp of the       *)
(* settlement alike; they agree on who was paid; and nothing is settled    *)
(* before it was delivered.  The exception is an order over nothing, which *)
(* the engine settles and the receipt's validate alone refuses.            *)
ReceiptsValidate == \A k \in DOMAIN receipts : \A i \in get_escrow(receipts[k].session_id) :
    LET r == receipts[k]
        receipt == ReceiptOf(r)
        state == escrows[i].state
        settled == /\ state \in {"SellerClaimed", "SellerRefunded"}
                   /\ \A l \in DOMAIN receipts : receipts[l].session_id = r.session_id => l <= k
    IN  /\ Tx!validate(receipt) <=> settled /\ OrderAmount > 0
        /\ Tx!ProvenanceValid(Buyer(r), Seller(r)) <=> settled
        /\ Tx!validate_iso(Tx!settlement_timestamp(receipt)) <=> settled
        /\ settled => /\ Tx!seller_was_paid(receipt) <=> state = "SellerClaimed"
                      /\ Tx!was_paid(Seller(r)) <=> ~ Tx!was_refunded(Seller(r))
                      /\ Tx!seconds_remaining(Tx!fulfillment_timestamp(receipt), r.settlement_mono) <= 0

(* The deadlines tell the same on every clock and in every form: the       *)
(* monotonic and the Unix clock stay in step, a window is active until the *)
(* second its deadline passes, an order is accepted within its window,     *)
(* expires and is withdrawn after it, and a receipt is late on the Unix    *)
(* clock exactly when the engine found it late on the monotonic one.       *)
DeadlinesAgree == \A i \in DOMAIN escrows :
    LET e == escrows[i]
        acceptance == At(e.acceptance_deadline_mono)
        window == Tx!TimeWindow(At(e.buyer_commit_mono), acceptance)
        fulfillment == At(e.fulfillment_deadline_mono)
    IN  /\ Tx!duration_seconds(window) = e.profile.acceptance_window_secs
        /\ Tx!has_passed(acceptance, current_mono) <=> Tx!has_passed_unix(acceptance, current_unix)
        /\ Tx!has_passed(acceptance, current_mono) <=> Tx!seconds_remaining(acceptance, current_mono) < 0
        /\ Tx!is_active(window, current_mono)
            <=> Tx!has_started(window, current_mono) /\ ~ Tx!has_ended(window, current_mono)
        /\ e.seller_accept_mono # None => Tx!is_active(window, e.seller_accept_mono)
        /\ e.state = "BuyerWithdrawn" /\ e.seller_accept_mono = None =>
                Tx!has_ended(window, e.settlement_mono)
        /\ e.state = "FulfillmentExpired" => Tx!has_passed_unix(fulfillment, current_unix)
        /\ i \in get_escrow(e.order_id) =>
            \A k \in DOMAIN receipts : receipts[k].session_id = e.order_id =>
                (receipts[k].late_fulfilled
                    <=> Tx!has_passed_unix(fulfillment, receipts[k].fulfillment_unix))
=============================================================================
