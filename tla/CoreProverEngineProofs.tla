----------------------- MODULE CoreProverEngineProofs -----------------------
(***************************************************************************)
(* Theorems about CoreProverEngine and their proofs.  Type correctness     *)
(* comes first; IInv is the inductive invariant from which the safety      *)
(* properties follow.  One lemma per action says that it preserves IInv.   *)
(***************************************************************************)
EXTENDS CoreProverEngine, TLAPS

(* The common end of the settling methods keeps every type.                *)
LEMMA SettleType ==
    ASSUME TypeOK, NEW i \in DOMAIN escrows, NEW e \in Escrow,
           NEW refunded \in BOOLEAN, Settle(i, e, refunded)
    PROVE  TypeOK'
<1>1. escrows' \in Seq(Escrow) /\ Len(escrows') = Len(escrows)
  <2>1. escrows' = [escrows EXCEPT ![i] = e] /\ escrows \in Seq(Escrow)
    BY DEF Settle, TypeOK
  <2> QED BY <2>1
<1>2. paid' \in Seq(Nat) /\ Len(paid') = Len(paid)
  <2>1. /\ paid' = paid \/ paid' = [paid EXCEPT ![i] = @ + 1]
        /\ paid \in Seq(Nat) /\ Len(paid) = Len(escrows)
    BY DEF Settle, TypeOK
  <2> QED BY <2>1
<1>3. ASSUME NEW r \in ReceiptMetadata
      PROVE finalize_receipt(r, e, refunded) \in ReceiptMetadata
  <2>1. OrElse(e.settlement_mono, current_mono) \in Nat
    BY DEF OrElse, Escrow, Opt, TypeOK
  <2>2. OrElse(e.seller_block_height, 0) \in Nat
    BY DEF OrElse, Escrow, Opt
  <2>3. /\ e.seller_claim_txid \in Opt(ClaimTxids)
        /\ e.seller_refund_txid \in Opt(Txids)
    BY DEF Escrow
  <2> QED BY <1>3, <2>1, <2>2, <2>3 DEF finalize_receipt, ReceiptMetadata, TypeOK
<1>4. receipts' \in Seq(ReceiptMetadata)
  <2>1. CASE UNCHANGED receipts
    BY <2>1 DEF TypeOK
  <2>2. ASSUME NEW k \in LastReceipt(e.order_id),
               receipts' = [receipts EXCEPT ![k] =
                                finalize_receipt(receipts[k], e, refunded)]
        PROVE  receipts' \in Seq(ReceiptMetadata)
    <3>1. k \in DOMAIN receipts /\ receipts \in Seq(ReceiptMetadata)
      BY DEF LastReceipt, TypeOK
    <3>2. finalize_receipt(receipts[k], e, refunded) \in ReceiptMetadata
      BY <1>3, <3>1
    <3> QED BY <2>2, <3>1, <3>2
  <2> QED BY <2>1, <2>2 DEF Settle
<1> QED BY <1>1, <1>2, <1>4 DEF Settle, TypeOK, clock

(* buyer_commit appends a well-typed escrow.                               *)
LEMMA CommitType ==
    ASSUME TypeOK, NEW profile \in Profiles, NEW txid \in Txids,
           buyer_commit(profile, txid)
    PROVE  TypeOK'
<1>1. NewEscrow(generate_order_id, profile, txid) \in Escrow
  <2>1. generate_order_id \in Nat
    BY EngineAssumption DEF generate_order_id, TypeOK
  <2>2. profile \in PaymentProfile
    BY ProfileAssumption
  <2>3. current_mono + profile.acceptance_window_secs \in Nat
    BY <2>2 DEF PaymentProfile, TypeOK
  <2> QED BY <2>1, <2>2, <2>3 DEF NewEscrow, Escrow, Opt, EscrowState, TypeOK
<1> QED BY <1>1 DEF buyer_commit, TypeOK, clock

(* seller_fulfill stores a well-typed escrow and receipt stub.             *)
LEMMA FulfillType ==
    ASSUME TypeOK, NEW id, NEW txid \in Txids, seller_fulfill(id, txid)
    PROVE  TypeOK'
<1>1. PICK i \in get_escrow(id) : seller_fulfill(id, txid)!(i)
  BY DEF seller_fulfill
<1> DEFINE e == escrows[i]
           f == [e EXCEPT !.fulfillment_mono = current_mono,
                       !.seller_fulfill_txid = txid,
                       !.state = IF IsLate(e) THEN "FulfillmentExpired"
                                              ELSE "SellerFulfilled"]
<1>2. e \in Escrow
  BY DEF get_escrow, TypeOK
<1>3. f \in Escrow
  <2>1. f.state \in EscrowState
    BY <1>2 DEF Escrow, EscrowState
  <2>2. current_mono \in Opt(Nat) /\ txid \in Opt(Txids)
    BY DEF Opt, TypeOK
  <2> QED BY <1>2, <2>1, <2>2 DEF Escrow
<1>4. ReceiptStub(f, IsLate(e)) \in ReceiptMetadata
  <2>2. f.fulfillment_mono \in Nat /\ IsLate(e) \in BOOLEAN
    BY <1>2 DEF Escrow, TypeOK, IsLate
  <2> HIDE DEF f
  <2>p. f.profile \in PaymentProfile
    BY <1>3 DEF Escrow
  <2>1. LateDiscount(f, IsLate(e)) \in 0..255
    BY <2>p DEF LateDiscount, PaymentProfile
  <2>3. /\ OrBlank(f.seller_accept_txid) \in Txids
        /\ OrBlank(f.seller_fulfill_txid) \in Txids
    BY <1>3, TxidAssumption DEF OrBlank, Escrow, Opt
  <2>4. f.profile.discount_expiration_days \in Nat
    BY <2>p DEF PaymentProfile
  <2>5. (IF LateDiscount(f, IsLate(e)) > 0
         THEN current_unix + f.profile.discount_expiration_days * 86400
         ELSE 0) \in Nat
    BY <2>4 DEF TypeOK
  <2>6. /\ f.order_id \in Nat /\ f.buyer_commit_txid \in Txids
        /\ f.seller_chain_id \in Nat
    BY <1>3 DEF Escrow
  <2> QED BY <2>1, <2>2, <2>3, <2>5, <2>6
          DEF ReceiptStub, ReceiptMetadata, Opt, TypeOK
<1>5. escrows' \in Seq(Escrow) /\ Len(escrows') = Len(escrows)
  BY <1>1, <1>3 DEF get_escrow, TypeOK
<1>6. receipts' \in Seq(ReceiptMetadata)
  BY <1>1, <1>4 DEF TypeOK
<1> QED BY <1>1, <1>5, <1>6 DEF TypeOK, clock

(* Any change of a single escrow that keeps the rest of the state.         *)
LEMMA ReplaceType ==
    ASSUME TypeOK, NEW i \in DOMAIN escrows, NEW e \in Escrow,
           escrows' = [escrows EXCEPT ![i] = e],
           paid' \in Seq(Nat), Len(paid') = Len(paid),
           UNCHANGED <<receipts, next_session_counter, clock>>
    PROVE  TypeOK'
<1>1. escrows' \in Seq(Escrow) /\ Len(escrows') = Len(escrows)
  BY DEF TypeOK
<1> QED BY <1>1 DEF TypeOK, clock

(* What the settling methods write is an escrow.                           *)
LEMMA ClaimedType ==
    ASSUME TypeOK, NEW e \in Escrow, NEW txid \in ClaimTxids
    PROVE  Claimed(e, txid) \in Escrow
<1>1. /\ txid \in Opt(ClaimTxids) /\ "SellerClaimed" \in EscrowState
      /\ current_mono \in Opt(Nat) /\ current_block_height \in Opt(Nat)
  BY DEF Opt, EscrowState, TypeOK
<1> QED BY <1>1 DEF Claimed, Escrow

(* What seller_accept writes is an escrow.                                 *)
LEMMA AcceptedType ==
    ASSUME NEW e \in Escrow, NEW chain \in Nat, NEW mono \in Opt(Nat),
           NEW txid \in Opt(Txids), NEW d \in Opt(Nat), NEW s \in EscrowState
    PROVE  [e EXCEPT !.seller_chain_id = chain, !.seller_accept_mono = mono,
                     !.seller_accept_txid = txid, !.fulfillment_deadline_mono = d,
                     !.state = s] \in Escrow
  BY DEF Escrow

(* Every call the engine answers, and every call it rejects, keeps the types. *)
THEOREM TypeStep == TypeOK /\ [Next]_vars => TypeOK'
<1> SUFFICES ASSUME TypeOK, [Next]_vars PROVE TypeOK'
  OBVIOUS
<1>0. /\ current_mono \in Opt(Nat) /\ current_block_height \in Opt(Nat)
      /\ None \in Opt(Nat) /\ EscrowState \subseteq EscrowState
      /\ \A t \in Txids : t \in Opt(Txids) /\ t \in ClaimTxids
  BY DEF Opt, TypeOK, ClaimTxids
<1>e. \A id : \A i \in get_escrow(id) : i \in DOMAIN escrows /\ escrows[i] \in Escrow
  BY DEF get_escrow, TypeOK
<1>1. ASSUME NEW secs \in Steps, advance_time(secs) PROVE TypeOK'
  <2>1. secs \in Nat /\ secs \div BlockInterval \in Nat
    BY EngineAssumption
  <2> QED BY <1>1, <2>1 DEF advance_time, TypeOK
<1>2. ASSUME NEW profile \in Profiles, NEW txid \in Txids,
             buyer_commit(profile, txid)
      PROVE  TypeOK'
  BY <1>2, CommitType
<1>3. ASSUME NEW id \in OrderIds, NEW txid \in Txids, seller_accept(id, txid)
      PROVE  TypeOK'
  <2>1. PICK i \in get_escrow(id) : seller_accept(id, txid)!(i)
    BY <1>3 DEF seller_accept
  <2> DEFINE e == escrows[i]
             f == [e EXCEPT !.seller_chain_id = ChainId,
                      !.seller_accept_mono = current_mono,
                      !.seller_accept_txid = txid,
                      !.fulfillment_deadline_mono =
                            current_mono + e.profile.fulfillment_window_secs,
                      !.state = "SellerAccepted"]
  <2>2. e \in Escrow /\ i \in DOMAIN escrows
    BY <1>e
  <2>3. current_mono + e.profile.fulfillment_window_secs \in Opt(Nat)
    <3>1. e.profile \in PaymentProfile
      BY <2>2 DEF Escrow
    <3>2. e.profile.fulfillment_window_secs \in Nat
      BY <3>1 DEF PaymentProfile
    <3>3. current_mono \in Nat
      BY DEF TypeOK
    <3> HIDE DEF e
    <3>4. current_mono + e.profile.fulfillment_window_secs \in Nat
      BY <3>2, <3>3
    <3> QED BY <3>4 DEF Opt
  <2>4. "SellerAccepted" \in EscrowState /\ ChainId \in Nat
    BY EngineAssumption DEF EscrowState
  <2>5. f \in Escrow
    <3> DEFINE d == current_mono + e.profile.fulfillment_window_secs
    <3>1. d \in Opt(Nat)
      BY <2>3
    <3> HIDE DEF d, e
    <3>2. [e EXCEPT !.seller_chain_id = ChainId, !.seller_accept_mono = current_mono,
                    !.seller_accept_txid = txid, !.fulfillment_deadline_mono = d,
                    !.state = "SellerAccepted"] \in Escrow
      BY <1>0, <2>2, <2>4, <3>1, AcceptedType
    <3> QED BY <3>2 DEF d, e
  <2> QED BY <2>1, <2>2, <2>5, ReplaceType DEF TypeOK
<1>4. ASSUME NEW id \in OrderIds, NEW txid \in Txids, seller_fulfill(id, txid)
      PROVE  TypeOK'
  BY <1>4, FulfillType
<1>5. ASSUME NEW id \in OrderIds, NEW txid \in Txids, seller_claim(id, txid)
      PROVE  TypeOK'
  <2>1. PICK i \in get_escrow(id) : Settle(i, Claimed(escrows[i], txid), FALSE)
    BY <1>5 DEF seller_claim
  <2> QED BY <1>0, <1>e, <2>1, ClaimedType, SettleType
<1>6. ASSUME NEW id \in OrderIds, NEW txid \in Txids, seller_refund(id, txid)
      PROVE  TypeOK'
  <2>1. PICK i \in get_escrow(id) : seller_refund(id, txid)!(i)
    BY <1>6 DEF seller_refund
  <2> DEFINE f == [escrows[i] EXCEPT !.seller_refund_txid = txid,
                                    !.settlement_mono = current_mono,
                                    !.seller_block_height = current_block_height,
                                    !.state = "SellerRefunded"]
  <2>2. f \in Escrow
    <3>1. "SellerRefunded" \in EscrowState
      BY DEF EscrowState
    <3> DEFINE e == escrows[i]
    <3>2. e \in Escrow
      BY <1>e
    <3> HIDE DEF e
    <3>3. [e EXCEPT !.seller_refund_txid = txid, !.settlement_mono = current_mono,
                    !.seller_block_height = current_block_height,
                    !.state = "SellerRefunded"] \in Escrow
      BY <1>0, <3>1, <3>2 DEF Escrow
    <3> QED BY <3>3 DEF e
  <2>3. Settle(i, f, TRUE)
    BY <2>1
  <2> HIDE DEF f
  <2> QED BY <1>e, <2>2, <2>3, SettleType
<1>7. ASSUME NEW id \in OrderIds, NEW txid \in Opt(Txids), buyer_withdraw(id, txid)
      PROVE  TypeOK'
  <2>1. PICK i \in get_escrow(id) : buyer_withdraw(id, txid)!(i)
    BY <1>7 DEF buyer_withdraw
  <2> DEFINE e == escrows[i]
             f == [e EXCEPT !.buyer_withdraw_txid = IF txid = None THEN @ ELSE txid,
                            !.state = "BuyerWithdrawn",
                            !.settlement_mono = current_mono,
                            !.seller_block_height = None]
  <2>2. e \in Escrow /\ i \in DOMAIN escrows
    BY <1>e
  <2>3. (IF txid = None THEN e.buyer_withdraw_txid ELSE txid) \in Opt(Txids)
    BY <2>2 DEF Escrow
  <2>4. "BuyerWithdrawn" \in EscrowState
    BY DEF EscrowState
  <2>5. f \in Escrow
    BY <1>0, <2>2, <2>3, <2>4 DEF Escrow
  <2>6. paid' \in Seq(Nat) /\ Len(paid') = Len(paid)
    BY <2>1, <2>2 DEF TypeOK
  <2> QED BY <2>1, <2>2, <2>5, <2>6, ReplaceType
<1>8. ASSUME NEW id \in OrderIds, timed_release(id)
      PROVE  TypeOK'
  <2>1. PICK i \in get_escrow(id) :
            Settle(i, Claimed(escrows[i], AutoClaim(current_mono)), FALSE)
    BY <1>8 DEF timed_release
  <2>2. AutoClaim(current_mono) \in ClaimTxids
    BY DEF AutoClaim, ClaimTxids, TypeOK
  <2> QED BY <1>e, <2>1, <2>2, ClaimedType, SettleType
<1>9. ASSUME NEW id \in OrderIds, update_state(id)
      PROVE  TypeOK'
  <2>1. PICK i \in get_escrow(id) : update_state(id)!(i)
    BY <1>9 DEF update_state
  <2>2. [escrows[i] EXCEPT !.state = "FulfillmentExpired"] \in Escrow
    <3>1. "FulfillmentExpired" \in EscrowState
      BY DEF EscrowState
    <3> QED BY <1>e, <3>1 DEF Escrow
  <2> QED BY <1>e, <2>1, <2>2, ReplaceType DEF TypeOK
<1>10. CASE UNCHANGED vars
  BY <1>10 DEF vars, TypeOK
<1> QED BY <1>1, <1>2, <1>3, <1>4, <1>5, <1>6, <1>7, <1>8, <1>9, <1>10
        DEF Next, Tick, Commit, Call, SellerCall, Withdraw

(* Every reachable state is well typed: no method leaves a field of an     *)
(* escrow or of a receipt with a value of the wrong kind.                  *)
THEOREM TypeCorrect == Spec => []TypeOK
<1>1. Init => TypeOK
  BY EngineAssumption DEF Init, TypeOK
<1> QED BY <1>1, TypeStep, PTL DEF Spec

-----------------------------------------------------------------------------
(***************************************************************************)
(* The inductive invariant.  Sound(e, p, now, height) is what one escrow e *)
(* with p Ok(amount) replies satisfies at clock now and block height: the  *)
(* stage the order is in fixes which instants are recorded and how they    *)
(* compare with the deadlines.                                             *)
(***************************************************************************)
Stage(e, now) ==
    /\ e.seller_accept_mono = None =>
            /\ e.state \in {"BuyerCommitted", "BuyerWithdrawn"}
            /\ e.fulfillment_mono = None
    /\ e.seller_accept_mono # None =>
            /\ e.state # "BuyerCommitted"
            /\ e.fulfillment_deadline_mono # None
    /\ e.state = "SellerAccepted" => e.fulfillment_mono = None
    /\ e.state = "SellerFulfilled" => e.fulfillment_mono # None
    /\ e.state = "FulfillmentExpired" =>
            /\ now > e.fulfillment_deadline_mono
            /\ e.fulfillment_mono # None =>
                    e.fulfillment_mono > e.fulfillment_deadline_mono
    /\ e.fulfillment_mono # None => e.fulfillment_mono <= now

PaidSound(e, p) ==
    /\ p \in {0, 1}
    /\ p = 1 => is_terminal(e.state)
    /\ is_terminal(e.state) /\ p = 0 =>
            /\ e.state # "BuyerWithdrawn"
            /\ e.fulfillment_mono = None

OutcomeSound(e) ==
    /\ is_terminal(e.state) <=> e.settlement_mono # None
    /\ e.state = "SellerClaimed" <=> e.seller_claim_txid # None
    /\ e.state = "SellerRefunded" <=> e.seller_refund_txid # None
    /\ e.buyer_withdraw_txid # None => e.state = "BuyerWithdrawn"
    /\ e.seller_block_height # None <=> e.state \in {"SellerClaimed", "SellerRefunded"}

WithdrawSound(e) ==
    e.state = "BuyerWithdrawn" =>
        \/ /\ e.seller_accept_mono = None
           /\ e.settlement_mono > e.acceptance_deadline_mono
        \/ /\ e.seller_accept_mono # None
           /\ e.settlement_mono > e.fulfillment_deadline_mono
           /\ e.fulfillment_mono # None =>
                e.fulfillment_mono > e.fulfillment_deadline_mono

AutoClaimSound(e) ==
    e.seller_claim_txid \in [auto_claim: Nat] =>
        /\ e.profile.allows_timed_release
        /\ e.seller_claim_txid = AutoClaim(e.settlement_mono)
        /\ e.fulfillment_mono # None =>
            e.settlement_mono - e.fulfillment_mono >= e.profile.claim_window_secs

Past(e, now, height) ==
    /\ e.settlement_mono # None => e.settlement_mono <= now
    /\ e.seller_block_height # None => e.seller_block_height <= height

Sound(e, p, now, height) ==
    /\ Stage(e, now)
    /\ PaidSound(e, p)
    /\ OutcomeSound(e)
    /\ WithdrawSound(e)
    /\ AutoClaimSound(e)
    /\ Past(e, now, height)

AllSound == \A i \in DOMAIN escrows :
    Sound(escrows[i], paid[i], current_mono, current_block_height)

(* A delivered order has a receipt: finalize_receipt finds one. *)
Receipted == \A i \in DOMAIN escrows :
    escrows[i].fulfillment_mono # None => LastReceipt(escrows[i].order_id) # {}

IInv == TypeOK /\ AllSound /\ Receipted /\ HeightsOrderSettlements

(* What holds of an escrow keeps holding as time and blocks pass.          *)
LEMMA SoundLater ==
    ASSUME NEW e \in Escrow, NEW p \in Nat,
           NEW now \in Nat, NEW later \in Nat, now <= later,
           NEW height \in Nat, NEW higher \in Nat, height <= higher,
           Sound(e, p, now, height)
    PROVE  Sound(e, p, later, higher)
<1>1. /\ e.fulfillment_mono \in Opt(Nat) /\ e.settlement_mono \in Opt(Nat)
      /\ e.seller_block_height \in Opt(Nat) /\ e.fulfillment_deadline_mono \in Opt(Nat)
      /\ e.seller_accept_mono \in Opt(Nat)
  BY DEF Escrow
<1>2. Stage(e, later)
  <2>1. e.state = "FulfillmentExpired" => e.fulfillment_deadline_mono \in Nat
    BY <1>1 DEF Sound, Stage, Opt
  <2> QED BY <1>1, <2>1 DEF Sound, Stage, Opt
<1>3. Past(e, later, higher)
  BY <1>1 DEF Sound, Past, Opt
<1> QED BY <1>2, <1>3 DEF Sound

(* A freshly committed escrow is sound. *)
LEMMA NewSound ==
    ASSUME NEW order_id, NEW profile, NEW txid,
           current_mono \in Nat, current_block_height \in Nat
    PROVE  Sound(NewEscrow(order_id, profile, txid), 0, current_mono, current_block_height)
<1>1. None \notin [auto_claim: Nat]
  BY TxidAssumption DEF ClaimTxids
<1> QED BY <1>1 DEF Sound, NewEscrow, Stage, PaidSound, OutcomeSound, WithdrawSound,
                AutoClaimSound, Past, is_terminal

(* A seller's settlement of an order that was accepted leaves a sound      *)
(* escrow, provided the amount is returned whenever it was delivered.      *)
LEMMA ClaimedSound ==
    ASSUME TypeOK, NEW e \in Escrow, NEW txid \in ClaimTxids, NEW p \in {0, 1},
           Sound(e, 0, current_mono, current_block_height),
           CanSettle(e.state),
           p = 0 => e.fulfillment_mono = None,
           txid \in [auto_claim: Nat] =>
                /\ e.profile.allows_timed_release
                /\ txid = AutoClaim(current_mono)
                /\ Elapsed(e) >= e.profile.claim_window_secs
    PROVE  Sound(Claimed(e, txid), p, current_mono, current_block_height)
<1> DEFINE f == Claimed(e, txid)
<1>1. /\ f.state = "SellerClaimed" /\ f.seller_claim_txid = txid
      /\ f.settlement_mono = current_mono
      /\ f.seller_block_height = current_block_height
      /\ f.seller_refund_txid = e.seller_refund_txid
      /\ f.buyer_withdraw_txid = e.buyer_withdraw_txid
      /\ f.seller_accept_mono = e.seller_accept_mono
      /\ f.fulfillment_mono = e.fulfillment_mono
      /\ f.fulfillment_deadline_mono = e.fulfillment_deadline_mono
      /\ f.profile = e.profile
  BY DEF Claimed, Escrow
<1>2. /\ current_mono \in Nat /\ current_block_height \in Nat
      /\ txid # None /\ None \notin Nat
  BY TxidAssumption DEF TypeOK
<1>3. e.fulfillment_mono \in Opt(Nat)
  BY DEF Escrow
<1> HIDE DEF f
<1>4. Stage(f, current_mono)
  BY <1>1 DEF Sound, Stage, CanSettle
<1>5. PaidSound(f, p)
  BY <1>1 DEF PaidSound, is_terminal
<1>6. OutcomeSound(f)
  BY <1>1, <1>2 DEF Sound, OutcomeSound, CanSettle, is_terminal
<1>7. WithdrawSound(f)
  BY <1>1 DEF WithdrawSound
<1>8. AutoClaimSound(f)
  BY <1>1, <1>2, <1>3 DEF AutoClaimSound, Elapsed, OrElse, Sound, Stage, Opt
<1>9. Past(f, current_mono, current_block_height)
  BY <1>1, <1>2 DEF Past
<1> QED BY <1>4, <1>5, <1>6, <1>7, <1>8, <1>9 DEF Sound, f

(* One escrow replaced by f, with p replies, the clock untouched: the      *)
(* other escrows stay sound, and the heights stay ordered when f was       *)
(* settled by the seller now or not at all.                                *)
LEMMA ReplaceSound ==
    ASSUME IInv, NEW i \in DOMAIN escrows, NEW f \in Escrow, NEW p \in Nat,
           escrows' = [escrows EXCEPT ![i] = f],
           paid' = [paid EXCEPT ![i] = p],
           UNCHANGED clock,
           Sound(f, p, current_mono, current_block_height),
           \/ f.seller_block_height = None
           \/ /\ f.seller_block_height = current_block_height
              /\ f.settlement_mono = current_mono
    PROVE  AllSound' /\ HeightsOrderSettlements'
<1>1. /\ DOMAIN escrows' = DOMAIN escrows /\ DOMAIN paid = DOMAIN escrows
      /\ escrows'[i] = f /\ paid'[i] = p
      /\ \A j \in DOMAIN escrows : j # i => /\ escrows'[j] = escrows[j]
                                           /\ paid'[j] = paid[j]
      /\ current_mono' = current_mono /\ current_block_height' = current_block_height
  BY DEF IInv, TypeOK, clock
<1>2. \A j \in DOMAIN escrows :
            Sound(escrows'[j], paid'[j], current_mono, current_block_height)
  BY <1>1 DEF IInv, AllSound
<1>3. AllSound'
  BY <1>1, <1>2 DEF AllSound
<1>4. ASSUME NEW j \in DOMAIN escrows, NEW k \in DOMAIN escrows,
             escrows'[j].seller_block_height # None,
             escrows'[k].seller_block_height # None,
             escrows'[j].settlement_mono < escrows'[k].settlement_mono
      PROVE  escrows'[j].seller_block_height <= escrows'[k].seller_block_height
  <2>1. \A l \in DOMAIN escrows :
            /\ escrows[l] \in Escrow
            /\ Past(escrows[l], current_mono, current_block_height)
            /\ OutcomeSound(escrows[l])
    BY DEF IInv, TypeOK, AllSound, Sound
  <2>2. \A l \in DOMAIN escrows : escrows[l].seller_block_height # None =>
            /\ escrows[l].settlement_mono \in Nat
            /\ escrows[l].settlement_mono <= current_mono
            /\ escrows[l].seller_block_height \in Nat
            /\ escrows[l].seller_block_height <= current_block_height
    <3> SUFFICES ASSUME NEW l \in DOMAIN escrows,
                        escrows[l].seller_block_height # None
                 PROVE  /\ escrows[l].settlement_mono \in Nat
                        /\ escrows[l].settlement_mono <= current_mono
                        /\ escrows[l].seller_block_height \in Nat
                        /\ escrows[l].seller_block_height <= current_block_height
      OBVIOUS
    <3>1. /\ escrows[l].settlement_mono \in Opt(Nat)
          /\ escrows[l].seller_block_height \in Opt(Nat)
      BY <2>1 DEF Escrow
    <3>2. escrows[l].settlement_mono # None
      BY <2>1 DEF OutcomeSound, is_terminal
    <3> QED BY <2>1, <3>1, <3>2 DEF Past, Opt
  <2>3. CASE j # i /\ k # i
    BY <1>1, <1>4, <2>3 DEF IInv, HeightsOrderSettlements
  <2>4. CASE j = i
    BY <1>1, <1>4, <2>2, <2>4 DEF IInv, TypeOK
  <2>5. CASE k = i /\ j # i
    BY <1>1, <1>4, <2>2, <2>5 DEF IInv, TypeOK
  <2> QED BY <2>3, <2>4, <2>5
<1>5. HeightsOrderSettlements'
  BY <1>1, <1>4 DEF HeightsOrderSettlements
<1> QED BY <1>3, <1>5

(* Receipts keep their session, so a session that has one keeps one.       *)
LEMMA ReceiptedKept ==
    ASSUME IInv, NEW i \in DOMAIN escrows, NEW f \in Escrow,
           escrows' = [escrows EXCEPT ![i] = f],
           f.order_id = escrows[i].order_id,
           f.fulfillment_mono # None => escrows[i].fulfillment_mono # None,
           DOMAIN receipts' = DOMAIN receipts,
           \A k \in DOMAIN receipts : receipts'[k].session_id = receipts[k].session_id
    PROVE  Receipted'
<1>1. \A id : LastReceipt(id)' = LastReceipt(id)
  BY DEF LastReceipt
<1>2. /\ DOMAIN escrows' = DOMAIN escrows
      /\ \A j \in DOMAIN escrows :
            /\ escrows'[j].order_id = escrows[j].order_id
            /\ escrows'[j].fulfillment_mono # None => escrows[j].fulfillment_mono # None
  BY DEF IInv, TypeOK
<1> QED BY <1>1, <1>2 DEF IInv, Receipted
(* seller_claim, seller_refund and timed_release end in Settle: the reply  *)
(* is an Err only for an order that was never delivered.                   *)
LEMMA SettleSound ==
    ASSUME IInv, NEW i \in DOMAIN escrows, NEW f \in Escrow,
           NEW refunded \in BOOLEAN, Settle(i, f, refunded),
           f.order_id = escrows[i].order_id,
           f.fulfillment_mono = escrows[i].fulfillment_mono,
           f.seller_block_height = current_block_height,
           f.settlement_mono = current_mono,
           paid[i] = 0,
           \A p \in {0, 1} : (p = 0 => escrows[i].fulfillment_mono = None) =>
                Sound(f, p, current_mono, current_block_height)
    PROVE  AllSound' /\ HeightsOrderSettlements' /\ Receipted'
<1>1. /\ escrows' = [escrows EXCEPT ![i] = f] /\ UNCHANGED clock
      /\ paid \in Seq(Nat) /\ DOMAIN paid = DOMAIN escrows
  BY DEF Settle, IInv, TypeOK
<1>2. CASE LastReceipt(f.order_id) = {} /\ UNCHANGED <<receipts, paid>>
  <2>1. escrows[i].fulfillment_mono = None
    BY <1>2 DEF IInv, Receipted
  <2>2. Sound(f, 0, current_mono, current_block_height)
    BY <2>1
  <2>3. paid' = [paid EXCEPT ![i] = 0] /\ 0 \in Nat
    BY <1>1, <1>2
  <2>4. AllSound' /\ HeightsOrderSettlements'
    BY <1>1, <2>2, <2>3, ReplaceSound
  <2>5. Receipted'
    BY <1>1, <1>2, ReceiptedKept
  <2> QED BY <2>4, <2>5
<1>3. ASSUME NEW k \in LastReceipt(f.order_id),
             receipts' = [receipts EXCEPT ![k] =
                            finalize_receipt(receipts[k], f, refunded)],
             paid' = [paid EXCEPT ![i] = @ + 1]
      PROVE  AllSound' /\ HeightsOrderSettlements' /\ Receipted'
  <2>1. Sound(f, 1, current_mono, current_block_height)
    OBVIOUS
  <2>2. paid' = [paid EXCEPT ![i] = 1]
    BY <1>1, <1>3
  <2>3. AllSound' /\ HeightsOrderSettlements'
    BY <1>1, <2>1, <2>2, ReplaceSound
  <2>4. k \in DOMAIN receipts /\ receipts \in Seq(ReceiptMetadata)
    BY DEF LastReceipt, IInv, TypeOK
  <2>5. finalize_receipt(receipts[k], f, refunded).session_id = receipts[k].session_id
    BY <2>4 DEF finalize_receipt, ReceiptMetadata
  <2>6. /\ DOMAIN receipts' = DOMAIN receipts
        /\ \A l \in DOMAIN receipts :
                receipts'[l].session_id = receipts[l].session_id
    BY <1>3, <2>4, <2>5
  <2>7. Receipted'
    BY <1>1, <2>6, ReceiptedKept
  <2> QED BY <2>3, <2>7
<1> QED BY <1>2, <1>3 DEF Settle

(* An order that is not settled yet was not paid out yet. *)
LEMMA OpenUnpaid ==
    ASSUME IInv, NEW i \in DOMAIN escrows, ~ is_terminal(escrows[i].state)
    PROVE  /\ escrows[i] \in Escrow
           /\ paid[i] = 0
           /\ Sound(escrows[i], 0, current_mono, current_block_height)
<1>1. Sound(escrows[i], paid[i], current_mono, current_block_height)
  BY DEF IInv, AllSound
<1>2. paid[i] = 0
  BY <1>1 DEF Sound, PaidSound
<1> QED BY <1>1, <1>2 DEF IInv, TypeOK

(* advance_time preserves the invariant.                                   *)
LEMMA TickSound ==
    ASSUME IInv, NEW secs \in Steps, advance_time(secs)
    PROVE  AllSound' /\ HeightsOrderSettlements' /\ Receipted'
<1>1. secs \in Nat /\ secs \div BlockInterval \in Nat
  BY EngineAssumption
<1>2. /\ escrows' = escrows /\ paid' = paid /\ receipts' = receipts
      /\ current_mono' \in Nat /\ current_mono <= current_mono'
      /\ current_block_height' \in Nat /\ current_block_height <= current_block_height'
  BY <1>1 DEF advance_time, IInv, TypeOK
<1>3. \A i \in DOMAIN escrows : escrows[i] \in Escrow /\ paid[i] \in Nat
  BY DEF IInv, TypeOK
<1>4. current_mono \in Nat /\ current_block_height \in Nat
  BY DEF IInv, TypeOK
<1>5. AllSound'
  BY <1>2, <1>3, <1>4, SoundLater DEF IInv, AllSound
<1>6. HeightsOrderSettlements' /\ Receipted'
  BY <1>2 DEF IInv, HeightsOrderSettlements, Receipted, LastReceipt
<1> QED BY <1>5, <1>6

(* buyer_commit preserves the invariant.                                   *)
LEMMA CommitSound ==
    ASSUME IInv, NEW profile \in Profiles, NEW txid \in Txids,
           buyer_commit(profile, txid)
    PROVE  AllSound' /\ HeightsOrderSettlements' /\ Receipted'
<1> DEFINE n == NewEscrow(generate_order_id, profile, txid)
<1>1. /\ escrows' = Append(escrows, n) /\ paid' = Append(paid, 0)
      /\ receipts' = receipts /\ UNCHANGED clock
      /\ escrows \in Seq(Escrow) /\ paid \in Seq(Nat) /\ Len(paid) = Len(escrows)
      /\ current_mono \in Nat /\ current_block_height \in Nat
  BY DEF buyer_commit, IInv, TypeOK
<1>2. /\ Sound(n, 0, current_mono, current_block_height)
      /\ n.fulfillment_mono = None /\ n.seller_block_height = None
  BY <1>1, NewSound DEF NewEscrow
<1> HIDE DEF n
<1>3. /\ DOMAIN escrows' = DOMAIN escrows \cup {Len(escrows) + 1}
      /\ escrows'[Len(escrows) + 1] = n /\ paid'[Len(escrows) + 1] = 0
      /\ \A i \in DOMAIN escrows : escrows'[i] = escrows[i] /\ paid'[i] = paid[i]
  BY <1>1
<1>4. AllSound'
  BY <1>1, <1>2, <1>3 DEF IInv, AllSound, clock
<1>5. HeightsOrderSettlements'
  BY <1>2, <1>3 DEF IInv, HeightsOrderSettlements
<1>6. \A id : LastReceipt(id)' = LastReceipt(id)
  BY <1>1 DEF LastReceipt
<1>7. Receipted'
  BY <1>2, <1>3, <1>6 DEF IInv, Receipted
<1> QED BY <1>4, <1>5, <1>7
(* seller_accept preserves the invariant.                                  *)
LEMMA AcceptSound ==
    ASSUME IInv, TypeOK', NEW id, NEW txid \in Txids, seller_accept(id, txid)
    PROVE  AllSound' /\ HeightsOrderSettlements' /\ Receipted'
<1>1. PICK i \in get_escrow(id) : seller_accept(id, txid)!(i)
  BY DEF seller_accept
<1> DEFINE e == escrows[i]
           f == escrows'[i]
<1>2. i \in DOMAIN escrows /\ e \in Escrow /\ current_mono \in Nat
  BY DEF get_escrow, IInv, TypeOK
<1>w. e.profile.fulfillment_window_secs \in Nat
  <2>1. e.profile \in PaymentProfile
    BY <1>2 DEF Escrow
  <2> QED BY <2>1 DEF PaymentProfile
<1>3. /\ f.state = "SellerAccepted" /\ f.seller_accept_mono = current_mono
      /\ f.fulfillment_deadline_mono = current_mono + e.profile.fulfillment_window_secs
      /\ f.fulfillment_mono = e.fulfillment_mono /\ f.settlement_mono = e.settlement_mono
      /\ f.seller_claim_txid = e.seller_claim_txid
      /\ f.seller_refund_txid = e.seller_refund_txid
      /\ f.buyer_withdraw_txid = e.buyer_withdraw_txid
      /\ f.seller_block_height = e.seller_block_height
      /\ f.order_id = e.order_id
  BY <1>1, <1>2 DEF Escrow, IInv, TypeOK
<1>n. f.fulfillment_deadline_mono \in Nat
  BY <1>2, <1>3, <1>w
<1>4. /\ paid[i] = 0 /\ Sound(e, 0, current_mono, current_block_height)
      /\ e.state = "BuyerCommitted"
  BY <1>1, <1>2, OpenUnpaid DEF is_terminal
<1>5. escrows' = [escrows EXCEPT ![i] = f] /\ f \in Escrow
  BY <1>1, <1>2 DEF IInv, TypeOK
<1> HIDE DEF f
<1>6. None \notin Nat /\ None \notin [auto_claim: Nat]
  BY TxidAssumption DEF ClaimTxids
<1>7. e.fulfillment_mono = None /\ e.seller_block_height = None /\ e.seller_claim_txid = None
  BY <1>4, <1>2 DEF Sound, Stage, OutcomeSound
<1>8. Sound(f, 0, current_mono, current_block_height)
  BY <1>2, <1>3, <1>n, <1>4, <1>6, <1>7 DEF Sound, Stage, PaidSound, OutcomeSound, WithdrawSound,
                AutoClaimSound, Past, is_terminal
<1>9. paid' = [paid EXCEPT ![i] = 0] /\ 0 \in Nat /\ UNCHANGED <<receipts, clock>>
  BY <1>1, <1>4 DEF IInv, TypeOK
<1>10. AllSound' /\ HeightsOrderSettlements'
  BY <1>2, <1>3, <1>5, <1>7, <1>8, <1>9, ReplaceSound
<1>11. Receipted'
  BY <1>2, <1>3, <1>5, <1>9, ReceiptedKept
<1> QED BY <1>10, <1>11

(* update_state preserves the invariant.                                   *)
LEMMA UpdateSound ==
    ASSUME IInv, TypeOK', NEW id, update_state(id)
    PROVE  AllSound' /\ HeightsOrderSettlements' /\ Receipted'
<1>1. PICK i \in get_escrow(id) : update_state(id)!(i)
  BY DEF update_state
<1> DEFINE e == escrows[i]
           f == escrows'[i]
<1>2. i \in DOMAIN escrows /\ e \in Escrow
  BY DEF get_escrow, IInv, TypeOK
<1>3. /\ f.state = "FulfillmentExpired" /\ f.seller_accept_mono = e.seller_accept_mono
      /\ f.fulfillment_deadline_mono = e.fulfillment_deadline_mono
      /\ f.fulfillment_mono = e.fulfillment_mono /\ f.settlement_mono = e.settlement_mono
      /\ f.seller_claim_txid = e.seller_claim_txid
      /\ f.seller_refund_txid = e.seller_refund_txid
      /\ f.buyer_withdraw_txid = e.buyer_withdraw_txid
      /\ f.seller_block_height = e.seller_block_height
      /\ f.order_id = e.order_id
      /\ current_mono > f.fulfillment_deadline_mono
  BY <1>1, <1>2 DEF Escrow, IInv, TypeOK
<1>4. /\ paid[i] = 0 /\ Sound(e, 0, current_mono, current_block_height)
      /\ e.state = "SellerAccepted"
  BY <1>1, <1>2, OpenUnpaid DEF is_terminal
<1>5. escrows' = [escrows EXCEPT ![i] = f] /\ f \in Escrow
  BY <1>1, <1>2 DEF IInv, TypeOK
<1> HIDE DEF f
<1>6. None \notin [auto_claim: Nat]
  BY TxidAssumption DEF ClaimTxids
<1>7. e.fulfillment_mono = None /\ e.seller_block_height = None /\ e.seller_claim_txid = None
  BY <1>4, <1>2 DEF Sound, Stage, OutcomeSound
<1>8. Sound(f, 0, current_mono, current_block_height)
  BY <1>3, <1>4, <1>6, <1>7 DEF Sound, Stage, PaidSound, OutcomeSound, WithdrawSound,
                AutoClaimSound, Past, is_terminal
<1>9. paid' = [paid EXCEPT ![i] = 0] /\ 0 \in Nat /\ UNCHANGED <<receipts, clock>>
  BY <1>1, <1>4 DEF IInv, TypeOK
<1>10. AllSound' /\ HeightsOrderSettlements'
  BY <1>2, <1>3, <1>5, <1>7, <1>8, <1>9, ReplaceSound
<1>11. Receipted'
  BY <1>2, <1>3, <1>5, <1>9, ReceiptedKept
<1> QED BY <1>10, <1>11

(* buyer_withdraw preserves the invariant.                                 *)
LEMMA WithdrawnSound ==
    ASSUME IInv, TypeOK', NEW id, NEW txid \in Opt(Txids), buyer_withdraw(id, txid)
    PROVE  AllSound' /\ HeightsOrderSettlements' /\ Receipted'
<1>1. PICK i \in get_escrow(id) : buyer_withdraw(id, txid)!(i)
  BY DEF buyer_withdraw
<1> DEFINE e == escrows[i]
           f == escrows'[i]
<1>2. i \in DOMAIN escrows /\ e \in Escrow /\ current_mono \in Nat
  BY DEF get_escrow, IInv, TypeOK
<1>3. /\ f.state = "BuyerWithdrawn" /\ f.seller_accept_mono = e.seller_accept_mono
      /\ f.fulfillment_deadline_mono = e.fulfillment_deadline_mono
      /\ f.acceptance_deadline_mono = e.acceptance_deadline_mono
      /\ f.acceptance_deadline_mono \in Nat
      /\ f.fulfillment_mono = e.fulfillment_mono /\ f.settlement_mono = current_mono
      /\ f.seller_claim_txid = e.seller_claim_txid
      /\ f.seller_refund_txid = e.seller_refund_txid
      /\ f.seller_block_height = None
      /\ f.order_id = e.order_id
      /\ e.state \in {"BuyerCommitted", "FulfillmentExpired"}
      /\ e.state = "BuyerCommitted" => ~ (current_mono <= e.acceptance_deadline_mono)
  BY <1>1, <1>2 DEF Escrow, IInv, TypeOK
<1>4. paid[i] = 0 /\ Sound(e, 0, current_mono, current_block_height)
  BY <1>2, <1>3, OpenUnpaid DEF is_terminal
<1>5. escrows' = [escrows EXCEPT ![i] = f] /\ f \in Escrow
  BY <1>1, <1>2 DEF IInv, TypeOK
<1> HIDE DEF f
<1>6. None \notin Nat /\ None \notin [auto_claim: Nat]
  BY TxidAssumption DEF ClaimTxids
<1>7. e.seller_claim_txid = None /\ e.seller_refund_txid = None
  BY <1>3, <1>4 DEF Sound, OutcomeSound
<1>8. Sound(f, 1, current_mono, current_block_height)
  <2>1. Stage(f, current_mono)
    BY <1>3, <1>4 DEF Sound, Stage
  <2>2. PaidSound(f, 1) /\ OutcomeSound(f) /\ AutoClaimSound(f)
    BY <1>2, <1>3, <1>6, <1>7 DEF PaidSound, OutcomeSound, AutoClaimSound, is_terminal
  <2>3. WithdrawSound(f)
    BY <1>2, <1>3, <1>4 DEF Sound, Stage, WithdrawSound
  <2>4. Past(f, current_mono, current_block_height)
    BY <1>2, <1>3 DEF Past
  <2> QED BY <2>1, <2>2, <2>3, <2>4 DEF Sound
<1>9. paid' = [paid EXCEPT ![i] = 1] /\ 1 \in Nat /\ UNCHANGED <<receipts, clock>>
  BY <1>1, <1>4 DEF IInv, TypeOK
<1>10. AllSound' /\ HeightsOrderSettlements'
  BY <1>2, <1>3, <1>5, <1>8, <1>9, ReplaceSound
<1>11. Receipted'
  BY <1>2, <1>3, <1>5, <1>9, ReceiptedKept
<1> QED BY <1>10, <1>11
(* seller_fulfill preserves the invariant.                                 *)
LEMMA FulfillSound ==
    ASSUME IInv, TypeOK', NEW id, NEW txid \in Txids, seller_fulfill(id, txid)
    PROVE  AllSound' /\ HeightsOrderSettlements' /\ Receipted'
<1>1. PICK i \in get_escrow(id) : seller_fulfill(id, txid)!(i)
  BY DEF seller_fulfill
<1> DEFINE e == escrows[i]
           f == escrows'[i]
           r == ReceiptStub(f, IsLate(e))
<1>2. i \in DOMAIN escrows /\ e \in Escrow /\ current_mono \in Nat
  BY DEF get_escrow, IInv, TypeOK
<1>3. /\ f.state = IF IsLate(e) THEN "FulfillmentExpired" ELSE "SellerFulfilled"
      /\ f.seller_accept_mono = e.seller_accept_mono
      /\ f.fulfillment_deadline_mono = e.fulfillment_deadline_mono
      /\ f.fulfillment_mono = current_mono /\ f.settlement_mono = e.settlement_mono
      /\ f.seller_claim_txid = e.seller_claim_txid
      /\ f.seller_refund_txid = e.seller_refund_txid
      /\ f.buyer_withdraw_txid = e.buyer_withdraw_txid
      /\ f.seller_block_height = e.seller_block_height
      /\ f.order_id = e.order_id
  BY <1>1, <1>2 DEF Escrow, IInv, TypeOK
<1>4. /\ paid[i] = 0 /\ Sound(e, 0, current_mono, current_block_height)
      /\ e.state \in {"SellerAccepted", "FulfillmentExpired"}
  BY <1>1, <1>2, OpenUnpaid DEF is_terminal, can_fulfill
<1>5. escrows' = [escrows EXCEPT ![i] = f] /\ f \in Escrow
  BY <1>1, <1>2 DEF IInv, TypeOK
<1>6. receipts' = Append(receipts, r) /\ receipts \in Seq(ReceiptMetadata)
  BY <1>1, <1>2 DEF IInv, TypeOK
<1>7. r.session_id = e.order_id
  BY <1>3 DEF ReceiptStub
<1> HIDE DEF f, r
<1>8. None \notin Nat /\ None \notin [auto_claim: Nat]
  BY TxidAssumption DEF ClaimTxids
<1>9. /\ e.seller_accept_mono # None /\ e.fulfillment_deadline_mono # None
      /\ e.seller_block_height = None /\ e.seller_claim_txid = None
      /\ e.seller_refund_txid = None /\ e.buyer_withdraw_txid = None
      /\ e.settlement_mono = None
  BY <1>4 DEF Sound, Stage, OutcomeSound, is_terminal
<1>10. Sound(f, 0, current_mono, current_block_height)
  <2>1. Stage(f, current_mono)
    BY <1>2, <1>3, <1>8, <1>9 DEF Stage, IsLate
  <2>2. PaidSound(f, 0) /\ OutcomeSound(f) /\ AutoClaimSound(f)
    BY <1>3, <1>8, <1>9 DEF PaidSound, OutcomeSound, AutoClaimSound, is_terminal
  <2>3. WithdrawSound(f) /\ Past(f, current_mono, current_block_height)
    BY <1>3, <1>9 DEF WithdrawSound, Past
  <2> QED BY <2>1, <2>2, <2>3 DEF Sound
<1>11. paid' = [paid EXCEPT ![i] = 0] /\ 0 \in Nat /\ UNCHANGED clock
  BY <1>1, <1>4 DEF IInv, TypeOK
<1>12. AllSound' /\ HeightsOrderSettlements'
  BY <1>2, <1>3, <1>5, <1>9, <1>10, <1>11, ReplaceSound
<1>13. Receipted'
  <2>1. /\ DOMAIN receipts' = DOMAIN receipts \cup {Len(receipts) + 1}
        /\ receipts'[Len(receipts) + 1] = r
        /\ \A k \in DOMAIN receipts : receipts'[k] = receipts[k] /\ k <= Len(receipts) + 1
        /\ \A k \in DOMAIN receipts : k \in Int
        /\ Len(receipts) + 1 \in Int
        /\ Len(receipts) + 1 \notin DOMAIN receipts
    BY <1>6
  <2>2. \A s : s = e.order_id => LastReceipt(s)' # {}
    <3> SUFFICES ASSUME NEW s, s = e.order_id
                 PROVE  Len(receipts) + 1 \in LastReceipt(s)'
      OBVIOUS
    <3> QED BY <1>7, <2>1 DEF LastReceipt
  <2>3. \A s : s # e.order_id => LastReceipt(s)' = LastReceipt(s)
    BY <1>7, <2>1 DEF LastReceipt
  <2>4. /\ DOMAIN escrows' = DOMAIN escrows
        /\ \A j \in DOMAIN escrows : escrows'[j].order_id = escrows[j].order_id
        /\ \A j \in DOMAIN escrows : j # i => escrows'[j] = escrows[j]
    BY <1>2, <1>3, <1>5 DEF IInv, TypeOK
  <2>5. ASSUME NEW j \in DOMAIN escrows, NEW s, s = escrows'[j].order_id,
               escrows'[j].fulfillment_mono # None
        PROVE  LastReceipt(s)' # {}
    <3>1. CASE s = e.order_id
      BY <2>2, <3>1
    <3>2. CASE s # e.order_id
      <4>1. j # i /\ escrows'[j] = escrows[j]
        BY <2>4, <2>5, <3>2
      <4>2. LastReceipt(s) # {}
        BY <2>5, <4>1 DEF IInv, Receipted
      <4> QED BY <2>3, <3>2, <4>2
    <3> QED BY <3>1, <3>2
  <2> QED BY <2>4, <2>5 DEF Receipted
<1> QED BY <1>12, <1>13

(* The three ways a seller is paid or pays back. *)
LEMMA ClaimSound ==
    ASSUME IInv, NEW id, NEW i \in get_escrow(id), NEW txid \in ClaimTxids,
           CanSettle(escrows[i].state),
           txid \in [auto_claim: Nat] =>
                /\ escrows[i].profile.allows_timed_release
                /\ txid = AutoClaim(current_mono)
                /\ Elapsed(escrows[i]) >= escrows[i].profile.claim_window_secs,
           Settle(i, Claimed(escrows[i], txid), FALSE)
    PROVE  AllSound' /\ HeightsOrderSettlements' /\ Receipted'
<1> DEFINE e == escrows[i]
           f == Claimed(e, txid)
<1>1. i \in DOMAIN escrows /\ e \in Escrow /\ TypeOK
  BY DEF get_escrow, IInv, TypeOK
<1>2. paid[i] = 0 /\ Sound(e, 0, current_mono, current_block_height)
  BY <1>1, OpenUnpaid DEF CanSettle, is_terminal
<1>3. \A p \in {0, 1} : (p = 0 => e.fulfillment_mono = None) =>
            Sound(f, p, current_mono, current_block_height)
  BY <1>1, <1>2, ClaimedSound
<1>4. /\ f.order_id = e.order_id /\ f.fulfillment_mono = e.fulfillment_mono
      /\ f.seller_block_height = current_block_height
      /\ f.settlement_mono = current_mono
  BY <1>1 DEF Claimed, Escrow
<1>5. f \in Escrow
  BY <1>1, ClaimedType
<1> HIDE DEF f
<1>6. Settle(i, f, FALSE) /\ FALSE \in BOOLEAN
  BY DEF f
<1> QED BY <1>1, <1>2, <1>3, <1>4, <1>5, <1>6, SettleSound

(* seller_refund preserves the invariant.                                  *)
LEMMA RefundSound ==
    ASSUME IInv, NEW id, NEW txid \in Txids, seller_refund(id, txid)
    PROVE  AllSound' /\ HeightsOrderSettlements' /\ Receipted'
<1>1. PICK i \in get_escrow(id) : seller_refund(id, txid)!(i)
  BY DEF seller_refund
<1> DEFINE e == escrows[i]
           f == [e EXCEPT !.seller_refund_txid = txid,
                          !.settlement_mono = current_mono,
                          !.seller_block_height = current_block_height,
                          !.state = "SellerRefunded"]
<1>2. /\ i \in DOMAIN escrows /\ e \in Escrow
      /\ current_mono \in Nat /\ current_block_height \in Nat
  BY DEF get_escrow, IInv, TypeOK
<1>3. /\ f.state = "SellerRefunded" /\ f.seller_accept_mono = e.seller_accept_mono
      /\ f.fulfillment_deadline_mono = e.fulfillment_deadline_mono
      /\ f.fulfillment_mono = e.fulfillment_mono /\ f.settlement_mono = current_mono
      /\ f.seller_claim_txid = e.seller_claim_txid
      /\ f.seller_refund_txid = txid
      /\ f.buyer_withdraw_txid = e.buyer_withdraw_txid
      /\ f.seller_block_height = current_block_height
      /\ f.order_id = e.order_id
  BY <1>2 DEF Escrow
<1>4. f \in Escrow
  <2>1. /\ current_mono \in Opt(Nat) /\ current_block_height \in Opt(Nat)
        /\ txid \in Opt(Txids) /\ "SellerRefunded" \in EscrowState
    BY <1>2 DEF Opt, EscrowState
  <2> QED BY <1>2, <2>1 DEF Escrow
<1>5. Settle(i, f, TRUE) /\ TRUE \in BOOLEAN
  BY <1>1
<1> HIDE DEF f
<1>6. paid[i] = 0 /\ Sound(e, 0, current_mono, current_block_height)
  BY <1>1, <1>2, OpenUnpaid DEF CanSettle, is_terminal
<1>7. None \notin Nat /\ None \notin [auto_claim: Nat] /\ txid # None
  BY TxidAssumption DEF ClaimTxids
<1>8. /\ e.seller_claim_txid = None /\ e.buyer_withdraw_txid = None
      /\ e.seller_accept_mono # None /\ e.fulfillment_deadline_mono # None
  BY <1>1, <1>6 DEF Sound, Stage, OutcomeSound, CanSettle
<1>9. ASSUME NEW p \in {0, 1}, p = 0 => e.fulfillment_mono = None
      PROVE  Sound(f, p, current_mono, current_block_height)
  <2>1. Stage(f, current_mono)
    BY <1>3, <1>6, <1>8 DEF Sound, Stage
  <2>2. PaidSound(f, p)
    BY <1>3, <1>9 DEF PaidSound, is_terminal
  <2>3. OutcomeSound(f)
    BY <1>2, <1>3, <1>7, <1>8 DEF OutcomeSound, is_terminal
  <2>4. AutoClaimSound(f) /\ WithdrawSound(f)
    BY <1>3, <1>7, <1>8 DEF AutoClaimSound, WithdrawSound
  <2>5. Past(f, current_mono, current_block_height)
    BY <1>2, <1>3 DEF Past
  <2> QED BY <2>1, <2>2, <2>3, <2>4, <2>5 DEF Sound
<1> QED BY <1>2, <1>3, <1>4, <1>5, <1>6, <1>9, SettleSound

(* Every step preserves the invariant.                                     *)
THEOREM IInvStep == IInv /\ [Next]_vars => IInv'
<1> SUFFICES ASSUME IInv, [Next]_vars PROVE IInv'
  OBVIOUS
<1>t. TypeOK /\ TypeOK'
  BY TypeStep DEF IInv
<1> DEFINE Goal == AllSound' /\ HeightsOrderSettlements' /\ Receipted'
<1>1. ASSUME NEW secs \in Steps, advance_time(secs) PROVE Goal
  BY <1>1, TickSound
<1>2. ASSUME NEW profile \in Profiles, NEW txid \in Txids,
             buyer_commit(profile, txid)
      PROVE  Goal
  BY <1>2, CommitSound
<1>3. ASSUME NEW id \in OrderIds, NEW txid \in Txids, seller_accept(id, txid)
      PROVE  Goal
  BY <1>3, <1>t, AcceptSound
<1>4. ASSUME NEW id \in OrderIds, NEW txid \in Txids, seller_fulfill(id, txid)
      PROVE  Goal
  BY <1>4, <1>t, FulfillSound
<1>5. ASSUME NEW id \in OrderIds, NEW txid \in Txids, seller_claim(id, txid)
      PROVE  Goal
  <2>1. PICK i \in get_escrow(id) : seller_claim(id, txid)!(i)
    BY <1>5 DEF seller_claim
  <2>2. txid \in ClaimTxids /\ txid \notin [auto_claim: Nat]
    BY TxidAssumption DEF ClaimTxids
  <2> QED BY <2>1, <2>2, ClaimSound
<1>6. ASSUME NEW id \in OrderIds, NEW txid \in Txids, seller_refund(id, txid)
      PROVE  Goal
  BY <1>6, RefundSound
<1>7. ASSUME NEW id \in OrderIds, NEW txid \in Opt(Txids), buyer_withdraw(id, txid)
      PROVE  Goal
  BY <1>7, <1>t, WithdrawnSound
<1>8. ASSUME NEW id \in OrderIds, timed_release(id) PROVE Goal
  <2>1. PICK i \in get_escrow(id) : timed_release(id)!(i)
    BY <1>8 DEF timed_release
  <2>2. AutoClaim(current_mono) \in ClaimTxids
    BY <1>t DEF AutoClaim, ClaimTxids, TypeOK
  <2> QED BY <2>1, <2>2, ClaimSound
<1>9. ASSUME NEW id \in OrderIds, update_state(id) PROVE Goal
  BY <1>9, <1>t, UpdateSound
<1>10. ASSUME UNCHANGED vars PROVE Goal
  BY <1>10 DEF vars, IInv, AllSound, HeightsOrderSettlements, Receipted, LastReceipt
<1> HIDE DEF Goal
<1>11. Goal
  BY <1>1, <1>2, <1>3, <1>4, <1>5, <1>6, <1>7, <1>8, <1>9, <1>10
     DEF Next, Tick, Commit, Call, SellerCall, Withdraw
<1> QED BY <1>t, <1>11 DEF IInv, Goal

(* The inductive invariant holds in every reachable state of the engine.   *)
THEOREM IInvCorrect == Spec => []IInv
<1>1. Init => IInv
  <2> SUFFICES ASSUME Init PROVE IInv
    OBVIOUS
  <2>1. TypeOK
    BY EngineAssumption DEF Init, TypeOK
  <2>2. DOMAIN escrows = {}
    BY DEF Init
  <2> QED BY <2>1, <2>2 DEF IInv, AllSound, Receipted, HeightsOrderSettlements
<1> QED BY <1>1, IInvStep, PTL DEF Spec

(* An order is paid out at most once, and a settled order that was         *)
(* delivered is paid out: seller_claim, seller_refund, timed_release and   *)
(* buyer_withdraw never both answer Ok(amount) for it.                     *)
THEOREM PaidOnceCorrect == Spec => []PaidOnce
<1>1. IInv => PaidOnce
  BY DEF IInv, AllSound, Sound, PaidSound, PaidOnce
<1> QED BY <1>1, IInvCorrect, PTL

(* The terminal state, the settlement instant and the settlement txids of  *)
(* an escrow agree on one outcome.                                         *)
THEOREM OneOutcomeCorrect == Spec => []OneOutcome
<1>1. IInv => OneOutcome
  BY DEF IInv, AllSound, Sound, OutcomeSound, OneOutcome
<1> QED BY <1>1, IInvCorrect, PTL

(* buyer_withdraw succeeds only after the seller missed a deadline. *)
THEOREM WithdrawCorrect == Spec => []WithdrawOnlyAfterMissedDeadline
<1>1. IInv => WithdrawOnlyAfterMissedDeadline
  BY DEF IInv, AllSound, Sound, WithdrawSound, WithdrawOnlyAfterMissedDeadline
<1> QED BY <1>1, IInvCorrect, PTL

(* timed_release claims only under a profile that allows it and a claim    *)
(* window after the recorded delivery.                                     *)
THEOREM AutoClaimCorrect == Spec => []AutoClaimWaitsForWindow
<1>1. IInv => AutoClaimWaitsForWindow
  BY DEF IInv, AllSound, Sound, AutoClaimSound, AutoClaimWaitsForWindow
<1> QED BY <1>1, IInvCorrect, PTL

(* The block heights recorded at settlement follow the settlement clock. *)
THEOREM HeightsCorrect == Spec => []HeightsOrderSettlements
<1>1. IInv => HeightsOrderSettlements
  BY DEF IInv
<1> QED BY <1>1, IInvCorrect, PTL

-----------------------------------------------------------------------------
(* Every deadline that the order has so far is over, and the claim window  *)
(* of its last delivery.                                                   *)
WindowsOver(e) ==
    /\ current_mono > e.acceptance_deadline_mono
    /\ e.fulfillment_deadline_mono # None => current_mono > e.fulfillment_deadline_mono
    /\ e.fulfillment_mono # None => Elapsed(e) >= e.profile.claim_window_secs

(* What the buyer (buyer_withdraw) finds of an order it may take back, what *)
(* update_state finds of one to expire, what timed_release finds of one it *)
(* settles with a receipt.                                                 *)
CanWithdraw(e) ==
    \/ e.state = "BuyerCommitted" /\ current_mono > e.acceptance_deadline_mono
    \/ e.state = "FulfillmentExpired"
CanExpire(e) ==
    /\ e.state = "SellerAccepted"
    /\ e.fulfillment_deadline_mono # None
    /\ current_mono > e.fulfillment_deadline_mono
CanRelease(e) ==
    /\ e.profile.allows_timed_release
    /\ CanSettle(e.state)
    /\ Elapsed(e) >= e.profile.claim_window_secs
    /\ LastReceipt(e.order_id) # {}

(* No order is stuck: once its windows are over, an order that is not      *)
(* settled can be withdrawn or expired (and then withdrawn), or was        *)
(* delivered on time, and then timed_release pays the seller, with a       *)
(* receipt, or the profile leaves it to the seller alone.                  *)
OpenOrdersCanEnd == \A i \in DOMAIN escrows : LET e == escrows[i] IN
    ~ is_terminal(e.state) /\ WindowsOver(e) =>
        \/ CanWithdraw(e)
        \/ CanExpire(e)
        \/ e.state = "SellerFulfilled" /\ ~ e.profile.allows_timed_release
        \/ e.state = "SellerFulfilled" /\ CanRelease(e)

(* The safety part of EveryOrderSettles, which has fairness for the rest:  *)
(* whatever was called before, no open order is in a state from which the  *)
(* engine refuses every way out.  (A call for an id reaches the first      *)
(* order that has it; past the wrap of the ids that may be another one.)   *)
THEOREM OpenOrdersCanEndCorrect == Spec => []OpenOrdersCanEnd
<1>1. IInv => OpenOrdersCanEnd
  <2> SUFFICES ASSUME IInv, NEW i \in DOMAIN escrows, ~ is_terminal(escrows[i].state),
                      WindowsOver(escrows[i]),
                      ~ CanWithdraw(escrows[i]), ~ CanExpire(escrows[i])
               PROVE  /\ escrows[i].state = "SellerFulfilled"
                      /\ escrows[i].profile.allows_timed_release => CanRelease(escrows[i])
    BY DEF OpenOrdersCanEnd
  <2> DEFINE e == escrows[i]
  <2>1. e \in Escrow /\ Stage(e, current_mono)
    BY DEF IInv, TypeOK, AllSound, Sound
  <2>2. e.state \in EscrowState /\ ~ is_terminal(e.state)
    BY <2>1 DEF Escrow
  <2>3. e.state # "BuyerCommitted" /\ e.state # "FulfillmentExpired"
    BY DEF CanWithdraw, WindowsOver
  <2>4. e.state # "SellerAccepted"
    <3> SUFFICES ASSUME e.state = "SellerAccepted" PROVE FALSE
      OBVIOUS
    <3>1. e.seller_accept_mono # None
      BY <2>1 DEF Stage
    <3>2. e.fulfillment_deadline_mono # None
      BY <2>1, <3>1 DEF Stage
    <3> QED BY <3>2 DEF CanExpire, WindowsOver
  <2>5. e.state = "SellerFulfilled"
    BY <2>2, <2>3, <2>4 DEF EscrowState, is_terminal
  <2>6. e.fulfillment_mono # None /\ LastReceipt(e.order_id) # {}
    BY <2>1, <2>5 DEF Stage, IInv, Receipted
  <2> QED BY <2>5, <2>6 DEF CanRelease, CanSettle, WindowsOver
<1> QED BY <1>1, IInvCorrect, PTL
==============================================================================
