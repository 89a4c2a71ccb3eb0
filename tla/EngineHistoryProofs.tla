------------------------- MODULE EngineHistoryProofs -------------------------
(***************************************************************************)
(* What the settlement engine remembers: that its receipts tell what       *)
(* happened to the orders, that settled orders and accepted terms are      *)
(* final, that the view of the engine through the types of the TxIP layer  *)
(* (EngineView) agrees with it, and that the engine implements             *)
(* SettlementPromise.  Builds on IInv of CoreProverEngineProofs; the       *)
(* strengthening is HInv below.                                            *)
(***************************************************************************)
EXTENDS EngineView, CoreProverEngineProofs

(***************************************************************************)
(* The second inductive invariant: what the clock, the ids, the escrows    *)
(* and the receipts remember of each other.  TraceSound(e, now) is what    *)
(* one escrow keeps of its own history.                                    *)
(***************************************************************************)
ClocksInStep == current_unix = GenesisUnix + current_mono

(* Ids are handed out by a counter that never skips a number. *)
IdsCounted ==
    /\ next_session_counter = Len(escrows) + 1
    /\ \A i \in DOMAIN escrows : escrows[i].order_id = i % IdSpace

TraceSound(e, now) ==
    /\ e.buyer_commit_txid # Blank
    /\ e.acceptance_deadline_mono = e.buyer_commit_mono + e.profile.acceptance_window_secs
    /\ e.seller_accept_mono # None =>
            /\ e.seller_accept_txid # None /\ e.seller_accept_txid # Blank
            /\ e.buyer_commit_mono <= e.seller_accept_mono
            /\ e.seller_accept_mono <= e.acceptance_deadline_mono
            /\ e.fulfillment_deadline_mono =
                    e.seller_accept_mono + e.profile.fulfillment_window_secs
    /\ e.buyer_commit_mono <= now

AllTraced == \A i \in DOMAIN escrows : TraceSound(escrows[i], current_mono)

(* Every receipt r of the order e records a delivery of e; *)
StubSound(r, e) ==
    /\ e.fulfillment_mono # None
    /\ r.fulfillment_unix = GenesisUnix + r.fulfillment_mono
    /\ r.late_fulfilled <=> r.fulfillment_mono > e.fulfillment_deadline_mono
    /\ r.discount_pct = LateDiscount(e, r.late_fulfilled)
    /\ r.discount_pct > 0 => r.discount_expiration_unix >= r.fulfillment_unix
    /\ r.buyer_commit_txid = e.buyer_commit_txid
    /\ r.seller_accept_txid = e.seller_accept_txid
    /\ r.seller_fulfill_txid # Blank

(* an earlier receipt stays the stub it was created as; *)
Unsettled(r) ==
    /\ r.seller_claim_txid = None /\ r.seller_refund_txid = None
    /\ r.settlement_unix = 0 /\ r.seller_block_height = 0

(* the last one follows the escrow, and is a stub until the seller settles. *)
LastSound(r, e) ==
    /\ r.fulfillment_mono = e.fulfillment_mono
    /\ r.seller_fulfill_txid = e.seller_fulfill_txid
    /\ r.seller_claim_txid = e.seller_claim_txid
    /\ r.seller_refund_txid = e.seller_refund_txid
    /\ \/ Unsettled(r)
       \/ /\ r.seller_block_height = e.seller_block_height
          /\ r.settlement_mono = e.settlement_mono
          /\ r.settlement_unix = GenesisUnix + e.settlement_mono
          /\ r.fulfillment_mono <= r.settlement_mono

Linked(k) == \E i \in get_escrow(receipts[k].session_id) :
    /\ StubSound(receipts[k], escrows[i])
    /\ IF k \in LastReceipt(receipts[k].session_id)
       THEN LastSound(receipts[k], escrows[i])
       ELSE Unsettled(receipts[k])

AllLinked == \A k \in DOMAIN receipts : Linked(k)

HInv == IInv /\ ClocksInStep /\ IdsCounted /\ AllTraced /\ AllLinked

(* The action properties as relations between two states. *)
TermsKept(e, f) ==
    /\ f.acceptance_deadline_mono = e.acceptance_deadline_mono
    /\ e.seller_accept_mono # None =>
        /\ f.seller_accept_mono = e.seller_accept_mono
        /\ f.fulfillment_deadline_mono = e.fulfillment_deadline_mono
    /\ e.fulfillment_mono # None /\ e.state # "FulfillmentExpired" =>
        /\ f.fulfillment_mono = e.fulfillment_mono
        /\ f.seller_fulfill_txid = e.seller_fulfill_txid

OrdersKept == \A i \in DOMAIN escrows :
    /\ is_terminal(escrows[i].state) => escrows'[i] = escrows[i]
    /\ TermsKept(escrows[i], escrows'[i])

ReceiptsKept == \A k \in DOMAIN receipts :
    /\ k \in DOMAIN receipts'
    /\ (receipts[k].seller_claim_txid # None
         \/ receipts[k].seller_refund_txid # None) => receipts'[k] = receipts[k]

Follows ==
    /\ ClocksInStep' /\ IdsCounted' /\ AllTraced' /\ AllLinked'
    /\ OrdersKept /\ ReceiptsKept

-----------------------------------------------------------------------------
(* get_escrow finds at most one order. *)
LEMMA FirstUnique ==
    ASSUME TypeOK, NEW id, NEW i \in get_escrow(id), NEW j \in get_escrow(id)
    PROVE  i = j
BY DEF get_escrow, TypeOK

(* The receipts of a session belong to the order get_escrow finds for it.  *)
LEMMA ReceiptsOfOrder ==
    ASSUME HInv, NEW id, NEW i \in get_escrow(id),
           NEW k \in DOMAIN receipts, receipts[k].session_id = id
    PROVE  /\ StubSound(receipts[k], escrows[i])
           /\ k \in LastReceipt(id) => LastSound(receipts[k], escrows[i])
           /\ k \notin LastReceipt(id) => Unsettled(receipts[k])
<1>1. Linked(k) /\ TypeOK
  BY DEF HInv, IInv, AllLinked
<1> QED BY <1>1, FirstUnique DEF Linked

(* An order that is not settled: its receipts are stubs, and it has no     *)
(* outcome yet.                                                            *)
LEMMA OpenOrder ==
    ASSUME HInv, NEW i \in DOMAIN escrows, ~ is_terminal(escrows[i].state)
    PROVE  /\ escrows[i] \in Escrow
           /\ escrows[i].settlement_mono = None
           /\ escrows[i].seller_block_height = None
           /\ escrows[i].seller_claim_txid = None
           /\ escrows[i].seller_refund_txid = None
           /\ Stage(escrows[i], current_mono)
           /\ TraceSound(escrows[i], current_mono)
           /\ current_mono \in Nat
           /\ \A r \in ReceiptMetadata : LastSound(r, escrows[i]) => Unsettled(r)
<1>1. Sound(escrows[i], 0, current_mono, current_block_height) /\ escrows[i] \in Escrow
  BY OpenUnpaid DEF HInv
<1>2. /\ escrows[i].settlement_mono = None
      /\ escrows[i].seller_block_height = None
      /\ escrows[i].seller_claim_txid = None
      /\ escrows[i].seller_refund_txid = None
      /\ Stage(escrows[i], current_mono)
  BY <1>1 DEF Sound, OutcomeSound, is_terminal
<1>3. TraceSound(escrows[i], current_mono) /\ current_mono \in Nat
  BY DEF HInv, AllTraced, IInv, TypeOK
<1>4. \A r \in ReceiptMetadata : r.seller_block_height # None
  BY TxidAssumption DEF ReceiptMetadata
<1> QED BY <1>1, <1>2, <1>3, <1>4 DEF LastSound

(* One order rewritten: ids, clocks and the other orders stay as they are. *)
LEMMA OrderReplaced ==
    ASSUME HInv, NEW id, NEW i \in get_escrow(id), NEW f \in Escrow,
           escrows' = [escrows EXCEPT ![i] = f], f.order_id = id,
           UNCHANGED <<next_session_counter, clock>>,
           TraceSound(f, current_mono),
           ~ is_terminal(escrows[i].state), TermsKept(escrows[i], f)
    PROVE  /\ ClocksInStep' /\ IdsCounted' /\ AllTraced' /\ OrdersKept
           /\ \A s : get_escrow(s)' = get_escrow(s)
<1>1. /\ i \in DOMAIN escrows /\ escrows[i].order_id = id
      /\ escrows \in Seq(Escrow)
  BY DEF get_escrow, HInv, IInv, TypeOK
<1>2. /\ DOMAIN escrows' = DOMAIN escrows /\ Len(escrows') = Len(escrows)
      /\ escrows'[i] = f
      /\ \A j \in DOMAIN escrows : j # i => escrows'[j] = escrows[j]
      /\ \A j \in DOMAIN escrows : escrows'[j].order_id = escrows[j].order_id
  BY <1>1
<1>3. ClocksInStep' /\ IdsCounted' /\ AllTraced'
  BY <1>2 DEF HInv, ClocksInStep, IdsCounted, AllTraced, clock
<1>4. ASSUME NEW s PROVE get_escrow(s)' = get_escrow(s)
  BY <1>2 DEF get_escrow
<1>5. ASSUME NEW j \in DOMAIN escrows
      PROVE  /\ is_terminal(escrows[j].state) => escrows'[j] = escrows[j]
             /\ TermsKept(escrows[j], escrows'[j])
  BY <1>2 DEF TermsKept
<1> QED BY <1>3, <1>4, <1>5 DEF OrdersKept

(* ... and so are the receipts of the other orders.                        *)
LEMMA LinksKept ==
    ASSUME HInv, NEW id, NEW i \in get_escrow(id), NEW f,
           escrows' = [escrows EXCEPT ![i] = f],
           \A s : get_escrow(s)' = get_escrow(s),
           \A k \in DOMAIN receipts : receipts[k].session_id # id =>
                k \in DOMAIN receipts' /\ receipts'[k] = receipts[k],
           \A k \in DOMAIN receipts' : receipts'[k].session_id # id =>
                k \in DOMAIN receipts /\ receipts'[k] = receipts[k],
           \A k \in DOMAIN receipts' : receipts'[k].session_id = id =>
                /\ StubSound(receipts'[k], f)
                /\ k \in LastReceipt(id)' => LastSound(receipts'[k], f)
                /\ k \notin LastReceipt(id)' => Unsettled(receipts'[k])
    PROVE  AllLinked'
<1>1. /\ i \in DOMAIN escrows /\ escrows[i].order_id = id
      /\ escrows \in Seq(Escrow)
  BY DEF get_escrow, HInv, IInv, TypeOK
<1>2. escrows'[i] = f /\ \A j \in DOMAIN escrows : j # i => escrows'[j] = escrows[j]
  BY <1>1
<1> SUFFICES ASSUME NEW k \in DOMAIN receipts' PROVE Linked(k)'
  BY DEF AllLinked
<1>3. CASE receipts'[k].session_id = id
  BY <1>2, <1>3 DEF Linked
<1>4. CASE receipts'[k].session_id # id
  <2>1. k \in DOMAIN receipts /\ receipts'[k] = receipts[k] /\ Linked(k)
    BY <1>4 DEF HInv, AllLinked
  <2>2. ASSUME NEW s, s # id PROVE LastReceipt(s)' = LastReceipt(s)
    BY <2>2 DEF LastReceipt
  <2>3. PICK j \in get_escrow(receipts[k].session_id) :
            /\ StubSound(receipts[k], escrows[j])
            /\ IF k \in LastReceipt(receipts[k].session_id)
               THEN LastSound(receipts[k], escrows[j])
               ELSE Unsettled(receipts[k])
    BY <2>1 DEF Linked
  <2>4. j \in DOMAIN escrows /\ j # i
    BY <1>1, <1>4, <2>1, <2>3 DEF get_escrow
  <2>5. ASSUME NEW s, s = receipts[k].session_id
        PROVE j \in get_escrow(s)' /\ LastReceipt(s)' = LastReceipt(s)
    BY <1>4, <2>1, <2>2, <2>3, <2>5
  <2> QED BY <1>2, <2>1, <2>3, <2>4, <2>5 DEF Linked
<1> QED BY <1>3, <1>4

(* A change of an order that is still open which its receipts do not see.  *)
LEMMA LinksUntouched ==
    ASSUME HInv, NEW id, NEW i \in get_escrow(id), NEW f,
           escrows' = [escrows EXCEPT ![i] = f], UNCHANGED receipts,
           \A s : get_escrow(s)' = get_escrow(s),
           ~ is_terminal(escrows[i].state),
           \A r \in ReceiptMetadata :
                /\ StubSound(r, escrows[i]) => StubSound(r, f)
                /\ StubSound(r, escrows[i]) /\ LastSound(r, escrows[i]) => LastSound(r, f)
    PROVE  AllLinked' /\ ReceiptsKept
<1>1. \A s : LastReceipt(s)' = LastReceipt(s)
  BY DEF LastReceipt
<1>2. ASSUME NEW k \in DOMAIN receipts', receipts'[k].session_id = id
      PROVE  /\ StubSound(receipts'[k], f)
             /\ k \in LastReceipt(id)' => LastSound(receipts'[k], f)
             /\ k \notin LastReceipt(id)' => Unsettled(receipts'[k])
  <2>1. receipts[k] \in ReceiptMetadata
    BY DEF HInv, IInv, TypeOK
  <2>2. /\ StubSound(receipts[k], escrows[i])
        /\ k \in LastReceipt(id) => LastSound(receipts[k], escrows[i])
        /\ k \notin LastReceipt(id) => Unsettled(receipts[k])
    BY <1>2, ReceiptsOfOrder
  <2> QED BY <1>1, <2>1, <2>2
<1>3. AllLinked'
  BY <1>2, LinksKept
<1> QED BY <1>3 DEF ReceiptsKept

(* advance_time changes no order and no receipt. *)
LEMMA TickFollows ==
    ASSUME HInv, NEW secs \in Steps, advance_time(secs)
    PROVE  Follows
<1>1. secs \in Nat
  BY EngineAssumption
<1>2. /\ escrows' = escrows /\ receipts' = receipts
      /\ next_session_counter' = next_session_counter
      /\ current_mono' = current_mono + secs /\ current_unix' = current_unix + secs
      /\ current_mono \in Nat /\ current_unix \in Nat /\ GenesisUnix \in Nat
      /\ escrows \in Seq(Escrow)
  BY EngineAssumption DEF advance_time, HInv, IInv, TypeOK
<1>3. ClocksInStep' /\ IdsCounted'
  BY <1>1, <1>2 DEF HInv, ClocksInStep, IdsCounted
<1>4. AllTraced'
  <2> SUFFICES ASSUME NEW j \in DOMAIN escrows
               PROVE  TraceSound(escrows[j], current_mono')
    BY <1>2 DEF AllTraced
  <2>1. TraceSound(escrows[j], current_mono) /\ escrows[j] \in Escrow
    BY <1>2 DEF HInv, AllTraced
  <2>2. escrows[j].buyer_commit_mono \in Nat
    BY <2>1 DEF Escrow
  <2> QED BY <1>1, <1>2, <2>1, <2>2 DEF TraceSound
<1>5. AllLinked'
  BY <1>2 DEF HInv, AllLinked, Linked, get_escrow, LastReceipt
<1>6. OrdersKept /\ ReceiptsKept
  BY <1>2 DEF OrdersKept, TermsKept, ReceiptsKept
<1> QED BY <1>3, <1>4, <1>5, <1>6 DEF Follows

(* buyer_commit: the new order comes last, so every id that was in use     *)
(* still finds the order it found before.                                  *)
LEMMA CommitFollows ==
    ASSUME HInv, NEW profile \in Profiles, NEW txid \in Txids,
           buyer_commit(profile, txid)
    PROVE  Follows
<1> DEFINE n == NewEscrow(generate_order_id, profile, txid)
<1>1. /\ escrows' = Append(escrows, n)
      /\ receipts' = receipts /\ UNCHANGED clock
      /\ next_session_counter' = next_session_counter + 1
      /\ escrows \in Seq(Escrow) /\ current_mono \in Nat
      /\ txid # Blank
  BY DEF buyer_commit, HInv, IInv, TypeOK
<1>2. /\ n.order_id = next_session_counter % IdSpace
      /\ TraceSound(n, current_mono)
  <2>1. profile.acceptance_window_secs \in Nat
    BY ProfileAssumption DEF PaymentProfile
  <2> QED BY <1>1, <2>1 DEF NewEscrow, TraceSound, generate_order_id
<1> HIDE DEF n
<1>3. /\ DOMAIN escrows' = DOMAIN escrows \cup {Len(escrows) + 1}
      /\ Len(escrows') = Len(escrows) + 1
      /\ escrows'[Len(escrows) + 1] = n
      /\ \A j \in DOMAIN escrows : escrows'[j] = escrows[j]
      /\ \A j \in DOMAIN escrows : j \in Int /\ j <= Len(escrows)
      /\ Len(escrows) \in Nat
  BY <1>1
<1>4. ClocksInStep'
  BY <1>1 DEF HInv, ClocksInStep, clock
<1>5. IdsCounted'
  BY <1>1, <1>2, <1>3 DEF HInv, IdsCounted
<1>6. AllTraced'
  BY <1>1, <1>2, <1>3 DEF HInv, AllTraced, clock
<1>7. ASSUME NEW s, NEW j \in get_escrow(s) PROVE j \in get_escrow(s)'
  BY <1>3 DEF get_escrow
<1>8. \A s : LastReceipt(s)' = LastReceipt(s)
  BY <1>1 DEF LastReceipt
<1>9. AllLinked'
  <2> SUFFICES ASSUME NEW k \in DOMAIN receipts PROVE Linked(k)'
    BY <1>1 DEF AllLinked
  <2>1. PICK j \in get_escrow(receipts[k].session_id) :
            /\ StubSound(receipts[k], escrows[j])
            /\ IF k \in LastReceipt(receipts[k].session_id)
               THEN LastSound(receipts[k], escrows[j])
               ELSE Unsettled(receipts[k])
    BY DEF HInv, AllLinked, Linked
  <2>2. escrows'[j] = escrows[j] /\ receipts'[k] = receipts[k]
    BY <1>1, <1>3 DEF get_escrow
  <2>3. ASSUME NEW s, s = receipts[k].session_id
        PROVE  j \in get_escrow(s)' /\ LastReceipt(s)' = LastReceipt(s)
    BY <1>7, <1>8, <2>3
  <2> QED BY <2>1, <2>2, <2>3 DEF Linked
<1>10. OrdersKept /\ ReceiptsKept
  BY <1>1, <1>3 DEF OrdersKept, TermsKept, ReceiptsKept
<1> QED BY <1>4, <1>5, <1>6, <1>9, <1>10 DEF Follows

(* seller_accept fixes the terms of an order nobody has accepted.          *)
LEMMA AcceptFollows ==
    ASSUME HInv, TypeOK', NEW id, NEW txid \in Txids, seller_accept(id, txid)
    PROVE  Follows
<1>1. PICK i \in get_escrow(id) : seller_accept(id, txid)!(i)
  BY DEF seller_accept
<1> DEFINE e == escrows[i]
           f == escrows'[i]
<1>2. i \in DOMAIN escrows /\ e.order_id = id /\ ~ is_terminal(e.state)
  BY <1>1 DEF get_escrow, is_terminal
<1>3. e \in Escrow /\ Stage(e, current_mono) /\ TraceSound(e, current_mono) /\ current_mono \in Nat
  BY <1>2, OpenOrder
<1>4. /\ f.seller_accept_mono = current_mono /\ f.seller_accept_txid = txid
      /\ f.order_id = e.order_id /\ f.buyer_commit_txid = e.buyer_commit_txid
      /\ f.buyer_commit_mono = e.buyer_commit_mono /\ f.profile = e.profile
      /\ f.acceptance_deadline_mono = e.acceptance_deadline_mono
      /\ f.fulfillment_deadline_mono = current_mono + e.profile.fulfillment_window_secs
      /\ txid # Blank /\ e.state = "BuyerCommitted"
      /\ current_mono <= e.acceptance_deadline_mono
  BY <1>1, <1>2, <1>3 DEF Escrow, HInv, IInv, TypeOK
<1>5. /\ escrows' = [escrows EXCEPT ![i] = f] /\ f \in Escrow
      /\ UNCHANGED <<receipts, next_session_counter, clock>>
  BY <1>1, <1>2 DEF HInv, IInv, TypeOK
<1> HIDE DEF f
<1>6. txid # None
  BY TxidAssumption DEF ClaimTxids
<1>7. e.seller_accept_mono = None /\ e.fulfillment_mono = None
  BY <1>3, <1>4 DEF Stage
<1>8. TraceSound(f, current_mono)
  BY <1>3, <1>4, <1>6 DEF TraceSound
<1>9. TermsKept(e, f)
  BY <1>4, <1>7 DEF TermsKept
<1>10. /\ ClocksInStep' /\ IdsCounted' /\ AllTraced' /\ OrdersKept
       /\ \A s : get_escrow(s)' = get_escrow(s)
  BY <1>2, <1>4, <1>5, <1>8, <1>9, OrderReplaced
<1>11. \A r \in ReceiptMetadata : ~ StubSound(r, e)
  BY <1>7 DEF StubSound
<1>12. AllLinked' /\ ReceiptsKept
  BY <1>2, <1>5, <1>10, <1>11, LinksUntouched
<1> QED BY <1>10, <1>12 DEF Follows

(* update_state touches nothing but the state. *)
LEMMA UpdateFollows ==
    ASSUME HInv, TypeOK', NEW id, update_state(id)
    PROVE  Follows
<1>1. PICK i \in get_escrow(id) : update_state(id)!(i)
  BY DEF update_state
<1> DEFINE e == escrows[i]
           f == escrows'[i]
<1>2. i \in DOMAIN escrows /\ e.order_id = id /\ ~ is_terminal(e.state)
  BY <1>1 DEF get_escrow, is_terminal
<1>3. e \in Escrow /\ Stage(e, current_mono) /\ TraceSound(e, current_mono)
  BY <1>2, OpenOrder
<1>4. /\ f.order_id = e.order_id /\ f.buyer_commit_txid = e.buyer_commit_txid
      /\ f.buyer_commit_mono = e.buyer_commit_mono /\ f.profile = e.profile
      /\ f.acceptance_deadline_mono = e.acceptance_deadline_mono
      /\ f.seller_accept_mono = e.seller_accept_mono
      /\ f.seller_accept_txid = e.seller_accept_txid
      /\ f.fulfillment_deadline_mono = e.fulfillment_deadline_mono
      /\ f.fulfillment_mono = e.fulfillment_mono
      /\ e.state = "SellerAccepted"
  BY <1>1, <1>2, <1>3 DEF Escrow, HInv, IInv, TypeOK
<1>5. /\ escrows' = [escrows EXCEPT ![i] = f] /\ f \in Escrow
      /\ UNCHANGED <<receipts, next_session_counter, clock>>
  BY <1>1, <1>2 DEF HInv, IInv, TypeOK
<1> HIDE DEF f
<1>6. e.fulfillment_mono = None
  BY <1>3, <1>4 DEF Stage
<1>7. TraceSound(f, current_mono) /\ TermsKept(e, f)
  BY <1>3, <1>4, <1>6 DEF TraceSound, TermsKept
<1>8. /\ ClocksInStep' /\ IdsCounted' /\ AllTraced' /\ OrdersKept
      /\ \A s : get_escrow(s)' = get_escrow(s)
  BY <1>2, <1>4, <1>5, <1>7, OrderReplaced
<1>9. \A r \in ReceiptMetadata : ~ StubSound(r, e)
  BY <1>6 DEF StubSound
<1>10. AllLinked' /\ ReceiptsKept
  BY <1>2, <1>5, <1>8, <1>9, LinksUntouched
<1> QED BY <1>8, <1>10 DEF Follows

(* buyer_withdraw settles the order without a receipt: the stubs of its    *)
(* late deliveries stay stubs.                                             *)
LEMMA WithdrawFollows ==
    ASSUME HInv, TypeOK', NEW id, NEW txid \in Opt(Txids), buyer_withdraw(id, txid)
    PROVE  Follows
<1>1. PICK i \in get_escrow(id) : buyer_withdraw(id, txid)!(i)
  BY DEF buyer_withdraw
<1> DEFINE e == escrows[i]
           f == escrows'[i]
<1>2. i \in DOMAIN escrows /\ e.order_id = id /\ ~ is_terminal(e.state)
  BY <1>1 DEF get_escrow, is_terminal
<1>3. /\ e \in Escrow /\ TraceSound(e, current_mono)
      /\ \A r \in ReceiptMetadata : LastSound(r, e) => Unsettled(r)
  BY <1>2, OpenOrder
<1>4. /\ f.order_id = e.order_id /\ f.buyer_commit_txid = e.buyer_commit_txid
      /\ f.buyer_commit_mono = e.buyer_commit_mono /\ f.profile = e.profile
      /\ f.acceptance_deadline_mono = e.acceptance_deadline_mono
      /\ f.seller_accept_mono = e.seller_accept_mono
      /\ f.seller_accept_txid = e.seller_accept_txid
      /\ f.fulfillment_deadline_mono = e.fulfillment_deadline_mono
      /\ f.fulfillment_mono = e.fulfillment_mono
      /\ f.seller_fulfill_txid = e.seller_fulfill_txid
      /\ f.seller_claim_txid = e.seller_claim_txid
      /\ f.seller_refund_txid = e.seller_refund_txid
  BY <1>1, <1>2, <1>3 DEF Escrow, HInv, IInv, TypeOK
<1>5. /\ escrows' = [escrows EXCEPT ![i] = f] /\ f \in Escrow
      /\ UNCHANGED <<receipts, next_session_counter, clock>>
  BY <1>1, <1>2 DEF HInv, IInv, TypeOK
<1> HIDE DEF f
<1>6. TraceSound(f, current_mono) /\ TermsKept(e, f)
  BY <1>3, <1>4 DEF TraceSound, TermsKept
<1>7. /\ ClocksInStep' /\ IdsCounted' /\ AllTraced' /\ OrdersKept
      /\ \A s : get_escrow(s)' = get_escrow(s)
  BY <1>2, <1>4, <1>5, <1>6, OrderReplaced
<1>8. \A r \in ReceiptMetadata :
            /\ StubSound(r, e) => StubSound(r, f)
            /\ LastSound(r, e) => LastSound(r, f)
  BY <1>3, <1>4 DEF StubSound, LastSound, LateDiscount
<1>9. AllLinked' /\ ReceiptsKept
  BY <1>2, <1>5, <1>7, <1>8, LinksUntouched
<1> QED BY <1>7, <1>9 DEF Follows

(* seller_fulfill pushes a stub, which becomes the last of its session; an *)
(* earlier one, from a late delivery, is a stub already.                   *)
LEMMA FulfillFollows ==
    ASSUME HInv, TypeOK', NEW id, NEW txid \in Txids, seller_fulfill(id, txid)
    PROVE  Follows
<1>1. PICK i \in get_escrow(id) : seller_fulfill(id, txid)!(i)
  BY DEF seller_fulfill
<1> DEFINE e == escrows[i]
           f == escrows'[i]
           n == ReceiptStub(f, IsLate(e))
<1>2. i \in DOMAIN escrows /\ e.order_id = id /\ ~ is_terminal(e.state)
  BY <1>1 DEF get_escrow, is_terminal, can_fulfill
<1>3. /\ e \in Escrow /\ TraceSound(e, current_mono) /\ Stage(e, current_mono)
      /\ \A r \in ReceiptMetadata : LastSound(r, e) => Unsettled(r)
      /\ e.seller_claim_txid = None /\ e.seller_refund_txid = None
      /\ current_mono \in Nat
  BY <1>2, OpenOrder
<1>4. /\ f.order_id = e.order_id /\ f.buyer_commit_txid = e.buyer_commit_txid
      /\ f.buyer_commit_mono = e.buyer_commit_mono /\ f.profile = e.profile
      /\ f.acceptance_deadline_mono = e.acceptance_deadline_mono
      /\ f.seller_accept_mono = e.seller_accept_mono
      /\ f.seller_accept_txid = e.seller_accept_txid
      /\ f.fulfillment_deadline_mono = e.fulfillment_deadline_mono
      /\ f.fulfillment_mono = current_mono
      /\ f.seller_fulfill_txid = txid
      /\ f.seller_claim_txid = e.seller_claim_txid
      /\ f.seller_refund_txid = e.seller_refund_txid
      /\ e.state \in {"SellerAccepted", "FulfillmentExpired"}
      /\ txid # Blank
  BY <1>1, <1>2, <1>3 DEF Escrow, HInv, IInv, TypeOK, can_fulfill
<1>5. /\ escrows' = [escrows EXCEPT ![i] = f] /\ f \in Escrow
      /\ receipts' = Append(receipts, n)
      /\ UNCHANGED <<next_session_counter, clock>>
      /\ receipts \in Seq(ReceiptMetadata)
  BY <1>1, <1>2 DEF HInv, IInv, TypeOK
<1>6. None \notin Nat /\ None \notin Txids
  BY TxidAssumption DEF ClaimTxids
<1>7. /\ e.seller_accept_mono # None /\ e.fulfillment_deadline_mono # None
      /\ e.state = "SellerAccepted" => e.fulfillment_mono = None
  BY <1>3, <1>4 DEF Stage
<1>8. StubSound(n, f) /\ LastSound(n, f) /\ n.session_id = id
  <2>1. /\ n.fulfillment_mono = current_mono /\ n.fulfillment_unix = current_unix
        /\ n.late_fulfilled = IsLate(e)
        /\ n.discount_pct = LateDiscount(f, IsLate(e))
        /\ n.discount_expiration_unix =
                IF LateDiscount(f, IsLate(e)) > 0
                THEN current_unix + f.profile.discount_expiration_days * 86400 ELSE 0
        /\ n.buyer_commit_txid = e.buyer_commit_txid
        /\ n.seller_accept_txid = OrBlank(e.seller_accept_txid)
        /\ n.seller_fulfill_txid = OrBlank(txid)
        /\ n.seller_claim_txid = None /\ n.seller_refund_txid = None
        /\ n.settlement_unix = 0 /\ n.seller_block_height = 0
        /\ n.session_id = id
    BY <1>2, <1>4 DEF ReceiptStub
  <2>2. f.profile.discount_expiration_days * 86400 \in Nat
    <3>1. e.profile \in PaymentProfile
      BY <1>3 DEF Escrow
    <3>2. f.profile.discount_expiration_days \in Nat
      BY <1>4, <3>1 DEF PaymentProfile
    <3> QED BY <3>2
  <2>3. current_unix = GenesisUnix + current_mono /\ current_unix \in Nat
    BY DEF HInv, ClocksInStep, IInv, TypeOK
  <2>4. n.seller_accept_txid = f.seller_accept_txid /\ n.seller_fulfill_txid = txid
    BY <1>3, <1>4, <1>6, <1>7, <2>1 DEF TraceSound, OrBlank
  <2>5. IsLate(e) <=> current_mono > f.fulfillment_deadline_mono
    BY <1>4, <1>7 DEF IsLate
  <2> HIDE DEF f, n
  <2>6. LastSound(n, f)
    BY <1>3, <1>4, <2>1, <2>4 DEF LastSound, Unsettled
  <2>7. n.discount_pct > 0 => n.discount_expiration_unix >= n.fulfillment_unix
    BY <2>1, <2>2, <2>3
  <2>8. n.late_fulfilled <=> n.fulfillment_mono > f.fulfillment_deadline_mono
    BY <2>1, <2>5
  <2>9. f.fulfillment_mono # None
    BY <1>3, <1>4, <1>6
  <2> QED BY <1>4, <2>1, <2>3, <2>4, <2>6, <2>7, <2>8, <2>9 DEF StubSound
<1> HIDE DEF f, n
<1>9. TraceSound(f, current_mono) /\ TermsKept(e, f)
  BY <1>3, <1>4, <1>7 DEF TraceSound, TermsKept
<1>10. /\ ClocksInStep' /\ IdsCounted' /\ AllTraced' /\ OrdersKept
       /\ \A s : get_escrow(s)' = get_escrow(s)
  BY <1>2, <1>4, <1>5, <1>9, OrderReplaced
<1>11. /\ DOMAIN receipts' = DOMAIN receipts \cup {Len(receipts) + 1}
       /\ receipts'[Len(receipts) + 1] = n
       /\ \A k \in DOMAIN receipts : receipts'[k] = receipts[k]
       /\ \A k \in DOMAIN receipts : k \in Int /\ k <= Len(receipts)
       /\ Len(receipts) \in Nat
  BY <1>5
<1>12. LastReceipt(id)' = {Len(receipts) + 1}
  BY <1>8, <1>11 DEF LastReceipt
<1>13. ASSUME NEW k \in DOMAIN receipts', receipts'[k].session_id = id
       PROVE  /\ StubSound(receipts'[k], f)
              /\ k \in LastReceipt(id)' => LastSound(receipts'[k], f)
              /\ k \notin LastReceipt(id)' => Unsettled(receipts'[k])
  <2>1. CASE k = Len(receipts) + 1
    BY <1>8, <1>11, <1>12, <2>1
  <2>2. CASE k \in DOMAIN receipts
    <3>1. receipts'[k] = receipts[k] /\ receipts[k] \in ReceiptMetadata
      BY <1>5, <1>11, <2>2
    <3>2. /\ StubSound(receipts[k], e)
          /\ k \in LastReceipt(id) => LastSound(receipts[k], e)
          /\ k \notin LastReceipt(id) => Unsettled(receipts[k])
      BY <1>13, <2>2, <3>1, ReceiptsOfOrder
    <3>3. StubSound(receipts[k], f)
      BY <1>3, <1>4, <1>6, <3>2 DEF StubSound, LateDiscount
    <3>4. Unsettled(receipts[k])
      BY <1>3, <3>1, <3>2
    <3>5. k \notin LastReceipt(id)'
      BY <1>11, <1>12, <2>2
    <3> QED BY <3>1, <3>3, <3>4, <3>5
  <2> QED BY <1>11, <2>1, <2>2
<1>14. \A k \in DOMAIN receipts : receipts[k].session_id # id =>
            k \in DOMAIN receipts' /\ receipts'[k] = receipts[k]
  BY <1>11
<1>15. \A k \in DOMAIN receipts' : receipts'[k].session_id # id =>
            k \in DOMAIN receipts /\ receipts'[k] = receipts[k]
  BY <1>8, <1>11
<1>16. AllLinked'
  BY <1>5, <1>10, <1>13, <1>14, <1>15, LinksKept
<1>17. ReceiptsKept
  BY <1>11 DEF ReceiptsKept
<1> QED BY <1>10, <1>16, <1>17 DEF Follows

(* The seller's settlement writes the outcome into the last receipt of the *)
(* order and into no other; an order without one was never delivered.      *)
LEMMA SettleFollows ==
    ASSUME HInv, NEW id, NEW i \in get_escrow(id), NEW f \in Escrow,
           NEW refunded \in BOOLEAN, Settle(i, f, refunded),
           CanSettle(escrows[i].state), f.order_id = id,
           f.buyer_commit_txid = escrows[i].buyer_commit_txid,
           f.buyer_commit_mono = escrows[i].buyer_commit_mono,
           f.profile = escrows[i].profile,
           f.acceptance_deadline_mono = escrows[i].acceptance_deadline_mono,
           f.seller_accept_mono = escrows[i].seller_accept_mono,
           f.seller_accept_txid = escrows[i].seller_accept_txid,
           f.fulfillment_deadline_mono = escrows[i].fulfillment_deadline_mono,
           f.fulfillment_mono = escrows[i].fulfillment_mono,
           f.seller_fulfill_txid = escrows[i].seller_fulfill_txid,
           f.settlement_mono = current_mono,
           f.seller_block_height = current_block_height,
           refunded => f.seller_claim_txid = escrows[i].seller_claim_txid,
           ~ refunded => f.seller_refund_txid = escrows[i].seller_refund_txid
    PROVE  Follows
<1> DEFINE e == escrows[i]
<1>1. i \in DOMAIN escrows /\ e.order_id = id /\ ~ is_terminal(e.state)
  BY DEF get_escrow, CanSettle, is_terminal
<1>2. /\ e \in Escrow /\ TraceSound(e, current_mono) /\ Stage(e, current_mono)
      /\ \A r \in ReceiptMetadata : LastSound(r, e) => Unsettled(r)
      /\ e.seller_claim_txid = None /\ e.seller_refund_txid = None
      /\ current_mono \in Nat
  BY <1>1, OpenOrder
<1>3. TraceSound(f, current_mono) /\ TermsKept(e, f)
  BY <1>2 DEF TraceSound, TermsKept
<1>4. /\ escrows' = [escrows EXCEPT ![i] = f]
      /\ UNCHANGED <<next_session_counter, clock>>
      /\ receipts \in Seq(ReceiptMetadata)
  BY DEF Settle, HInv, IInv, TypeOK
<1>5. /\ ClocksInStep' /\ IdsCounted' /\ AllTraced' /\ OrdersKept
      /\ \A s : get_escrow(s)' = get_escrow(s)
  BY <1>1, <1>3, <1>4, OrderReplaced
<1>6. None \notin Nat
  BY TxidAssumption
<1>7. ASSUME NEW r, StubSound(r, e) PROVE StubSound(r, f)
  BY <1>7 DEF StubSound, LateDiscount
<1>8. CASE LastReceipt(id) = {} /\ UNCHANGED receipts
  <2>1. e.fulfillment_mono = None
    BY <1>1, <1>8 DEF HInv, IInv, Receipted
  <2>2. \A r \in ReceiptMetadata : ~ StubSound(r, e)
    BY <2>1 DEF StubSound
  <2>3. AllLinked' /\ ReceiptsKept
    BY <1>1, <1>4, <1>5, <1>8, <2>2, LinksUntouched
  <2> QED BY <1>5, <2>3 DEF Follows
<1>9. ASSUME NEW k \in LastReceipt(id),
             receipts' = [receipts EXCEPT ![k] = finalize_receipt(receipts[k], f, refunded)]
      PROVE  Follows
  <2> DEFINE r == receipts[k]
             n == finalize_receipt(r, f, refunded)
  <2>1. k \in DOMAIN receipts /\ r \in ReceiptMetadata /\ r.session_id = id
    BY <1>4 DEF LastReceipt
  <2>2. StubSound(r, e) /\ LastSound(r, e)
    BY <2>1, ReceiptsOfOrder
  <2>3. Unsettled(r)
    BY <1>2, <2>1, <2>2
  <2>4. /\ n.session_id = r.session_id /\ n.fulfillment_mono = r.fulfillment_mono
        /\ n.fulfillment_unix = r.fulfillment_unix
        /\ n.late_fulfilled = r.late_fulfilled /\ n.discount_pct = r.discount_pct
        /\ n.discount_expiration_unix = r.discount_expiration_unix
        /\ n.buyer_commit_txid = r.buyer_commit_txid
        /\ n.seller_accept_txid = r.seller_accept_txid
        /\ n.seller_fulfill_txid = r.seller_fulfill_txid
        /\ n.settlement_mono = OrElse(f.settlement_mono, current_mono)
        /\ n.settlement_unix = current_unix
        /\ n.seller_block_height = OrElse(f.seller_block_height, 0)
        /\ n.seller_claim_txid = IF refunded THEN r.seller_claim_txid ELSE f.seller_claim_txid
        /\ n.seller_refund_txid = IF refunded THEN f.seller_refund_txid ELSE r.seller_refund_txid
    BY <2>1 DEF finalize_receipt, ReceiptMetadata
  <2>5. /\ DOMAIN receipts' = DOMAIN receipts /\ receipts'[k] = n
        /\ \A l \in DOMAIN receipts : l # k => receipts'[l] = receipts[l]
    BY <1>4, <1>9, <2>1
  <2> HIDE DEF n
  <2>6. LastSound(n, f)
    <3>1. /\ n.settlement_mono = f.settlement_mono
          /\ n.seller_block_height = f.seller_block_height
      BY <1>6, <2>4 DEF OrElse, HInv, IInv, TypeOK
    <3>2. n.settlement_unix = GenesisUnix + f.settlement_mono
      BY <2>4 DEF HInv, ClocksInStep
    <3>3. n.fulfillment_mono = f.fulfillment_mono /\ n.fulfillment_mono <= n.settlement_mono
      BY <1>2, <2>2, <2>4, <3>1 DEF LastSound, StubSound, Stage
    <3>4. /\ n.seller_fulfill_txid = f.seller_fulfill_txid
          /\ n.seller_claim_txid = f.seller_claim_txid
          /\ n.seller_refund_txid = f.seller_refund_txid
      BY <1>2, <2>2, <2>4 DEF LastSound
    <3> QED BY <3>1, <3>2, <3>3, <3>4 DEF LastSound
  <2>7. StubSound(n, f)
    <3>1. StubSound(r, f)
      BY <1>7, <2>2
    <3> QED BY <2>4, <3>1 DEF StubSound
  <2>8. \A l \in DOMAIN receipts : receipts'[l].session_id = receipts[l].session_id
    BY <2>4, <2>5
  <2>9. \A s : LastReceipt(s)' = LastReceipt(s)
    BY <2>5, <2>8 DEF LastReceipt
  <2>10. ASSUME NEW l \in DOMAIN receipts', receipts'[l].session_id = id
         PROVE  /\ StubSound(receipts'[l], f)
                /\ l \in LastReceipt(id)' => LastSound(receipts'[l], f)
                /\ l \notin LastReceipt(id)' => Unsettled(receipts'[l])
    <3>1. CASE l = k
      BY <2>5, <2>6, <2>7, <2>9, <3>1
    <3>2. CASE l # k
      <4>1. l \in DOMAIN receipts /\ receipts'[l] = receipts[l]
        BY <2>5, <3>2
      <4>2. /\ StubSound(receipts[l], e)
            /\ l \notin LastReceipt(id) => Unsettled(receipts[l])
        BY <2>10, <4>1, ReceiptsOfOrder
      <4>3. l \notin LastReceipt(id)
        BY <1>4, <2>1, <2>10, <3>2, <4>1 DEF LastReceipt
      <4> QED BY <1>7, <2>9, <4>1, <4>2, <4>3
    <3> QED BY <3>1, <3>2
  <2>11. /\ \A l \in DOMAIN receipts : receipts[l].session_id # id =>
                l \in DOMAIN receipts' /\ receipts'[l] = receipts[l]
         /\ \A l \in DOMAIN receipts' : receipts'[l].session_id # id =>
                l \in DOMAIN receipts /\ receipts'[l] = receipts[l]
    BY <2>1, <2>5, <2>8
  <2>12. AllLinked'
    BY <1>4, <1>5, <2>10, <2>11, LinksKept
  <2>13. ReceiptsKept
    BY <2>3, <2>5 DEF ReceiptsKept, Unsettled
  <2> QED BY <1>5, <2>12, <2>13 DEF Follows
<1> QED BY <1>8, <1>9 DEF Settle

(* seller_claim and timed_release ... *)
LEMMA ClaimFollows ==
    ASSUME HInv, NEW id, NEW i \in get_escrow(id), NEW txid \in ClaimTxids,
           CanSettle(escrows[i].state),
           Settle(i, Claimed(escrows[i], txid), FALSE)
    PROVE  Follows
<1> DEFINE e == escrows[i]
           f == Claimed(e, txid)
<1>1. e \in Escrow /\ e.order_id = id /\ TypeOK
  BY DEF get_escrow, HInv, IInv, TypeOK
<1>2. f \in Escrow
  BY <1>1, ClaimedType
<1>3. /\ f.order_id = e.order_id
      /\ f.buyer_commit_txid = e.buyer_commit_txid
      /\ f.buyer_commit_mono = e.buyer_commit_mono /\ f.profile = e.profile
      /\ f.acceptance_deadline_mono = e.acceptance_deadline_mono
      /\ f.seller_accept_mono = e.seller_accept_mono
      /\ f.seller_accept_txid = e.seller_accept_txid
      /\ f.fulfillment_deadline_mono = e.fulfillment_deadline_mono
      /\ f.fulfillment_mono = e.fulfillment_mono
      /\ f.seller_fulfill_txid = e.seller_fulfill_txid
      /\ f.settlement_mono = current_mono
      /\ f.seller_block_height = current_block_height
      /\ f.seller_refund_txid = e.seller_refund_txid
  BY <1>1 DEF Claimed, Escrow
<1>4. Settle(i, f, FALSE) /\ FALSE \in BOOLEAN
  OBVIOUS
<1> HIDE DEF f
<1> QED BY <1>1, <1>2, <1>3, <1>4, SettleFollows

(* ... and seller_refund end in it. *)
LEMMA RefundFollows ==
    ASSUME HInv, NEW id, NEW txid \in Txids, seller_refund(id, txid)
    PROVE  Follows
<1>1. PICK i \in get_escrow(id) : seller_refund(id, txid)!(i)
  BY DEF seller_refund
<1> DEFINE e == escrows[i]
           f == [e EXCEPT !.seller_refund_txid = txid,
                          !.settlement_mono = current_mono,
                          !.seller_block_height = current_block_height,
                          !.state = "SellerRefunded"]
<1>2. /\ e \in Escrow /\ e.order_id = id
      /\ current_mono \in Nat /\ current_block_height \in Nat
  BY DEF get_escrow, HInv, IInv, TypeOK
<1>3. /\ f.order_id = e.order_id
      /\ f.buyer_commit_txid = e.buyer_commit_txid
      /\ f.buyer_commit_mono = e.buyer_commit_mono /\ f.profile = e.profile
      /\ f.acceptance_deadline_mono = e.acceptance_deadline_mono
      /\ f.seller_accept_mono = e.seller_accept_mono
      /\ f.seller_accept_txid = e.seller_accept_txid
      /\ f.fulfillment_deadline_mono = e.fulfillment_deadline_mono
      /\ f.fulfillment_mono = e.fulfillment_mono
      /\ f.seller_fulfill_txid = e.seller_fulfill_txid
      /\ f.settlement_mono = current_mono
      /\ f.seller_block_height = current_block_height
      /\ f.seller_claim_txid = e.seller_claim_txid
  BY <1>2 DEF Escrow
<1>4. f \in Escrow
  <2>1. /\ current_mono \in Opt(Nat) /\ current_block_height \in Opt(Nat)
        /\ txid \in Opt(Txids) /\ "SellerRefunded" \in EscrowState
    BY <1>2 DEF Opt, EscrowState
  <2> QED BY <1>2, <2>1 DEF Escrow
<1>5. Settle(i, f, TRUE) /\ TRUE \in BOOLEAN /\ CanSettle(e.state)
  BY <1>1
<1> HIDE DEF f
<1> QED BY <1>2, <1>3, <1>4, <1>5, SettleFollows

-----------------------------------------------------------------------------
(* Every step of the engine preserves the history and rewrites nothing     *)
(* that is final.                                                          *)
THEOREM HistoryStep == HInv /\ [Next]_vars => HInv' /\ Follows
<1> SUFFICES ASSUME HInv, [Next]_vars PROVE HInv' /\ Follows
  OBVIOUS
<1>t. IInv /\ TypeOK /\ TypeOK' /\ IInv'
  BY TypeStep, IInvStep DEF HInv, IInv
<1>1. ASSUME NEW secs \in Steps, advance_time(secs) PROVE Follows
  BY <1>1, TickFollows
<1>2. ASSUME NEW profile \in Profiles, NEW txid \in Txids,
             buyer_commit(profile, txid)
      PROVE  Follows
  BY <1>2, CommitFollows
<1>3. ASSUME NEW id \in OrderIds, NEW txid \in Txids, seller_accept(id, txid)
      PROVE  Follows
  BY <1>3, <1>t, AcceptFollows
<1>4. ASSUME NEW id \in OrderIds, NEW txid \in Txids, seller_fulfill(id, txid)
      PROVE  Follows
  BY <1>4, <1>t, FulfillFollows
<1>5. ASSUME NEW id \in OrderIds, NEW txid \in Txids, seller_claim(id, txid)
      PROVE  Follows
  <2>1. PICK i \in get_escrow(id) : seller_claim(id, txid)!(i)
    BY <1>5 DEF seller_claim
  <2>2. txid \in ClaimTxids
    BY DEF ClaimTxids
  <2> QED BY <2>1, <2>2, ClaimFollows
<1>6. ASSUME NEW id \in OrderIds, NEW txid \in Txids, seller_refund(id, txid)
      PROVE  Follows
  BY <1>6, RefundFollows
<1>7. ASSUME NEW id \in OrderIds, NEW txid \in Opt(Txids), buyer_withdraw(id, txid)
      PROVE  Follows
  BY <1>7, <1>t, WithdrawFollows
<1>8. ASSUME NEW id \in OrderIds, timed_release(id) PROVE Follows
  <2>1. PICK i \in get_escrow(id) : timed_release(id)!(i)
    BY <1>8 DEF timed_release
  <2>2. AutoClaim(current_mono) \in ClaimTxids
    BY <1>t DEF AutoClaim, ClaimTxids, TypeOK
  <2> QED BY <2>1, <2>2, ClaimFollows
<1>9. ASSUME NEW id \in OrderIds, update_state(id) PROVE Follows
  BY <1>9, <1>t, UpdateFollows
<1>10. ASSUME UNCHANGED vars PROVE Follows
  <2>1. ClocksInStep' /\ IdsCounted' /\ AllTraced'
    BY <1>10 DEF vars, HInv, ClocksInStep, IdsCounted, AllTraced
  <2>2. AllLinked'
    BY <1>10 DEF vars, HInv, AllLinked, Linked, get_escrow, LastReceipt
  <2>3. OrdersKept /\ ReceiptsKept
    BY <1>10 DEF vars, OrdersKept, TermsKept, ReceiptsKept
  <2> QED BY <2>1, <2>2, <2>3 DEF Follows
<1>11. Follows
  BY <1>1, <1>2, <1>3, <1>4, <1>5, <1>6, <1>7, <1>8, <1>9, <1>10
     DEF Next, Tick, Commit, Call, SellerCall, Withdraw
<1> QED BY <1>t, <1>11 DEF HInv, Follows

(* The history invariant holds in every reachable state of the engine.     *)
THEOREM HistoryCorrect == Spec => []HInv
<1>1. Init => HInv
  <2> SUFFICES ASSUME Init PROVE HInv
    OBVIOUS
  <2>1. TypeOK
    BY EngineAssumption DEF Init, TypeOK
  <2>2. DOMAIN escrows = {} /\ DOMAIN receipts = {} /\ Len(escrows) = 0
    BY DEF Init
  <2>3. IInv
    BY <2>1, <2>2 DEF IInv, AllSound, Receipted, HeightsOrderSettlements
  <2>4. ClocksInStep /\ IdsCounted
    BY <2>2, EngineAssumption DEF Init, ClocksInStep, IdsCounted
  <2> QED BY <2>2, <2>3, <2>4 DEF HInv, AllTraced, AllLinked
<1> QED BY <1>1, HistoryStep, PTL DEF Spec

(* No method rewrites a terminal escrow or a receipt that carries a claim  *)
(* or a refund, and none removes a receipt.                                *)
THEOREM SettledFinalCorrect == Spec => SettledIsFinal
<1>1. HInv /\ [Next]_vars =>
        [/\ \A i \in DOMAIN escrows :
                is_terminal(escrows[i].state) => escrows'[i] = escrows[i]
         /\ \A k \in DOMAIN receipts :
            /\ k \in DOMAIN receipts'
            /\ (receipts[k].seller_claim_txid # None
                 \/ receipts[k].seller_refund_txid # None) => receipts'[k] = receipts[k]]_vars
  BY HistoryStep DEF Follows, OrdersKept, ReceiptsKept
<1> QED BY <1>1, HistoryCorrect, PTL DEF Spec, SettledIsFinal

(* The deadlines of an order are fixed when it is committed and accepted,  *)
(* and an on-time delivery is recorded once.                               *)
THEOREM TermsKeptCorrect == Spec => TermsAreKept
<1>1. HInv /\ [Next]_vars =>
        [\A i \in DOMAIN escrows :
            LET e == escrows[i] IN
            /\ escrows'[i].acceptance_deadline_mono = e.acceptance_deadline_mono
            /\ e.seller_accept_mono # None =>
                /\ escrows'[i].seller_accept_mono = e.seller_accept_mono
                /\ escrows'[i].fulfillment_deadline_mono = e.fulfillment_deadline_mono
            /\ e.fulfillment_mono # None /\ e.state # "FulfillmentExpired" =>
                /\ escrows'[i].fulfillment_mono = e.fulfillment_mono
                /\ escrows'[i].seller_fulfill_txid = e.seller_fulfill_txid]_vars
  BY HistoryStep DEF Follows, OrdersKept, TermsKept
<1> QED BY <1>1, HistoryCorrect, PTL DEF Spec, TermsAreKept

(* The receipt finalize_receipt fills in and the escrow tell the same, and *)
(* the receipts of earlier, late deliveries never carry an outcome.        *)
THEOREM ReceiptMatchesCorrect == Spec => []ReceiptMatchesEscrow
<1>1. ASSUME HInv, NEW i \in DOMAIN escrows, NEW id,
             id = escrows[i].order_id, i \in get_escrow(id)
      PROVE  escrows[i].fulfillment_mono # None <=> LastReceipt(id) # {}
  <2>1. escrows[i].fulfillment_mono # None => LastReceipt(id) # {}
    BY <1>1 DEF HInv, IInv, Receipted
  <2>2. ASSUME NEW k \in LastReceipt(id) PROVE escrows[i].fulfillment_mono # None
    BY <1>1, ReceiptsOfOrder DEF LastReceipt, StubSound
  <2> QED BY <2>1, <2>2
<1>2. ASSUME HInv, NEW i \in DOMAIN escrows, NEW id,
             id = escrows[i].order_id, i \in get_escrow(id),
             NEW k \in DOMAIN receipts, receipts[k].session_id = id
      PROVE  LET r == receipts[k]
                 e == escrows[i] IN
             IF k \in LastReceipt(id)
             THEN /\ r.fulfillment_mono = e.fulfillment_mono
                  /\ r.seller_fulfill_txid = e.seller_fulfill_txid
                  /\ r.seller_accept_txid = e.seller_accept_txid
                  /\ r.seller_claim_txid = e.seller_claim_txid
                  /\ r.seller_refund_txid = e.seller_refund_txid
                  /\ r.seller_block_height > 0 =>
                         /\ r.seller_block_height = e.seller_block_height
                         /\ r.settlement_mono = e.settlement_mono
                         /\ r.settlement_unix = GenesisUnix + e.settlement_mono
             ELSE r.seller_claim_txid = None /\ r.seller_refund_txid = None
  BY <1>2, ReceiptsOfOrder DEF StubSound, LastSound, Unsettled
<1>3. HInv => ReceiptMatchesEscrow
  BY <1>1, <1>2 DEF ReceiptMatchesEscrow
<1> QED BY <1>3, HistoryCorrect, PTL

(* A receipt is late exactly when its own delivery came after the deadline *)
(* of its order, and discounted exactly when the profile then says so.     *)
THEOREM LateReceiptsCorrect == Spec => []LateReceiptsAreLate
<1>1. HInv => LateReceiptsAreLate
  <2> SUFFICES ASSUME HInv, NEW k \in DOMAIN receipts
               PROVE  \E i \in get_escrow(receipts[k].session_id) :
                        /\ escrows[i].seller_accept_mono # None
                        /\ receipts[k].late_fulfilled <=>
                             receipts[k].fulfillment_mono > escrows[i].fulfillment_deadline_mono
                        /\ receipts[k].discount_pct > 0 <=>
                             /\ receipts[k].late_fulfilled
                             /\ escrows[i].profile.enables_late_discount
                             /\ escrows[i].profile.late_discount_pct > 0
                        /\ receipts[k].discount_pct > 0 =>
                             receipts[k].discount_expiration_unix
                                >= GenesisUnix + receipts[k].fulfillment_mono
    BY DEF LateReceiptsAreLate
  <2>1. PICK i \in get_escrow(receipts[k].session_id) : StubSound(receipts[k], escrows[i])
    BY DEF HInv, AllLinked, Linked
  <2>2. escrows[i].seller_accept_mono # None
    <3>1. Stage(escrows[i], current_mono)
      BY DEF get_escrow, HInv, IInv, AllSound, Sound
    <3> QED BY <2>1, <3>1 DEF Stage, StubSound
  <2>3. receipts[k].late_fulfilled \in BOOLEAN
    <3>1. receipts[k] \in ReceiptMetadata
      BY DEF HInv, IInv, TypeOK
    <3> QED BY <3>1 DEF ReceiptMetadata
  <2> QED BY <2>1, <2>2, <2>3 DEF StubSound, LateDiscount
<1> QED BY <1>1, HistoryCorrect, PTL

(* Ids are remainders of a counter: two of the first IdSpace differ.       *)
LEMMA RemaindersDiffer ==
    ASSUME NEW n \in Nat \ {0}, NEW i \in 1..n, NEW j \in 1..n, i % n = j % n
    PROVE  i = j
<1>1. ASSUME NEW m \in 1..n PROVE m % n = IF m = n THEN 0 ELSE m
  OBVIOUS
<1>2. (i % n = IF i = n THEN 0 ELSE i) /\ (j % n = IF j = n THEN 0 ELSE j)
  BY <1>1
<1> QED BY <1>2

(* generate_order_id repeats no id among the first IdSpace orders.         *)
THEOREM IdsUniqueCorrect == Spec => []IdsUniqueUntilWrap
<1>1. HInv => IdsUniqueUntilWrap
  <2> SUFFICES ASSUME HInv, Len(escrows) <= IdSpace,
                      NEW i \in DOMAIN escrows, NEW j \in DOMAIN escrows,
                      escrows[i].order_id = escrows[j].order_id
               PROVE  i = j
    BY DEF IdsUniqueUntilWrap
  <2>1. i % IdSpace = j % IdSpace
    BY DEF HInv, IdsCounted
  <2>2. i \in 1..IdSpace /\ j \in 1..IdSpace /\ IdSpace \in Nat \ {0}
    BY EngineAssumption DEF HInv, IInv, TypeOK
  <2> QED BY <2>1, <2>2, RemaindersDiffer
<1> QED BY <1>1, HistoryCorrect, PTL

-----------------------------------------------------------------------------
(* The TxIP layer's view of the engine.                                    *)

(* The deadlines of an order, told on the monotonic and on the Unix clock, *)
(* as timestamps and as windows, never disagree about an order.            *)
THEOREM DeadlinesCorrect == Spec => []DeadlinesAgree
<1>1. HInv => DeadlinesAgree
  <2> SUFFICES ASSUME HInv, NEW i \in DOMAIN escrows
               PROVE  DeadlinesAgree!(i)
    BY DEF DeadlinesAgree
  <2> DEFINE e == escrows[i]
             acceptance == At(e.acceptance_deadline_mono)
             window == Tx!TimeWindow(At(e.buyer_commit_mono), acceptance)
             fulfillment == At(e.fulfillment_deadline_mono)
  <2>1. /\ e \in Escrow /\ TraceSound(e, current_mono)
        /\ Stage(e, current_mono) /\ WithdrawSound(e) /\ OutcomeSound(e)
        /\ current_mono \in Nat /\ current_unix = GenesisUnix + current_mono
        /\ GenesisUnix \in Nat
    BY EngineAssumption
       DEF HInv, IInv, TypeOK, AllSound, Sound, AllTraced, ClocksInStep
  <2>2. /\ e.acceptance_deadline_mono \in Nat /\ e.buyer_commit_mono \in Nat
        /\ e.seller_accept_mono \in Opt(Nat) /\ e.settlement_mono \in Opt(Nat)
        /\ e.fulfillment_deadline_mono \in Opt(Nat)
        /\ e.profile.acceptance_window_secs \in Nat
    <3>1. e.profile \in PaymentProfile
      BY <2>1 DEF Escrow
    <3> QED BY <2>1, <3>1 DEF Escrow, PaymentProfile
  <2>3. /\ acceptance.mono = e.acceptance_deadline_mono
        /\ acceptance.unix = GenesisUnix + e.acceptance_deadline_mono
        /\ fulfillment.unix = GenesisUnix + e.fulfillment_deadline_mono
        /\ window.start.mono = e.buyer_commit_mono
        /\ window.end.mono = e.acceptance_deadline_mono
    BY DEF At, Tx!TripleTimestamp, Tx!TimeWindow
  <2> HIDE DEF acceptance, window, fulfillment
  <2>4. Tx!duration_seconds(window) = e.profile.acceptance_window_secs
    BY <2>1, <2>2, <2>3 DEF TraceSound, Tx!duration_seconds
  <2>5. /\ Tx!has_passed(acceptance, current_mono) <=> Tx!has_passed_unix(acceptance, current_unix)
        /\ Tx!has_passed(acceptance, current_mono) <=> Tx!seconds_remaining(acceptance, current_mono) < 0
        /\ Tx!is_active(window, current_mono)
            <=> Tx!has_started(window, current_mono) /\ ~ Tx!has_ended(window, current_mono)
    BY <2>1, <2>2, <2>3 DEF Tx!has_passed, Tx!has_passed_unix, Tx!seconds_remaining,
                            Tx!is_active, Tx!has_started, Tx!has_ended
  <2>6. e.seller_accept_mono # None => Tx!is_active(window, e.seller_accept_mono)
    BY <2>1, <2>2, <2>3 DEF TraceSound, Opt, Tx!is_active
  <2>7. e.state = "BuyerWithdrawn" /\ e.seller_accept_mono = None =>
            Tx!has_ended(window, e.settlement_mono)
    BY <2>1, <2>2, <2>3 DEF WithdrawSound, Tx!has_ended
  <2>8. e.state = "FulfillmentExpired" => Tx!has_passed_unix(fulfillment, current_unix)
    <3> SUFFICES ASSUME e.state = "FulfillmentExpired"
                 PROVE  current_unix > GenesisUnix + e.fulfillment_deadline_mono
      BY <2>3 DEF Tx!has_passed_unix
    <3>1. e.fulfillment_deadline_mono \in Nat /\ current_mono > e.fulfillment_deadline_mono
      BY <2>1, <2>2 DEF Stage, Opt
    <3> QED BY <2>1, <3>1
  <2>9. ASSUME NEW id, id = e.order_id, i \in get_escrow(id),
               NEW k \in DOMAIN receipts, receipts[k].session_id = id
        PROVE  receipts[k].late_fulfilled
                    <=> Tx!has_passed_unix(fulfillment, receipts[k].fulfillment_unix)
    <3>1. StubSound(receipts[k], e) /\ receipts[k] \in ReceiptMetadata
      BY <2>9, ReceiptsOfOrder DEF HInv, IInv, TypeOK
    <3>2. receipts[k].fulfillment_mono \in Nat
      BY <3>1 DEF ReceiptMetadata
    <3>3. e.fulfillment_deadline_mono \in Nat
      BY <2>1, <2>2, <3>1 DEF Stage, StubSound, Opt
    <3> QED BY <2>1, <2>3, <3>1, <3>2, <3>3 DEF StubSound, Tx!has_passed_unix
  <2> QED BY <2>4, <2>5, <2>6, <2>7, <2>8, <2>9 DEF acceptance, window, fulfillment
<1> QED BY <1>1, HistoryCorrect, PTL

(* The CoreProverReceipt and the seller's ids carry the entry's fields.    *)
LEMMA ViewOfReceipt ==
    ASSUME NEW r \in ReceiptMetadata
    PROVE  /\ ReceiptOf(r).session_id = "order" /\ ReceiptOf(r).order_amount = OrderAmount
           /\ ReceiptOf(r).buyer_commit_txid = TextOf(r.buyer_commit_txid)
           /\ ReceiptOf(r).seller_accept_txid = TextOf(r.seller_accept_txid)
           /\ ReceiptOf(r).seller_fulfill_txid = TextOf(r.seller_fulfill_txid)
           /\ ReceiptOf(r).seller_claim_txid = r.seller_claim_txid
           /\ ReceiptOf(r).seller_refund_txid = r.seller_refund_txid
           /\ ReceiptOf(r).fulfillment.mono = r.fulfillment_mono
           /\ ReceiptOf(r).settlement.iso =
                    IF r.settlement_unix = 0 THEN NoIso ELSE Iso(r.settlement_unix)
           /\ Seller(r).accept_txid = TextOf(r.seller_accept_txid)
           /\ Seller(r).fulfill_txid = TextOf(r.seller_fulfill_txid)
           /\ Seller(r).claim_txid = r.seller_claim_txid
           /\ Seller(r).refund_txid = r.seller_refund_txid
           /\ Buyer(r).commit_txid = TextOf(r.buyer_commit_txid)
<1>1. /\ Seller(r).accept_txid = TextOf(r.seller_accept_txid)
      /\ Seller(r).fulfill_txid = TextOf(r.seller_fulfill_txid)
      /\ Seller(r).claim_txid = r.seller_claim_txid
      /\ Seller(r).refund_txid = r.seller_refund_txid
  BY DEF Seller, Tx!SellerTxIds, Tx!with_claim, Tx!with_refund
<1>2. Buyer(r).commit_txid = TextOf(r.buyer_commit_txid)
  BY DEF Buyer, Tx!BuyerTxIds
<1> DEFINE settlement == Tx!TripleTimestamp(r.settlement_mono, r.settlement_unix,
                          IF r.settlement_unix = 0 THEN NoIso ELSE Iso(r.settlement_unix))
           fulfillment == Tx!TripleTimestamp(r.fulfillment_mono, r.fulfillment_unix, Iso(r.fulfillment_unix))
           n == Tx!CoreProverReceipt("order", OrderAmount, fulfillment, settlement, r.discount_pct,
                 r.discount_expiration_unix, ChainId, TextOf(r.buyer_commit_txid), r.seller_chain_id,
                 TextOf(r.seller_accept_txid), TextOf(r.seller_fulfill_txid), r.seller_block_height)
           c == IF r.seller_claim_txid = None THEN n ELSE Tx!with_seller_claim(n, r.seller_claim_txid)
<1>3. /\ settlement.iso = IF r.settlement_unix = 0 THEN NoIso ELSE Iso(r.settlement_unix)
      /\ fulfillment.mono = r.fulfillment_mono
  BY DEF Tx!TripleTimestamp
<1> HIDE DEF settlement, fulfillment
<1>4. /\ c.session_id = "order" /\ c.order_amount = OrderAmount
      /\ c.buyer_commit_txid = TextOf(r.buyer_commit_txid)
      /\ c.seller_accept_txid = TextOf(r.seller_accept_txid)
      /\ c.seller_fulfill_txid = TextOf(r.seller_fulfill_txid)
      /\ c.seller_claim_txid = r.seller_claim_txid
      /\ c.seller_refund_txid = None
      /\ c.fulfillment = fulfillment /\ c.settlement = settlement
      /\ "seller_refund_txid" \in DOMAIN c
      /\ c = [f \in DOMAIN c |-> c[f]]
  BY DEF Tx!CoreProverReceipt, Tx!with_seller_claim
<1>5. ReceiptOf(r) = IF r.seller_refund_txid = None THEN c
                     ELSE Tx!with_seller_refund(c, r.seller_refund_txid)
  BY DEF ReceiptOf, settlement, fulfillment
<1> HIDE DEF c
<1> QED BY <1>1, <1>2, <1>3, <1>4, <1>5 DEF Tx!with_seller_refund

(* An entry of the engine's receipts passes the TxIP validations exactly   *)
(* when it is the last of an order the seller settled (and, for the        *)
(* validate of the receipt, the order is not one over nothing).            *)
THEOREM ReceiptsValidateCorrect == Spec => []ReceiptsValidate
<1>1. HInv => ReceiptsValidate
  <2> SUFFICES ASSUME HInv, NEW k \in DOMAIN receipts,
                      NEW i \in get_escrow(receipts[k].session_id)
               PROVE  ReceiptsValidate!(k)!(i)
    BY DEF ReceiptsValidate
  <2> DEFINE r == receipts[k]
             e == escrows[i]
             receipt == ReceiptOf(r)
             last == \A l \in DOMAIN receipts : receipts[l].session_id = r.session_id => l <= k
             settled == e.state \in {"SellerClaimed", "SellerRefunded"} /\ last
  <2>1. /\ r \in ReceiptMetadata /\ e \in Escrow /\ GenesisUnix \in Nat
        /\ StubSound(r, e) /\ TraceSound(e, current_mono)
        /\ Stage(e, current_mono) /\ OutcomeSound(e)
    BY ReceiptsOfOrder, EngineAssumption
       DEF get_escrow, HInv, IInv, TypeOK, AllSound, Sound, AllTraced
  <2>2. /\ last => LastSound(r, e)
        /\ ~ last => Unsettled(r)
    BY ReceiptsOfOrder DEF LastReceipt
  <2>3. /\ r.settlement_unix \in Nat /\ r.seller_block_height \in Nat
        /\ r.fulfillment_mono \in Nat /\ r.settlement_mono \in Nat
        /\ r.buyer_commit_txid \in Txids \ {Blank}
        /\ r.seller_accept_txid \in Txids \ {Blank}
        /\ r.seller_fulfill_txid \in Txids \ {Blank}
    BY <2>1 DEF ReceiptMetadata, StubSound, TraceSound, Stage
  <2>4. None \notin Nat
    BY TxidAssumption
  <2> HIDE DEF last
  <2>5. /\ r.seller_claim_txid # None <=> settled /\ e.state = "SellerClaimed"
        /\ r.seller_refund_txid # None <=> settled /\ e.state = "SellerRefunded"
    BY <2>1, <2>2 DEF LastSound, Unsettled, OutcomeSound
  <2>6. /\ settled => /\ r.settlement_unix = GenesisUnix + r.settlement_mono
                      /\ r.fulfillment_mono <= r.settlement_mono
        /\ ~ settled => r.settlement_unix = 0
    BY <2>1, <2>2, <2>3, <2>4, <2>5 DEF LastSound, Unsettled, OutcomeSound
  <2> HIDE DEF settled
  <2>7. r.settlement_unix # 0 <=> settled
    <3>1. GenesisUnix > 0
      BY ViewAssumption
    <3> QED BY <2>1, <2>3, <2>6, <3>1
  <2>8. \A t \in Txids \ {Blank} : ~ Tx!is_empty(TextOf(t))
    BY ViewAssumption DEF TextOf, Tx!is_empty
  <2>9. Tx!validate(receipt) <=> settled /\ OrderAmount > 0
    <3>1. OrderAmount # 0 <=> OrderAmount > 0
      <4>1. OrderAmount \in Nat
        BY ViewAssumption
      <4> QED BY <4>1
    <3> DEFINE some == OrderAmount > 0
    <3> HIDE DEF some
    <3>2. Tx!validate(receipt) <=> settled /\ some
      <4>1. OrderAmount # 0 <=> some
        BY <3>1 DEF some
      <4>2. /\ ~ Tx!is_empty(receipt.session_id)
            /\ receipt.order_amount = OrderAmount
            /\ \A txid \in {receipt.buyer_commit_txid, receipt.seller_accept_txid,
                          receipt.seller_fulfill_txid} : ~ Tx!is_empty(txid)
        <5>1. \A t \in {r.buyer_commit_txid, r.seller_accept_txid, r.seller_fulfill_txid} :
                    ~ Tx!is_empty(TextOf(t))
          BY <2>3, <2>8
        <5>2. /\ receipt.session_id = "order" /\ receipt.order_amount = OrderAmount
              /\ receipt.buyer_commit_txid = TextOf(r.buyer_commit_txid)
              /\ receipt.seller_accept_txid = TextOf(r.seller_accept_txid)
              /\ receipt.seller_fulfill_txid = TextOf(r.seller_fulfill_txid)
          BY <2>1, ViewOfReceipt
        <5>3. ~ Tx!is_empty("order")
          BY DEF Tx!is_empty
        <5> HIDE DEF receipt
        <5> QED BY <5>1, <5>2, <5>3
      <4>3. (receipt.seller_claim_txid # None) # (receipt.seller_refund_txid # None) <=> settled
        <5>1. /\ receipt.seller_claim_txid # None <=> settled /\ e.state = "SellerClaimed"
              /\ receipt.seller_refund_txid # None <=> settled /\ e.state = "SellerRefunded"
          BY <2>1, <2>5, ViewOfReceipt
        <5>2. settled => e.state \in {"SellerClaimed", "SellerRefunded"}
          BY DEF settled
        <5> HIDE DEF receipt, e
        <5> QED BY <5>1, <5>2
      <4> HIDE DEF receipt
      <4> QED BY <4>1, <4>2, <4>3 DEF Tx!validate
    <3> QED BY <3>2 DEF some
  <2>10. Tx!ProvenanceValid(Buyer(r), Seller(r)) <=> settled
    BY <2>1, <2>3, <2>5, <2>8, ViewOfReceipt
       DEF Tx!ProvenanceValid, Tx!validate_settlement, settled
  <2>11. Tx!validate_iso(Tx!settlement_timestamp(receipt)) <=> settled
    <3>1. /\ settled => receipt.settlement.iso = Iso(r.settlement_unix)
          /\ ~ settled => receipt.settlement.iso = NoIso
      BY <2>1, <2>7, ViewOfReceipt
    <3>2. ~ NoIso.T /\ \A unix : Iso(unix).T /\ Iso(unix).tail = "+"
      BY DEF Iso, NoIso
    <3> HIDE DEF receipt
    <3> QED BY <3>1, <3>2 DEF Tx!validate_iso, Tx!settlement_timestamp
  <2>12. settled => /\ Tx!seller_was_paid(receipt) <=> e.state = "SellerClaimed"
                    /\ Tx!was_paid(Seller(r)) <=> ~ Tx!was_refunded(Seller(r))
    BY <2>1, <2>5, ViewOfReceipt
       DEF Tx!seller_was_paid, Tx!was_paid, Tx!was_refunded, settled
  <2>13. settled => Tx!seconds_remaining(Tx!fulfillment_timestamp(receipt), r.settlement_mono) <= 0
    BY <2>1, <2>3, <2>6, ViewOfReceipt
       DEF Tx!seconds_remaining, Tx!fulfillment_timestamp
  <2> QED BY <2>9, <2>10, <2>11, <2>12, <2>13 DEF settled, last
<1> QED BY <1>1, HistoryCorrect, PTL

-----------------------------------------------------------------------------
(***************************************************************************)
(* The engine implements SettlementPromise.  The invariant ties what the   *)
(* engine looks at (a stored state, a stored deadline, a receipt to        *)
(* finalize) to what the promise looks at (the terms and the instants), so *)
(* that every call it answers is the abstract step of the same meaning,    *)
(* and noticing a missed deadline is none.                                 *)
(***************************************************************************)

(* Rewriting one order rewrites its deal and no other.                     *)
LEMMA DealReplaced ==
    ASSUME HInv, NEW i \in DOMAIN escrows, NEW f, NEW p,
           escrows' = [escrows EXCEPT ![i] = f], paid' = [paid EXCEPT ![i] = p]
    PROVE  Deals' = [Deals EXCEPT ![i] = DealOf(f, p)]
<1>1. /\ DOMAIN escrows' = DOMAIN escrows
      /\ escrows'[i] = f
      /\ \A j \in DOMAIN escrows : j # i => escrows'[j] = escrows[j]
  OBVIOUS
<1>2. /\ paid'[i] = p
      /\ \A j \in DOMAIN escrows : j # i => paid'[j] = paid[j]
  BY DEF HInv, IInv, TypeOK
<1>3. Deals' = [j \in DOMAIN escrows' |-> DealOf(escrows'[j], paid'[j])]
  BY DEF Deals, DealOf, OutcomeOf
<1>4. /\ Deals = [j \in DOMAIN escrows |-> Deals[j]]
      /\ \A j \in DOMAIN escrows : Deals[j] = DealOf(escrows[j], paid[j])
  BY DEF Deals
<1>5. Deals' = [j \in DOMAIN escrows |-> IF j = i THEN DealOf(f, p) ELSE Deals[j]]
  <2>1. \A j \in DOMAIN escrows :
            DealOf(escrows'[j], paid'[j]) = IF j = i THEN DealOf(f, p) ELSE Deals[j]
    BY <1>1, <1>2, <1>4
  <2> QED BY <1>1, <1>3, <2>1
<1> QED BY <1>4, <1>5

(* An order that is not settled is an open deal; the deadlines the engine  *)
(* stored are those of the terms.                                          *)
LEMMA OpenDeal ==
    ASSUME HInv, NEW i \in DOMAIN escrows, ~ is_terminal(escrows[i].state)
    PROVE  LET e == escrows[i]
               d == DealOf(e, 0)
           IN  /\ i \in DOMAIN Deals /\ Deals[i] = d /\ paid[i] = 0
               /\ Promise!Open(d)
               /\ Promise!AcceptBy(d) = e.acceptance_deadline_mono
               /\ e.seller_accept_mono # None =>
                        Promise!Due(d) = e.fulfillment_deadline_mono
<1>1. paid[i] = 0 /\ escrows[i].settlement_mono = None /\ TraceSound(escrows[i], current_mono)
  BY OpenOrder, OpenUnpaid DEF HInv
<1> QED BY <1>1
        DEF Deals, DealOf, OutcomeOf, TraceSound, Promise!Open, Promise!AcceptBy, Promise!Due

(* A call that leaves alone what the deal was about changes its outcome    *)
(* and the replies alone.                                                  *)
LEMMA DealRewritten ==
    ASSUME NEW e, NEW f, NEW n,
           f.profile = e.profile, f.buyer_commit_mono = e.buyer_commit_mono,
           f.seller_accept_mono = e.seller_accept_mono,
           f.fulfillment_mono = e.fulfillment_mono,
           f.seller_fulfill_txid = e.seller_fulfill_txid
    PROVE  DealOf(f, n) = Promise!Ended(DealOf(e, 0), OutcomeOf(f), n)
<1> DEFINE d == DealOf(e, 0)
           before == OutcomeOf(e)
           outcome == OutcomeOf(f)
           Rewritten(o, p) ==
                [terms |-> e.profile, opened |-> e.buyer_commit_mono,
                 accepted |-> e.seller_accept_mono, delivered |-> e.fulfillment_mono,
                 evidence |-> e.seller_fulfill_txid, outcome |-> o, replies |-> p]
<1>1. d = Rewritten(before, 0) /\ DealOf(f, n) = Rewritten(outcome, n)
  BY Zenon DEF DealOf
<1> HIDE DEF d, before, outcome
<1>2. [d EXCEPT !.outcome = outcome] = Rewritten(outcome, 0)
  BY <1>1
<1>3. [Rewritten(outcome, 0) EXCEPT !.replies = n] = Rewritten(outcome, n)
  OBVIOUS
<1>4. [d EXCEPT !.outcome = outcome, !.replies = n] = Rewritten(outcome, n)
  BY <1>2, <1>3, Zenon
<1>5. Promise!Ended(d, outcome, n) = Rewritten(outcome, n)
  BY <1>4, Zenon DEF Promise!Ended
<1> QED BY <1>1, <1>5, Zenon DEF d, outcome

(* seller_accept is the acceptance of the deal.                            *)
LEMMA AcceptPromised ==
    ASSUME HInv, NEW id, NEW txid \in Txids, seller_accept(id, txid)
    PROVE  \E i \in DOMAIN Deals : Promise!Accept(i)
<1>1. PICK i \in get_escrow(id) : seller_accept(id, txid)!(i)
  BY DEF seller_accept
<1> DEFINE e == escrows[i]
           d == DealOf(e, 0)
           f == [e EXCEPT !.seller_chain_id = ChainId,
                          !.seller_accept_mono = current_mono,
                          !.seller_accept_txid = txid,
                          !.fulfillment_deadline_mono =
                                current_mono + e.profile.fulfillment_window_secs,
                          !.state = "SellerAccepted"]
<1>2. i \in DOMAIN escrows /\ ~ is_terminal(e.state)
  BY <1>1 DEF get_escrow, is_terminal
<1>3. e \in Escrow /\ Stage(e, current_mono) /\ e.settlement_mono = None
  BY <1>2, OpenOrder
<1>4. e.seller_accept_mono = None
  BY <1>1, <1>3 DEF Stage
<1>5. DealOf(f, 0) = [d EXCEPT !.accepted = current_mono]
  BY <1>3 DEF DealOf, OutcomeOf, Escrow
<1>6. Deals' = [Deals EXCEPT ![i] = DealOf(f, 0)]
  <2>1. escrows' = [escrows EXCEPT ![i] = f] /\ paid' = [paid EXCEPT ![i] = 0]
    BY <1>1, <1>2, OpenDeal DEF HInv, IInv, TypeOK
  <2> HIDE DEF f
  <2> QED BY <1>2, <2>1, DealReplaced
<1>7. current_mono' = current_mono /\ current_mono <= e.acceptance_deadline_mono
  BY <1>1 DEF clock
<1>8. /\ i \in DOMAIN Deals /\ Deals[i] = d /\ Promise!Open(d)
      /\ Promise!AcceptBy(d) = e.acceptance_deadline_mono
      /\ d.accepted = None
  BY <1>2, <1>4, OpenDeal DEF DealOf
<1> HIDE DEF d, f, e
<1> QED BY <1>5, <1>6, <1>7, <1>8 DEF Promise!Accept, Promise!Becomes

(* seller_fulfill is a delivery: the order was accepted and, whatever was  *)
(* delivered before came too late.                                         *)
LEMMA FulfillPromised ==
    ASSUME HInv, NEW id, NEW txid \in Txids, seller_fulfill(id, txid)
    PROVE  \E i \in DOMAIN Deals : Promise!Deliver(i)
<1>1. PICK i \in get_escrow(id) : seller_fulfill(id, txid)!(i)
  BY DEF seller_fulfill
<1> DEFINE e == escrows[i]
           d == DealOf(e, 0)
           s == IF IsLate(e) THEN "FulfillmentExpired" ELSE "SellerFulfilled"
           f == [e EXCEPT !.fulfillment_mono = current_mono,
                          !.seller_fulfill_txid = txid, !.state = s]
<1>2. i \in DOMAIN escrows /\ ~ is_terminal(e.state)
  BY <1>1 DEF get_escrow, is_terminal, can_fulfill
<1>3. e \in Escrow /\ Stage(e, current_mono) /\ e.settlement_mono = None
  BY <1>2, OpenOrder
<1>4. /\ i \in DOMAIN Deals /\ Deals[i] = d /\ Promise!Open(d)
      /\ e.seller_accept_mono # None => Promise!Due(d) = e.fulfillment_deadline_mono
  BY <1>2, OpenDeal
<1>5. d.accepted # None /\ ~ Promise!OnTime(d)
  <2>1. /\ d.accepted = e.seller_accept_mono /\ d.delivered = e.fulfillment_mono
        /\ e.seller_accept_mono # None
    BY <1>1, <1>3 DEF DealOf, Stage, can_fulfill
  <2>2. e.fulfillment_mono # None => e.fulfillment_mono > e.fulfillment_deadline_mono
    BY <1>1, <1>3 DEF Stage, can_fulfill
  <2>3. e.fulfillment_mono \in Opt(Nat) /\ e.fulfillment_deadline_mono \in Nat
    BY <1>3, <2>1 DEF Escrow, Stage, Opt
  <2> HIDE DEF d, e
  <2> QED BY <1>4, <2>1, <2>2, <2>3 DEF Promise!OnTime, Opt
<1>6. DealOf(f, 0) = [d EXCEPT !.delivered = current_mono, !.evidence = txid]
  <2> HIDE DEF s, e
  <2>1. /\ f.profile = e.profile /\ f.buyer_commit_mono = e.buyer_commit_mono
        /\ f.seller_accept_mono = e.seller_accept_mono
        /\ f.fulfillment_mono = current_mono /\ f.seller_fulfill_txid = txid
        /\ f.settlement_mono = e.settlement_mono
    BY <1>3 DEF Escrow
  <2>2. OutcomeOf(f) = "open" /\ OutcomeOf(e) = "open"
    BY <1>3, <2>1 DEF OutcomeOf
  <2> HIDE DEF f
  <2>3. DealOf(f, 0) =
            [terms |-> e.profile, opened |-> e.buyer_commit_mono,
             accepted |-> e.seller_accept_mono, delivered |-> current_mono,
             evidence |-> txid, outcome |-> "open", replies |-> 0]
    BY <2>1, <2>2, Zenon DEF DealOf
  <2>4. d = [terms |-> e.profile, opened |-> e.buyer_commit_mono,
             accepted |-> e.seller_accept_mono, delivered |-> e.fulfillment_mono,
             evidence |-> e.seller_fulfill_txid, outcome |-> "open", replies |-> 0]
    BY <2>2, Zenon DEF DealOf
  <2> DEFINE m == [terms |-> e.profile, opened |-> e.buyer_commit_mono,
                   accepted |-> e.seller_accept_mono, delivered |-> current_mono,
                   evidence |-> e.seller_fulfill_txid, outcome |-> "open", replies |-> 0]
  <2> HIDE DEF d
  <2>5. [d EXCEPT !.delivered = current_mono] = m
    BY <2>4
  <2>6. [m EXCEPT !.evidence = txid] =
            [terms |-> e.profile, opened |-> e.buyer_commit_mono,
             accepted |-> e.seller_accept_mono, delivered |-> current_mono,
             evidence |-> txid, outcome |-> "open", replies |-> 0]
    OBVIOUS
  <2> QED BY <2>3, <2>5, <2>6, Zenon
<1>7. Deals' = [Deals EXCEPT ![i] = DealOf(f, 0)] /\ current_mono' = current_mono
  <2>1. escrows' = [escrows EXCEPT ![i] = f] /\ paid' = [paid EXCEPT ![i] = 0]
    BY <1>1, <1>2, OpenDeal DEF HInv, IInv, TypeOK
  <2>2. current_mono' = current_mono
    BY <1>1 DEF clock
  <2> HIDE DEF f
  <2> QED BY <1>2, <2>1, <2>2, DealReplaced
<1> HIDE DEF d, f, e
<1> QED BY <1>4, <1>5, <1>6, <1>7 DEF Promise!Deliver, Promise!Becomes

(* What the three settling methods have in common: the order was delivered *)
(* or is overdue, and the amount is returned exactly when there is a       *)
(* delivery, for then, and only then, a receipt is found.                  *)
LEMMA SettlePromised ==
    ASSUME HInv, NEW id, NEW i \in get_escrow(id), NEW f, NEW refunded,
           CanSettle(escrows[i].state), Settle(i, f, refunded),
           f.order_id = escrows[i].order_id, f.profile = escrows[i].profile,
           f.buyer_commit_mono = escrows[i].buyer_commit_mono,
           f.seller_accept_mono = escrows[i].seller_accept_mono,
           f.fulfillment_mono = escrows[i].fulfillment_mono,
           f.seller_fulfill_txid = escrows[i].seller_fulfill_txid
    PROVE  LET d == DealOf(escrows[i], 0)
           IN  /\ i \in DOMAIN Deals /\ Deals[i] = d
               /\ Promise!Open(d) /\ Promise!Mature(d)
               /\ Promise!Becomes(i, Promise!Settled(d, OutcomeOf(f)))
<1> DEFINE e == escrows[i]
           d == DealOf(e, 0)
           replies == IF e.fulfillment_mono = None THEN 0 ELSE 1
<1>1. i \in DOMAIN escrows /\ ~ is_terminal(e.state) /\ e.order_id = id
  BY DEF get_escrow, is_terminal, CanSettle
<1>2. e \in Escrow /\ Stage(e, current_mono)
  BY <1>1, OpenOrder
<1>3. /\ i \in DOMAIN Deals /\ Deals[i] = d /\ Promise!Open(d) /\ paid[i] = 0
      /\ e.seller_accept_mono # None => Promise!Due(d) = e.fulfillment_deadline_mono
  BY <1>1, OpenDeal
<1>4. Promise!Mature(d)
  <2>1. e.seller_accept_mono # None
    BY <1>2 DEF Stage, CanSettle
  <2>2. e.fulfillment_mono = None => current_mono > e.fulfillment_deadline_mono
    BY <1>2 DEF Stage, CanSettle
  <2>3. d.accepted = e.seller_accept_mono /\ d.delivered = e.fulfillment_mono
    BY DEF DealOf
  <2> HIDE DEF d, e
  <2> QED BY <1>3, <2>1, <2>2, <2>3 DEF Promise!Mature, Promise!Overdue
<1>5. e.fulfillment_mono # None <=> LastReceipt(id) # {}
  <2>1. e.fulfillment_mono # None => LastReceipt(id) # {}
    BY <1>1 DEF HInv, IInv, Receipted
  <2>2. ASSUME NEW k \in LastReceipt(id) PROVE e.fulfillment_mono # None
    BY ReceiptsOfOrder DEF LastReceipt, StubSound
  <2> QED BY <2>1, <2>2
<1>6. escrows' = [escrows EXCEPT ![i] = f] /\ paid' = [paid EXCEPT ![i] = replies]
  <2>1. paid \in Seq(Nat) /\ i \in DOMAIN paid
    BY <1>1 DEF HInv, IInv, TypeOK
  <2> QED BY <1>1, <1>3, <1>5, <2>1 DEF Settle
<1>7. Deals' = [Deals EXCEPT ![i] = DealOf(f, replies)] /\ current_mono' = current_mono
  <2>1. current_mono' = current_mono
    BY DEF Settle, clock
  <2> HIDE DEF replies
  <2> QED BY <1>1, <1>6, <2>1, DealReplaced
<1>8. DealOf(f, replies) = Promise!Settled(d, OutcomeOf(f))
  <2>1. d.delivered = e.fulfillment_mono
    BY DEF DealOf
  <2>2. DealOf(f, replies) = Promise!Ended(d, OutcomeOf(f), replies)
    BY DealRewritten
  <2> HIDE DEF d
  <2> QED BY <2>1, <2>2, Zenon DEF Promise!Settled
<1> HIDE DEF d, replies
<1> QED BY <1>3, <1>4, <1>7, <1>8 DEF Promise!Becomes, d

(* seller_claim and timed_release: the txid tells who asked.               *)
LEMMA ClaimPromised ==
    ASSUME HInv, NEW id, NEW i \in get_escrow(id), NEW txid \in ClaimTxids,
           CanSettle(escrows[i].state), Settle(i, Claimed(escrows[i], txid), FALSE)
    PROVE  LET d == DealOf(escrows[i], 0)
           IN  /\ i \in DOMAIN Deals /\ Deals[i] = d
               /\ Promise!Open(d) /\ Promise!Mature(d)
               /\ Promise!Becomes(i, Promise!Settled(d,
                    IF txid \in [auto_claim: Nat] THEN "released" ELSE "claimed"))
<1> DEFINE e == escrows[i]
           f == Claimed(e, txid)
           no == FALSE
<1>1. i \in DOMAIN escrows /\ ~ is_terminal(e.state)
  BY DEF get_escrow, is_terminal, CanSettle
<1>2. e \in Escrow /\ e.seller_refund_txid = None /\ current_mono \in Nat
  BY <1>1, OpenOrder
<1>3. /\ f.order_id = e.order_id /\ f.profile = e.profile
      /\ f.buyer_commit_mono = e.buyer_commit_mono
      /\ f.seller_accept_mono = e.seller_accept_mono
      /\ f.fulfillment_mono = e.fulfillment_mono
      /\ f.seller_fulfill_txid = e.seller_fulfill_txid
      /\ f.seller_refund_txid = None /\ f.settlement_mono = current_mono
      /\ f.seller_claim_txid = txid
  BY <1>2 DEF Claimed, Escrow
<1>4. current_mono # None /\ txid # None
  BY <1>2, TxidAssumption
<1>5. OutcomeOf(f) = IF txid \in [auto_claim: Nat] THEN "released" ELSE "claimed"
  <2> HIDE DEF f
  <2> QED BY <1>3, <1>4 DEF OutcomeOf
<1>6. Settle(i, f, no)
  OBVIOUS
<1> HIDE DEF f, no
<1> QED BY <1>3, <1>5, <1>6, SettlePromised

(* seller_claim settles the deal for the seller.                           *)
LEMMA SellerClaimPromised ==
    ASSUME HInv, NEW id, NEW txid \in Txids, seller_claim(id, txid)
    PROVE  \E i \in DOMAIN Deals : Promise!Settle(i)
<1>1. PICK i \in get_escrow(id) : seller_claim(id, txid)!(i)
  BY DEF seller_claim
<1>2. txid \in ClaimTxids /\ txid \notin [auto_claim: Nat]
  BY TxidAssumption DEF ClaimTxids
<1> DEFINE d == DealOf(escrows[i], 0)
<1>3. /\ i \in DOMAIN Deals /\ Deals[i] = d
      /\ Promise!Open(d) /\ Promise!Mature(d)
      /\ Promise!Becomes(i, Promise!Settled(d, "claimed"))
  BY <1>1, <1>2, ClaimPromised
<1> HIDE DEF d
<1> QED BY <1>3 DEF Promise!Settle

(* timed_release settles it for the seller too, once the window after the  *)
(* delivery is over.                                                       *)
LEMMA ReleasePromised ==
    ASSUME HInv, NEW id, timed_release(id)
    PROVE  \E i \in DOMAIN Deals : Promise!Release(i)
<1>1. PICK i \in get_escrow(id) : timed_release(id)!(i)
  BY DEF timed_release
<1> DEFINE e == escrows[i]
           d == DealOf(e, 0)
           txid == AutoClaim(current_mono)
<1>2. i \in DOMAIN escrows /\ ~ is_terminal(e.state)
  BY <1>1 DEF get_escrow, is_terminal, CanSettle
<1>3. e \in Escrow /\ Stage(e, current_mono) /\ current_mono \in Nat
  BY <1>2, OpenOrder
<1>4. txid \in ClaimTxids /\ txid \in [auto_claim: Nat]
  BY <1>3 DEF AutoClaim, ClaimTxids
<1>5. CanSettle(e.state) /\ Settle(i, Claimed(e, txid), FALSE)
  BY <1>1
<1>6. /\ d.terms = e.profile /\ d.delivered = e.fulfillment_mono
      /\ e.profile.allows_timed_release
      /\ Elapsed(e) >= e.profile.claim_window_secs
  BY <1>1 DEF DealOf
<1>7. d.delivered # None => current_mono - d.delivered >= d.terms.claim_window_secs
  <2>1. e.fulfillment_mono # None => /\ e.fulfillment_mono \in Nat
                                     /\ e.fulfillment_mono <= current_mono
    BY <1>3 DEF Escrow, Opt, Stage
  <2> HIDE DEF d, e
  <2> QED BY <1>3, <1>6, <2>1 DEF Elapsed, OrElse
<1> HIDE DEF txid
<1>8. /\ i \in DOMAIN Deals /\ Deals[i] = d
      /\ Promise!Open(d) /\ Promise!Mature(d)
      /\ Promise!Becomes(i, Promise!Settled(d, "released"))
  BY <1>4, <1>5, ClaimPromised
<1> HIDE DEF d, e
<1> QED BY <1>6, <1>7, <1>8 DEF Promise!Release

(* seller_refund settles it for the buyer.                                 *)
LEMMA RefundPromised ==
    ASSUME HInv, NEW id, NEW txid \in Txids, seller_refund(id, txid)
    PROVE  \E i \in DOMAIN Deals : Promise!Settle(i)
<1>1. PICK i \in get_escrow(id) : seller_refund(id, txid)!(i)
  BY DEF seller_refund
<1> DEFINE e == escrows[i]
           d == DealOf(e, 0)
           yes == TRUE
           f == [e EXCEPT !.seller_refund_txid = txid,
                          !.settlement_mono = current_mono,
                          !.seller_block_height = current_block_height,
                          !.state = "SellerRefunded"]
<1>2. i \in DOMAIN escrows /\ ~ is_terminal(e.state)
  BY <1>1 DEF get_escrow, is_terminal, CanSettle
<1>3. e \in Escrow /\ current_mono \in Nat
  BY <1>2, OpenOrder
<1>4. /\ f.order_id = e.order_id /\ f.profile = e.profile
      /\ f.buyer_commit_mono = e.buyer_commit_mono
      /\ f.seller_accept_mono = e.seller_accept_mono
      /\ f.fulfillment_mono = e.fulfillment_mono
      /\ f.seller_fulfill_txid = e.seller_fulfill_txid
      /\ f.seller_refund_txid = txid /\ f.settlement_mono = current_mono
  BY <1>3 DEF Escrow
<1>5. current_mono # None /\ txid # None
  BY <1>3, TxidAssumption DEF ClaimTxids
<1>6. CanSettle(e.state) /\ Settle(i, f, yes)
  BY <1>1
<1> HIDE DEF f, yes
<1>7. OutcomeOf(f) = "refunded"
  BY <1>4, <1>5 DEF OutcomeOf
<1>8. /\ i \in DOMAIN Deals /\ Deals[i] = d
      /\ Promise!Open(d) /\ Promise!Mature(d)
      /\ Promise!Becomes(i, Promise!Settled(d, "refunded"))
  BY <1>4, <1>6, <1>7, SettlePromised
<1> HIDE DEF d, e
<1> QED BY <1>8 DEF Promise!Settle

(* buyer_withdraw ends a deal whose seller missed a deadline, and a late   *)
(* delivery does not stand in its way.                                     *)
LEMMA WithdrawPromised ==
    ASSUME HInv, NEW id, NEW txid \in Opt(Txids), buyer_withdraw(id, txid)
    PROVE  \E i \in DOMAIN Deals : Promise!Withdraw(i)
<1>1. PICK i \in get_escrow(id) : buyer_withdraw(id, txid)!(i)
  BY DEF buyer_withdraw
<1> DEFINE e == escrows[i]
           d == DealOf(e, 0)
           f == [e EXCEPT !.buyer_withdraw_txid = IF txid = None THEN @ ELSE txid,
                          !.state = "BuyerWithdrawn",
                          !.settlement_mono = current_mono,
                          !.seller_block_height = None]
<1>2. i \in DOMAIN escrows /\ ~ is_terminal(e.state)
  BY <1>1 DEF get_escrow, is_terminal
<1>3. /\ e \in Escrow /\ Stage(e, current_mono) /\ current_mono \in Nat
      /\ e.seller_claim_txid = None /\ e.seller_refund_txid = None
  BY <1>2, OpenOrder
<1>4. /\ f.profile = e.profile /\ f.buyer_commit_mono = e.buyer_commit_mono
      /\ f.seller_accept_mono = e.seller_accept_mono
      /\ f.fulfillment_mono = e.fulfillment_mono
      /\ f.seller_fulfill_txid = e.seller_fulfill_txid
      /\ f.seller_refund_txid = None /\ f.seller_claim_txid = None
      /\ f.settlement_mono = current_mono
  BY <1>3 DEF Escrow
<1>5. current_mono # None
  BY <1>3, TxidAssumption
<1>6. /\ i \in DOMAIN Deals /\ Deals[i] = d /\ Promise!Open(d) /\ paid[i] = 0
      /\ Promise!AcceptBy(d) = e.acceptance_deadline_mono
      /\ e.seller_accept_mono # None => Promise!Due(d) = e.fulfillment_deadline_mono
  BY <1>2, OpenDeal
<1>7. \/ d.accepted = None /\ current_mono > Promise!AcceptBy(d)
      \/ Promise!Overdue(d) /\ ~ Promise!OnTime(d)
  <2>1. d.accepted = e.seller_accept_mono /\ d.delivered = e.fulfillment_mono
    BY DEF DealOf
  <2>2. \/ e.state = "BuyerCommitted" /\ ~ (current_mono <= e.acceptance_deadline_mono)
        \/ e.state = "FulfillmentExpired"
    BY <1>1
  <2>3. e.fulfillment_mono \in Opt(Nat) /\ e.acceptance_deadline_mono \in Nat
        /\ e.fulfillment_deadline_mono \in Opt(Nat)
    BY <1>3 DEF Escrow
  <2> HIDE DEF d, e
  <2>4. CASE e.state = "BuyerCommitted"
    BY <1>3, <1>6, <2>1, <2>2, <2>3, <2>4 DEF Stage
  <2>5. CASE e.state = "FulfillmentExpired"
    <3>1. /\ e.seller_accept_mono # None /\ e.fulfillment_deadline_mono \in Nat
          /\ current_mono > e.fulfillment_deadline_mono
          /\ e.fulfillment_mono # None => e.fulfillment_mono > e.fulfillment_deadline_mono
      BY <1>3, <2>3, <2>5 DEF Stage, Opt
    <3> QED BY <1>6, <2>1, <2>3, <3>1 DEF Promise!Overdue, Promise!OnTime, Opt
  <2> QED BY <2>2, <2>4, <2>5
<1>8. escrows' = [escrows EXCEPT ![i] = f] /\ paid' = [paid EXCEPT ![i] = 1]
      /\ current_mono' = current_mono
  BY <1>1, <1>2, <1>6 DEF clock, HInv, IInv, TypeOK
<1> HIDE DEF f
<1>9. OutcomeOf(f) = "withdrawn"
  BY <1>4, <1>5 DEF OutcomeOf
<1>10. DealOf(f, 1) = Promise!Ended(d, "withdrawn", 1)
  BY <1>4, <1>9, DealRewritten
<1>11. Deals' = [Deals EXCEPT ![i] = DealOf(f, 1)]
  BY <1>2, <1>8, DealReplaced
<1> HIDE DEF d, e
<1> QED BY <1>6, <1>7, <1>8, <1>10, <1>11 DEF Promise!Withdraw, Promise!Becomes

(* buyer_commit opens a deal after all others.                             *)
LEMMA CommitPromised ==
    ASSUME HInv, NEW profile \in Profiles, NEW txid \in Txids,
           buyer_commit(profile, txid)
    PROVE  Promise!Commit
<1> DEFINE n == NewEscrow(generate_order_id, profile, txid)
           new == Promise!Opened(profile)
           len == Len(escrows)
<1>1. /\ escrows' = Append(escrows, n) /\ paid' = Append(paid, 0)
      /\ current_mono' = current_mono
      /\ escrows \in Seq(Escrow) /\ paid \in Seq(Nat) /\ Len(paid) = len
  BY DEF buyer_commit, clock, HInv, IInv, TypeOK
<1>2. DealOf(n, 0) = new
  BY DEF NewEscrow, DealOf, OutcomeOf, Promise!Opened
<1> HIDE DEF n, new
<1>3. /\ len \in Nat /\ DOMAIN escrows = 1 .. len /\ DOMAIN escrows' = 1 .. len + 1
      /\ escrows'[len + 1] = n /\ paid'[len + 1] = 0
      /\ \A j \in 1 .. len : escrows'[j] = escrows[j] /\ paid'[j] = paid[j]
  BY <1>1
<1> HIDE DEF len
<1>4. Deals' = [j \in DOMAIN escrows' |-> DealOf(escrows'[j], paid'[j])]
  BY DEF Deals, DealOf, OutcomeOf
<1>5. Deals = [j \in 1 .. len |-> DealOf(escrows[j], paid[j])]
  BY <1>3 DEF Deals
<1>6. \A j \in 1 .. len : Deals[j] = DealOf(escrows[j], paid[j])
  BY <1>5
<1>7. Deals' = [j \in 1 .. len + 1 |-> IF j = len + 1 THEN new ELSE Deals[j]]
  <2>1. \A j \in 1 .. len + 1 :
            DealOf(escrows'[j], paid'[j]) = IF j = len + 1 THEN new ELSE Deals[j]
    <3> SUFFICES ASSUME NEW j \in 1 .. len + 1
                 PROVE  DealOf(escrows'[j], paid'[j]) = IF j = len + 1 THEN new ELSE Deals[j]
      OBVIOUS
    <3>1. CASE j = len + 1
      BY <1>2, <1>3, <3>1
    <3>2. CASE j # len + 1
      <4>1. j \in 1 .. len
        BY <1>3, <3>2
      <4> QED BY <1>3, <1>6, <3>2, <4>1
    <3> QED BY <3>1, <3>2
  <2> QED BY <1>3, <1>4, <2>1
<1>8. Deals' = Append(Deals, new)
  <2> DEFINE S == {Deals[j] : j \in 1 .. len} \cup {new}
             longer == Append(Deals, new)
  <2>1. Deals \in [1 .. len -> S]
    BY <1>5
  <2>2. Deals \in Seq(S) /\ Len(Deals) = len
    BY <1>3, <2>1
  <2>3. new \in S
    OBVIOUS
  <2> HIDE DEF S
  <2>4. /\ longer \in Seq(S) /\ Len(longer) = len + 1 /\ longer[len + 1] = new
        /\ \A j \in 1 .. len : longer[j] = Deals[j]
    BY <1>3, <2>2, <2>3
  <2> HIDE DEF longer
  <2>5. longer = [j \in 1 .. len + 1 |-> longer[j]]
    BY <2>4
  <2>6. \A j \in 1 .. len + 1 : longer[j] = IF j = len + 1 THEN new ELSE Deals[j]
    BY <1>3, <2>4
  <2> QED BY <1>7, <2>5, <2>6 DEF longer
<1> QED BY <1>1, <1>8 DEF Promise!Commit, new

(* Time passes for the deals as it does for the orders.                    *)
LEMMA TickPromised ==
    ASSUME HInv, NEW secs \in Steps, advance_time(secs)
    PROVE  Promise!Pass
<1>1. secs \in Nat /\ current_mono \in Nat
  BY EngineAssumption DEF HInv, IInv, TypeOK
<1>2. Deals' = Deals
  BY DEF advance_time, Deals, DealOf, OutcomeOf
<1> QED BY <1>1, <1>2 DEF advance_time, Promise!Pass

(* update_state is nothing that happens to a deal.                         *)
LEMMA UpdatePromised ==
    ASSUME HInv, NEW id, update_state(id)
    PROVE  UNCHANGED Promise!vars
<1>1. PICK i \in get_escrow(id) : update_state(id)!(i)
  BY DEF update_state
<1> DEFINE e == escrows[i]
           f == [e EXCEPT !.state = "FulfillmentExpired"]
<1>2. i \in DOMAIN escrows /\ ~ is_terminal(e.state)
  BY <1>1 DEF get_escrow, is_terminal
<1>3. e \in Escrow
  BY <1>2, OpenOrder
<1>4. DealOf(f, 0) = DealOf(e, 0)
  BY <1>3 DEF DealOf, OutcomeOf, Escrow
<1>5. /\ escrows' = [escrows EXCEPT ![i] = f] /\ paid' = [paid EXCEPT ![i] = 0]
      /\ current_mono' = current_mono
  BY <1>1, <1>2, OpenDeal DEF clock, HInv, IInv, TypeOK
<1> HIDE DEF f
<1>6. Deals' = [Deals EXCEPT ![i] = DealOf(f, 0)]
  BY <1>2, <1>5, DealReplaced
<1>7. Deals[i] = DealOf(e, 0)
  BY <1>2, OpenDeal
<1>8. Deals = [j \in DOMAIN escrows |-> Deals[j]]
  BY DEF Deals
<1>9. Deals' = Deals
  BY <1>2, <1>4, <1>6, <1>7, <1>8
<1> QED BY <1>5, <1>9 DEF Promise!vars

(* Every step of the engine is a step of the promise, or none.             *)
THEOREM PromiseStep == HInv /\ [Next]_vars => [Promise!Next]_(Promise!vars)
<1> SUFFICES ASSUME HInv, [Next]_vars PROVE Promise!Next \/ UNCHANGED Promise!vars
  OBVIOUS
<1>1. ASSUME Tick PROVE Promise!Next
  BY <1>1, TickPromised DEF Tick, Promise!Next
<1>2. ASSUME Commit PROVE Promise!Next
  BY <1>2, CommitPromised DEF Commit, Promise!Next
<1>3. ASSUME NEW id \in OrderIds, SellerCall(id) PROVE Promise!Next
  BY <1>3, AcceptPromised, FulfillPromised, SellerClaimPromised, RefundPromised
     DEF SellerCall, Promise!Next
<1>4. ASSUME NEW id \in OrderIds, Withdraw(id) PROVE Promise!Next
  BY <1>4, WithdrawPromised DEF Withdraw, Promise!Next
<1>5. ASSUME NEW id \in OrderIds, timed_release(id) PROVE Promise!Next
  BY <1>5, ReleasePromised DEF Promise!Next
<1>6. ASSUME NEW id \in OrderIds, update_state(id) PROVE UNCHANGED Promise!vars
  BY <1>6, UpdatePromised
<1>7. ASSUME UNCHANGED vars PROVE UNCHANGED Promise!vars
  BY <1>7 DEF vars, Promise!vars, Deals, DealOf, OutcomeOf
<1> QED BY <1>1, <1>2, <1>3, <1>4, <1>5, <1>6, <1>7 DEF Next, Call

(* The engine keeps the promise: an order is accepted in its window, an    *)
(* on-time delivery is final, and it is settled once and only as the terms *)
(* and what happened allow, whatever its stored state and deadlines are.   *)
THEOREM PromiseImplemented == Spec => ImplementsPromise
<1>1. Init => Promise!Init
  BY DEF Init, Deals, Promise!Init
<1> QED BY <1>1, PromiseStep, HistoryCorrect, PTL DEF Spec, ImplementsPromise, Promise!Spec
==============================================================================
