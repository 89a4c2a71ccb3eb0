------------------------ MODULE CoreProverEscrowProofs ------------------------
(***************************************************************************)
(* Theorems about CoreProverEscrow and their proofs: type correctness, an  *)
(* inductive invariant that ties the stored state of an order to the ether *)
(* that moved on its account, and from it the safety properties and the    *)
(* refinement of DualCommitEscrow.                                         *)
(***************************************************************************)
EXTENDS CoreProverEscrow, FiniteSums

(* The record createEscrow builds is well typed.                           *)
LEMMA NewEscrowType ==
    ASSUME TypeOK, NEW sender \in Accounts, NEW value \in Values,
           NEW seller \in Accounts \cup {ZeroAddress},
           NEW cw \in CommitWindows, NEW lw \in ClaimWindows,
           NEW timed \in BOOLEAN, NEW d \in Delays
    PROVE  NewEscrow(sender, value, seller, cw, lw, timed, d) \in Escrow
<1>1. cw \in Nat /\ lw \in Nat /\ d \in Nat /\ value \in Nat /\ now \in Nat
  BY AmountAssumption, TimeAssumption DEF TypeOK
<1>2. /\ now + cw \in Nat /\ now + cw + lw \in Nat
      /\ (IF timed THEN now + cw + d ELSE 0) \in Nat
  BY <1>1
<1> QED BY <1>1, <1>2 DEF NewEscrow, Escrow, EscrowState

(* What the calls write into the record of an escrow is an escrow.         *)
LEMMA EscrowMoves ==
    ASSUME NEW e \in Escrow, NEW s \in EscrowState, NEW value \in Nat
    PROVE  /\ [e EXCEPT !.state = s] \in Escrow
           /\ [e EXCEPT !.sellerAmount = value, !.state = s] \in Escrow
  BY DEF Escrow

(* Every transaction keeps the types; a transfer never overdraws.          *)
THEOREM TypeStep == TypeOK /\ [Next]_vars => TypeOK'
<1> SUFFICES ASSUME TypeOK, [Next]_vars PROVE TypeOK'
  OBVIOUS
<1>0. /\ \A o \in OrderIds : escrows[o] \in Escrow
      /\ {"BOTH_COMMITTED", "SELLER_CLAIMED", "BUYER_CLAIMED", "BOTH_CLAIMED", "EXPIRED"}
            \subseteq EscrowState
  BY DEF TypeOK, EscrowState
<1>1. ASSUME NEW secs \in Steps, NextBlock(secs) PROVE TypeOK'
  BY <1>1, TimeAssumption DEF NextBlock, TypeOK, storage, history
<1>2. ASSUME NEW o \in OrderIds, NEW sender \in Accounts, Create(sender, o)
      PROVE  TypeOK'
  <2>1. PICK value \in Values, seller \in Accounts \cup {ZeroAddress},
             cw \in CommitWindows, lw \in ClaimWindows, timed \in BOOLEAN, d \in Delays :
             createEscrow(value, o, NewEscrow(sender, value, seller, cw, lw, timed, d))
    BY <1>2 DEF Create
  <2> DEFINE e == NewEscrow(sender, value, seller, cw, lw, timed, d)
  <2>2. e \in Escrow
    BY NewEscrowType
  <2>3. value \in Nat
    BY AmountAssumption
  <2> HIDE DEF e
  <2>4. ledger[o] \in Ledger
    BY DEF TypeOK
  <2>5. [ledger[o] EXCEPT !.deposited = @ + value] \in Ledger
    BY <2>3, <2>4 DEF Ledger
  <2> QED BY <2>1, <2>2, <2>3, <2>5 DEF createEscrow, TypeOK, e
<1>3. ASSUME NEW o \in OrderIds, NEW sender \in Accounts, NEW value \in Values,
             sellerCommitEscrow(sender, value, o)
      PROVE  TypeOK'
  <2>1. value \in Nat
    BY AmountAssumption
  <2>2. [escrows[o] EXCEPT !.sellerAmount = value, !.state = "BOTH_COMMITTED"] \in Escrow
    BY <1>0, <2>1, EscrowMoves
  <2>3. [ledger[o] EXCEPT !.pledged = @ + value] \in Ledger
    BY <2>1 DEF TypeOK, Ledger
  <2> QED BY <1>3, <2>1, <2>2, <2>3 DEF sellerCommitEscrow, TypeOK
<1>4. ASSUME NEW o \in OrderIds, NEW sender \in Accounts, sellerCommitSignature(sender, o)
      PROVE  TypeOK'
  <2>1. [escrows[o] EXCEPT !.state = "BOTH_COMMITTED"] \in Escrow
    BY <1>0, EscrowMoves
  <2> QED BY <1>4, <2>1 DEF sellerCommitSignature, TypeOK
<1>5. ASSUME NEW o \in OrderIds, PaySeller(o) PROVE TypeOK'
  <2>1. [escrows[o] EXCEPT !.state = "SELLER_CLAIMED"] \in Escrow
    BY <1>0, EscrowMoves
  <2>2. escrows[o].buyerAmount \in Nat
    BY DEF TypeOK, Escrow
  <2>3. [ledger[o] EXCEPT !.toSeller = @ + escrows[o].buyerAmount] \in Ledger
    BY <2>2 DEF TypeOK, Ledger
  <2>4. balance' \in Nat
    BY <1>5, <2>2 DEF PaySeller, transfer, TypeOK
  <2> QED BY <1>5, <2>1, <2>3, <2>4 DEF PaySeller, TypeOK
<1>6. ASSUME NEW o \in OrderIds, NEW sender \in Accounts, buyerClaimCounterEscrow(sender, o)
      PROVE  TypeOK'
  <2>1. [escrows[o] EXCEPT !.sellerAmount = 0,
                           !.state = IF escrows[o].state = "SELLER_CLAIMED"
                                     THEN "BOTH_CLAIMED" ELSE "BUYER_CLAIMED"] \in Escrow
    BY <1>0, EscrowMoves
  <2>2. escrows[o].sellerAmount \in Nat
    BY DEF TypeOK, Escrow
  <2>3. [ledger[o] EXCEPT !.toBuyer = @ + escrows[o].sellerAmount] \in Ledger
    BY <2>2 DEF TypeOK, Ledger
  <2>4. balance' \in Nat
    BY <1>6, <2>2 DEF buyerClaimCounterEscrow, transfer, TypeOK
  <2> QED BY <1>6, <2>1, <2>3, <2>4 DEF buyerClaimCounterEscrow, TypeOK
<1>7. ASSUME NEW o \in OrderIds, refundBuyerTimeout(o) PROVE TypeOK'
  <2>1. [escrows[o] EXCEPT !.state = "EXPIRED"] \in Escrow
    BY <1>0, EscrowMoves
  <2>2. escrows[o].buyerAmount \in Nat
    BY DEF TypeOK, Escrow
  <2>3. [ledger[o] EXCEPT !.refunded = @ + escrows[o].buyerAmount] \in Ledger
    BY <2>2 DEF TypeOK, Ledger
  <2>4. balance' \in Nat
    BY <1>7, <2>2 DEF refundBuyerTimeout, transfer, TypeOK
  <2> QED BY <1>7, <2>1, <2>3, <2>4 DEF refundBuyerTimeout, TypeOK
<1>8. CASE UNCHANGED vars
  BY <1>8 DEF vars, storage, history, TypeOK
<1> QED BY <1>1, <1>2, <1>3, <1>4, <1>5, <1>6, <1>7, <1>8
        DEF Next, Commit, sellerClaimPayment, triggerTimedRelease

(* The contract's storage, balance and history are always well typed.      *)
THEOREM TypeCorrect == Spec => []TypeOK
<1>1. Init => TypeOK
  BY DEF Init, TypeOK, NoEscrow, NoLedger, Escrow, Ledger, EscrowState
<1> QED BY <1>1, TypeStep, PTL DEF Spec

-----------------------------------------------------------------------------
(* What the record e of an order, the ether l moved on its account and the *)
(* block c of its commitment have to do with one another at instant t: the *)
(* state says which payments were made, and they were made in full.        *)
Agreed == {"BOTH_COMMITTED", "SELLER_CLAIMED", "BUYER_CLAIMED", "BOTH_CLAIMED"}
Unagreed == {"BUYER_COMMITTED", "EXPIRED"}
SellerPaid == {"SELLER_CLAIMED", "BOTH_CLAIMED"}
BuyerPaid == {"BUYER_CLAIMED", "BOTH_CLAIMED"}

OrderSound(e, l, c, t) ==
    /\ e.state \in {"NONE"} \cup Agreed \cup Unagreed
    /\ e.state = "NONE" => e = NoEscrow /\ l = NoLedger /\ c = Never
    /\ e.state # "NONE" => /\ l.deposited = e.buyerAmount
                           /\ e.buyerAmount > 0
                           /\ e.createdAt <= t
    /\ e.state \in Unagreed => c = Never /\ l.pledged = 0
    /\ e.state \in Agreed => c \in e.createdAt .. e.commitmentDeadline
    /\ e.state = "EXPIRED" => t > e.commitmentDeadline
    /\ l.toSeller = (IF e.state \in SellerPaid THEN l.deposited ELSE 0)
    /\ l.refunded = (IF e.state = "EXPIRED" THEN l.deposited ELSE 0)
    /\ l.toBuyer = (IF e.state \in BuyerPaid THEN l.pledged ELSE 0)
    /\ e.sellerAmount = (IF e.state \in BuyerPaid THEN 0 ELSE l.pledged)
    /\ e.state \in BuyerPaid => l.pledged > 0

IInv ==
    /\ TypeOK
    /\ \A o \in OrderIds : OrderSound(escrows[o], ledger[o], bothCommittedAt[o], now)

(* A call on one order leaves the others as sound as they were.            *)
LEMMA OneOrderSound ==
    ASSUME IInv, TypeOK', now' = now, NEW o \in OrderIds,
           \A p \in OrderIds : p # o => /\ escrows'[p] = escrows[p]
                                       /\ ledger'[p] = ledger[p]
                                       /\ bothCommittedAt'[p] = bothCommittedAt[p],
           OrderSound(escrows'[o], ledger'[o], bothCommittedAt'[o], now)
    PROVE  IInv'
<1>1. ASSUME NEW p \in OrderIds
      PROVE  OrderSound(escrows'[p], ledger'[p], bothCommittedAt'[p], now')
  <2>1. CASE p = o
    BY <2>1
  <2>2. CASE p # o
    BY <2>2 DEF IInv
  <2> QED BY <2>1, <2>2
<1> QED BY <1>1 DEF IInv

(* createEscrow starts an order with the payment held.                     *)
LEMMA CreateSound ==
    ASSUME IInv, TypeOK', NEW o \in OrderIds, NEW sender \in Accounts, Create(sender, o)
    PROVE  IInv'
<1>1. PICK value \in Values, seller \in Accounts \cup {ZeroAddress},
           cw \in CommitWindows, lw \in ClaimWindows, timed \in BOOLEAN, d \in Delays :
           createEscrow(value, o, NewEscrow(sender, value, seller, cw, lw, timed, d))
  BY DEF Create
<1> DEFINE e == NewEscrow(sender, value, seller, cw, lw, timed, d)
<1>2. /\ e.state = "BUYER_COMMITTED" /\ e.buyerAmount = value
      /\ e.sellerAmount = 0 /\ e.createdAt = now
  BY DEF NewEscrow
<1> HIDE DEF e
<1>3. createEscrow(value, o, e)
  BY <1>1 DEF e
<1>4. /\ escrows'[o] = e
      /\ ledger'[o] = [ledger[o] EXCEPT !.deposited = @ + value]
      /\ bothCommittedAt'[o] = bothCommittedAt[o]
      /\ now' = now
      /\ \A p \in OrderIds : p # o => /\ escrows'[p] = escrows[p]
                                      /\ ledger'[p] = ledger[p]
                                      /\ bothCommittedAt'[p] = bothCommittedAt[p]
  BY <1>3 DEF createEscrow, IInv, TypeOK
<1>5. ledger[o] = NoLedger /\ bothCommittedAt[o] = Never
  BY <1>3 DEF createEscrow, IInv, OrderSound
<1>6. value \in Nat /\ value > 0 /\ now \in Nat
  BY <1>3, AmountAssumption DEF createEscrow, IInv, TypeOK
<1>7. ledger'[o] = [deposited |-> value, pledged |-> 0, toSeller |-> 0,
                    refunded |-> 0, toBuyer |-> 0]
  BY <1>4, <1>5, <1>6 DEF NoLedger
<1>8. OrderSound(escrows'[o], ledger'[o], bothCommittedAt'[o], now)
  BY <1>2, <1>4, <1>5, <1>6, <1>7
     DEF OrderSound, Agreed, Unagreed, SellerPaid, BuyerPaid
<1> QED BY <1>4, <1>8, OneOrderSound

(* Either way of committing agrees the order before its deadline.          *)
LEMMA CommitSound ==
    ASSUME IInv, TypeOK', NEW o \in OrderIds, NEW sender \in Accounts, Commit(sender, o)
    PROVE  IInv'
<1> DEFINE e == escrows[o]
           l == ledger[o]
<1>1. /\ e.state = "BUYER_COMMITTED" /\ now <= e.commitmentDeadline
      /\ OrderSound(e, l, bothCommittedAt[o], now)
      /\ e \in Escrow /\ l \in Ledger /\ now \in Nat
  BY DEF Commit, sellerCommitEscrow, sellerCommitSignature, MayCommit, IInv, TypeOK
<1>2. PICK v \in Nat :
        /\ escrows'[o] = [e EXCEPT !.sellerAmount = v, !.state = "BOTH_COMMITTED"]
        /\ ledger'[o] = [l EXCEPT !.pledged = v]
  <2>1. e.sellerAmount = 0 /\ l.pledged = 0
    BY <1>1 DEF OrderSound, Unagreed, BuyerPaid
  <2>2. CASE sellerCommitSignature(sender, o)
    <3>1. escrows'[o] = [e EXCEPT !.sellerAmount = 0, !.state = "BOTH_COMMITTED"]
      BY <2>1, <2>2, <1>1 DEF sellerCommitSignature, IInv, TypeOK, Escrow
    <3>2. ledger'[o] = [l EXCEPT !.pledged = 0]
      BY <2>1, <2>2, <1>1 DEF sellerCommitSignature, IInv, TypeOK, Ledger
    <3> QED BY <3>1, <3>2
  <2>3. ASSUME NEW v \in Values, sellerCommitEscrow(sender, v, o)
        PROVE  /\ v \in Nat
               /\ escrows'[o] = [e EXCEPT !.sellerAmount = v, !.state = "BOTH_COMMITTED"]
               /\ ledger'[o] = [l EXCEPT !.pledged = v]
    <3>1. v \in Nat
      BY AmountAssumption
    <3>2. ledger'[o] = [l EXCEPT !.pledged = 0 + v]
      BY <2>1, <2>3, <1>1 DEF sellerCommitEscrow, IInv, TypeOK, Ledger
    <3> QED BY <2>3, <3>1, <3>2, <1>1 DEF sellerCommitEscrow, IInv, TypeOK
  <2> QED BY <2>2, <2>3 DEF Commit
<1>3. /\ bothCommittedAt'[o] = now /\ now' = now
      /\ \A p \in OrderIds : p # o => /\ escrows'[p] = escrows[p]
                                      /\ ledger'[p] = ledger[p]
                                      /\ bothCommittedAt'[p] = bothCommittedAt[p]
  BY DEF Commit, sellerCommitEscrow, sellerCommitSignature, IInv, TypeOK
<1>4. OrderSound(escrows'[o], ledger'[o], bothCommittedAt'[o], now)
  BY <1>1, <1>2, <1>3
     DEF OrderSound, Agreed, Unagreed, SellerPaid, BuyerPaid, Escrow, Ledger
<1> QED BY <1>3, <1>4, OneOrderSound

(* A payment to the seller settles the deposit in full.                    *)
LEMMA PaySellerSound ==
    ASSUME IInv, TypeOK', NEW o \in OrderIds,
           escrows[o].state = "BOTH_COMMITTED", PaySeller(o)
    PROVE  IInv'
<1>1. /\ escrows'[o] = [escrows[o] EXCEPT !.state = "SELLER_CLAIMED"]
      /\ ledger'[o] = [ledger[o] EXCEPT !.toSeller = @ + escrows[o].buyerAmount]
      /\ bothCommittedAt'[o] = bothCommittedAt[o] /\ now' = now
      /\ \A p \in OrderIds : p # o => /\ escrows'[p] = escrows[p]
                                      /\ ledger'[p] = ledger[p]
                                      /\ bothCommittedAt'[p] = bothCommittedAt[p]
  BY DEF PaySeller, IInv, TypeOK
<1>2. /\ OrderSound(escrows[o], ledger[o], bothCommittedAt[o], now)
      /\ escrows[o] \in Escrow /\ ledger[o] \in Ledger
  BY DEF IInv, TypeOK
<1>3. OrderSound(escrows'[o], ledger'[o], bothCommittedAt'[o], now)
  BY <1>1, <1>2 DEF OrderSound, Agreed, Unagreed, SellerPaid, BuyerPaid, Escrow, Ledger
<1> QED BY <1>1, <1>3, OneOrderSound

(* A claim of the counter-escrow settles the pledge in full.               *)
LEMMA BuyerClaimSound ==
    ASSUME IInv, TypeOK', NEW o \in OrderIds, NEW sender \in Accounts,
           buyerClaimCounterEscrow(sender, o)
    PROVE  IInv'
<1>1. /\ escrows'[o] = [escrows[o] EXCEPT !.sellerAmount = 0,
                !.state = IF escrows[o].state = "SELLER_CLAIMED"
                          THEN "BOTH_CLAIMED" ELSE "BUYER_CLAIMED"]
      /\ ledger'[o] = [ledger[o] EXCEPT !.toBuyer = @ + escrows[o].sellerAmount]
      /\ bothCommittedAt'[o] = bothCommittedAt[o] /\ now' = now
      /\ \A p \in OrderIds : p # o => /\ escrows'[p] = escrows[p]
                                      /\ ledger'[p] = ledger[p]
                                      /\ bothCommittedAt'[p] = bothCommittedAt[p]
      /\ escrows[o].state \in {"BOTH_COMMITTED", "SELLER_CLAIMED"}
      /\ escrows[o].sellerAmount > 0
  BY DEF buyerClaimCounterEscrow, IInv, TypeOK
<1>2. /\ OrderSound(escrows[o], ledger[o], bothCommittedAt[o], now)
      /\ escrows[o] \in Escrow /\ ledger[o] \in Ledger
  BY DEF IInv, TypeOK
<1>3. OrderSound(escrows'[o], ledger'[o], bothCommittedAt'[o], now)
  BY <1>1, <1>2 DEF OrderSound, Agreed, Unagreed, SellerPaid, BuyerPaid, Escrow, Ledger
<1> QED BY <1>1, <1>3, OneOrderSound

(* A refund settles the deposit in full, after the commitment deadline.    *)
LEMMA RefundSound ==
    ASSUME IInv, TypeOK', NEW o \in OrderIds, refundBuyerTimeout(o)
    PROVE  IInv'
<1>1. /\ escrows'[o] = [escrows[o] EXCEPT !.state = "EXPIRED"]
      /\ ledger'[o] = [ledger[o] EXCEPT !.refunded = @ + escrows[o].buyerAmount]
      /\ bothCommittedAt'[o] = bothCommittedAt[o] /\ now' = now
      /\ \A p \in OrderIds : p # o => /\ escrows'[p] = escrows[p]
                                      /\ ledger'[p] = ledger[p]
                                      /\ bothCommittedAt'[p] = bothCommittedAt[p]
      /\ escrows[o].state = "BUYER_COMMITTED" /\ now > escrows[o].commitmentDeadline
  BY DEF refundBuyerTimeout, IInv, TypeOK
<1>2. /\ OrderSound(escrows[o], ledger[o], bothCommittedAt[o], now)
      /\ escrows[o] \in Escrow /\ ledger[o] \in Ledger
  BY DEF IInv, TypeOK
<1>3. OrderSound(escrows'[o], ledger'[o], bothCommittedAt'[o], now)
  BY <1>1, <1>2 DEF OrderSound, Agreed, Unagreed, SellerPaid, BuyerPaid, Escrow, Ledger
<1> QED BY <1>1, <1>3, OneOrderSound

(* Time only moves forward, so what has lapsed stays lapsed.               *)
LEMMA BlockSound ==
    ASSUME IInv, TypeOK', NEW secs \in Steps, NextBlock(secs)
    PROVE  IInv'
<1>1. /\ now \in Nat /\ now' \in Nat /\ now' >= now
      /\ UNCHANGED <<escrows, ledger, bothCommittedAt>>
  BY TimeAssumption DEF NextBlock, storage, history, IInv, TypeOK
<1>2. ASSUME NEW o \in OrderIds
      PROVE  OrderSound(escrows[o], ledger[o], bothCommittedAt[o], now')
  <2>1. /\ OrderSound(escrows[o], ledger[o], bothCommittedAt[o], now)
        /\ escrows[o].createdAt \in Nat /\ escrows[o].commitmentDeadline \in Nat
    BY DEF IInv, TypeOK, Escrow
  <2> QED BY <1>1, <2>1 DEF OrderSound
<1> QED BY <1>1, <1>2 DEF IInv

(* Every step preserves the invariant.                                     *)
THEOREM IInvStep == IInv /\ [Next]_vars => IInv'
<1> SUFFICES ASSUME IInv, [Next]_vars PROVE IInv'
  OBVIOUS
<1>1. TypeOK'
  BY TypeStep DEF IInv
<1>2. ASSUME NEW secs \in Steps, NextBlock(secs) PROVE IInv'
  BY <1>1, <1>2, BlockSound
<1>3. ASSUME NEW o \in OrderIds, triggerTimedRelease(o) PROVE IInv'
  BY <1>1, <1>3, PaySellerSound DEF triggerTimedRelease
<1>4. ASSUME NEW o \in OrderIds, refundBuyerTimeout(o) PROVE IInv'
  BY <1>1, <1>4, RefundSound
<1>5. ASSUME NEW o \in OrderIds, NEW sender \in Accounts,
             \/ Create(sender, o) \/ Commit(sender, o)
             \/ sellerClaimPayment(sender, o) \/ buyerClaimCounterEscrow(sender, o)
      PROVE  IInv'
  <2>1. CASE Create(sender, o)
    BY <1>1, <2>1, CreateSound
  <2>2. CASE Commit(sender, o)
    BY <1>1, <2>2, CommitSound
  <2>3. CASE sellerClaimPayment(sender, o)
    BY <1>1, <2>3, PaySellerSound DEF sellerClaimPayment
  <2>4. CASE buyerClaimCounterEscrow(sender, o)
    BY <1>1, <2>4, BuyerClaimSound
  <2> QED BY <1>5, <2>1, <2>2, <2>3, <2>4
<1>6. CASE UNCHANGED vars
  BY <1>1, <1>6 DEF IInv, vars, storage, history
<1> QED BY <1>2, <1>3, <1>4, <1>5, <1>6 DEF Next

(* The inductive invariant holds in every reachable state.                 *)
THEOREM IInvCorrect == Spec => []IInv
<1>1. Init => IInv
  <2> SUFFICES ASSUME Init PROVE IInv
    OBVIOUS
  <2>1. TypeOK
    BY DEF Init, TypeOK, NoEscrow, NoLedger, Escrow, Ledger, EscrowState
  <2>2. ASSUME NEW o \in OrderIds
        PROVE  OrderSound(escrows[o], ledger[o], bothCommittedAt[o], now)
    BY DEF Init, OrderSound, NoEscrow, NoLedger, Agreed, Unagreed, SellerPaid, BuyerPaid
  <2> QED BY <2>1, <2>2 DEF IInv
<1> QED BY <1>1, IInvStep, PTL DEF Spec

(* Order by order, what came in is held or went out, the payment whole to  *)
(* one party, the counter-escrow whole to the buyer.                       *)
THEOREM NothingLostCorrect == Spec => []NothingLost
<1>1. ASSUME IInv PROVE NothingLost
  <2> SUFFICES ASSUME NEW o \in OrderIds
               PROVE  LET l == ledger[o] IN
                 /\ l.deposited + l.pledged
                        = Held(escrows[o]) + l.toSeller + l.refunded + l.toBuyer
                 /\ <<l.toSeller, l.refunded>> \in
                        {<<0, 0>>, <<l.deposited, 0>>, <<0, l.deposited>>}
                 /\ l.toBuyer \in {0, l.pledged}
    BY DEF NothingLost
  <2> DEFINE e == escrows[o]
             l == ledger[o]
  <2>1. /\ OrderSound(e, l, bothCommittedAt[o], now)
        /\ e.buyerAmount \in Nat /\ e.sellerAmount \in Nat
        /\ l.deposited \in Nat /\ l.pledged \in Nat
    BY <1>1 DEF IInv, TypeOK, Escrow, Ledger
  <2>2. l.deposited + l.pledged = Held(e) + l.toSeller + l.refunded + l.toBuyer
    <3>1. CASE e.state = "NONE"
      BY <2>1, <3>1 DEF OrderSound, NoEscrow, NoLedger, Held
    <3>2. CASE e.state # "NONE"
      BY <2>1, <3>2 DEF OrderSound, Held, Agreed, Unagreed, SellerPaid, BuyerPaid
    <3> QED BY <3>1, <3>2
  <2>3. <<l.toSeller, l.refunded>> \in {<<0, 0>>, <<l.deposited, 0>>, <<0, l.deposited>>}
    BY <2>1 DEF OrderSound, SellerPaid
  <2>4. l.toBuyer \in {0, l.pledged}
    BY <2>1 DEF OrderSound
  <2> QED BY <2>2, <2>3, <2>4
<1> QED BY <1>1, IInvCorrect, PTL

(* The two commitments decide where the payment can go.                    *)
THEOREM CommitmentDecidesCorrect == Spec => []CommitmentDecides
<1>1. ASSUME IInv PROVE CommitmentDecides
  BY <1>1, TimeAssumption
     DEF IInv, TypeOK, OrderSound, CommitmentDecides, Agreed, Unagreed,
         SellerPaid, BuyerPaid, Escrow, Ledger
<1> QED BY <1>1, IInvCorrect, PTL

-----------------------------------------------------------------------------
(* What the contract holds for each order.                                 *)
held == [o \in OrderIds |-> Held(escrows[o])]

(* A call on one order moves the balance by what it adds to or takes from  *)
(* what that order holds.                                                  *)
OneOrderMoves == \E o \in OrderIds :
    /\ balance' = balance + Held(escrows'[o]) - Held(escrows[o])
    /\ \A p \in OrderIds : p # o => escrows'[p] = escrows[p]

LEMMA HeldType ==
    ASSUME TypeOK
    PROVE  held \in [OrderIds -> Nat]
BY DEF TypeOK, Escrow, held, Held

LEMMA PaySellerMoves ==
    ASSUME IInv, NEW o \in OrderIds, escrows[o].state = "BOTH_COMMITTED", PaySeller(o)
    PROVE  OneOrderMoves
<1>1. /\ escrows'[o] = [escrows[o] EXCEPT !.state = "SELLER_CLAIMED"]
      /\ \A p \in OrderIds : p # o => escrows'[p] = escrows[p]
      /\ balance' = balance - escrows[o].buyerAmount
  BY DEF PaySeller, transfer, IInv, TypeOK
<1>2. /\ escrows[o] \in Escrow /\ balance \in Nat
      /\ escrows[o].buyerAmount \in Nat /\ escrows[o].sellerAmount \in Nat
  BY DEF IInv, TypeOK, Escrow
<1>3. balance' = balance + Held(escrows'[o]) - Held(escrows[o])
  BY <1>1, <1>2 DEF Held, Escrow
<1> QED BY <1>1, <1>3 DEF OneOrderMoves

(* Every step but a new block is such a call.                              *)
LEMMA BalanceMoves ==
    ASSUME IInv, [Next]_vars
    PROVE  UNCHANGED <<escrows, balance>> \/ OneOrderMoves
<1>1. ASSUME NEW secs \in Steps, NextBlock(secs) PROVE UNCHANGED <<escrows, balance>>
  BY <1>1 DEF NextBlock, storage
<1>2. ASSUME NEW o \in OrderIds, triggerTimedRelease(o) PROVE OneOrderMoves
  BY <1>2, PaySellerMoves DEF triggerTimedRelease
<1>3. ASSUME NEW o \in OrderIds, refundBuyerTimeout(o) PROVE OneOrderMoves
  <2>1. /\ escrows'[o] = [escrows[o] EXCEPT !.state = "EXPIRED"]
        /\ \A p \in OrderIds : p # o => escrows'[p] = escrows[p]
        /\ balance' = balance - escrows[o].buyerAmount
        /\ escrows[o].state = "BUYER_COMMITTED"
    BY <1>3 DEF refundBuyerTimeout, transfer, IInv, TypeOK
  <2>2. /\ escrows[o] \in Escrow /\ balance \in Nat
        /\ escrows[o].buyerAmount \in Nat /\ escrows[o].sellerAmount \in Nat
    BY DEF IInv, TypeOK, Escrow
  <2>3. balance' = balance + Held(escrows'[o]) - Held(escrows[o])
    BY <2>1, <2>2 DEF Held, Escrow
  <2> QED BY <2>1, <2>3 DEF OneOrderMoves
<1>4. ASSUME NEW o \in OrderIds, NEW sender \in Accounts, Create(sender, o)
      PROVE  OneOrderMoves
  <2>1. PICK value \in Values, seller \in Accounts \cup {ZeroAddress},
             cw \in CommitWindows, lw \in ClaimWindows, timed \in BOOLEAN, d \in Delays :
             createEscrow(value, o, NewEscrow(sender, value, seller, cw, lw, timed, d))
    BY <1>4 DEF Create
  <2> DEFINE e == NewEscrow(sender, value, seller, cw, lw, timed, d)
  <2>2. e.state = "BUYER_COMMITTED" /\ e.buyerAmount = value /\ e.sellerAmount = 0
    BY DEF NewEscrow
  <2> HIDE DEF e
  <2>3. /\ escrows'[o] = e
        /\ \A p \in OrderIds : p # o => escrows'[p] = escrows[p]
        /\ balance' = balance + value
        /\ escrows[o].state = "NONE"
    BY <2>1 DEF createEscrow, IInv, TypeOK, e
  <2>4. Held(escrows[o]) = 0
    BY <2>3 DEF IInv, OrderSound, NoEscrow, Held
  <2>5. value \in Nat /\ balance \in Nat
    BY AmountAssumption DEF IInv, TypeOK
  <2>6. Held(escrows'[o]) = value
    BY <2>2, <2>3, <2>5 DEF Held
  <2> QED BY <2>3, <2>4, <2>5, <2>6 DEF OneOrderMoves
<1>5. ASSUME NEW o \in OrderIds, NEW sender \in Accounts, Commit(sender, o)
      PROVE  OneOrderMoves
  <2>1. /\ escrows[o] \in Escrow /\ balance \in Nat
        /\ escrows[o].buyerAmount \in Nat
        /\ escrows[o].state = "BUYER_COMMITTED" /\ escrows[o].sellerAmount = 0
    BY <1>5 DEF Commit, sellerCommitEscrow, sellerCommitSignature, MayCommit,
                IInv, TypeOK, Escrow, OrderSound, Unagreed, BuyerPaid
  <2>2. PICK v \in Nat :
          /\ escrows'[o] = [escrows[o] EXCEPT !.sellerAmount = v, !.state = "BOTH_COMMITTED"]
          /\ balance' = balance + v
    <3>1. CASE sellerCommitSignature(sender, o)
      <4>1. escrows'[o] = [escrows[o] EXCEPT !.sellerAmount = 0, !.state = "BOTH_COMMITTED"]
        BY <2>1, <3>1 DEF sellerCommitSignature, IInv, TypeOK, Escrow
      <4>2. balance' = balance + 0
        BY <2>1, <3>1 DEF sellerCommitSignature
      <4> QED BY <4>1, <4>2
    <3>2. ASSUME NEW v \in Values, sellerCommitEscrow(sender, v, o)
          PROVE  /\ v \in Nat
                 /\ escrows'[o] = [escrows[o] EXCEPT !.sellerAmount = v, !.state = "BOTH_COMMITTED"]
                 /\ balance' = balance + v
      BY <3>2, AmountAssumption DEF sellerCommitEscrow, IInv, TypeOK
    <3> QED BY <1>5, <3>1, <3>2 DEF Commit
  <2>3. \A p \in OrderIds : p # o => escrows'[p] = escrows[p]
    BY <1>5 DEF Commit, sellerCommitEscrow, sellerCommitSignature, IInv, TypeOK
  <2>4. balance' = balance + Held(escrows'[o]) - Held(escrows[o])
    BY <2>1, <2>2 DEF Held, Escrow
  <2> QED BY <2>3, <2>4 DEF OneOrderMoves
<1>6. ASSUME NEW o \in OrderIds, NEW sender \in Accounts, sellerClaimPayment(sender, o)
      PROVE  OneOrderMoves
  BY <1>6, PaySellerMoves DEF sellerClaimPayment
<1>7. ASSUME NEW o \in OrderIds, NEW sender \in Accounts, buyerClaimCounterEscrow(sender, o)
      PROVE  OneOrderMoves
  <2>1. /\ escrows'[o] = [escrows[o] EXCEPT !.sellerAmount = 0,
                !.state = IF escrows[o].state = "SELLER_CLAIMED"
                          THEN "BOTH_CLAIMED" ELSE "BUYER_CLAIMED"]
        /\ \A p \in OrderIds : p # o => escrows'[p] = escrows[p]
        /\ balance' = balance - escrows[o].sellerAmount
        /\ escrows[o].state \in {"BOTH_COMMITTED", "SELLER_CLAIMED"}
    BY <1>7 DEF buyerClaimCounterEscrow, transfer, IInv, TypeOK
  <2>2. /\ escrows[o] \in Escrow /\ balance \in Nat
        /\ escrows[o].buyerAmount \in Nat /\ escrows[o].sellerAmount \in Nat
    BY DEF IInv, TypeOK, Escrow
  <2>3. balance' = balance + Held(escrows'[o]) - Held(escrows[o])
    BY <2>1, <2>2 DEF Held, Escrow
  <2> QED BY <2>1, <2>3 DEF OneOrderMoves
<1>8. CASE UNCHANGED vars
  BY <1>8 DEF vars, storage
<1> QED BY <1>1, <1>2, <1>3, <1>4, <1>5, <1>6, <1>7, <1>8 DEF Next

(* The contract's ether is exactly what its escrows say it holds, over all *)
(* orders.                                                                 *)
THEOREM SolventCorrect == Spec => []Solvent
<1>1. Init => Solvent
  <2> SUFFICES ASSUME Init PROVE Solvent
    OBVIOUS
  <2>1. held = [o \in OrderIds |-> 0]
    BY DEF Init, NoEscrow, held, Held
  <2> QED BY <2>1, SumOfZeros, OrderAssumption DEF Init, Solvent, held
<1>2. IInv /\ IInv' /\ Solvent /\ [Next]_vars => Solvent'
  <2> SUFFICES ASSUME IInv, IInv', Solvent, [Next]_vars PROVE Solvent'
    OBVIOUS
  <2>1. CASE UNCHANGED <<escrows, balance>>
    BY <2>1 DEF Solvent
  <2>2. CASE OneOrderMoves
    <3>1. PICK o \in OrderIds :
            /\ balance' = balance + Held(escrows'[o]) - Held(escrows[o])
            /\ \A p \in OrderIds : p # o => escrows'[p] = escrows[p]
      BY <2>2 DEF OneOrderMoves
    <3>2. held \in [OrderIds -> Int] /\ held' \in [OrderIds -> Int]
      <4>1. held \in [OrderIds -> Nat]
        BY HeldType DEF IInv
      <4>2. held' \in [OrderIds -> Nat]
        BY DEF IInv, TypeOK, Escrow, held, Held
      <4> QED BY <4>1, <4>2
    <3>3. /\ \A p \in OrderIds : p # o => held'[p] = held[p]
          /\ held[o] = Held(escrows[o]) /\ held'[o] = Held(escrows'[o])
      BY <3>1 DEF held, Held
    <3>4. SumFunctionOnSet(held', OrderIds)
            = SumFunctionOnSet(held, OrderIds) + held'[o] - held[o]
      BY <3>2, <3>3, SumChange, OrderAssumption
    <3>5. balance = SumFunctionOnSet(held, OrderIds)
      BY DEF Solvent, held
    <3>6. balance' = SumFunctionOnSet(held', OrderIds)
      BY <3>1, <3>3, <3>4, <3>5
    <3> QED BY <3>6 DEF Solvent, held
  <2> QED BY <2>1, <2>2, BalanceMoves
<1> QED BY <1>1, <1>2, IInvCorrect, PTL DEF Spec

(* The balance covers what any one order still holds, so that no payment,  *)
(* refund or claim of it reverts for lack of ether.                        *)
Covered == \A o \in OrderIds : Held(escrows[o]) <= balance

THEOREM CoveredCorrect == Spec => []Covered
<1>1. ASSUME IInv, Solvent PROVE Covered
  <2>1. held \in [OrderIds -> Nat]
    BY <1>1, HeldType DEF IInv
  <2>2. balance = SumFunctionOnSet(held, OrderIds)
    BY <1>1 DEF Solvent, held
  <2>3. ASSUME NEW o \in OrderIds PROVE held[o] <= balance
    BY <2>1, <2>2, SumAtLeast, OrderAssumption
  <2> QED BY <2>3 DEF Covered, held
<1> QED BY <1>1, IInvCorrect, SolventCorrect, PTL

(* While an offer is open, the seller can commit or the buyer can be       *)
(* refunded, never both and never neither: CommitXorRefund in terms of the *)
(* requires of the two functions, the balance of the transfer included.    *)
CommitOrRefund == \A o \in OrderIds :
    LET e == escrows[o] IN
    e.state = "BUYER_COMMITTED" =>
        (MayCommit(e.seller, e)
            <=> ~ (now > e.commitmentDeadline /\ e.buyerAmount <= balance))

THEOREM CommitOrRefundCorrect == Spec => []CommitOrRefund
<1>1. ASSUME IInv, Covered PROVE CommitOrRefund
  <2> SUFFICES ASSUME NEW o \in OrderIds, escrows[o].state = "BUYER_COMMITTED"
               PROVE  MayCommit(escrows[o].seller, escrows[o])
                        <=> ~ (/\ now > escrows[o].commitmentDeadline
                               /\ escrows[o].buyerAmount <= balance)
    BY DEF CommitOrRefund
  <2>1. /\ now \in Nat /\ escrows[o].commitmentDeadline \in Nat /\ balance \in Nat
        /\ escrows[o].buyerAmount \in Nat /\ escrows[o].sellerAmount \in Nat
    BY <1>1 DEF IInv, TypeOK, Escrow
  <2>2. escrows[o].buyerAmount <= balance
    BY <1>1, <2>1 DEF Covered, Held
  <2> QED BY <2>1, <2>2 DEF MayCommit
<1> QED BY <1>1, IInvCorrect, CoveredCorrect, PTL

(* As long as nothing was paid on account of an agreed order, the state    *)
(* and the ether that sellerClaimPayment and triggerTimedRelease ask for   *)
(* are there, and enough is left for the counter-escrow after it.          *)
ReleaseIsCovered == \A o \in OrderIds :
    LET e == escrows[o]
        l == ledger[o] IN
    bothCommittedAt[o] # Never /\ l.toSeller = 0 /\ l.toBuyer = 0 =>
        /\ e.state = "BOTH_COMMITTED"
        /\ e.buyerAmount = l.deposited /\ e.sellerAmount = l.pledged
        /\ l.deposited + l.pledged <= balance

(* The safety part of TimedReleasePays: once the release instant has come, *)
(* only a seller that refuses ether keeps triggerTimedRelease from paying. *)
THEOREM ReleaseIsCoveredCorrect == Spec => []ReleaseIsCovered
<1>1. ASSUME IInv, Covered PROVE ReleaseIsCovered
  <2> SUFFICES ASSUME NEW o \in OrderIds, bothCommittedAt[o] # Never,
                      ledger[o].toSeller = 0, ledger[o].toBuyer = 0
               PROVE  /\ escrows[o].state = "BOTH_COMMITTED"
                      /\ escrows[o].buyerAmount = ledger[o].deposited
                      /\ escrows[o].sellerAmount = ledger[o].pledged
                      /\ ledger[o].deposited + ledger[o].pledged <= balance
    BY DEF ReleaseIsCovered
  <2>1. /\ balance \in Nat /\ escrows[o].buyerAmount \in Nat /\ escrows[o].sellerAmount \in Nat
        /\ ledger[o].pledged \in Nat
        /\ OrderSound(escrows[o], ledger[o], bothCommittedAt[o], now)
    BY <1>1 DEF IInv, TypeOK, Escrow, Ledger
  <2>2. escrows[o].state \in Agreed
    BY <2>1 DEF OrderSound
  <2>3. /\ ledger[o].deposited = escrows[o].buyerAmount
        /\ escrows[o].buyerAmount > 0
    BY <2>1, <2>2 DEF OrderSound, Agreed
  <2>4. escrows[o].state \notin SellerPaid /\ escrows[o].state \notin BuyerPaid
    BY <2>1, <2>3 DEF OrderSound
  <2>5. escrows[o].state = "BOTH_COMMITTED" /\ escrows[o].sellerAmount = ledger[o].pledged
    BY <2>1, <2>2, <2>4 DEF OrderSound, Agreed, SellerPaid, BuyerPaid
  <2>6. escrows[o].buyerAmount + escrows[o].sellerAmount <= balance
    BY <1>1, <2>1, <2>5 DEF Covered, Held
  <2> QED BY <2>3, <2>5, <2>6
<1> QED BY <1>1, IInvCorrect, CoveredCorrect, PTL

-----------------------------------------------------------------------------
(* What the state the contract stores stands for in DualCommitEscrow.      *)
StatePhase(e) ==
    IF e.state = "NONE" THEN "absent"
    ELSE IF e.state \in Agreed THEN "agreed"
    ELSE IF e.state = "EXPIRED" THEN "withdrawn" ELSE "offered"
StatePayment(e) ==
    IF e.state = "NONE" THEN "none"
    ELSE IF e.state \in SellerPaid THEN "seller"
    ELSE IF e.state = "EXPIRED" THEN "buyer" ELSE "held"
StateCounter(e, l) ==
    IF l.pledged = 0 THEN "none" ELSE IF e.state \in BuyerPaid THEN "buyer" ELSE "held"

(* Under OrderSound the ether and the event of an order are those its      *)
(* state stands for.                                                       *)
LEMMA MappedOrder ==
    ASSUME NEW e \in Escrow, NEW l \in Ledger, NEW c \in Nat \cup {Never},
           NEW t \in Nat, OrderSound(e, l, c, t)
    PROVE  /\ PhaseOf(l, c) = StatePhase(e)
           /\ PaymentOf(l) = StatePayment(e)
           /\ CounterOf(l) = StateCounter(e, l)
<1>1. CASE e.state = "NONE"
  BY <1>1 DEF OrderSound, NoLedger, PhaseOf, PaymentOf, CounterOf, StatePhase,
              StatePayment, StateCounter
<1>2. CASE e.state # "NONE"
  <2>1. l.deposited > 0 /\ l.deposited \in Nat /\ l.pledged \in Nat
    BY <1>2 DEF OrderSound, Ledger, Escrow
  <2>2. c # Never <=> e.state \in Agreed
    BY <1>2, TimeAssumption DEF OrderSound, Agreed, Unagreed, Escrow
  <2> QED BY <1>2, <2>1, <2>2
          DEF OrderSound, PhaseOf, PaymentOf, CounterOf, Agreed, Unagreed, SellerPaid,
              BuyerPaid, StatePhase, StatePayment, StateCounter
<1> QED BY <1>1, <1>2

(* A call on one order moves the mapped variables at that order only.      *)
LEMMA MappedUpdate ==
    ASSUME NEW o \in OrderIds,
           \A p \in OrderIds : p # o => /\ ledger'[p] = ledger[p]
                                       /\ bothCommittedAt'[p] = bothCommittedAt[p]
    PROVE  /\ phase' = [phase EXCEPT ![o] = PhaseOf(ledger'[o], bothCommittedAt'[o])]
           /\ payment' = [payment EXCEPT ![o] = PaymentOf(ledger'[o])]
           /\ counter' = [counter EXCEPT ![o] = CounterOf(ledger'[o])]
           /\ phase[o] = PhaseOf(ledger[o], bothCommittedAt[o])
           /\ payment[o] = PaymentOf(ledger[o])
           /\ counter[o] = CounterOf(ledger[o])
           /\ CounterOf(ledger'[o]) = CounterOf(ledger[o]) => counter' = counter
           /\ PaymentOf(ledger'[o]) = PaymentOf(ledger[o]) => payment' = payment
           /\ PhaseOf(ledger'[o], bothCommittedAt'[o])
                = PhaseOf(ledger[o], bothCommittedAt[o]) => phase' = phase
BY DEF phase, payment, counter

(* Every step of the contract is a step of the dual-commitment escrow, or  *)
(* leaves what it shows of its orders unchanged.                           *)
THEOREM DualStep ==
    IInv /\ IInv' /\ [Next]_vars => [DualCommit!Next]_(DualCommit!vars)
<1> SUFFICES ASSUME IInv, IInv', [Next]_vars
             PROVE  DualCommit!Next \/ UNCHANGED DualCommit!vars
  OBVIOUS
<1>t. ASSUME NEW o \in OrderIds
      PROVE  /\ escrows[o] \in Escrow /\ ledger[o] \in Ledger
             /\ bothCommittedAt[o] \in Nat \cup {Never} /\ now \in Nat
             /\ OrderSound(escrows[o], ledger[o], bothCommittedAt[o], now)
             /\ escrows'[o] \in Escrow /\ ledger'[o] \in Ledger
             /\ bothCommittedAt'[o] \in Nat \cup {Never} /\ now' \in Nat
             /\ OrderSound(escrows'[o], ledger'[o], bothCommittedAt'[o], now')
  BY DEF IInv, TypeOK
<1>m. ASSUME NEW o \in OrderIds
      PROVE  /\ PhaseOf(ledger[o], bothCommittedAt[o]) = StatePhase(escrows[o])
             /\ PaymentOf(ledger[o]) = StatePayment(escrows[o])
             /\ CounterOf(ledger[o]) = StateCounter(escrows[o], ledger[o])
             /\ PhaseOf(ledger'[o], bothCommittedAt'[o]) = StatePhase(escrows'[o])
             /\ PaymentOf(ledger'[o]) = StatePayment(escrows'[o])
             /\ CounterOf(ledger'[o]) = StateCounter(escrows'[o], ledger'[o])
  <2>1. /\ PhaseOf(ledger[o], bothCommittedAt[o]) = StatePhase(escrows[o])
        /\ PaymentOf(ledger[o]) = StatePayment(escrows[o])
        /\ CounterOf(ledger[o]) = StateCounter(escrows[o], ledger[o])
    BY <1>t, MappedOrder
  <2> DEFINE e == escrows'[o]
             l == ledger'[o]
             c == bothCommittedAt'[o]
             t == now'
  <2>2. /\ e \in Escrow /\ l \in Ledger /\ c \in Nat \cup {Never} /\ t \in Nat
        /\ OrderSound(e, l, c, t)
    BY <1>t
  <2> HIDE DEF e, l, c, t
  <2>3. PhaseOf(l, c) = StatePhase(e) /\ PaymentOf(l) = StatePayment(e)
        /\ CounterOf(l) = StateCounter(e, l)
    BY <2>2, MappedOrder
  <2> QED BY <2>1, <2>3 DEF e, l, c
<1>1. ASSUME NEW secs \in Steps, NextBlock(secs) PROVE UNCHANGED DualCommit!vars
  BY <1>1 DEF NextBlock, history, DualCommit!vars, phase, payment, counter
<1>2. ASSUME NEW o \in OrderIds, NEW sender \in Accounts, Create(sender, o)
      PROVE  DualCommit!Offer(o)
  <2>1. PICK value, e : createEscrow(value, o, e) /\ e.state = "BUYER_COMMITTED"
    BY <1>2 DEF Create, NewEscrow
  <2>2. /\ escrows[o].state = "NONE" /\ escrows'[o].state = "BUYER_COMMITTED"
        /\ \A p \in OrderIds : p # o => /\ ledger'[p] = ledger[p]
                                        /\ bothCommittedAt'[p] = bothCommittedAt[p]
        /\ ledger'[o].pledged = ledger[o].pledged
    BY <2>1 DEF createEscrow, IInv, TypeOK, Ledger
  <2>3. /\ StatePhase(escrows[o]) = "absent" /\ StatePhase(escrows'[o]) = "offered"
        /\ StatePayment(escrows'[o]) = "held"
        /\ StateCounter(escrows'[o], ledger'[o]) = StateCounter(escrows[o], ledger[o])
    BY <2>2 DEF StatePhase, StatePayment, StateCounter, Agreed, SellerPaid, BuyerPaid
  <2> QED BY <1>m, <2>2, <2>3, MappedUpdate DEF DualCommit!Offer
<1>3. ASSUME NEW o \in OrderIds, NEW sender \in Accounts, Commit(sender, o)
      PROVE  DualCommit!Agree(o)
  <2>1. /\ escrows[o].state = "BUYER_COMMITTED" /\ escrows'[o].state = "BOTH_COMMITTED"
        /\ \A p \in OrderIds : p # o => /\ ledger'[p] = ledger[p]
                                        /\ bothCommittedAt'[p] = bothCommittedAt[p]
    <3>1. ASSUME NEW value \in Values, sellerCommitEscrow(sender, value, o)
          PROVE  escrows[o].state = "BUYER_COMMITTED" /\ escrows'[o].state = "BOTH_COMMITTED"
      BY <3>1 DEF sellerCommitEscrow, MayCommit, IInv, TypeOK, Escrow
    <3>2. ASSUME sellerCommitSignature(sender, o)
          PROVE  escrows[o].state = "BUYER_COMMITTED" /\ escrows'[o].state = "BOTH_COMMITTED"
      BY <3>2 DEF sellerCommitSignature, MayCommit, IInv, TypeOK, Escrow
    <3>3. \A p \in OrderIds : p # o => /\ ledger'[p] = ledger[p]
                                      /\ bothCommittedAt'[p] = bothCommittedAt[p]
      BY <1>3 DEF Commit, sellerCommitEscrow, sellerCommitSignature, IInv, TypeOK
    <3> QED BY <1>3, <3>1, <3>2, <3>3 DEF Commit
  <2>2. CounterOf(ledger[o]) = "none" /\ CounterOf(ledger'[o]) \in {"none", "held"}
    <3>1. ledger[o].pledged = 0
      BY <1>t, <2>1 DEF OrderSound, Unagreed
    <3> QED BY <1>m, <2>1, <3>1 DEF StateCounter, BuyerPaid
  <2>3. /\ PhaseOf(ledger[o], bothCommittedAt[o]) = "offered"
        /\ PhaseOf(ledger'[o], bothCommittedAt'[o]) = "agreed"
        /\ PaymentOf(ledger'[o]) = PaymentOf(ledger[o])
    BY <1>m, <2>1 DEF StatePhase, StatePayment, Agreed, SellerPaid
  <2> QED BY <2>1, <2>2, <2>3, MappedUpdate DEF DualCommit!Agree
<1>4. ASSUME NEW o \in OrderIds, escrows[o].state = "BOTH_COMMITTED", PaySeller(o)
      PROVE  DualCommit!PaySeller(o)
  <2>1. /\ escrows'[o].state = "SELLER_CLAIMED"
        /\ ledger'[o].pledged = ledger[o].pledged
        /\ \A p \in OrderIds : p # o => /\ ledger'[p] = ledger[p]
                                        /\ bothCommittedAt'[p] = bothCommittedAt[p]
    BY <1>4 DEF PaySeller, IInv, TypeOK, Escrow, Ledger
  <2>2. /\ StatePhase(escrows[o]) = "agreed" /\ StatePhase(escrows'[o]) = "agreed"
        /\ StatePayment(escrows[o]) = "held" /\ StatePayment(escrows'[o]) = "seller"
        /\ StateCounter(escrows'[o], ledger'[o]) = StateCounter(escrows[o], ledger[o])
    BY <1>4, <2>1 DEF StatePhase, StatePayment, StateCounter, Agreed, SellerPaid, BuyerPaid
  <2> QED BY <1>m, <2>1, <2>2, MappedUpdate DEF DualCommit!PaySeller
<1>5. ASSUME NEW o \in OrderIds, NEW sender \in Accounts, buyerClaimCounterEscrow(sender, o)
      PROVE  DualCommit!PayBuyer(o)
  <2>1. /\ escrows[o].state \in {"BOTH_COMMITTED", "SELLER_CLAIMED"}
        /\ escrows'[o].state = IF escrows[o].state = "SELLER_CLAIMED"
                               THEN "BOTH_CLAIMED" ELSE "BUYER_CLAIMED"
        /\ ledger'[o].pledged = ledger[o].pledged
        /\ \A p \in OrderIds : p # o => /\ ledger'[p] = ledger[p]
                                        /\ bothCommittedAt'[p] = bothCommittedAt[p]
    BY <1>5 DEF buyerClaimCounterEscrow, IInv, TypeOK, Escrow, Ledger
  <2>2. ledger'[o].pledged > 0 /\ ledger[o].pledged > 0
    BY <1>t, <2>1 DEF OrderSound, BuyerPaid
  <2>3. CounterOf(ledger[o]) = "held" /\ CounterOf(ledger'[o]) = "buyer"
    BY <1>t, <1>m, <2>1, <2>2 DEF StateCounter, BuyerPaid, Ledger
  <2>4. /\ PhaseOf(ledger[o], bothCommittedAt[o]) = "agreed"
        /\ PhaseOf(ledger'[o], bothCommittedAt'[o]) = "agreed"
        /\ PaymentOf(ledger'[o]) = PaymentOf(ledger[o])
    BY <1>m, <2>1 DEF StatePhase, StatePayment, Agreed, SellerPaid
  <2> QED BY <2>1, <2>3, <2>4, MappedUpdate DEF DualCommit!PayBuyer
<1>6. ASSUME NEW o \in OrderIds, refundBuyerTimeout(o) PROVE DualCommit!Withdraw(o)
  <2>1. /\ escrows[o].state = "BUYER_COMMITTED" /\ escrows'[o].state = "EXPIRED"
        /\ ledger'[o].pledged = ledger[o].pledged
        /\ \A p \in OrderIds : p # o => /\ ledger'[p] = ledger[p]
                                        /\ bothCommittedAt'[p] = bothCommittedAt[p]
    BY <1>6 DEF refundBuyerTimeout, IInv, TypeOK, Escrow, Ledger
  <2>2. /\ StatePhase(escrows[o]) = "offered" /\ StatePhase(escrows'[o]) = "withdrawn"
        /\ StatePayment(escrows'[o]) = "buyer"
        /\ StateCounter(escrows'[o], ledger'[o]) = StateCounter(escrows[o], ledger[o])
    BY <2>1 DEF StatePhase, StatePayment, StateCounter, Agreed, SellerPaid, BuyerPaid
  <2> QED BY <1>m, <2>1, <2>2, MappedUpdate DEF DualCommit!Withdraw
<1>7. CASE UNCHANGED vars
  BY <1>7 DEF vars, history, DualCommit!vars, phase, payment, counter
<1> QED BY <1>1, <1>2, <1>3, <1>4, <1>5, <1>6, <1>7
        DEF Next, DualCommit!Next, sellerClaimPayment, triggerTimedRelease

(* The contract implements the dual-commitment escrow, for any orders,     *)
(* parties, amounts and windows.                                           *)
THEOREM DualCommitImplemented == Spec => ImplementsDualCommit
<1>1. Init => DualCommit!Init
  BY DEF Init, DualCommit!Init, phase, payment, counter, PhaseOf, PaymentOf,
         CounterOf, NoLedger
<1> QED BY <1>1, DualStep, IInvCorrect, PTL DEF Spec, ImplementsDualCommit, DualCommit!Spec
=============================================================================
