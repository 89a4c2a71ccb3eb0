------------------------- MODULE EscrowWithVaultProofs ------------------------
(***************************************************************************)
(* That receipts are immutable, for any orders, accounts, blocks and any   *)
(* number of receipts, and that the escrow beside the vault is what it is  *)
(* alone.                                                                  *)
(***************************************************************************)
EXTENDS EscrowWithVault, CoreProverEscrowProofs, SequenceTheorems

Event == [tokenId: Nat, orderId: OrderIds, buyer: Accounts]

TypedVault ==
    /\ now \in Nat \ {0}
    /\ nextTokenId \in 1..(MaxReceipts + 1)
    /\ receipts \in [1..MaxReceipts ->
                        [orderId: OrderIds \cup {0}, buyer: Accounts \cup {0}, timestamp: Nat]]
    /\ minted \in Seq(Event)

(* The k-th event announced token k, and the tokens up to the last event   *)
(* hold what was announced, in the order of time.                          *)
Announced(k) ==
    /\ minted[k].tokenId = k
    /\ receipts[k].orderId = minted[k].orderId
    /\ receipts[k].buyer = minted[k].buyer
    /\ receipts[k].timestamp \in 1..now
    /\ \A l \in 1..(k - 1) : receipts[l].timestamp <= receipts[k].timestamp

(* The inductive invariant. *)
VaultInv ==
    /\ TypedVault
    /\ Len(minted) = nextTokenId - 1
    /\ \A k \in 1..(nextTokenId - 1) : Announced(k)

-----------------------------------------------------------------------------
(* No transaction takes the chain back in time. *)
LEMMA TimePasses == ASSUME now \in Nat \ {0}, Next PROVE now' \in Nat \ {0} /\ now <= now'
  <1>1. ASSUME NEW secs \in Steps, NextBlock(secs) PROVE now' \in Nat \ {0} /\ now <= now'
    BY <1>1, TimeAssumption DEF NextBlock
  <1>2. ASSUME NEW o \in OrderIds, triggerTimedRelease(o) \/ refundBuyerTimeout(o) PROVE now' = now
    BY <1>2 DEF triggerTimedRelease, PaySeller, refundBuyerTimeout
  <1>3. ASSUME NEW o \in OrderIds, NEW sender \in Accounts,
               \/ Create(sender, o) \/ Commit(sender, o)
               \/ sellerClaimPayment(sender, o) \/ buyerClaimCounterEscrow(sender, o)
        PROVE  now' = now
    <2>1. CASE Create(sender, o)
      BY <2>1 DEF Create, createEscrow
    <2>2. CASE Commit(sender, o)
      BY <2>2 DEF Commit, sellerCommitEscrow, sellerCommitSignature
    <2>3. CASE sellerClaimPayment(sender, o)
      BY <2>3 DEF sellerClaimPayment, PaySeller
    <2>4. CASE buyerClaimCounterEscrow(sender, o)
      BY <2>4 DEF buyerClaimCounterEscrow
    <2> QED BY <1>3, <2>1, <2>2, <2>3, <2>4
  <1> QED BY <1>1, <1>2, <1>3 DEF Next

LEMMA VaultInvInit == SystemInit => VaultInv
  <1> SUFFICES ASSUME SystemInit PROVE VaultInv
    OBVIOUS
  <1>1. /\ now = 1 /\ nextTokenId = 1 /\ minted = <<>>
        /\ receipts = [t \in 1..MaxReceipts |-> [orderId |-> 0, buyer |-> 0, timestamp |-> 0]]
    BY DEF SystemInit, Init, Vault!Init, Vault!NoReceipt, Vault!Receipt
  <1>2. TypedVault
    BY <1>1, ReceiptAssumption DEF TypedVault
  <1>3. Len(minted) = 0
    BY <1>1
  <1> QED BY <1>1, <1>2, <1>3 DEF VaultInv

(* A new receipt takes the next token and leaves the others alone. *)
LEMMA MintKeeps == ASSUME VaultInv, Mint PROVE VaultInv'
  <1> USE DEF VaultInv, TypedVault
  <1>1. PICK o \in OrderIds, buyer \in Accounts :
            Vault!mintReceipt(o, buyer, now) /\ UNCHANGED vars
    BY DEF Mint
  <1>0. PICK t : t = nextTokenId
    OBVIOUS
  <1> DEFINE new == [orderId |-> o, buyer |-> buyer, timestamp |-> now]
             event == [tokenId |-> t, orderId |-> o, buyer |-> buyer]
  <1>2. /\ t \in 1..MaxReceipts /\ nextTokenId' = t + 1 /\ now' = now
        /\ receipts' = [receipts EXCEPT ![t] = new]
        /\ minted' = Append(minted, event)
    BY <1>0, <1>1, ReceiptAssumption DEF Vault!mintReceipt, Vault!Receipt, vars
  <1>3. event \in Event
    BY <1>2 DEF Event
  <1>4. TypedVault'
    <2>1. minted' \in Seq(Event)
      BY <1>2, <1>3
    <2> QED BY <1>2, <2>1, ReceiptAssumption
  <1>5. Len(minted') = t /\ minted'[t] = event
    BY <1>0, <1>2, <1>3
  <1>6. \A k \in 1..(t - 1) : minted'[k] = minted[k] /\ receipts'[k] = receipts[k]
    BY <1>0, <1>2, <1>3
  <1>7. receipts'[t] = new
    BY <1>2
  <1>8. ASSUME NEW k \in 1..(t - 1) PROVE Announced(k)'
    <2>1. Announced(k)
      BY <1>0
    <2>2. \A l \in 1..(k - 1) : receipts'[l] = receipts[l]
      BY <1>2, <1>6
    <2> QED BY <1>2, <1>6, <1>8, <2>1, <2>2 DEF Announced
  <1>9. Announced(t)'
    <2>1. \A l \in 1..(t - 1) : receipts'[l].timestamp <= now
      <3> SUFFICES ASSUME NEW l \in 1..(t - 1) PROVE receipts'[l].timestamp <= now
        OBVIOUS
      <3>1. Announced(l) /\ receipts'[l] = receipts[l]
        BY <1>0, <1>6
      <3> QED BY <3>1 DEF Announced
    <2> QED BY <1>2, <1>5, <1>7, <2>1 DEF Announced
  <1>10. \A k \in 1..t : Announced(k)'
    BY <1>2, <1>8, <1>9
  <1> QED BY <1>2, <1>4, <1>5, <1>10

(* The escrow's calls only let time pass. *)
LEMMA EscrowKeeps == ASSUME VaultInv, Next, UNCHANGED vault PROVE VaultInv'
  <1>1. now' \in Nat \ {0} /\ now <= now'
    BY TimePasses DEF VaultInv, TypedVault
  <1> QED BY <1>1 DEF VaultInv, TypedVault, Announced, vault

(* What the inductive invariant says of getReceipt. *)
LEMMA VaultInvImmutable == VaultInv => ReceiptsImmutable
  <1> SUFFICES ASSUME VaultInv PROVE ReceiptsImmutable
    OBVIOUS
  <1>1. nextTokenId \in 1..(MaxReceipts + 1) /\ DOMAIN minted = 1..(nextTokenId - 1)
    BY DEF VaultInv, TypedVault
  <1>2. \A k \in DOMAIN minted : Announced(k)
    BY <1>1 DEF VaultInv
  <1>3. ASSUME NEW tokenId \in 1..MaxReceipts
        PROVE  Vault!ValidToken(tokenId) <=> \E k \in DOMAIN minted : minted[k].tokenId = tokenId
    <2>1. Vault!ValidToken(tokenId) <=> tokenId \in DOMAIN minted
      BY <1>1, ReceiptAssumption DEF Vault!ValidToken
    <2>2. \A k \in DOMAIN minted : minted[k].tokenId = k
      BY <1>2 DEF Announced
    <2> QED BY <2>1, <2>2
  <1>4. ASSUME NEW k \in DOMAIN minted, NEW l \in 1..(k - 1)
        PROVE  /\ minted[l].tokenId < minted[k].tokenId
               /\ receipts[minted[l].tokenId].timestamp <= receipts[minted[k].tokenId].timestamp
    BY <1>1, <1>2 DEF Announced
  <1>5. ASSUME NEW k \in DOMAIN minted
        PROVE  LET r == receipts[minted[k].tokenId] IN
               r.orderId = minted[k].orderId /\ r.buyer = minted[k].buyer /\ r.timestamp \in 1..now
    BY <1>2 DEF Announced
  <1> QED BY <1>3, <1>4, <1>5 DEF ReceiptsImmutable, Vault!getReceipt

(* Receipts are immutable beside an escrow used in any way, however many   *)
(* are minted, by whomever and for whichever orders.                       *)
THEOREM ReceiptsImmutableCorrect == SystemSpec => []ReceiptsImmutable
  <1>1. VaultInv /\ [SystemNext]_<<vars, vault>> => VaultInv'
    <2>1. VaultInv /\ UNCHANGED <<vars, vault>> => VaultInv'
      BY DEF VaultInv, TypedVault, Announced, vars, vault
    <2> QED BY <2>1, MintKeeps, EscrowKeeps DEF SystemNext
  <1> QED BY <1>1, VaultInvInit, VaultInvImmutable, PTL DEF SystemSpec

-----------------------------------------------------------------------------
(* No receipt, whenever and for whichever order it is minted, changes what *)
(* the escrow does: with the vault on its chain it implements the escrow   *)
(* alone.                                                                  *)
THEOREM EscrowUndisturbed == SystemSpec => Spec
  <1>1. SystemInit => Init
    BY DEF SystemInit
  <1>2. [SystemNext]_<<vars, vault>> => [Next]_vars
    BY DEF SystemNext, Mint
  <1> QED BY <1>1, <1>2, PTL DEF SystemSpec, Spec

(* So with both contracts on one chain, the escrow's ether is what its     *)
(* orders hold, none of it is lost, the commitments decide where it goes,  *)
(* an offer can be committed to or refunded, never both, and the payment   *)
(* of an agreed order is there until it is made.                           *)
THEOREM SystemSolvent ==
    SystemSpec => /\ []Solvent /\ []NothingLost /\ []CommitmentDecides
                  /\ []CommitOrRefund /\ []ReleaseIsCovered
  BY EscrowUndisturbed, SolventCorrect, NothingLostCorrect, CommitmentDecidesCorrect,
     CommitOrRefundCorrect, ReleaseIsCoveredCorrect, PTL

(* And it still implements the dual-commitment escrow, which knows nothing *)
(* of receipts.                                                            *)
THEOREM SystemImplementsDualCommit == SystemSpec => ImplementsDualCommit
  BY EscrowUndisturbed, DualCommitImplemented, PTL
=============================================================================
