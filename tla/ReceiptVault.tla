----------------------------- MODULE ReceiptVault ------------------------------
(***************************************************************************)
(* The on-chain store of receipts                                          *)
(* (crates/coreprover-contracts/src/ReceiptVault.sol).  Of a receipt the   *)
(* order, the buyer and the timestamp are kept; the other fields are       *)
(* arguments stored the same way and read by nobody.  The ownership check  *)
(* is a placeholder that reads the counter only.                           *)
(***************************************************************************)
EXTENDS Integers, Sequences

CONSTANT MaxReceipts   \* bound: receipts minted

VARIABLES
    receipts,     \* mapping(uint256 => Receipt), for the tokens within the bound
    nextTokenId,
    minted        \* history: the ReceiptMinted events, in order

Receipt(orderId, buyer, time) == [orderId |-> orderId, buyer |-> buyer, timestamp |-> time]

(* What the mapping holds for a token never minted. *)
NoReceipt == Receipt(0, 0, 0)

Init ==
    /\ receipts = [tokenId \in 1..MaxReceipts |-> NoReceipt]
    /\ nextTokenId = 1
    /\ minted = <<>>

(* mutant: the counter is put back by a receipt for an order that has one *)
mintReceipt_once(orderId, buyer, time) ==
    LET earlier == {t \in 1..(nextTokenId - 1) : receipts[t].orderId = orderId}
        tokenId == IF earlier = {} THEN nextTokenId ELSE CHOOSE t \in earlier : TRUE IN
    /\ tokenId <= MaxReceipts
    /\ nextTokenId' = tokenId + 1
    /\ receipts' = [receipts EXCEPT ![tokenId] = Receipt(orderId, buyer, time)]
    /\ minted' = Append(minted, [tokenId |-> tokenId, orderId |-> orderId, buyer |-> buyer])

(* External: any account may mint a receipt for any order, as often as it  *)
(* likes.                                                                  *)
mintReceipt(orderId, buyer, time) ==
    LET tokenId == nextTokenId IN
    /\ tokenId <= MaxReceipts
    /\ nextTokenId' = tokenId + 1
    /\ receipts' = [receipts EXCEPT ![tokenId] = Receipt(orderId, buyer, time)]
    /\ minted' = Append(minted, [tokenId |-> tokenId, orderId |-> orderId, buyer |-> buyer])

(* getReceipt and verifyBuyerOwnership revert for any other token.         *)
ValidToken(tokenId) == tokenId > 0 /\ tokenId < nextTokenId
getReceipt(tokenId) == receipts[tokenId]
=============================================================================
