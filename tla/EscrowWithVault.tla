--------------------------- MODULE EscrowWithVault ----------------------------
(***************************************************************************)
(* The two contracts as script/Deploy.s.sol puts them on one chain.  They  *)
(* share its blocks and nothing else: no claim mints a receipt, and        *)
(* mintReceipt asks nothing of the escrow.  Receipts are minted for the    *)
(* orders of the escrow, as test/integration/FullFlow.t.sol does.          *)
(***************************************************************************)
EXTENDS CoreProverEscrow, Sequences

CONSTANT MaxReceipts

ASSUME ReceiptAssumption == MaxReceipts \in Nat

VARIABLES receipts, nextTokenId, minted

vault == <<receipts, nextTokenId, minted>>

Vault == INSTANCE ReceiptVault

SystemInit == Init /\ Vault!Init

Mint == \E o \in OrderIds, buyer \in Accounts :
    Vault!mintReceipt(o, buyer, now) /\ UNCHANGED vars

SystemNext == (Next /\ UNCHANGED vault) \/ Mint

SystemSpec == SystemInit /\ [][SystemNext]_<<vars, vault>>

-----------------------------------------------------------------------------
(* A receipt once minted stays, whoever mints later and for whichever      *)
(* order: the tokens that answer are the announced ones, each answers what *)
(* its event said, no two events announced the same token, and a later     *)
(* token is never older.                                                   *)
ReceiptsImmutable ==
    /\ \A tokenId \in 1..MaxReceipts :
        Vault!ValidToken(tokenId) <=> \E k \in DOMAIN minted : minted[k].tokenId = tokenId
    /\ \A k \in DOMAIN minted :
        LET r == Vault!getReceipt(minted[k].tokenId) IN
        /\ r.orderId = minted[k].orderId /\ r.buyer = minted[k].buyer
        /\ r.timestamp \in 1..now
        /\ \A l \in 1..(k - 1) :
            /\ minted[l].tokenId < minted[k].tokenId
            /\ Vault!getReceipt(minted[l].tokenId).timestamp <= r.timestamp
=============================================================================
