--------------------------- MODULE MCEscrowWithVault --------------------------
(* The instances of CoreProverEscrow with a vault of a few receipts. *)
EXTENDS MCCoreProverEscrow, EscrowWithVault
=============================================================================
